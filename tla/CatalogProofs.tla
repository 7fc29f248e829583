---------------------------- MODULE CatalogProofs ----------------------------
(***************************************************************************)
(* The catalog keeps its offerings, for any number of builtin offerings,   *)
(* any capacity of the first array and any number of requests.             *)
(***************************************************************************)
EXTENDS Catalog, SequenceTheorems, WellFoundedInduction, TLAPS

(* What the arrays hold: offerings, and the zero value in free slots. *)
Offerings == {Entry(b, b) : b \in BuiltinIds} \cup {Entry(c, nameOf[c]) : c \in Creates}

Slots == Offerings \cup {NoEntry}

CatalogLabels ==
  {"idle", "scanArray", "scanLen", "scan", "blueprint", "create", "lock", "append", "remove",
   "publish", "mapWrite", "update", "done"}

(* The labels at which a request holds the mutex. *)
Critical == {"append", "remove", "publish", "mapWrite"}

Typed ==
  /\ at \in [Clients -> CatalogLabels]
  /\ heap \in Seq(Seq(Slots))
  /\ header \in [array : 1..Len(heap), len : Nat]
  /\ next \in [array : 1..Len(heap), len : Nat]
  /\ \A a \in 1..Len(heap) : Len(heap[a]) > 0
  /\ header.len <= Len(heap[header.array])
  /\ blueprints \subseteq Creates
  /\ lock \in Clients \cup {Free}
  /\ cursor \in [Clients -> [array : 1..Len(heap), len : Nat, pos : Nat \ {0}]]
  /\ found \in [Clients -> Slots]
  /\ answer \in [Clients -> {"none", "200", "201", "204", "410", "500"}]
  /\ listedAt \in [Lookups -> SUBSET (Ids \cup {""})]

(* The mutex is held where it must be, by the requests that take it. *)
Guarded ==
  \A p \in Clients :
    /\ at[p] \in Critical <=> lock = p
    /\ p \in Lookups => at[p] \in {"idle", "scanArray", "scanLen", "scan", "blueprint", "done"}
    /\ at[p] \in {"create", "append"} => p \in Creates
    /\ at[p] = "remove" => p \in Deletes
    /\ at[p] = "blueprint" => p \in Lookups

(* A creation is about to publish an array that no reader can know of. *)
Fresh(a) == a # header.array /\ \E c \in Creates : at[c] = "publish" /\ next.array = a

(* The header that is about to be stored: the list and one more entry in a *)
(* slot behind it or in a copy, or the list without its last slot.         *)
NextFits ==
  /\ \A c \in Creates : at[c] = "publish" =>
       /\ next.len = header.len + 1 /\ next.len <= Len(heap[next.array])
       /\ \A i \in 1..header.len : heap[next.array][i] = heap[header.array][i]
       /\ heap[next.array][next.len] = Entry(c, nameOf[c])
       /\ next.array # header.array => header.len = Len(heap[header.array])
  /\ \A d \in Deletes : at[d] = "publish" =>
       next.array = header.array /\ header.len > 0 /\ next.len = header.len - 1

(* The slots that are part of the list, and all of those of outgrown       *)
(* arrays, hold offerings: readers find nothing else, however old the      *)
(* array and however new the length.                                       *)
Filled ==
  /\ \A i \in 1..header.len : heap[header.array][i] \in Offerings
  /\ \A a \in 1..Len(heap) : a # header.array /\ ~Fresh(a) =>
       \A i \in 1..Len(heap[a]) : heap[a][i] \in Offerings
  /\ \A p \in Clients :
       /\ at[p] \in {"scanLen", "scan"} => ~Fresh(cursor[p].array)
       /\ at[p] = "scan" =>
            \A i \in 1..cursor[p].len :
              i <= Len(heap[cursor[p].array]) => heap[cursor[p].array][i] \in Offerings
  /\ \A d \in Deletes : at[d] \in {"lock"} \cup Critical =>
       found[d] \in Offerings /\ found[d].name = nameOf[d]

SliceInv == Typed /\ Guarded /\ NextFits /\ Filled

(* The part of the list that stays when the removal under way is done. *)
StayLen == IF \E d \in Deletes : at[d] = "publish" THEN next.len ELSE header.len

Registered(c) == at[c] \in {"mapWrite", "update"} \/ answer[c] = "201"

OnList(e) == \E k \in 1..StayLen : heap[header.array][k] = e

(* What makes NoLostOffering inductive: an offering that is not asked to   *)
(* be removed is among those that stay.                                    *)
Kept ==
  /\ \A b \in BuiltinIds : ~MayBeRemoved(b) => OnList(Entry(b, b))
  /\ \A c \in Creates : Registered(c) /\ ~MayBeRemoved(nameOf[c]) => OnList(Entry(c, nameOf[c]))

(* What makes BlueprintsMatchList inductive: a dynamic service is on the   *)
(* list once, after its request has put it there; and the blueprints are   *)
(* those of the list but for what the holder of the mutex has still to do. *)
ListedOnce ==
  /\ \A i, j \in 1..StayLen :
       heap[header.array][i] = heap[header.array][j] /\ heap[header.array][i].id \in Creates => i = j
  /\ \A i \in 1..StayLen : \A c \in Creates :
       heap[header.array][i].id = c => at[c] \in {"mapWrite", "update", "done"}

StayIds == {heap[header.array][k].id : k \in 1..StayLen}

InStep ==
  \A c \in Creates :
    c \in StayIds <=>
      \/ at[c] = "mapWrite"
      \/ c \in blueprints /\ ~\E d \in Deletes : at[d] \in {"publish", "mapWrite"} /\ found[d].id = c

(* What makes ListedIsFound inductive: the offering a lookup is after is   *)
(* in the same slot of the list and of the array that is searched, and the *)
(* search has not passed it.                                               *)
Ahead(p, k) ==
  /\ heap[header.array][k].id = Wanted[p]
  /\ at[p] \in {"scanLen", "scan"} =>
       k <= Len(heap[cursor[p].array]) /\ heap[cursor[p].array][k].id = Wanted[p]
  /\ at[p] = "scan" => cursor[p].pos <= k /\ k <= cursor[p].len

StillAhead ==
  \A p \in Lookups :
    /\ at[p] \in {"scanArray", "scanLen", "scan"} /\ Wanted[p] \in listedAt[p] =>
         \E k \in 1..StayLen : Ahead(p, k)
    /\ at[p] \in {"blueprint", "done"} /\ found[p] = NoEntry => Wanted[p] \notin listedAt[p]

-----------------------------------------------------------------------------
(* Numbers and sequences *)

LEMMA Least ==
  ASSUME NEW S \in SUBSET Nat, S # {}
  PROVE  \E m \in S : \A k \in S : m <= k
<1>. DEFINE R == OpToRel(<, Nat)
<1>1. IsWellFoundedOn(R, Nat)
  BY NatLessThanWellFounded
<1>2. \A x, y \in Nat : x < y => <<x, y>> \in R
  BY DEF OpToRel
<1>. HIDE DEF R
<1>3. PICK m \in S : \A k \in S : ~(<<k, m>> \in R)
  BY <1>1, WFMin
<1>4. \A k \in S : ~(k < m)
  BY <1>2, <1>3
<1>5. \A k \in S : m <= k
  BY <1>4
<1>. QED BY <1>5

LEMMA FunctionIsSeq ==
  ASSUME NEW S, NEW n \in Nat, NEW f \in [1..n -> S]
  PROVE  f \in Seq(S) /\ Len(f) = n
OBVIOUS

(* One array of a heap is replaced. *)
LEMMA HeapUpdate ==
  ASSUME NEW S, NEW h \in Seq(Seq(S)), NEW a \in 1..Len(h), NEW t \in Seq(S)
  PROVE  /\ [h EXCEPT ![a] = t] \in Seq(Seq(S))
         /\ Len([h EXCEPT ![a] = t]) = Len(h)
         /\ \A b \in 1..Len(h) : [h EXCEPT ![a] = t][b] = IF b = a THEN t ELSE h[b]
BY ExceptSeq

(* One array is added to a heap. *)
LEMMA HeapGrow ==
  ASSUME NEW S, NEW h \in Seq(Seq(S)), NEW t \in Seq(S)
  PROVE  /\ Append(h, t) \in Seq(Seq(S))
         /\ Len(Append(h, t)) = Len(h) + 1
         /\ \A b \in 1..Len(h) : Append(h, t)[b] = h[b]
         /\ Append(h, t)[Len(h) + 1] = t
OBVIOUS

LEMMA ArrayType ==
  ASSUME Typed, NEW a \in 1..Len(heap)
  PROVE  /\ heap[a] \in Seq(Slots) /\ Len(heap[a]) \in Nat \ {0}
         /\ DOMAIN heap[a] = 1..Len(heap[a])
         /\ \A i \in 1..Len(heap[a]) : heap[a][i] \in Slots
<1>1. heap \in Seq(Seq(Slots)) /\ Len(heap[a]) > 0
  BY DEF Typed
<1>2. heap[a] \in Seq(Slots)
  BY <1>1, ElementOfSeq
<1>3. Len(heap[a]) \in Nat /\ DOMAIN heap[a] = 1..Len(heap[a])
  BY <1>2, LenProperties
<1>4. \A i \in 1..Len(heap[a]) : heap[a][i] \in Slots
  BY <1>2, ElementOfSeq
<1>. QED BY <1>1, <1>2, <1>3, <1>4

LEMMA HeaderType ==
  ASSUME Typed
  PROVE  /\ Len(heap) \in Nat
         /\ header.array \in 1..Len(heap) /\ header.len \in Nat
         /\ next.array \in 1..Len(heap) /\ next.len \in Nat
         /\ header.len <= Len(heap[header.array])
<1>1. Len(heap) \in Nat
  BY LenProperties DEF Typed
<1>2. /\ header \in [array : 1..Len(heap), len : Nat] /\ next \in [array : 1..Len(heap), len : Nat]
      /\ header.len <= Len(heap[header.array])
  BY DEF Typed
<1>. QED BY <1>1, <1>2

LEMMA Roles ==
  /\ \A p \in Creates : p \in Clients /\ p \notin Deletes /\ p \notin Lookups
  /\ \A p \in Deletes : p \in Clients /\ p \notin Creates /\ p \notin Lookups
  /\ \A p \in Lookups : p \in Clients /\ p \notin Creates /\ p \notin Deletes
  /\ \A p \in Clients : p # Free /\ (p \in Creates \/ p \in Deletes \/ p \in Lookups)
BY RequestsDistinct DEF Clients

-----------------------------------------------------------------------------
(* What the two updates of the list do to the heap *)

LEMMA AppendEffect ==
  ASSUME Typed, NEW p \in Creates, AppendEntry(p), UNCHANGED nameOf
  PROVE  /\ heap' \in Seq(Seq(Slots)) /\ Len(heap) <= Len(heap')
         /\ \A a \in 1..Len(heap) :
              /\ Len(heap'[a]) = Len(heap[a])
              /\ \A i \in 1..Len(heap[a]) :
                   \/ heap'[a][i] = heap[a][i]
                   \/ a = header.array /\ i > header.len /\ heap'[a][i] = Entry(p, nameOf[p])
         /\ next' = [array |-> next'.array, len |-> header.len + 1]
         /\ next'.array \in 1..Len(heap') /\ next'.len <= Len(heap'[next'.array])
         /\ \A i \in 1..header.len : heap'[next'.array][i] = heap[header.array][i]
         /\ heap'[next'.array][next'.len] = Entry(p, nameOf[p])
         /\ \/ next'.array = header.array /\ Len(heap') = Len(heap)
            \/ /\ next'.array = Len(heap) + 1 /\ Len(heap') = Len(heap) + 1
               /\ header.len = Len(heap[header.array])
               /\ Len(heap'[next'.array]) > 0
<1>. DEFINE n == header.len
            array == heap[header.array]
            e == Entry(p, nameOf[p])
<1>0. /\ Len(heap) \in Nat /\ header.array \in 1..Len(heap) /\ n \in Nat /\ n <= Len(array)
      /\ array \in Seq(Slots) /\ Len(array) \in Nat \ {0} /\ heap \in Seq(Seq(Slots))
      /\ e \in Slots /\ NoEntry \in Slots
      /\ \A i \in 1..Len(array) : array[i] \in Slots
  BY HeaderType, ArrayType DEF Typed, Slots, Offerings
<1>1. CASE n < Len(array)
  <2>1. /\ heap' = [heap EXCEPT ![header.array][n + 1] = e]
        /\ next' = [array |-> header.array, len |-> n + 1]
    BY <1>1 DEF AppendEntry
  <2>. DEFINE t == [array EXCEPT ![n + 1] = e]
  <2>2. heap' = [heap EXCEPT ![header.array] = t]
    BY <2>1
  <2>3. /\ t \in Seq(Slots) /\ Len(t) = Len(array)
        /\ \A i \in 1..Len(array) : t[i] = IF i = n + 1 THEN e ELSE array[i]
    <3>1. n + 1 \in 1..Len(array)
      BY <1>0, <1>1
    <3>. QED BY <1>0, <3>1, ExceptSeq
  <2>. HIDE DEF t
  <2>4. /\ heap' \in Seq(Seq(Slots)) /\ Len(heap') = Len(heap)
        /\ \A b \in 1..Len(heap) : heap'[b] = IF b = header.array THEN t ELSE heap[b]
    BY <1>0, <2>2, <2>3, HeapUpdate
  <2>5. heap'[header.array] = t
    BY <1>0, <2>4
  <2>6. n + 1 \in 1..Len(array) /\ \A i \in 1..n : i \in 1..Len(array) /\ i # n + 1
    BY <1>0, <1>1
  <2>7. \A a \in 1..Len(heap) :
          /\ Len(heap'[a]) = Len(heap[a])
          /\ \A i \in 1..Len(heap[a]) :
               \/ heap'[a][i] = heap[a][i]
               \/ a = header.array /\ i > n /\ heap'[a][i] = e
    <3>. SUFFICES ASSUME NEW a \in 1..Len(heap)
                  PROVE  /\ Len(heap'[a]) = Len(heap[a])
                         /\ \A i \in 1..Len(heap[a]) :
                              \/ heap'[a][i] = heap[a][i]
                              \/ a = header.array /\ i > n /\ heap'[a][i] = e
      OBVIOUS
    <3>1. CASE a = header.array BY <1>0, <2>3, <2>5, <3>1
    <3>2. CASE a # header.array BY <2>4, <3>2
    <3>. QED BY <3>1, <3>2
  <2>8. /\ next'.array = header.array /\ next'.len = n + 1
        /\ next' = [array |-> next'.array, len |-> header.len + 1]
    BY <2>1
  <2>9. /\ \A i \in 1..n : heap'[next'.array][i] = array[i]
        /\ heap'[next'.array][next'.len] = e /\ next'.len <= Len(heap'[next'.array])
    BY <2>3, <2>5, <2>6, <2>8
  <2>. QED BY <1>0, <2>4, <2>7, <2>8, <2>9
<1>2. CASE ~(n < Len(array))
  <2>. DEFINE t == [i \in 1..(2 * n) |-> IF i <= n THEN array[i] ELSE IF i = n + 1 THEN e ELSE NoEntry]
  <2>1. heap' = Append(heap, t) /\ next' = [array |-> Len(heap) + 1, len |-> n + 1]
    BY <1>2 DEF AppendEntry
  <2>2. n = Len(array) /\ n > 0
    BY <1>0, <1>2
  <2>3. t \in Seq(Slots) /\ Len(t) = 2 * n
    <3>1. t \in [1..(2 * n) -> Slots]
      BY <1>0, <2>2
    <3>2. 2 * n \in Nat
      BY <1>0
    <3>. QED BY <3>1, <3>2, FunctionIsSeq
  <2>4. (\A i \in 1..n : t[i] = array[i]) /\ t[n + 1] = e
    BY <1>0, <2>2
  <2>. HIDE DEF t
  <2>5. /\ heap' \in Seq(Seq(Slots)) /\ Len(heap') = Len(heap) + 1
        /\ \A b \in 1..Len(heap) : heap'[b] = heap[b]
        /\ heap'[Len(heap) + 1] = t
    BY <1>0, <2>1, <2>3, HeapGrow
  <2>. QED BY <1>0, <2>1, <2>2, <2>3, <2>4, <2>5
<1>. QED BY <1>1, <1>2

(* The i-th entry goes and those behind it move up. *)
Shifted(i, h) ==
  /\ h \in Seq(Seq(Slots)) /\ Len(h) = Len(heap)
  /\ \A a \in 1..Len(heap) : Len(h[a]) = Len(heap[a]) /\ (a # header.array => h[a] = heap[a])
  /\ \A j \in 1..Len(heap[header.array]) :
       h[header.array][j] = heap[header.array][IF j \in i..(header.len - 1) THEN j + 1 ELSE j]

LEMMA RemoveEffect ==
  ASSUME Typed, NEW i \in 1..header.len, UNCHANGED nameOf,
         heap' = [heap EXCEPT ![header.array] =
                    [j \in DOMAIN @ |-> IF j \in i..(header.len - 1) THEN @[j + 1] ELSE @[j]]]
  PROVE  Shifted(i, heap')
<1>. DEFINE array == heap[header.array]
            t == [j \in 1..Len(array) |-> IF j \in i..(header.len - 1) THEN array[j + 1] ELSE array[j]]
<1>0. /\ Len(heap) \in Nat /\ header.array \in 1..Len(heap) /\ header.len \in Nat
      /\ header.len <= Len(array)
      /\ array \in Seq(Slots) /\ Len(array) \in Nat \ {0} /\ heap \in Seq(Seq(Slots))
      /\ DOMAIN array = 1..Len(array)
      /\ \A j \in 1..Len(array) : array[j] \in Slots
  BY HeaderType, ArrayType DEF Typed
<1>1. heap' = [heap EXCEPT ![header.array] = t]
  BY <1>0
<1>2. t \in Seq(Slots) /\ Len(t) = Len(array)
  <2>1. \A j \in 1..Len(array) : j \in i..(header.len - 1) => j + 1 \in 1..Len(array)
    BY <1>0
  <2>2. t \in [1..Len(array) -> Slots]
    BY <1>0, <2>1
  <2>. QED BY <1>0, <2>2, FunctionIsSeq
<1>3. \A j \in 1..Len(array) : t[j] = array[IF j \in i..(header.len - 1) THEN j + 1 ELSE j]
  OBVIOUS
<1>. HIDE DEF t
<1>4. /\ heap' \in Seq(Seq(Slots)) /\ Len(heap') = Len(heap)
      /\ \A b \in 1..Len(heap) : heap'[b] = IF b = header.array THEN t ELSE heap[b]
  <2>. HIDE DEF array
  <2>1. heap \in Seq(Seq(Slots)) /\ header.array \in 1..Len(heap) /\ t \in Seq(Slots)
    BY <1>0, <1>2
  <2>2. /\ [heap EXCEPT ![header.array] = t] \in Seq(Seq(Slots))
        /\ Len([heap EXCEPT ![header.array] = t]) = Len(heap)
        /\ \A b \in 1..Len(heap) :
             [heap EXCEPT ![header.array] = t][b] = IF b = header.array THEN t ELSE heap[b]
    BY <2>1, HeapUpdate
  <2>. QED BY <1>1, <2>2
<1>. QED BY <1>0, <1>2, <1>3, <1>4 DEF Shifted

-----------------------------------------------------------------------------
(* Steps that do not touch the list: searches, the blueprint, the answer   *)

QuietStep(p) ==
  \/ Start(p) \/ ReaderStep(p) \/ UpdateServiceBroker(p)

LEMMA SlotsFixed ==
  ASSUME UNCHANGED nameOf
  PROVE  Slots' = Slots /\ Offerings' = Offerings
BY DEF Slots, Offerings

LEMMA QuietFrame ==
  ASSUME Typed, Guarded, NEW p \in Clients, QuietStep(p)
  PROVE  /\ UNCHANGED <<heap, header, next, blueprints, lock>>
         /\ \A q \in Clients \ {p} :
              /\ at'[q] = at[q] /\ cursor'[q] = cursor[q]
              /\ found'[q] = found[q] /\ answer'[q] = answer[q]
         /\ \A q \in Lookups \ {p} : listedAt'[q] = listedAt[q]
         /\ at[p] \notin Critical /\ at'[p] \notin Critical
<1>. USE DEF QuietStep, ReaderStep
<1>1. UNCHANGED <<heap, header, next, blueprints, lock>>
  BY DEF Start, CopyArray, CopyLength, ScanEntry, ScanEnd, MapRace, GetKubernetesBlueprint,
     CreateDynamicService, UpdateServiceBroker, sliceVars
<1>2. \A q \in Clients \ {p} : at'[q] = at[q] /\ answer'[q] = answer[q]
  BY DEF Start, CopyArray, CopyLength, ScanEntry, ScanEnd, MapRace, GetKubernetesBlueprint,
     CreateDynamicService, UpdateServiceBroker, AfterHit, AfterMiss, Answer, Jump, Typed
<1>3. \A q \in Clients \ {p} : cursor'[q] = cursor[q] /\ found'[q] = found[q]
  BY DEF Start, CopyArray, CopyLength, ScanEntry, ScanEnd, MapRace, GetKubernetesBlueprint,
     CreateDynamicService, UpdateServiceBroker, readVars, Typed
<1>4. \A q \in Lookups \ {p} : listedAt'[q] = listedAt[q]
  BY DEF Start, CopyArray, CopyLength, ScanEntry, ScanEnd, MapRace, GetKubernetesBlueprint,
     CreateDynamicService, UpdateServiceBroker, readVars, Typed
<1>5. at[p] \notin Critical /\ at'[p] \notin Critical
  BY DEF Start, CopyArray, CopyLength, ScanEntry, ScanEnd, MapRace, GetKubernetesBlueprint,
     CreateDynamicService, UpdateServiceBroker, AfterHit, AfterMiss, Answer, Jump, Typed, Critical
<1>. QED BY <1>1, <1>2, <1>3, <1>4, <1>5

LEMMA SlotIds ==
  \A e \in Slots : e.id \in Ids \cup {""}
<1>1. \A b \in BuiltinIds : Entry(b, b).id \in Ids
  BY DEF Entry, Ids
<1>2. \A c \in Creates : Entry(c, nameOf[c]).id \in Ids
  BY DEF Entry, Ids
<1>3. NoEntry.id = ""
  BY DEF NoEntry, Entry
<1>. QED BY <1>1, <1>2, <1>3 DEF Slots, Offerings

LEMMA QuietTyped ==
  ASSUME Typed, Guarded, NEW p \in Clients, QuietStep(p), UNCHANGED nameOf
  PROVE  Typed'
<1>0. UNCHANGED <<heap, header, next, blueprints, lock>>
  BY QuietFrame
<1>1. at' \in [Clients -> CatalogLabels]
  BY DEF QuietStep, ReaderStep, Start, CopyArray, CopyLength, ScanEntry, ScanEnd, MapRace,
     GetKubernetesBlueprint, CreateDynamicService, UpdateServiceBroker, AfterHit, AfterMiss,
     Answer, Jump, Typed, CatalogLabels
<1>2. cursor' \in [Clients -> [array : 1..Len(heap), len : Nat, pos : Nat \ {0}]]
  <2>. DEFINE C == [array : 1..Len(heap), len : Nat, pos : Nat \ {0}]
  <2>0. header.array \in 1..Len(heap) /\ header.len \in Nat /\ cursor \in [Clients -> C]
    BY HeaderType DEF Typed
  <2>1. CASE cursor' = cursor BY <2>0, <2>1
  <2>2. CASE CopyArray(p)
    <3>1. [cursor[p] EXCEPT !.array = header.array] \in C
      BY <2>0
    <3>2. cursor' = [cursor EXCEPT ![p] = [cursor[p] EXCEPT !.array = header.array]]
      BY <2>2 DEF CopyArray
    <3>. QED BY <2>0, <3>1, <3>2
  <2>3. CASE CopyLength(p)
    <3>. DEFINE mid == [cursor EXCEPT ![p] = [cursor[p] EXCEPT !.len = header.len]]
    <3>1. mid \in [Clients -> C]
      <4>1. [cursor[p] EXCEPT !.len = header.len] \in C
        BY <2>0
      <4>. QED BY <2>0, <4>1
    <3>2. cursor' = [mid EXCEPT ![p] = [mid[p] EXCEPT !.pos = 1]]
      BY <2>0, <2>3 DEF CopyLength
    <3>. HIDE DEF mid
    <3>3. [mid[p] EXCEPT !.pos = 1] \in C
      BY <3>1
    <3>. QED BY <3>1, <3>2, <3>3
  <2>4. CASE cursor' = [cursor EXCEPT ![p].pos = cursor[p].pos + 1]
    <3>1. [cursor[p] EXCEPT !.pos = cursor[p].pos + 1] \in C
      BY <2>0
    <3>2. cursor' = [cursor EXCEPT ![p] = [cursor[p] EXCEPT !.pos = cursor[p].pos + 1]]
      BY <2>4
    <3>. QED BY <2>0, <3>1, <3>2
  <2>. QED BY <2>1, <2>2, <2>3, <2>4 DEF QuietStep, ReaderStep, Start, ScanEntry, ScanEnd, MapRace,
           GetKubernetesBlueprint, CreateDynamicService, UpdateServiceBroker, readVars
<1>3. found' \in [Clients -> Slots]
  <2>1. CASE found' = found BY <2>1 DEF Typed
  <2>2. CASE found' # found
    <3>1. ScanEntry(p)
      BY <2>2 DEF QuietStep, ReaderStep, Start, CopyArray, CopyLength, ScanEnd, MapRace,
         GetKubernetesBlueprint, CreateDynamicService, UpdateServiceBroker, readVars
    <3>2. /\ cursor[p].array \in 1..Len(heap) /\ cursor[p].pos \in Nat \ {0}
          /\ \A i \in 1..Len(heap[cursor[p].array]) : heap[cursor[p].array][i] \in Slots
      BY ArrayType DEF Typed
    <3>3. /\ cursor[p].pos <= Len(heap[cursor[p].array])
          /\ found' = [found EXCEPT ![p] = heap[cursor[p].array][cursor[p].pos]]
      BY <2>2, <3>1 DEF ScanEntry
    <3>4. heap[cursor[p].array][cursor[p].pos] \in Slots
      BY <3>2, <3>3, ArrayType
    <3>. QED BY <3>3, <3>4 DEF Typed
  <2>. QED BY <2>1, <2>2
<1>4. answer' \in [Clients -> {"none", "200", "201", "204", "410", "500"}]
  BY DEF QuietStep, ReaderStep, Start, CopyArray, CopyLength, ScanEntry, ScanEnd, MapRace,
     GetKubernetesBlueprint, CreateDynamicService, UpdateServiceBroker, AfterHit, AfterMiss,
     Answer, Typed
<1>5. listedAt' \in [Lookups -> SUBSET (Ids \cup {""})]
  <2>1. Staying \in SUBSET (Ids \cup {""})
    <3>1. \A i \in 1..header.len : heap[header.array][i] \in Slots
      BY HeaderType, ArrayType
    <3>. QED BY <3>1, SlotIds DEF Staying
  <2>2. listedAt' = listedAt \/ listedAt' = [listedAt EXCEPT ![p] = Staying]
    BY DEF QuietStep, ReaderStep, Start, CopyArray, CopyLength, ScanEntry, ScanEnd, MapRace,
       GetKubernetesBlueprint, CreateDynamicService, UpdateServiceBroker, readVars
  <2>. QED BY <2>1, <2>2 DEF Typed
<1>. QED BY <1>0, <1>1, <1>2, <1>3, <1>4, <1>5, SlotsFixed DEF Typed

(* The cursor of the request that takes a quiet step. *)
LEMMA QuietCursor ==
  ASSUME Typed, Guarded, NEW p \in Clients, QuietStep(p)
  PROVE  /\ at'[p] = "scanLen" => at[p] = "scanArray" /\ cursor'[p].array = header.array
         /\ at'[p] = "scan" =>
              /\ cursor'[p].array = cursor[p].array
              /\ \/ at[p] = "scanLen" /\ cursor'[p].len = header.len /\ cursor'[p].pos = 1
                 \/ at[p] = "scan" /\ cursor'[p].len = cursor[p].len
<1>. cursor[p] \in [array : 1..Len(heap), len : Nat, pos : Nat \ {0}] /\ p \in DOMAIN cursor
  BY DEF Typed
<1>1. CASE CopyArray(p) BY <1>1 DEF CopyArray, Jump, Typed
<1>2. CASE CopyLength(p) BY <1>2 DEF CopyLength, Jump, Typed
<1>3. CASE ScanEntry(p)
  <2>1. at[p] = "scan" /\ (cursor' = cursor \/ cursor' = [cursor EXCEPT ![p].pos = cursor[p].pos + 1])
    BY <1>3 DEF ScanEntry
  <2>2. cursor'[p].array = cursor[p].array /\ cursor'[p].len = cursor[p].len
    BY <2>1
  <2>3. at'[p] # "scanLen"
    BY <1>3, <2>1 DEF ScanEntry, AfterHit, Answer, Jump, Typed
  <2>. QED BY <2>1, <2>2, <2>3
<1>4. CASE at'[p] \notin {"scanLen", "scan"} BY <1>4
<1>5. CASE MapRace(p) BY <1>5 DEF MapRace
<1>. QED BY <1>1, <1>2, <1>3, <1>4, <1>5 DEF QuietStep, ReaderStep, Start, ScanEnd,
           GetKubernetesBlueprint, CreateDynamicService, UpdateServiceBroker, AfterMiss, Answer,
           Jump, Typed

LEMMA QuietInv ==
  ASSUME SliceInv, NEW p \in Clients, QuietStep(p), UNCHANGED nameOf
  PROVE  SliceInv'
<1>. Typed /\ Guarded /\ NextFits /\ Filled
  BY DEF SliceInv
<1>1. /\ UNCHANGED <<heap, header, next, blueprints, lock>>
      /\ \A q \in Clients \ {p} : /\ at'[q] = at[q] /\ cursor'[q] = cursor[q]
                                  /\ found'[q] = found[q]
      /\ at[p] \notin Critical /\ at'[p] \notin Critical
  BY QuietFrame
<1>2. \A q \in Clients : at'[q] = "publish" <=> at[q] = "publish"
  BY <1>1 DEF Critical
<1>3. \A a : Fresh(a)' <=> Fresh(a)
  BY <1>1, <1>2, Roles DEF Fresh
<1>4. Offerings' = Offerings
  BY SlotsFixed
<1>5. Guarded'
  <2>1. /\ p \in Lookups => at'[p] \in {"idle", "scanArray", "scanLen", "scan", "blueprint", "done"}
        /\ at'[p] \in {"create", "append"} => p \in Creates
        /\ at'[p] = "remove" => p \in Deletes
        /\ at'[p] = "blueprint" => p \in Lookups
    <3>0. /\ p \in Lookups => at[p] \in {"idle", "scanArray", "scanLen", "scan", "blueprint", "done"}
          /\ at[p] \in {"create", "append"} => p \in Creates
          /\ at[p] = "blueprint" => p \in Lookups
          /\ p \in Creates \/ p \in Deletes \/ p \in Lookups
          /\ p \in Creates => p \notin Lookups
          /\ p \in Deletes => p \notin Lookups
      BY Roles DEF Guarded
    <3>1. CASE ScanEntry(p) \/ ScanEnd(p)
      BY <3>0, <3>1 DEF ScanEntry, ScanEnd, AfterHit, AfterMiss, Answer, Jump, Typed
    <3>2. CASE Start(p) \/ CopyArray(p) \/ CopyLength(p)
      BY <3>0, <3>2 DEF Start, CopyArray, CopyLength, Answer, Jump, Typed
    <3>3. CASE MapRace(p) \/ GetKubernetesBlueprint(p) \/ CreateDynamicService(p)
                 \/ UpdateServiceBroker(p)
      BY <3>0, <3>3 DEF MapRace, GetKubernetesBlueprint, CreateDynamicService,
         UpdateServiceBroker, Answer, Jump, Typed
    <3>. QED BY <3>1, <3>2, <3>3 DEF QuietStep, ReaderStep
  <2>. QED BY <1>1, <2>1 DEF Guarded
<1>6. NextFits'
  BY <1>1, <1>2, Roles DEF NextFits
<1>7. Filled'
  <2>1. /\ \A i \in 1..header'.len : heap'[header'.array][i] \in Offerings'
        /\ \A a \in 1..Len(heap') : a # header'.array /\ ~Fresh(a)' =>
             \A i \in 1..Len(heap'[a]) : heap'[a][i] \in Offerings'
    BY <1>1, <1>3, <1>4 DEF Filled
  <2>2. ASSUME NEW q \in Clients
        PROVE  /\ at'[q] \in {"scanLen", "scan"} => ~Fresh(cursor[q].array)'
               /\ at'[q] = "scan" =>
                    \A i \in 1..cursor'[q].len :
                      i <= Len(heap'[cursor'[q].array]) => heap'[cursor'[q].array][i] \in Offerings'
    <3>1. CASE q # p
      BY <1>1, <1>3, <1>4, <3>1 DEF Filled
    <3>2. CASE q = p
      <4>1. ~Fresh(header.array)
        BY DEF Fresh
      <4>2. at'[p] \in {"scanLen", "scan"} => ~Fresh(cursor'[p].array)
        BY <4>1, QuietCursor DEF Filled
      <4>3. ASSUME at'[p] = "scan", at[p] = "scanLen", NEW i \in 1..header.len,
                   i <= Len(heap[cursor[p].array])
            PROVE  heap[cursor[p].array][i] \in Offerings
        <5>1. cursor[p].array \in 1..Len(heap) /\ Len(heap[cursor[p].array]) \in Nat
              /\ header.len \in Nat
          BY ArrayType, HeaderType DEF Typed
        <5>2. ~Fresh(cursor[p].array)
          BY <4>3 DEF Filled
        <5>. QED BY <4>3, <5>1, <5>2 DEF Filled
      <4>. QED BY <1>1, <1>3, <1>4, <3>2, <4>2, <4>3, QuietCursor DEF Filled
    <3>. QED BY <3>1, <3>2
  <2>3. ASSUME NEW d \in Deletes, at'[d] \in {"lock"} \cup Critical
        PROVE  found'[d] \in Offerings' /\ found'[d].name = nameOf'[d]
    <3>1. CASE d # p
      BY <1>1, <1>4, <2>3, <3>1, Roles DEF Filled
    <3>2. CASE d = p
      <4>0. at'[p] = "lock" /\ at[p] # "lock" /\ p \in Deletes /\ p \notin Creates /\ at[p] # "create"
        <5>1. at[p] # "lock"
          BY DEF QuietStep, ReaderStep, Start, CopyArray, CopyLength, ScanEntry, ScanEnd, MapRace,
             GetKubernetesBlueprint, CreateDynamicService, UpdateServiceBroker
        <5>. QED BY <1>1, <2>3, <3>2, <5>1, Roles DEF Guarded
      <4>1. ScanEntry(p) /\ at'[p] = "lock"
        BY <4>0 DEF QuietStep, ReaderStep, Start, CopyArray, CopyLength, ScanEnd, MapRace,
           GetKubernetesBlueprint, CreateDynamicService, UpdateServiceBroker, AfterMiss,
           Answer, Jump, Typed
      <4>2. PICK i : /\ i = cursor[p].pos /\ i <= cursor[p].len
                     /\ i <= Len(heap[cursor[p].array])
                     /\ Matches(p, heap[cursor[p].array][i])
                     /\ found' = [found EXCEPT ![p] = heap[cursor[p].array][i]]
        BY <4>1 DEF ScanEntry
      <4>3. i \in 1..cursor[p].len
        <5>1. cursor[p].pos \in Nat \ {0} /\ cursor[p].len \in Nat
          BY DEF Typed
        <5>. QED BY <4>2, <5>1
      <4>4. heap[cursor[p].array][i] \in Offerings
        BY <4>1, <4>2, <4>3 DEF Filled, ScanEntry
      <4>5. heap[cursor[p].array][i].name = nameOf[p]
        BY <3>2, <4>2, Roles DEF Matches
      <4>. QED BY <1>4, <3>2, <4>2, <4>4, <4>5 DEF Typed
    <3>. QED BY <3>1, <3>2
  <2>. QED BY <2>1, <2>2, <2>3 DEF Filled
<1>. QED BY <1>5, <1>6, <1>7, QuietTyped DEF SliceInv

-----------------------------------------------------------------------------
(* Steps of the holder of the mutex *)

(* The mutex excludes: whoever is at a critical label is alone there. *)
LEMMA Alone ==
  ASSUME Guarded, NEW p \in Clients, at[p] \in Critical
  PROVE  \A q \in Clients \ {p} : at[q] \notin Critical
BY DEF Guarded

LEMMA LockInv ==
  ASSUME SliceInv, NEW p \in Clients, Lock(p), UNCHANGED nameOf
  PROVE  SliceInv'
<1>. Typed /\ Guarded /\ NextFits /\ Filled
  BY DEF SliceInv
<1>1. /\ UNCHANGED <<heap, header, next, blueprints, cursor, found, listedAt, answer>>
      /\ lock = Free /\ lock' = p /\ at[p] = "lock"
      /\ at' = [at EXCEPT ![p] = IF p \in Creates THEN "append" ELSE "remove"]
  BY DEF Lock, sliceVars, readVars, Jump
<1>2. \A q \in Clients : at[q] \notin Critical
  BY <1>1, Roles DEF Guarded
<1>3. at' \in [Clients -> CatalogLabels]
  BY <1>1 DEF Typed, CatalogLabels
<1>4. Typed'
  BY <1>1, <1>3, SlotsFixed DEF Typed
<1>5. \A q \in Clients \ {p} : at'[q] = at[q]
  BY <1>1 DEF Typed
<1>6. at'[p] = IF p \in Creates THEN "append" ELSE "remove"
  BY <1>1 DEF Typed
<1>7. p \in Creates \/ p \in Deletes
  BY <1>1, Roles DEF Guarded
<1>8. Guarded'
  BY <1>1, <1>2, <1>5, <1>6, <1>7, Roles DEF Guarded, Critical
<1>9. \A q \in Clients : at'[q] # "publish" /\ at[q] # "publish"
  BY <1>2, <1>5, <1>6 DEF Critical
<1>10. NextFits'
  BY <1>9, Roles DEF NextFits
<1>11. Filled'
  BY <1>1, <1>5, <1>6, <1>9, SlotsFixed, Roles DEF Filled, Fresh
<1>. QED BY <1>4, <1>8, <1>10, <1>11 DEF SliceInv

LEMMA PublishInv ==
  ASSUME SliceInv, NEW p \in Clients, Publish(p), UNCHANGED nameOf
  PROVE  SliceInv'
<1>. Typed /\ Guarded /\ NextFits /\ Filled
  BY DEF SliceInv
<1>1. /\ UNCHANGED <<heap, next, blueprints, lock, cursor, found, listedAt, answer>>
      /\ at[p] = "publish" /\ header' = next
      /\ at' = [at EXCEPT ![p] = "mapWrite"]
  BY DEF Publish, readVars, Jump
<1>2. \A q \in Clients \ {p} : at[q] \notin Critical /\ at'[q] = at[q]
  BY <1>1, Alone DEF Critical, Typed
<1>3. at'[p] = "mapWrite" /\ at' \in [Clients -> CatalogLabels]
  BY <1>1 DEF Typed, CatalogLabels
<1>4. p \in Creates \/ p \in Deletes
  BY <1>1, Roles DEF Guarded
<1>5. next.len <= Len(heap[next.array])
  <2>1. CASE p \in Creates BY <1>1, <2>1 DEF NextFits
  <2>2. CASE p \in Deletes
    <3>1. next.array = header.array /\ next.len = header.len - 1
      BY <1>1, <2>2 DEF NextFits
    <3>. QED BY <3>1, HeaderType, ArrayType
  <2>. QED BY <1>4, <2>1, <2>2
<1>6. Typed'
  BY <1>1, <1>3, <1>5, SlotsFixed DEF Typed
<1>7. Guarded'
  BY <1>1, <1>2, <1>3, <1>4, Roles DEF Guarded, Critical
<1>8. \A q \in Clients : at'[q] # "publish"
  BY <1>2, <1>3 DEF Critical
<1>9. NextFits'
  BY <1>8, Roles DEF NextFits
<1>10. \A i \in 1..next.len : heap[next.array][i] \in Offerings
  <2>0. header.len \in Nat
    BY HeaderType
  <2>1. CASE p \in Creates
    <3>1. /\ next.len = header.len + 1 /\ heap[next.array][next.len] = Entry(p, nameOf[p])
          /\ \A i \in 1..header.len : heap[next.array][i] = heap[header.array][i]
      BY <1>1, <2>1 DEF NextFits
    <3>2. Entry(p, nameOf[p]) \in Offerings
      BY <2>1 DEF Offerings
    <3>. QED BY <2>0, <3>1, <3>2 DEF Filled
  <2>2. CASE p \in Deletes
    BY <1>1, <2>0, <2>2 DEF NextFits, Filled
  <2>. QED BY <1>4, <2>1, <2>2
<1>11. ASSUME NEW a \in 1..Len(heap), a # next.array
       PROVE  \A i \in 1..Len(heap[a]) : heap[a][i] \in Offerings
  <2>1. CASE a = header.array
    <3>1. p \in Creates /\ header.len = Len(heap[header.array])
      BY <1>1, <1>4, <1>11, <2>1 DEF NextFits
    <3>. QED BY <2>1, <3>1 DEF Filled
  <2>2. CASE a # header.array
    <3>1. ~Fresh(a)
      BY <1>11 DEF Fresh
    <3>. QED BY <2>2, <3>1 DEF Filled
  <2>. QED BY <2>1, <2>2
<1>12. ASSUME NEW q \in Clients, at'[q] = "scan", NEW i \in 1..cursor[q].len,
              i <= Len(heap[cursor[q].array])
       PROVE  heap[cursor[q].array][i] \in Offerings
  BY <1>2, <1>3, <1>12 DEF Filled
<1>13. Filled'
  BY <1>1, <1>2, <1>3, <1>8, <1>10, <1>11, <1>12, SlotsFixed, Roles DEF Filled, Fresh, Critical
<1>. QED BY <1>6, <1>7, <1>9, <1>13 DEF SliceInv

LEMMA WriteInv ==
  ASSUME SliceInv, NEW p \in Clients, WriteBlueprint(p), UNCHANGED nameOf
  PROVE  SliceInv'
<1>. Typed /\ Guarded /\ NextFits /\ Filled
  BY DEF SliceInv
<1>1. /\ UNCHANGED <<heap, header, next, cursor, found, listedAt, answer>>
      /\ at[p] = "mapWrite" /\ lock' = Free /\ at' = [at EXCEPT ![p] = "update"]
      /\ blueprints' = IF p \in Creates THEN blueprints \cup {p} ELSE blueprints \ {found[p].id}
  BY DEF WriteBlueprint, sliceVars, readVars, Jump
<1>2. \A q \in Clients \ {p} : at[q] \notin Critical /\ at'[q] = at[q]
  BY <1>1, Alone DEF Critical, Typed
<1>3. at'[p] = "update" /\ at' \in [Clients -> CatalogLabels] /\ blueprints' \subseteq Creates
  BY <1>1 DEF Typed, CatalogLabels
<1>4. Typed'
  BY <1>1, <1>3, SlotsFixed DEF Typed
<1>5. Guarded'
  BY <1>1, <1>2, <1>3, Roles DEF Guarded, Critical
<1>6. \A q \in Clients : at'[q] # "publish" /\ at[q] # "publish"
  BY <1>1, <1>2, <1>3 DEF Critical
<1>7. NextFits'
  BY <1>6, Roles DEF NextFits
<1>8. Filled'
  BY <1>1, <1>2, <1>3, <1>6, SlotsFixed, Roles DEF Filled, Fresh, Critical
<1>. QED BY <1>4, <1>5, <1>7, <1>8 DEF SliceInv

LEMMA AppendInv ==
  ASSUME SliceInv, NEW p \in Clients, AppendEntry(p), UNCHANGED nameOf
  PROVE  SliceInv'
<1>. Typed /\ Guarded /\ NextFits /\ Filled
  BY DEF SliceInv
<1>1. /\ UNCHANGED <<header, blueprints, lock, cursor, found, listedAt, answer>>
      /\ at[p] = "append" /\ at' = [at EXCEPT ![p] = "publish"]
  BY DEF AppendEntry, readVars, Jump
<1>2. \A q \in Clients \ {p} : at[q] \notin Critical /\ at'[q] = at[q]
  BY <1>1, Alone DEF Critical, Typed
<1>3. at'[p] = "publish" /\ at' \in [Clients -> CatalogLabels]
  BY <1>1 DEF Typed, CatalogLabels
<1>4. p \in Creates
  BY <1>1 DEF Guarded
<1>5. /\ heap' \in Seq(Seq(Slots)) /\ Len(heap) <= Len(heap')
      /\ \A a \in 1..Len(heap) :
           /\ Len(heap'[a]) = Len(heap[a])
           /\ \A i \in 1..Len(heap[a]) :
                \/ heap'[a][i] = heap[a][i]
                \/ a = header.array /\ i > header.len /\ heap'[a][i] = Entry(p, nameOf[p])
      /\ next' = [array |-> next'.array, len |-> header.len + 1]
      /\ next'.array \in 1..Len(heap') /\ next'.len <= Len(heap'[next'.array])
      /\ \A i \in 1..header.len : heap'[next'.array][i] = heap[header.array][i]
      /\ heap'[next'.array][next'.len] = Entry(p, nameOf[p])
      /\ \/ next'.array = header.array /\ Len(heap') = Len(heap)
         \/ /\ next'.array = Len(heap) + 1 /\ Len(heap') = Len(heap) + 1
            /\ header.len = Len(heap[header.array])
            /\ Len(heap'[next'.array]) > 0
  BY <1>4, AppendEffect
<1>6. /\ Len(heap) \in Nat /\ Len(heap') \in Nat /\ header.array \in 1..Len(heap)
      /\ header.len \in Nat /\ header.len <= Len(heap[header.array])
      /\ Len(heap[header.array]) \in Nat
      /\ \A q \in Clients : /\ cursor[q].array \in 1..Len(heap)
                            /\ cursor[q].len \in Nat
                            /\ Len(heap[cursor[q].array]) \in Nat
  <2>1. \A q \in Clients : cursor[q].array \in 1..Len(heap) /\ cursor[q].len \in Nat
    BY DEF Typed
  <2>2. Len(heap') \in Nat
    BY <1>5, LenProperties
  <2>. QED BY <2>1, <2>2, HeaderType, ArrayType
<1>7. \A i \in 1..header.len : heap'[header.array][i] = heap[header.array][i]
  <2>1. \A i \in 1..Len(heap[header.array]) :
          heap'[header.array][i] = heap[header.array][i] \/ i > header.len
    BY <1>5, <1>6
  <2>2. \A i \in 1..header.len : i \in 1..Len(heap[header.array]) /\ ~(i > header.len)
    BY <1>6
  <2>. QED BY <2>1, <2>2
<1>8. Typed'
  <2>0. 1..Len(heap) \subseteq 1..Len(heap')
    BY <1>5, <1>6
  <2>1. next' \in [array : 1..Len(heap'), len : Nat]
    BY <1>5, <1>6
  <2>2. header' \in [array : 1..Len(heap'), len : Nat]
    <3>1. header \in [array : 1..Len(heap), len : Nat]
      BY DEF Typed
    <3>. QED BY <1>1, <2>0, <3>1
  <2>3. \A a \in 1..Len(heap') : Len(heap'[a]) > 0
    <3>1. \A a \in 1..Len(heap) : Len(heap'[a]) > 0
      BY <1>5 DEF Typed
    <3>2. \A a \in 1..Len(heap') :
            a \in 1..Len(heap) \/ (a = next'.array /\ Len(heap'[next'.array]) > 0)
      BY <1>5, <1>6
    <3>. QED BY <3>1, <3>2
  <2>4. header'.len <= Len(heap'[header'.array])
    BY <1>1, <1>5, <1>6
  <2>5. cursor' \in [Clients -> [array : 1..Len(heap'), len : Nat, pos : Nat \ {0}]]
    <3>2. [array : 1..Len(heap), len : Nat, pos : Nat \ {0}]
            \subseteq [array : 1..Len(heap'), len : Nat, pos : Nat \ {0}]
      BY <2>0
    <3>. QED BY <1>1, <3>2 DEF Typed
  <2>. QED BY <1>1, <1>3, <1>5, <2>1, <2>2, <2>3, <2>4, <2>5, SlotsFixed DEF Typed
<1>9. Guarded'
  BY <1>1, <1>2, <1>3, <1>4, Roles DEF Guarded, Critical
<1>10. \A q \in Clients : at[q] # "publish" /\ (at'[q] = "publish" <=> q = p)
  BY <1>1, <1>2, <1>3 DEF Critical
<1>11. NextFits'
  <2>1. next'.len = header.len + 1
    BY <1>5
  <2>. QED BY <1>1, <1>4, <1>5, <1>6, <1>7, <1>10, <2>1, Roles DEF NextFits
<1>12. \A a \in 1..Len(heap) : ~Fresh(a) /\ ~Fresh(a)'
  BY <1>1, <1>5, <1>6, <1>10, Roles DEF Fresh
<1>13. \A a \in 1..Len(heap') : ~Fresh(a)' => a \in 1..Len(heap)
  BY <1>1, <1>3, <1>4, <1>5, <1>6 DEF Fresh
<1>14. Entry(p, nameOf[p]) \in Offerings
  BY <1>4 DEF Offerings
<1>15. ASSUME NEW q \in Clients, at'[q] = "scan", NEW i \in 1..cursor[q].len,
              i <= Len(heap'[cursor[q].array])
       PROVE  heap'[cursor[q].array][i] \in Offerings
  <2>1. at[q] = "scan"
    BY <1>2, <1>3, <1>15
  <2>2. i \in 1..Len(heap[cursor[q].array])
    BY <1>5, <1>6, <1>15
  <2>3. heap[cursor[q].array][i] \in Offerings
    BY <2>1, <2>2, <1>6 DEF Filled
  <2>. QED BY <1>5, <1>6, <1>14, <2>2, <2>3
<1>16. Filled'
  <2>1. \A i \in 1..header'.len : heap'[header'.array][i] \in Offerings'
    BY <1>1, <1>7, SlotsFixed DEF Filled
  <2>2. ASSUME NEW a \in 1..Len(heap'), a # header'.array, ~Fresh(a)'
        PROVE  \A i \in 1..Len(heap'[a]) : heap'[a][i] \in Offerings'
    <3>1. a \in 1..Len(heap) /\ ~Fresh(a) /\ a # header.array
      BY <1>1, <1>12, <1>13, <2>2
    <3>2. \A i \in 1..Len(heap[a]) : heap[a][i] \in Offerings
      BY <3>1 DEF Filled
    <3>. QED BY <1>5, <3>1, <3>2, SlotsFixed
  <2>3. \A q \in Clients : ~Fresh(cursor[q].array)'
    BY <1>1, <1>5, <1>6, <1>12, Roles DEF Fresh
  <2>4. \A d \in Deletes : at'[d] \in {"lock"} \cup Critical =>
          found'[d] \in Offerings' /\ found'[d].name = nameOf'[d]
    BY <1>1, <1>2, <1>4, Roles, SlotsFixed DEF Filled
  <2>5. \A q \in Clients : at'[q] = "scan" =>
            \A i \in 1..cursor'[q].len :
              i <= Len(heap'[cursor'[q].array]) => heap'[cursor'[q].array][i] \in Offerings'
    BY <1>1, <1>15, SlotsFixed
  <2>. QED BY <2>1, <2>2, <2>3, <2>4, <2>5 DEF Filled
<1>. QED BY <1>8, <1>9, <1>11, <1>16 DEF SliceInv

(* A removal either finds an entry to take off, which leads to a shifted   *)
(* list, or leaves the list alone.                                         *)
LEMMA RemoveCases ==
  ASSUME Typed, Guarded, NEW p \in Clients, RemoveEntry(p), UNCHANGED nameOf
  PROVE  /\ p \in Deletes /\ at[p] = "remove"
         /\ UNCHANGED <<header, blueprints, lock, cursor, found, answer>>
         /\ \A q \in Clients \ {p} : at[q] \notin Critical /\ at'[q] = at[q]
         /\ \/ \E i \in 1..header.len :
                 /\ FirstNamed(p, i) /\ Shifted(i, heap')
                 /\ next' = [array |-> header.array, len |-> header.len - 1]
                 /\ listedAt' = [l \in Lookups |-> listedAt[l] \ ListedFrom(i)]
                 /\ at' = [at EXCEPT ![p] = "publish"] /\ at'[p] = "publish"
            \/ /\ \A i \in 1..header.len : ~FirstNamed(p, i)
               /\ UNCHANGED <<heap, next, listedAt>>
               /\ at' = [at EXCEPT ![p] = "mapWrite"] /\ at'[p] = "mapWrite"
<1>1. /\ at[p] = "remove" /\ p \in Deletes /\ at \in [Clients -> CatalogLabels]
      /\ header \in [array : 1..Len(heap), len : Nat]
      /\ UNCHANGED <<header, blueprints, lock, cursor, found, answer>>
  BY DEF RemoveEntry, Guarded, Typed
<1>2. \A q \in Clients \ {p} : at[q] \notin Critical
  BY <1>1, Alone DEF Critical
<1>3. CASE \E i \in 1..header.len :
             /\ FirstNamed(p, i)
             /\ heap' = [heap EXCEPT ![header.array] =
                           [j \in DOMAIN @ |-> IF j \in i..(header.len - 1) THEN @[j + 1] ELSE @[j]]]
             /\ next' = [header EXCEPT !.len = @ - 1]
             /\ listedAt' = [l \in Lookups |-> listedAt[l] \ ListedFrom(i)]
             /\ Jump(p, "publish")
  <2>1. PICK i \in 1..header.len :
             /\ FirstNamed(p, i)
             /\ heap' = [heap EXCEPT ![header.array] =
                           [j \in DOMAIN @ |-> IF j \in i..(header.len - 1) THEN @[j + 1] ELSE @[j]]]
             /\ next' = [header EXCEPT !.len = @ - 1]
             /\ listedAt' = [l \in Lookups |-> listedAt[l] \ ListedFrom(i)]
             /\ Jump(p, "publish")
    BY <1>3
  <2>2. Shifted(i, heap')
    BY <2>1, RemoveEffect
  <2>3. next' = [array |-> header.array, len |-> header.len - 1]
    BY <1>1, <2>1
  <2>4. at' = [at EXCEPT ![p] = "publish"] /\ at'[p] = "publish" /\ \A q \in Clients \ {p} : at'[q] = at[q]
    BY <1>1, <2>1 DEF Jump
  <2>. QED BY <1>1, <1>2, <2>1, <2>2, <2>3, <2>4
<1>4. CASE /\ \A i \in 1..header.len : ~FirstNamed(p, i)
           /\ Jump(p, "mapWrite")
           /\ UNCHANGED <<heap, next, listedAt>>
  <2>1. at' = [at EXCEPT ![p] = "mapWrite"] /\ at'[p] = "mapWrite" /\ \A q \in Clients \ {p} : at'[q] = at[q]
    BY <1>1, <1>4 DEF Jump
  <2>. QED BY <1>1, <1>2, <1>4, <2>1
<1>. QED BY <1>3, <1>4 DEF RemoveEntry

LEMMA RemoveInv ==
  ASSUME SliceInv, NEW p \in Clients, RemoveEntry(p), UNCHANGED nameOf
  PROVE  SliceInv'
<1>. Typed /\ Guarded /\ NextFits /\ Filled
  BY DEF SliceInv
<1>1. /\ p \in Deletes /\ at[p] = "remove"
      /\ UNCHANGED <<header, blueprints, lock, cursor, found, answer>>
      /\ \A q \in Clients \ {p} : at[q] \notin Critical /\ at'[q] = at[q]
  BY RemoveCases
<1>2. \A a : ~Fresh(a) /\ ~Fresh(a)'
  BY <1>1, Roles DEF Fresh, Critical
<1>3. ASSUME at'[p] \in {"publish", "mapWrite"} PROVE Guarded'
  BY <1>1, <1>3, Roles DEF Guarded, Critical
<1>4. \A d \in Deletes : at'[d] \in {"lock"} \cup Critical =>
          found'[d] \in Offerings' /\ found'[d].name = nameOf'[d]
  BY <1>1, Roles, SlotsFixed DEF Filled, Critical
<1>5. CASE \E i \in 1..header.len :
             /\ FirstNamed(p, i) /\ Shifted(i, heap')
             /\ next' = [array |-> header.array, len |-> header.len - 1]
             /\ listedAt' = [l \in Lookups |-> listedAt[l] \ ListedFrom(i)]
             /\ at' = [at EXCEPT ![p] = "publish"] /\ at'[p] = "publish"
  <2>1. PICK i \in 1..header.len :
             /\ FirstNamed(p, i) /\ Shifted(i, heap')
             /\ next' = [array |-> header.array, len |-> header.len - 1]
             /\ listedAt' = [l \in Lookups |-> listedAt[l] \ ListedFrom(i)]
             /\ at' = [at EXCEPT ![p] = "publish"] /\ at'[p] = "publish"
    BY <1>5
  <2>2. /\ Len(heap) \in Nat /\ header.array \in 1..Len(heap)
        /\ header.len \in Nat /\ header.len <= Len(heap[header.array])
        /\ Len(heap[header.array]) \in Nat
    BY HeaderType, ArrayType
  <2>3. /\ heap' \in Seq(Seq(Slots)) /\ Len(heap') = Len(heap)
        /\ \A a \in 1..Len(heap) : Len(heap'[a]) = Len(heap[a]) /\ (a # header.array => heap'[a] = heap[a])
        /\ \A j \in 1..Len(heap[header.array]) :
             heap'[header.array][j] = heap[header.array][IF j \in i..(header.len - 1) THEN j + 1 ELSE j]
    BY <2>1 DEF Shifted
  <2>4. Typed'
    <3>1. at' \in [Clients -> CatalogLabels]
      BY <2>1 DEF Typed, CatalogLabels
    <3>2. next' \in [array : 1..Len(heap'), len : Nat]
      BY <2>1, <2>2, <2>3
    <3>3. header' \in [array : 1..Len(heap'), len : Nat]
      BY <1>1, <2>3 DEF Typed
    <3>4. listedAt' \in [Lookups -> SUBSET (Ids \cup {""})]
      BY <2>1 DEF Typed
    <3>5. /\ \A a \in 1..Len(heap') : Len(heap'[a]) > 0
          /\ header'.len <= Len(heap'[header'.array])
      BY <1>1, <2>2, <2>3 DEF Typed
    <3>. QED BY <1>1, <2>3, <3>1, <3>2, <3>3, <3>4, <3>5, SlotsFixed DEF Typed
  <2>5. NextFits'
    <3>1. \A c \in Creates : at'[c] # "publish"
      BY <1>1, Roles DEF Critical
    <3>2. next'.array = header.array /\ next'.len = header.len - 1 /\ header.len > 0
      BY <2>1, <2>2
    <3>. QED BY <1>1, <3>1, <3>2 DEF NextFits
  <2>6. \A j \in 1..Len(heap[header.array]) :
          heap[header.array][j] \in Offerings => heap'[header.array][j] \in Offerings
    <3>1. \A j \in i..(header.len - 1) : j + 1 \in 1..header.len
      BY <2>2
    <3>. QED BY <2>3, <3>1 DEF Filled
  <2>7. \A j \in 1..header.len : heap'[header.array][j] \in Offerings
    BY <2>2, <2>6 DEF Filled
  <2>8. ASSUME NEW q \in Clients, at'[q] = "scan", NEW j \in 1..cursor[q].len,
               j <= Len(heap'[cursor[q].array])
        PROVE  heap'[cursor[q].array][j] \in Offerings
    <3>1. at[q] = "scan" /\ cursor[q].array \in 1..Len(heap) /\ cursor[q].len \in Nat
      BY <1>1, <2>1, <2>8 DEF Typed
    <3>2. Len(heap[cursor[q].array]) \in Nat
      BY <3>1, ArrayType
    <3>3. j \in 1..Len(heap[cursor[q].array])
      BY <2>3, <2>8, <3>1, <3>2
    <3>4. heap[cursor[q].array][j] \in Offerings
      BY <3>1, <3>2, <3>3 DEF Filled
    <3>. QED BY <2>3, <2>6, <3>1, <3>3, <3>4
  <2>9. \A a \in 1..Len(heap) : a # header.array =>
             \A j \in 1..Len(heap'[a]) : heap'[a][j] \in Offerings
    BY <1>2, <2>3 DEF Filled
  <2>10. Filled'
    BY <1>1, <1>2, <1>4, <2>3, <2>7, <2>8, <2>9, SlotsFixed DEF Filled
  <2>. QED BY <1>3, <2>1, <2>4, <2>5, <2>10 DEF SliceInv
<1>6. CASE /\ UNCHANGED <<heap, next, listedAt>>
           /\ at' = [at EXCEPT ![p] = "mapWrite"] /\ at'[p] = "mapWrite"
  <2>1. at' \in [Clients -> CatalogLabels]
    BY <1>6 DEF Typed, CatalogLabels
  <2>2. Typed'
    BY <1>1, <1>6, <2>1, SlotsFixed DEF Typed
  <2>3. NextFits'
    BY <1>1, <1>6, Roles DEF NextFits, Critical
  <2>4. Filled'
    BY <1>1, <1>2, <1>4, <1>6, SlotsFixed, Roles DEF Filled
  <2>. QED BY <1>3, <1>6, <2>2, <2>3, <2>4 DEF SliceInv
<1>. QED BY <1>5, <1>6, RemoveCases

-----------------------------------------------------------------------------
LEMMA NextCases ==
  ASSUME Next
  PROVE  /\ UNCHANGED nameOf
         /\ \E p \in Clients :
              \/ QuietStep(p) \/ Lock(p) \/ AppendEntry(p) \/ RemoveEntry(p)
              \/ Publish(p) \/ WriteBlueprint(p)
BY DEF Next, Arrive, Step, WriterStep, QuietStep

LEMMA SliceStep ==
  ASSUME SliceInv, [Next]_catalogVars
  PROVE  SliceInv'
<1>1. CASE UNCHANGED catalogVars
  <2>1. UNCHANGED <<nameOf, at, heap, header, next, blueprints, lock, cursor, found, listedAt, answer>>
    BY <1>1 DEF catalogVars, sliceVars, readVars
  <2>2. Offerings' = Offerings /\ Slots' = Slots /\ \A a : Fresh(a)' <=> Fresh(a)
    BY <2>1, SlotsFixed DEF Fresh
  <2>3. Typed' /\ Guarded'
    BY <2>1, <2>2 DEF SliceInv, Typed, Guarded
  <2>4. NextFits'
    BY <2>1 DEF SliceInv, NextFits
  <2>5. Filled'
    BY <2>1, <2>2 DEF SliceInv, Filled
  <2>. QED BY <2>3, <2>4, <2>5 DEF SliceInv
<1>2. CASE Next
  BY <1>2, NextCases, QuietInv, LockInv, AppendInv, RemoveInv, PublishInv, WriteInv
<1>. QED BY <1>1, <1>2

LEMMA SliceInit ==
  ASSUME Init
  PROVE  SliceInv
<1>. DEFINE n == Len(Builtin)
            first == [i \in 1..(n + Slack) |->
                        IF i <= n THEN Entry(Builtin[i], Builtin[i]) ELSE NoEntry]
<1>1. n \in Nat \ {0} /\ Slack \in Nat /\ \A i \in 1..n : Builtin[i] \in BuiltinIds
  <2>1. Builtin \in Seq(BuiltinIds) /\ Len(Builtin) > 0 /\ Slack \in Nat
    BY CatalogBounds
  <2>2. Len(Builtin) \in Nat
    BY <2>1, LenProperties
  <2>3. \A i \in 1..n : Builtin[i] \in BuiltinIds
    BY DEF BuiltinIds
  <2>. QED BY <2>1, <2>2, <2>3
<1>2. /\ at = [p \in Clients |-> "idle"] /\ heap = <<first>>
      /\ header = [array |-> 1, len |-> n] /\ next = header
      /\ blueprints = {} /\ lock = Free
      /\ cursor = [p \in Clients |-> NoCursor] /\ found = [p \in Clients |-> NoEntry]
      /\ answer = [p \in Clients |-> "none"] /\ listedAt = [p \in Lookups |-> {}]
  BY DEF Init
<1>3. first \in Seq(Slots) /\ Len(first) = n + Slack
  <2>1. \A i \in 1..(n + Slack) :
           (IF i <= n THEN Entry(Builtin[i], Builtin[i]) ELSE NoEntry) \in Slots
    BY <1>1 DEF Slots, Offerings
  <2>2. first \in [1..(n + Slack) -> Slots] /\ n + Slack \in Nat
    BY <1>1, <2>1
  <2>. QED BY <2>2, FunctionIsSeq
<1>4. \A i \in 1..n : first[i] \in Offerings
  BY <1>1 DEF Offerings
<1>. HIDE DEF first
<1>5. /\ heap \in Seq(Seq(Slots)) /\ Len(heap) = 1 /\ heap[1] = first
      /\ header.array = 1 /\ header.len = n
  BY <1>2, <1>3
<1>6. Typed
  <2>1. NoCursor \in [array : 1..Len(heap), len : Nat, pos : Nat \ {0}] /\ NoEntry \in Slots
    BY <1>5 DEF NoCursor, Slots
  <2>2. header \in [array : 1..Len(heap), len : Nat] /\ n <= Len(first) /\ Len(first) > 0
    BY <1>1, <1>2, <1>3, <1>5
  <2>. QED BY <1>2, <1>5, <2>1, <2>2 DEF Typed, CatalogLabels
<1>7. \A p \in Clients : at[p] = "idle"
  BY <1>2
<1>8. Guarded
  BY <1>2, <1>7, Roles DEF Guarded, Critical
<1>9. NextFits
  BY <1>7, Roles DEF NextFits
<1>10. Filled
  BY <1>4, <1>5, <1>7, Roles DEF Filled, Critical
<1>. QED BY <1>6, <1>8, <1>9, <1>10 DEF SliceInv

LEMMA SliceWellFormed == Spec => []SliceInv
BY SliceInit, SliceStep, PTL DEF Spec

(* No step changes the length of an array that exists. *)
LEMMA LengthsStay ==
  ASSUME SliceInv, NEW p \in Clients, UNCHANGED nameOf,
         AppendEntry(p) \/ RemoveEntry(p)
  PROVE  /\ UNCHANGED <<header, cursor>>
         /\ Len(heap'[header.array]) = Len(heap[header.array])
<1>. Typed /\ Guarded /\ header.array \in 1..Len(heap)
  BY HeaderType DEF SliceInv
<1>1. CASE AppendEntry(p)
  <2>1. p \in Creates /\ UNCHANGED <<header, cursor>>
    BY <1>1 DEF AppendEntry, readVars, Guarded
  <2>. QED BY <1>1, <2>1, AppendEffect
<1>2. CASE RemoveEntry(p)
  BY <1>2, RemoveCases DEF Shifted
<1>. QED BY <1>1, <1>2

LEMMA BoundsStep ==
  ASSUME SliceInv, SearchInBounds, [Next]_catalogVars
  PROVE  SearchInBounds'
<1>. Typed /\ Guarded /\ NextFits /\ Filled
  BY DEF SliceInv
<1>0. /\ header.array \in 1..Len(heap) /\ header.len \in Nat /\ header.len <= Len(heap[header.array])
      /\ at \in [Clients -> CatalogLabels]
  BY HeaderType DEF Typed
<1>1. CASE UNCHANGED catalogVars
  BY <1>1 DEF SearchInBounds, catalogVars, sliceVars, readVars
<1>2. ASSUME NEW p \in Clients, QuietStep(p)
      PROVE  SearchInBounds'
  <2>1. /\ UNCHANGED <<heap, header>>
        /\ \A q \in Clients \ {p} : at'[q] = at[q] /\ cursor'[q] = cursor[q]
    BY <1>2, QuietFrame
  <2>2. at'[p] = "scan" =>
          /\ cursor'[p].array = cursor[p].array
          /\ \/ at[p] = "scanLen" /\ cursor'[p].len = header.len
             \/ at[p] = "scan" /\ cursor'[p].len = cursor[p].len
    BY <1>2, QuietCursor
  <2>. QED BY <1>0, <2>1, <2>2 DEF SearchInBounds
<1>3. ASSUME NEW p \in Clients, Lock(p) \/ WriteBlueprint(p)
      PROVE  SearchInBounds'
  <2>1. /\ UNCHANGED <<heap, header, cursor>>
        /\ \A q \in Clients : at'[q] = "scan" => at[q] = "scan"
    BY <1>0, <1>3 DEF Lock, WriteBlueprint, sliceVars, readVars, Jump
  <2>. QED BY <2>1 DEF SearchInBounds
<1>4. ASSUME NEW p \in Clients, AppendEntry(p) \/ RemoveEntry(p), UNCHANGED nameOf
      PROVE  SearchInBounds'
  <2>1. UNCHANGED <<header, cursor>> /\ Len(heap'[header.array]) = Len(heap[header.array])
    BY <1>4, LengthsStay
  <2>2. \A q \in Clients : at'[q] = "scan" => at[q] = "scan"
    BY <1>0, <1>4 DEF AppendEntry, RemoveEntry, Jump
  <2>. QED BY <2>1, <2>2 DEF SearchInBounds
<1>5. ASSUME NEW p \in Clients, Publish(p)
      PROVE  SearchInBounds'
  <2>1. /\ UNCHANGED <<heap, cursor>> /\ header' = next /\ at[p] = "publish"
        /\ \A q \in Clients : at'[q] = "scan" => at[q] = "scan"
    BY <1>0, <1>5 DEF Publish, readVars, Jump
  <2>2. CASE next.array = header.array
    BY <2>1, <2>2 DEF SearchInBounds
  <2>3. CASE next.array # header.array
    <3>1. p \in Creates
      BY <2>1, <2>3, Roles DEF NextFits, Guarded
    <3>2. Fresh(next.array)
      BY <2>1, <2>3, <3>1 DEF Fresh
    <3>3. \A q \in Clients : at[q] = "scan" => cursor[q].array # next.array
      BY <3>2 DEF Filled
    <3>. QED BY <2>1, <3>3 DEF SearchInBounds
  <2>. QED BY <2>2, <2>3
<1>6. CASE Next
  BY <1>2, <1>3, <1>4, <1>5, <1>6, NextCases
<1>. QED BY <1>1, <1>6

(* The slice stays well formed: only the holder of catalog_mutex writes,   *)
(* the slots within the header's length and all slots of outgrown arrays   *)
(* hold offerings, whatever readers hold and however old it is, and a      *)
(* search runs beyond the end of its array only after that was outgrown.   *)
THEOREM SliceInvariant == Spec => [](SliceInv /\ SearchInBounds)
<1>1. Init => SearchInBounds
  BY DEF Init, SearchInBounds
<1>. QED BY <1>1, BoundsStep, SliceWellFormed, PTL DEF Spec

-----------------------------------------------------------------------------
(* What a step does to the list that stays *)

Item(k) == heap[header.array][k]

SameList == StayLen' = StayLen /\ \A k \in 1..StayLen : Item(k)' = Item(k)

OneMore(e) ==
  StayLen' = StayLen + 1 /\ \A k \in 1..StayLen' : Item(k)' = IF k <= StayLen THEN Item(k) ELSE e

OneLess(i) ==
  /\ i \in 1..StayLen
  /\ StayLen' = StayLen - 1
  /\ \A k \in 1..StayLen' : Item(k)' = Item(IF k < i THEN k ELSE k + 1)

(* At most one removal is under way, and it leaves a prefix of the list. *)
LEMMA StayPart ==
  ASSUME SliceInv
  PROVE  /\ StayLen \in Nat /\ header.len \in Nat /\ StayLen <= header.len
         /\ \A d \in Deletes : at[d] = "publish" => StayLen = next.len /\ StayLen = header.len - 1
         /\ (\A d \in Deletes : at[d] # "publish") => StayLen = header.len
<1>1. Typed /\ Guarded /\ NextFits
  BY DEF SliceInv
<1>2. header.len \in Nat /\ next.len \in Nat
  BY <1>1, HeaderType
<1>3. \A d \in Deletes : at[d] = "publish" => header.len > 0 /\ next.len = header.len - 1
  BY <1>1 DEF NextFits
<1>. QED BY <1>2, <1>3 DEF StayLen

LEMMA PublishersStay ==
  ASSUME UNCHANGED <<heap, header, next>>,
         \A q \in Clients : at'[q] = "publish" <=> at[q] = "publish"
  PROVE  SameList
BY Roles DEF SameList, StayLen, Item

LEMMA QuietList ==
  ASSUME SliceInv, NEW p \in Clients, QuietStep(p)
  PROVE  SameList
<1>1. /\ UNCHANGED <<heap, header, next>>
      /\ \A q \in Clients \ {p} : at'[q] = at[q]
      /\ at[p] \notin Critical /\ at'[p] \notin Critical
  BY QuietFrame DEF SliceInv
<1>. QED BY <1>1, PublishersStay DEF Critical

LEMMA LockList ==
  ASSUME SliceInv, NEW p \in Clients, Lock(p) \/ WriteBlueprint(p)
  PROVE  SameList
<1>1. UNCHANGED <<heap, header, next>> /\ at \in [Clients -> CatalogLabels]
  BY DEF Lock, WriteBlueprint, sliceVars, SliceInv, Typed
<1>2. at[p] # "publish" /\ at'[p] # "publish" /\ \A q \in Clients \ {p} : at'[q] = at[q]
  BY <1>1 DEF Lock, WriteBlueprint, Jump
<1>. QED BY <1>1, <1>2, PublishersStay

LEMMA AppendList ==
  ASSUME SliceInv, NEW p \in Clients, AppendEntry(p), UNCHANGED nameOf
  PROVE  SameList
<1>. Typed /\ Guarded
  BY DEF SliceInv
<1>1. at[p] = "append" /\ at' = [at EXCEPT ![p] = "publish"] /\ header' = header /\ p \in Creates
  BY DEF AppendEntry, Jump, Guarded
<1>2. \A d \in Deletes : at[d] # "publish" /\ at'[d] # "publish"
  <2>1. \A q \in Clients \ {p} : at[q] \notin Critical /\ at'[q] = at[q]
    BY <1>1, Alone DEF Critical, Typed
  <2>. QED BY <1>1, <2>1, Roles DEF Critical
<1>3. StayLen = header.len /\ StayLen' = header.len
  BY <1>1, <1>2 DEF StayLen
<1>4. /\ header.array \in 1..Len(heap) /\ header.len \in Nat /\ header.len <= Len(heap[header.array])
      /\ Len(heap[header.array]) \in Nat
  BY HeaderType, ArrayType
<1>5. \A j \in 1..Len(heap[header.array]) :
        heap'[header.array][j] = heap[header.array][j] \/ j > header.len
  BY <1>1, <1>4, AppendEffect
<1>6. \A j \in 1..header.len : heap'[header.array][j] = heap[header.array][j]
  <2>1. \A j \in 1..header.len : j \in 1..Len(heap[header.array]) /\ ~(j > header.len)
    BY <1>4
  <2>. QED BY <1>5, <2>1
<1>. QED BY <1>1, <1>3, <1>6 DEF SameList, Item

LEMMA PublishList ==
  ASSUME SliceInv, NEW p \in Clients, Publish(p), UNCHANGED nameOf
  PROVE  IF p \in Creates THEN OneMore(Entry(p, nameOf[p])) ELSE SameList
<1>. Typed /\ Guarded /\ NextFits
  BY DEF SliceInv
<1>1. at[p] = "publish" /\ at' = [at EXCEPT ![p] = "mapWrite"] /\ header' = next /\ heap' = heap
  BY DEF Publish, Jump
<1>2. \A q \in Clients : at'[q] # "publish" /\ (q # p => at[q] # "publish")
  <2>1. \A q \in Clients \ {p} : at[q] \notin Critical /\ at'[q] = at[q]
    BY <1>1, Alone DEF Critical, Typed
  <2>2. at'[p] = "mapWrite"
    BY <1>1 DEF Typed
  <2>. QED BY <2>1, <2>2 DEF Critical
<1>3. StayLen' = next.len
  BY <1>1, <1>2, Roles DEF StayLen
<1>4. header.len \in Nat /\ next.len \in Nat
  BY HeaderType
<1>5. CASE p \in Creates
  <2>1. StayLen = header.len
    BY <1>2, <1>5, Roles DEF StayLen
  <2>2. /\ next.len = header.len + 1 /\ heap[next.array][next.len] = Entry(p, nameOf[p])
        /\ \A i \in 1..header.len : heap[next.array][i] = heap[header.array][i]
    BY <1>1, <1>5 DEF NextFits
  <2>. QED BY <1>1, <1>3, <1>4, <1>5, <2>1, <2>2 DEF OneMore, Item
<1>6. CASE p \notin Creates
  <2>1. p \in Deletes
    BY <1>1, <1>6, Roles DEF Guarded
  <2>2. next.array = header.array /\ StayLen = next.len
    BY <1>1, <2>1 DEF NextFits, StayLen
  <2>. QED BY <1>1, <1>3, <1>6, <2>2 DEF SameList, Item
<1>. QED BY <1>5, <1>6

LEMMA RemoveList ==
  ASSUME SliceInv, NEW p \in Clients, RemoveEntry(p), UNCHANGED nameOf
  PROVE  \/ \E i \in 1..StayLen : /\ FirstNamed(p, i) /\ OneLess(i) /\ at'[p] = "publish"
                                  /\ listedAt' = [l \in Lookups |-> listedAt[l] \ ListedFrom(i)]
         \/ /\ SameList /\ at'[p] = "mapWrite"
            /\ \A i \in 1..StayLen : ~FirstNamed(p, i)
            /\ listedAt' = listedAt
<1>. Typed /\ Guarded
  BY DEF SliceInv
<1>1. /\ p \in Deletes /\ at[p] = "remove" /\ header' = header
      /\ \A q \in Clients \ {p} : at[q] \notin Critical /\ at'[q] = at[q]
  BY RemoveCases
<1>2. \A d \in Deletes : at[d] # "publish" /\ (d # p => at'[d] # "publish")
  BY <1>1, Roles DEF Critical
<1>3. StayLen = header.len
  BY <1>2 DEF StayLen
<1>4. /\ header.array \in 1..Len(heap) /\ header.len \in Nat /\ header.len <= Len(heap[header.array])
      /\ Len(heap[header.array]) \in Nat
  BY HeaderType, ArrayType
<1>5. ASSUME NEW i \in 1..header.len, FirstNamed(p, i), Shifted(i, heap'),
             next' = [array |-> header.array, len |-> header.len - 1],
             at'[p] = "publish"
      PROVE  OneLess(i)
  <2>1. StayLen' = header.len - 1
    BY <1>1, <1>5 DEF StayLen
  <2>2. \A j \in 1..Len(heap[header.array]) :
           heap'[header.array][j] = heap[header.array][IF j \in i..(header.len - 1) THEN j + 1 ELSE j]
    BY <1>5 DEF Shifted
  <2>3. \A k \in 1..(header.len - 1) :
          /\ k \in 1..Len(heap[header.array])
          /\ k \in i..(header.len - 1) <=> ~(k < i)
    BY <1>4
  <2>4. \A k \in 1..(header.len - 1) :
          heap'[header.array][k] = heap[header.array][IF k < i THEN k ELSE k + 1]
    BY <2>2, <2>3
  <2>. QED BY <1>1, <1>3, <2>1, <2>4 DEF OneLess, Item
<1>6. ASSUME heap' = heap, next' = next, at'[p] = "mapWrite"
      PROVE  SameList
  <2>1. StayLen' = header.len
    BY <1>1, <1>2, <1>6 DEF StayLen
  <2>. QED BY <1>1, <1>3, <1>6, <2>1 DEF SameList, Item
<1>. QED BY <1>3, <1>5, <1>6, RemoveCases

-----------------------------------------------------------------------------
(* No offering is lost *)

CatalogStep(p) ==
  \/ QuietStep(p) \/ Lock(p) \/ AppendEntry(p) \/ RemoveEntry(p) \/ Publish(p) \/ WriteBlueprint(p)

Late == {"remove", "publish", "mapWrite", "update", "done"}

(* Requests only advance: to be late is to stay late, and a registered     *)
(* service comes from the publication of its header.                       *)
LEMMA Advance ==
  ASSUME Typed, Guarded, NEW p \in Clients, CatalogStep(p), NEW q \in Clients
  PROVE  /\ at[q] \in Late => at'[q] \in Late
         /\ q \in Creates /\ Registered(q)' => Registered(q) \/ (q = p /\ Publish(q))
<1>. USE DEF Typed
<1>1. CASE QuietStep(p)
  BY <1>1 DEF QuietStep, ReaderStep, Start, CopyArray, CopyLength, ScanEntry, ScanEnd, MapRace,
     GetKubernetesBlueprint, CreateDynamicService, UpdateServiceBroker, AfterHit, AfterMiss,
     Answer, Jump, Late, Registered
<1>2. CASE Lock(p)
  BY <1>2 DEF Lock, Jump, Late, Registered
<1>3. CASE AppendEntry(p)
  <2>1. at[p] = "append" /\ at' = [at EXCEPT ![p] = "publish"] /\ answer' = answer
    BY <1>3 DEF AppendEntry, Jump
  <2>. QED BY <2>1 DEF Late, Registered
<1>4. CASE RemoveEntry(p)
  <2>1. /\ at[p] = "remove" /\ answer' = answer
        /\ at' = [at EXCEPT ![p] = "publish"] \/ at' = [at EXCEPT ![p] = "mapWrite"]
    BY <1>4 DEF RemoveEntry, Jump
  <2>. QED BY <2>1, Roles DEF Late, Registered, Guarded
<1>5. CASE Publish(p)
  BY <1>5 DEF Publish, Jump, Late, Registered
<1>6. CASE WriteBlueprint(p)
  BY <1>6 DEF WriteBlueprint, Jump, Late, Registered
<1>. QED BY <1>1, <1>2, <1>3, <1>4, <1>5, <1>6 DEF CatalogStep

LEMMA RemovedStays ==
  ASSUME Typed, Guarded, NEW p \in Clients, CatalogStep(p), UNCHANGED nameOf
  PROVE  \A n : MayBeRemoved(n) => MayBeRemoved(n)'
BY Advance, Roles DEF MayBeRemoved, Late

LEMMA FirstNamedIs ==
  ASSUME SliceInv, NEW p \in Deletes, at[p] = "remove", NEW i \in 1..StayLen, FirstNamed(p, i)
  PROVE  Item(i).name = nameOf[p]
BY DEF FirstNamed, Item, SliceInv, Filled, Critical

(* An item stays on the list, unless the step removes one with its name. *)
LEMMA OnListStep ==
  ASSUME SliceInv, NEW p \in Clients, CatalogStep(p), UNCHANGED nameOf,
         NEW e, OnList(e)
  PROVE  OnList(e)' \/ MayBeRemoved(e.name)'
<1>. Typed /\ Guarded
  BY DEF SliceInv
<1>0. PICK k \in 1..StayLen : Item(k) = e
  BY DEF OnList, Item
<1>1. SameList => OnList(e)'
  BY <1>0 DEF SameList, OnList, Item
<1>2. ASSUME NEW x, OneMore(x) PROVE OnList(e)'
  <2>1. StayLen \in Nat
    BY StayPart
  <2>2. k \in 1..StayLen' /\ Item(k)' = e
    BY <1>0, <1>2, <2>1 DEF OneMore
  <2>. QED BY <2>2 DEF OnList, Item
<1>3. CASE RemoveEntry(p)
  <2>1. CASE \E i \in 1..StayLen : FirstNamed(p, i) /\ OneLess(i) /\ at'[p] = "publish"
    <3>1. PICK i \in 1..StayLen : FirstNamed(p, i) /\ OneLess(i) /\ at'[p] = "publish"
      BY <2>1
    <3>2. StayLen \in Nat /\ p \in Deletes /\ at[p] = "remove"
      BY <1>3, StayPart, RemoveCases
    <3>3. CASE k < i
      <4>1. k \in 1..StayLen' /\ Item(k)' = e
        BY <1>0, <3>1, <3>2, <3>3 DEF OneLess
      <4>. QED BY <4>1 DEF OnList, Item
    <3>4. CASE k > i
      <4>1. k - 1 \in 1..StayLen' /\ ~(k - 1 < i) /\ (k - 1) + 1 = k
        BY <1>0, <3>1, <3>2, <3>4 DEF OneLess
      <4>2. PICK j \in 1..StayLen' : ~(j < i) /\ j + 1 = k
        BY <4>1
      <4>3. Item(j)' = e
        BY <1>0, <3>1, <4>2 DEF OneLess
      <4>. QED BY <4>3 DEF OnList, Item
    <3>5. CASE k = i
      <4>1. e.name = nameOf[p]
        BY <1>0, <3>1, <3>2, <3>5, FirstNamedIs
      <4>. QED BY <3>1, <3>2, <4>1 DEF MayBeRemoved
    <3>. QED BY <3>2, <3>3, <3>4, <3>5
  <2>. QED BY <1>1, <1>3, <2>1, RemoveList
<1>. QED BY <1>1, <1>2, <1>3, QuietList, LockList, AppendList, PublishList DEF CatalogStep

LEMMA KeptStep ==
  ASSUME SliceInv, Kept, [Next]_catalogVars
  PROVE  Kept'
<1>. Typed /\ Guarded
  BY DEF SliceInv
<1>1. CASE UNCHANGED catalogVars
  <2>1. UNCHANGED <<nameOf, at, heap, header, next, answer>>
    BY <1>1 DEF catalogVars, sliceVars
  <2>2. \A n : (MayBeRemoved(n)' <=> MayBeRemoved(n)) /\ (OnList(n)' <=> OnList(n))
    BY <2>1 DEF MayBeRemoved, OnList, StayLen
  <2>3. \A c \in Creates : Registered(c)' <=> Registered(c)
    BY <2>1 DEF Registered
  <2>. QED BY <2>1, <2>2, <2>3 DEF Kept
<1>2. CASE Next
  <2>1. PICK p \in Clients : CatalogStep(p)
    BY <1>2, NextCases DEF CatalogStep
  <2>2. nameOf' = nameOf
    BY <1>2, NextCases
  <2>3. ASSUME NEW b \in BuiltinIds, ~MayBeRemoved(b)'
        PROVE  OnList(Entry(b, b))'
    <3>1. OnList(Entry(b, b))
      BY <2>1, <2>2, <2>3, RemovedStays DEF Kept
    <3>2. Entry(b, b).name = b
      BY DEF Entry
    <3>3. OnList(Entry(b, b))' \/ MayBeRemoved(b)'
      BY <2>1, <2>2, <3>1, <3>2, OnListStep
    <3>. QED BY <2>3, <3>3
  <2>4. ASSUME NEW c \in Creates, Registered(c)', ~MayBeRemoved(nameOf[c])'
        PROVE  OnList(Entry(c, nameOf[c]))'
    <3>0. \A e : OnList(e) /\ e.name = nameOf[c] => OnList(e)'
      BY <2>1, <2>2, <2>4, OnListStep DEF MayBeRemoved
    <3>1. CASE Registered(c)
      <4>1. ~MayBeRemoved(nameOf[c])
        BY <2>1, <2>2, <2>4, Advance, Roles DEF MayBeRemoved, Late
      <4>2. OnList(Entry(c, nameOf[c])) /\ Entry(c, nameOf[c]).name = nameOf[c]
        BY <3>1, <4>1 DEF Kept, Entry
      <4>3. \E k \in 1..StayLen' : Item(k)' = Entry(c, nameOf[c])
        BY <3>0, <4>2 DEF OnList, Item
      <4>. QED BY <2>2, <4>3 DEF OnList, Item
    <3>2. CASE c = p /\ Publish(c)
      <4>1. OneMore(Entry(c, nameOf[c])) /\ StayLen \in Nat
        BY <2>2, <3>2, PublishList, StayPart
      <4>2. PICK k \in 1..StayLen' : k = StayLen + 1
        BY <4>1 DEF OneMore
      <4>3. Item(k)' = Entry(c, nameOf[c])
        BY <4>1, <4>2 DEF OneMore
      <4>. QED BY <2>2, <4>3 DEF OnList, Item
    <3>. QED BY <2>1, <2>4, <3>1, <3>2, Advance, Roles
  <2>. QED BY <2>3, <2>4 DEF Kept
<1>. QED BY <1>1, <1>2

LEMMA KeptInit ==
  ASSUME Init
  PROVE  Kept
<1>. DEFINE n == Len(Builtin)
            first == [i \in 1..(n + Slack) |->
                        IF i <= n THEN Entry(Builtin[i], Builtin[i]) ELSE NoEntry]
<1>1. n \in Nat /\ Slack \in Nat
  BY CatalogBounds, LenProperties
<1>2. at = [p \in Clients |-> "idle"] /\ heap = <<first>> /\ header = [array |-> 1, len |-> n]
      /\ answer = [p \in Clients |-> "none"]
  BY DEF Init
<1>3. \A p \in Clients : at[p] = "idle" /\ answer[p] = "none"
  BY <1>2
<1>4. heap[header.array] = first /\ header.len = n
  BY <1>2
<1>5. StayLen = n
  BY <1>3, <1>4, Roles DEF StayLen
<1>6. \A b \in BuiltinIds : \E k \in 1..n : first[k] = Entry(b, b)
  BY <1>1 DEF BuiltinIds
<1>7. \A b \in BuiltinIds : OnList(Entry(b, b))
  BY <1>4, <1>5, <1>6 DEF OnList
<1>8. \A c \in Creates : ~Registered(c)
  BY <1>3, Roles DEF Registered
<1>. QED BY <1>7, <1>8 DEF Kept

(* What was on the list, or was answered with 201, stays on the list       *)
(* unless a delete request for its name came: register and unregister lose *)
(* no update, for any number of offerings, of requests and of free slots.  *)
THEOREM NothingLost == Spec => []NoLostOffering
<1>1. ASSUME SliceInv, Kept PROVE NoLostOffering
  <2>1. \A e : OnList(e) => e.id \in Listed
    <3>1. StayLen <= header.len /\ StayLen \in Nat /\ header.len \in Nat
      BY <1>1, StayPart
    <3>. QED BY <3>1 DEF OnList, Listed, Entries
  <2>2. \A x, y : Entry(x, y).id = x
    BY DEF Entry
  <2>. QED BY <1>1, <2>1, <2>2 DEF Kept, NoLostOffering, Registered
<1>. QED BY <1>1, SliceWellFormed, KeptInit, KeptStep, PTL DEF Spec

-----------------------------------------------------------------------------
(* The blueprints match the list *)

(* The id determines an offering, and so does the name where the names of  *)
(* dynamic services are distinct.                                          *)
LEMMA OfferingKey ==
  ASSUME NEW x \in Offerings, NEW y \in Offerings
  PROVE  /\ x.id = y.id => x = y
         /\ DistinctNames /\ x.name = y.name => x = y
<1>1. \A c \in Creates : c \notin BuiltinIds
  BY RequestsDistinct, Roles
<1>2. /\ \E b \in BuiltinIds \cup Creates : x = Entry(b, IF b \in Creates THEN nameOf[b] ELSE b)
      /\ \E b \in BuiltinIds \cup Creates : y = Entry(b, IF b \in Creates THEN nameOf[b] ELSE b)
  BY <1>1 DEF Offerings
<1>3. PICK b \in BuiltinIds \cup Creates : x = Entry(b, IF b \in Creates THEN nameOf[b] ELSE b)
  BY <1>2
<1>4. PICK a \in BuiltinIds \cup Creates : y = Entry(a, IF a \in Creates THEN nameOf[a] ELSE a)
  BY <1>2
<1>5. /\ x.id = b /\ x.name = IF b \in Creates THEN nameOf[b] ELSE b
      /\ y.id = a /\ y.name = IF a \in Creates THEN nameOf[a] ELSE a
  BY <1>3, <1>4 DEF Entry
<1>6. DistinctNames /\ x.name = y.name => a = b
  BY <1>1, <1>5 DEF DistinctNames
<1>. QED BY <1>3, <1>4, <1>5, <1>6

(* The items that stay are offerings. *)
LEMMA ItemType ==
  ASSUME SliceInv
  PROVE  \A k \in 1..StayLen : Item(k) \in Offerings /\ k \in 1..header.len
<1>1. StayLen <= header.len /\ StayLen \in Nat /\ header.len \in Nat
  BY StayPart
<1>. QED BY <1>1 DEF SliceInv, Filled, Item

(* A name that some item has, some item has first. *)
LEMMA FirstExists ==
  ASSUME SliceInv, NEW p \in Clients, NEW k \in 1..header.len, Item(k).name = found[p].name
  PROVE  \E i \in 1..header.len : FirstNamed(p, i)
<1>1. header.len \in Nat
  BY HeaderType DEF SliceInv
<1>. DEFINE S == {j \in 1..header.len : Item(j).name = found[p].name}
<1>2. S \in SUBSET Nat /\ S # {}
  BY <1>1
<1>3. PICK i \in S : \A j \in S : i <= j
  BY <1>2, Least
<1>4. i \in 1..header.len /\ Item(i).name = found[p].name
  BY <1>3
<1>5. \A j \in 1..(i - 1) : Item(j).name # found[p].name
  <2>1. \A j \in 1..(i - 1) : j \in 1..header.len /\ ~(i <= j)
    BY <1>1, <1>4
  <2>. QED BY <1>3, <2>1
<1>. QED BY <1>4, <1>5 DEF FirstNamed, Item

(* A step moves one request. *)
LEMMA OthersWait ==
  ASSUME Typed, Guarded, NEW p \in Clients, CatalogStep(p), UNCHANGED nameOf,
         NEW q \in Clients, q # p
  PROVE  at'[q] = at[q] /\ found'[q] = found[q]
<1>1. CASE QuietStep(p) BY <1>1, QuietFrame
<1>2. CASE RemoveEntry(p) BY <1>2, RemoveCases
<1>3. CASE Lock(p) \/ Publish(p) \/ WriteBlueprint(p)
  BY <1>3 DEF Lock, Publish, WriteBlueprint, Jump, Typed, readVars
<1>4. CASE AppendEntry(p)
  <2>1. at' = [at EXCEPT ![p] = "publish"] /\ found' = found
    BY <1>4 DEF AppendEntry, Jump, readVars
  <2>. QED BY <2>1 DEF Typed
<1>. QED BY <1>1, <1>2, <1>3, <1>4 DEF CatalogStep

LEMMA OnceStep ==
  ASSUME SliceInv, ListedOnce, NEW p \in Clients, CatalogStep(p), UNCHANGED nameOf
  PROVE  ListedOnce'
<1>. Typed /\ Guarded
  BY DEF SliceInv
<1>. DEFINE After == {"mapWrite", "update", "done"}
<1>0. /\ \A i, j \in 1..StayLen : Item(i) = Item(j) /\ Item(i).id \in Creates => i = j
      /\ \A i \in 1..StayLen : \A c \in Creates : Item(i).id = c => at[c] \in After
      /\ StayLen \in Nat
  BY StayPart DEF ListedOnce, Item
<1>1. \A c \in Creates : at[c] \in After => at'[c] \in After
  <2>. SUFFICES ASSUME NEW c \in Creates, at[c] \in After PROVE at'[c] \in After
    OBVIOUS
  <2>1. c \in Clients
    BY Roles
  <2>2. CASE c # p
    BY <2>1, <2>2, OthersWait
  <2>3. CASE c = p
    <3>1. CASE WriteBlueprint(p)
      BY <2>1, <2>3, <3>1 DEF WriteBlueprint, Jump, Typed
    <3>2. CASE QuietStep(p)
      BY <2>1, <2>3, <3>2 DEF QuietStep, ReaderStep, Start, CopyArray, CopyLength, ScanEntry,
         ScanEnd, MapRace, GetKubernetesBlueprint, CreateDynamicService, UpdateServiceBroker,
         Answer, Jump, Typed
    <3>. QED BY <2>3, <3>1, <3>2 DEF CatalogStep, Lock, AppendEntry, RemoveEntry, Publish
  <2>. QED BY <2>2, <2>3
<1>2. SUFFICES /\ \A i, j \in 1..StayLen' : Item(i)' = Item(j)' /\ Item(i)'.id \in Creates => i = j
               /\ \A i \in 1..StayLen' : \A c \in Creates : Item(i)'.id = c => at'[c] \in After
  BY DEF ListedOnce, Item
<1>. HIDE DEF After
<1>3. CASE SameList
  BY <1>0, <1>1, <1>3 DEF SameList
<1>4. CASE p \in Creates /\ Publish(p)
  <2>1. OneMore(Entry(p, nameOf[p]))
    BY <1>4, PublishList
  <2>2. at[p] = "publish" /\ at'[p] = "mapWrite" /\ at[p] \notin After /\ at'[p] \in After
    BY <1>4 DEF Publish, Jump, Typed, After
  <2>3. \A i \in 1..StayLen : Item(i).id # p /\ Item(i) # Entry(p, nameOf[p])
    BY <1>0, <1>4, <2>2 DEF Entry
  <2>4. \A i \in 1..StayLen' :
           \/ i \in 1..StayLen /\ Item(i)' = Item(i)
           \/ i = StayLen + 1 /\ Item(i)' = Entry(p, nameOf[p])
    BY <1>0, <2>1 DEF OneMore
  <2>5. Entry(p, nameOf[p]).id = p
    BY DEF Entry
  <2>6. \A i, j \in 1..StayLen' : Item(i)' = Item(j)' /\ Item(i)'.id \in Creates => i = j
    BY <1>0, <2>3, <2>4
  <2>7. \A i \in 1..StayLen' : \A c \in Creates : Item(i)'.id = c => at'[c] \in After
    BY <1>0, <1>1, <2>2, <2>4, <2>5
  <2>. QED BY <2>6, <2>7
<1>5. CASE \E i \in 1..StayLen : OneLess(i)
  <2>1. PICK i \in 1..StayLen : OneLess(i)
    BY <1>5
  <2>. DEFINE m(k) == IF k < i THEN k ELSE k + 1
  <2>2. \A k \in 1..StayLen' : m(k) \in 1..StayLen /\ Item(k)' = Item(m(k))
    BY <1>0, <2>1 DEF OneLess
  <2>3. \A k, l \in 1..StayLen' : m(k) = m(l) => k = l
    BY <1>0, <2>1 DEF OneLess
  <2>. HIDE DEF m
  <2>. QED BY <1>0, <1>1, <2>2, <2>3
<1>. QED BY <1>3, <1>4, <1>5, QuietList, LockList, AppendList, PublishList, RemoveList
         DEF CatalogStep

(* Steps that move no request into or out of the update of the list, and   *)
(* change neither the list nor the blueprints.                             *)
LEMMA NoUpdate ==
  ASSUME InStep, SameList, blueprints' = blueprints,
         \A q \in Clients : at'[q] = "mapWrite" <=> at[q] = "mapWrite",
         \A d \in Deletes : /\ at'[d] \in {"publish", "mapWrite"} <=> at[d] \in {"publish", "mapWrite"}
                            /\ at[d] \in {"publish", "mapWrite"} => found'[d] = found[d]
  PROVE  InStep'
<1>1. StayIds' = StayIds
  BY DEF SameList, StayIds, Item
<1>. QED BY <1>1, Roles DEF InStep

LEMMA InStepStep ==
  ASSUME SliceInv, DistinctNames, ListedOnce, InStep, NEW p \in Clients, CatalogStep(p),
         UNCHANGED nameOf
  PROVE  InStep'
<1>. Typed /\ Guarded
  BY DEF SliceInv
<1>0. StayLen \in Nat /\ at \in [Clients -> CatalogLabels]
  BY StayPart DEF Typed
<1>1. \A q \in Clients \ {p} : at'[q] = at[q] /\ found'[q] = found[q]
  BY OthersWait
<1>2. CASE QuietStep(p)
  <2>1. blueprints' = blueprints /\ at[p] \notin Critical /\ at'[p] \notin Critical
    BY <1>2, QuietFrame
  <2>2. SameList
    BY <1>2, QuietList
  <2>. QED BY <1>1, <2>1, <2>2, NoUpdate, Roles DEF Critical
<1>3. CASE Lock(p)
  <2>1. /\ blueprints' = blueprints /\ at[p] = "lock" /\ at'[p] \in {"append", "remove"} /\ found' = found
    BY <1>0, <1>3 DEF Lock, Jump, readVars
  <2>. QED BY <1>1, <1>3, <2>1, LockList, NoUpdate, Roles
<1>4. CASE AppendEntry(p)
  <2>1. /\ blueprints' = blueprints /\ at[p] = "append" /\ at'[p] = "publish" /\ p \in Creates
        /\ found' = found
    BY <1>0, <1>4 DEF AppendEntry, Jump, Guarded, readVars
  <2>. QED BY <1>1, <1>4, <2>1, AppendList, NoUpdate, Roles
<1>5. CASE Publish(p) /\ p \notin Creates
  <2>1. blueprints' = blueprints /\ at[p] = "publish" /\ at'[p] = "mapWrite" /\ found' = found
    BY <1>0, <1>5 DEF Publish, Jump, readVars
  <2>2. SameList
    BY <1>5, PublishList
  <2>3. StayIds' = StayIds
    BY <2>2 DEF SameList, StayIds, Item
  <2>4. \A c \in Creates : at'[c] = at[c]
    BY <1>1, <1>5, Roles
  <2>5. \A d \in Deletes : at'[d] \in {"publish", "mapWrite"} <=> at[d] \in {"publish", "mapWrite"}
    BY <1>1, <2>1, Roles
  <2>. QED BY <2>1, <2>3, <2>4, <2>5 DEF InStep
<1>6. CASE Publish(p) /\ p \in Creates
  <2>1. blueprints' = blueprints /\ at[p] = "publish" /\ at'[p] = "mapWrite" /\ found' = found
    BY <1>0, <1>6 DEF Publish, Jump, readVars
  <2>2. OneMore(Entry(p, nameOf[p]))
    BY <1>6, PublishList
  <2>3. StayIds' = StayIds \cup {p}
    <3>1. \A k \in 1..StayLen : k \in 1..StayLen' /\ Item(k)' = Item(k)
      BY <1>0, <2>2 DEF OneMore
    <3>2. \A k \in 1..StayLen' : k \in 1..StayLen \/ Item(k)'.id = p
      BY <1>0, <2>2 DEF OneMore, Entry
    <3>3. \E k \in 1..StayLen' : Item(k)'.id = p
      <4>1. StayLen + 1 \in 1..StayLen' /\ ~(StayLen + 1 <= StayLen)
        BY <1>0, <2>2 DEF OneMore
      <4>2. PICK k \in 1..StayLen' : ~(k <= StayLen)
        BY <4>1
      <4>3. Item(k)'.id = p
        BY <2>2, <4>2 DEF OneMore, Entry
      <4>. QED BY <4>3
    <3>. QED BY <3>1, <3>2, <3>3 DEF StayIds, Item
  <2>4. \A q \in Clients \ {p} : at[q] \notin Critical
    BY <2>1, Alone DEF Critical
  <2>. QED BY <1>1, <1>6, <2>1, <2>3, <2>4, Roles DEF InStep, Critical
<1>7. CASE WriteBlueprint(p)
  <2>1. /\ blueprints' = IF p \in Creates THEN blueprints \cup {p} ELSE blueprints \ {found[p].id}
        /\ at[p] = "mapWrite" /\ at'[p] = "update" /\ found' = found
    BY <1>0, <1>7 DEF WriteBlueprint, Jump, readVars
  <2>2. \A q \in Clients \ {p} : at[q] \notin Critical
    BY <2>1, Alone DEF Critical
  <2>3. StayIds' = StayIds
    BY <1>7, LockList DEF SameList, StayIds, Item
  <2>4. CASE p \in Creates
    BY <1>1, <2>1, <2>2, <2>3, <2>4, Roles DEF InStep, Critical
  <2>5. CASE p \notin Creates
    <3>1. p \in Deletes
      BY <2>1, <2>5, Roles DEF Guarded
    <3>. QED BY <1>1, <2>1, <2>2, <2>3, <2>5, <3>1, Roles DEF InStep, Critical
  <2>. QED BY <2>4, <2>5
<1>8. CASE RemoveEntry(p)
  <2>1. /\ p \in Deletes /\ at[p] = "remove" /\ blueprints' = blueprints /\ found' = found
        /\ \A q \in Clients \ {p} : at[q] \notin Critical
    BY <1>8, RemoveCases
  <2>2. StayLen = header.len
    BY <2>1, StayPart, Roles DEF Critical
  <2>3. found[p] \in Offerings
    BY <2>1 DEF SliceInv, Filled, Critical
  <2>4. \A c \in Creates : /\ c \in StayIds <=> c \in blueprints
                           /\ at'[c] # "mapWrite"
    BY <1>1, <2>1, Roles DEF InStep, Critical
  <2>5. ASSUME at'[p] \in {"publish", "mapWrite"}, StayIds' \cap Creates = (StayIds \cap Creates) \ {found[p].id}
        PROVE  InStep'
    BY <1>1, <2>1, <2>4, <2>5, Roles DEF InStep, Critical
  <2>6. CASE \E i \in 1..StayLen : FirstNamed(p, i) /\ OneLess(i) /\ at'[p] = "publish"
    <3>1. PICK i \in 1..StayLen : FirstNamed(p, i) /\ OneLess(i) /\ at'[p] = "publish"
      BY <2>6
    <3>2. Item(i) = found[p]
      <4>1. Item(i).name = found[p].name /\ Item(i) \in Offerings
        BY <3>1, ItemType DEF FirstNamed, Item
      <4>. QED BY <2>3, <4>1, OfferingKey
    <3>3. \A k \in 1..StayLen : Item(k).id = found[p].id /\ Item(k).id \in Creates => k = i
      BY <2>3, <3>2, ItemType, OfferingKey DEF ListedOnce, Item
    <3>4. \A k \in 1..StayLen' : \E l \in 1..StayLen \ {i} : Item(k)' = Item(l)
      <4>1. \A k \in 1..StayLen' :
              /\ (IF k < i THEN k ELSE k + 1) \in 1..StayLen \ {i}
              /\ Item(k)' = Item(IF k < i THEN k ELSE k + 1)
        BY <1>0, <3>1 DEF OneLess
      <4>. QED BY <4>1
    <3>5. \A l \in 1..StayLen \ {i} : \E k \in 1..StayLen' : Item(k)' = Item(l)
      <4>. SUFFICES ASSUME NEW l \in 1..StayLen \ {i} PROVE \E k \in 1..StayLen' : Item(k)' = Item(l)
        OBVIOUS
      <4>1. CASE l < i
        <5>1. l \in 1..StayLen' /\ Item(l)' = Item(l)
          BY <1>0, <3>1, <4>1 DEF OneLess
        <5>. QED BY <5>1
      <4>2. CASE l > i
        <5>1. l - 1 \in 1..StayLen' /\ ~(l - 1 < i) /\ (l - 1) + 1 = l
          BY <1>0, <3>1, <4>2 DEF OneLess
        <5>2. PICK j \in 1..StayLen' : ~(j < i) /\ j + 1 = l
          BY <5>1
        <5>. QED BY <3>1, <5>2 DEF OneLess
      <4>. QED BY <1>0, <4>1, <4>2
    <3>6. StayIds = {Item(k).id : k \in 1..StayLen} /\ StayIds' = {Item(k)'.id : k \in 1..StayLen'}
      BY DEF StayIds, Item
    <3>7. StayIds' \cap Creates = (StayIds \cap Creates) \ {found[p].id}
      BY <3>2, <3>3, <3>4, <3>5, <3>6
    <3>. QED BY <2>5, <3>1, <3>7
  <2>7. CASE SameList /\ at'[p] = "mapWrite" /\ \A i \in 1..StayLen : ~FirstNamed(p, i)
    <3>1. StayIds' = StayIds
      BY <2>7 DEF SameList, StayIds, Item
    <3>2. found[p].id \notin StayIds
      <4>1. SUFFICES ASSUME NEW k \in 1..StayLen, Item(k).id = found[p].id PROVE FALSE
        BY DEF StayIds, Item
      <4>2. Item(k) = found[p]
        BY <2>3, <4>1, ItemType, OfferingKey
      <4>. QED BY <2>2, <2>7, <4>2, FirstExists
    <3>. QED BY <2>5, <2>7, <3>1, <3>2
  <2>. QED BY <1>8, <2>6, <2>7, RemoveList
<1>. QED BY <1>2, <1>3, <1>4, <1>5, <1>6, <1>7, <1>8 DEF CatalogStep

MatchInv == SliceInv /\ (DistinctNames => ListedOnce /\ InStep)

LEMMA MatchInit ==
  ASSUME Init
  PROVE  MatchInv
<1>1. SliceInv
  BY SliceInit
<1>2. /\ \A q \in Clients : at[q] = "idle"
      /\ blueprints = {} /\ heap[header.array] =
           [i \in 1..(Len(Builtin) + Slack) |->
              IF i <= Len(Builtin) THEN Entry(Builtin[i], Builtin[i]) ELSE NoEntry]
      /\ header.len = Len(Builtin)
  BY DEF Init
<1>3. StayLen = Len(Builtin) /\ Len(Builtin) \in Nat /\ Slack \in Nat
  BY <1>2, CatalogBounds, LenProperties, Roles DEF StayLen
<1>4. \A k \in 1..StayLen : heap[header.array][k].id \in BuiltinIds
  BY <1>2, <1>3 DEF Entry, BuiltinIds
<1>5. \A c \in Creates : c \notin BuiltinIds /\ at[c] # "mapWrite" /\ c \notin blueprints
  BY <1>2, RequestsDistinct, Roles
<1>6. ListedOnce
  BY <1>4, <1>5 DEF ListedOnce
<1>7. InStep
  BY <1>4, <1>5 DEF InStep, StayIds
<1>. QED BY <1>1, <1>6, <1>7 DEF MatchInv

LEMMA MatchStep ==
  ASSUME MatchInv, [Next]_catalogVars
  PROVE  MatchInv'
<1>1. SliceInv /\ SliceInv'
  BY SliceStep DEF MatchInv
<1>2. CASE UNCHANGED catalogVars
  <2>1. UNCHANGED <<nameOf, at, heap, header, next, blueprints, found>>
    BY <1>2 DEF catalogVars, sliceVars, readVars
  <2>2. (DistinctNames' <=> DistinctNames) /\ StayLen' = StayLen
    BY <2>1 DEF DistinctNames, StayLen
  <2>3. StayIds' = StayIds
    BY <2>1, <2>2 DEF StayIds
  <2>. QED BY <1>1, <2>1, <2>2, <2>3 DEF MatchInv, ListedOnce, InStep
<1>3. CASE Next
  <2>1. PICK p \in Clients : CatalogStep(p)
    BY <1>3, NextCases DEF CatalogStep
  <2>2. nameOf' = nameOf
    BY <1>3, NextCases
  <2>3. DistinctNames' <=> DistinctNames
    BY <2>2 DEF DistinctNames
  <2>. QED BY <1>1, <2>1, <2>2, <2>3, OnceStep, InStepStep DEF MatchInv
<1>. QED BY <1>2, <1>3

(* Where names are distinct, whenever no update of the catalog is under    *)
(* way exactly the dynamic services on the list have a blueprint: no       *)
(* offering is left that cannot be provisioned, and no blueprint leaks.    *)
THEOREM EveryOfferingHasBlueprint == Spec => []BlueprintsMatchList
<1>1. ASSUME MatchInv PROVE BlueprintsMatchList
  <2>. SUFFICES ASSUME DistinctNames, lock = Free PROVE Listed \cap Creates = blueprints
    BY DEF BlueprintsMatchList
  <2>1. SliceInv /\ InStep /\ Guarded /\ blueprints \subseteq Creates
    BY <1>1 DEF MatchInv, SliceInv, Typed
  <2>2. \A q \in Clients : at[q] \notin Critical
    BY <2>1, Roles DEF Guarded
  <2>3. StayLen = header.len
    BY <2>1, <2>2, StayPart, Roles DEF Critical
  <2>4. Listed = StayIds
    BY <2>3 DEF Listed, Entries, StayIds
  <2>5. \A c \in Creates : c \in StayIds <=> c \in blueprints
    BY <2>1, <2>2, Roles DEF InStep, Critical
  <2>. QED BY <2>1, <2>4, <2>5
<1>. QED BY <1>1, MatchInit, MatchStep, PTL DEF Spec

-----------------------------------------------------------------------------
(* A lookup finds what is listed and not moved *)

LEMMA LookupType ==
  ASSUME SliceInv, NEW p \in Lookups
  PROVE  /\ p \in Clients /\ cursor[p].array \in 1..Len(heap) /\ cursor[p].len \in Nat
         /\ cursor[p].pos \in Nat \ {0} /\ Len(heap[cursor[p].array]) \in Nat
         /\ heap[cursor[p].array] \in Seq(Slots)
<1>1. p \in Clients
  BY Roles
<1>2. cursor[p].array \in 1..Len(heap) /\ cursor[p].len \in Nat /\ cursor[p].pos \in Nat \ {0}
  BY <1>1 DEF SliceInv, Typed
<1>. QED BY <1>1, <1>2, ArrayType DEF SliceInv

(* The offering stays where it is, in the list and for the reader. *)
LEMMA AheadStays ==
  ASSUME NEW p \in Lookups, NEW k, Ahead(p, k),
         at'[p] = at[p], cursor'[p] = cursor[p], Item(k)' = Item(k),
         Len(heap'[cursor[p].array]) = Len(heap[cursor[p].array]),
         k <= Len(heap[cursor[p].array]) => heap'[cursor[p].array][k] = heap[cursor[p].array][k]
  PROVE  Ahead(p, k)'
<1>1. Item(k)'.id = Wanted[p]
  BY DEF Ahead, Item
<1>. QED BY <1>1 DEF Ahead, Item

(* The part of StillAhead that is about one lookup. *)
AheadOf(p) ==
  /\ at[p] \in {"scanArray", "scanLen", "scan"} /\ Wanted[p] \in listedAt[p] =>
       \E k \in 1..StayLen : Ahead(p, k)
  /\ at[p] \in {"blueprint", "done"} /\ found[p] = NoEntry => Wanted[p] \notin listedAt[p]

(* The step of a writer, seen by a lookup. *)
LEMMA AheadWriter ==
  ASSUME SliceInv, NEW p \in Lookups, AheadOf(p), NEW r \in Clients, UNCHANGED nameOf,
         AppendEntry(r) \/ RemoveEntry(r) \/ Publish(r) \/ Lock(r) \/ WriteBlueprint(r)
  PROVE  AheadOf(p)'
<1>. Typed /\ Guarded
  BY DEF SliceInv
<1>0. /\ p \in Clients /\ cursor[p].array \in 1..Len(heap) /\ Len(heap[cursor[p].array]) \in Nat
      /\ StayLen \in Nat /\ header.len \in Nat /\ StayLen <= header.len
  BY LookupType, StayPart
<1>1. r # p
  BY DEF AppendEntry, RemoveEntry, Publish, Lock, WriteBlueprint, Guarded
<1>2. at'[p] = at[p] /\ found'[p] = found[p]
  BY <1>0, <1>1, OthersWait DEF CatalogStep
<1>3. cursor' = cursor
  BY DEF AppendEntry, RemoveEntry, Publish, Lock, WriteBlueprint, readVars
<1>4. CASE RemoveEntry(r)
  <2>1. CASE \E i \in 1..StayLen : OneLess(i) /\ FirstNamed(r, i) /\ Shifted(i, heap')
                                  /\ listedAt' = [l \in Lookups |-> listedAt[l] \ ListedFrom(i)]
    <3>1. PICK i \in 1..StayLen : OneLess(i) /\ FirstNamed(r, i) /\ Shifted(i, heap')
                                  /\ listedAt' = [l \in Lookups |-> listedAt[l] \ ListedFrom(i)]
      BY <2>1
    <3>2. listedAt'[p] = listedAt[p] \ ListedFrom(i)
      BY <3>1
    <3>3. ASSUME NEW k \in 1..StayLen, Ahead(p, k), Wanted[p] \notin ListedFrom(i)
          PROVE  k \in 1..StayLen' /\ Ahead(p, k)'
      <4>1. k < i
        <5>1. SUFFICES ASSUME k >= i PROVE FALSE
          BY <1>0
        <5>2. k \in i..header.len
          BY <1>0, <5>1
        <5>. QED BY <3>3, <5>2 DEF ListedFrom, Ahead
      <4>2. k \in 1..StayLen' /\ Item(k)' = Item(k)
        BY <1>0, <3>1, <4>1 DEF OneLess
      <4>3. /\ Len(heap'[cursor[p].array]) = Len(heap[cursor[p].array])
            /\ k <= Len(heap[cursor[p].array]) => heap'[cursor[p].array][k] = heap[cursor[p].array][k]
        <5>1. CASE cursor[p].array # header.array BY <1>0, <3>1, <5>1 DEF Shifted
        <5>2. CASE cursor[p].array = header.array
          <6>1. header'.array = header.array
            BY <1>4, RemoveCases
          <6>. QED BY <1>0, <3>1, <4>2, <5>2, <6>1 DEF Shifted, Item
        <5>. QED BY <5>1, <5>2
      <4>. QED BY <1>2, <1>3, <3>3, <4>2, <4>3, AheadStays
    <3>. QED BY <1>2, <3>2, <3>3 DEF AheadOf
  <2>2. CASE SameList /\ UNCHANGED <<heap, listedAt>>
    <3>1. \A k \in 1..StayLen : Ahead(p, k) => Ahead(p, k)'
      BY <1>2, <1>3, <2>2, AheadStays DEF SameList
    <3>. QED BY <1>2, <2>2, <3>1 DEF AheadOf, SameList
  <2>3. \/ \E i \in 1..StayLen : OneLess(i) /\ FirstNamed(r, i) /\ Shifted(i, heap')
                                  /\ listedAt' = [l \in Lookups |-> listedAt[l] \ ListedFrom(i)]
        \/ SameList /\ UNCHANGED <<heap, listedAt>>
    <3>1. StayLen = header.len
      BY <1>4, RemoveCases, StayPart, Roles DEF Critical
    <3>2. CASE at'[r] = "mapWrite"
      BY <1>4, <3>2, RemoveCases, RemoveList
    <3>3. CASE at'[r] = "publish"
      <4>1. PICK i \in 1..StayLen : FirstNamed(r, i) /\ OneLess(i)
                                    /\ listedAt' = [l \in Lookups |-> listedAt[l] \ ListedFrom(i)]
        BY <1>4, <3>3, RemoveList
      <4>2. PICK j \in 1..StayLen : FirstNamed(r, j) /\ Shifted(j, heap')
        BY <1>4, <3>1, <3>3, RemoveCases
      <4>3. i = j
        <5>1. ~(i < j) /\ ~(j < i)
          BY <1>0, <4>1, <4>2 DEF FirstNamed
        <5>. QED BY <1>0, <5>1
      <4>. QED BY <4>1, <4>2, <4>3
    <3>. QED BY <1>4, <3>2, <3>3, RemoveCases
  <2>. QED BY <2>1, <2>2, <2>3
<1>5. CASE AppendEntry(r)
  <2>1. listedAt' = listedAt /\ SameList /\ r \in Creates
    BY <1>5, AppendList DEF AppendEntry, readVars, Guarded
  <2>2. /\ Len(heap'[cursor[p].array]) = Len(heap[cursor[p].array])
        /\ \A i \in 1..Len(heap[cursor[p].array]) :
             heap'[cursor[p].array][i] = heap[cursor[p].array][i] \/ i > header.len
    BY <1>0, <1>5, <2>1, AppendEffect
  <2>3. ASSUME NEW k \in 1..StayLen, Ahead(p, k) PROVE Ahead(p, k)'
    <3>1. k <= Len(heap[cursor[p].array]) => heap'[cursor[p].array][k] = heap[cursor[p].array][k]
      BY <1>0, <2>2
    <3>2. Item(k)' = Item(k)
      BY <2>1 DEF SameList
    <3>. QED BY <1>2, <1>3, <2>2, <2>3, <3>1, <3>2, AheadStays
  <2>. QED BY <1>2, <2>1, <2>3 DEF AheadOf, SameList
<1>6. CASE Publish(r) \/ Lock(r) \/ WriteBlueprint(r)
  <2>1. UNCHANGED <<heap, listedAt>>
    BY <1>6 DEF Publish, Lock, WriteBlueprint, readVars, sliceVars
  <2>2. \A k \in 1..StayLen : k \in 1..StayLen' /\ Item(k)' = Item(k)
    <3>1. CASE SameList BY <3>1 DEF SameList
    <3>2. ASSUME NEW e, OneMore(e) PROVE \A k \in 1..StayLen : k \in 1..StayLen' /\ Item(k)' = Item(k)
      BY <1>0, <3>2 DEF OneMore
    <3>. QED BY <1>6, <3>1, <3>2, PublishList, LockList
  <2>3. \A k \in 1..StayLen : Ahead(p, k) => Ahead(p, k)'
    BY <1>2, <1>3, <2>1, <2>2, AheadStays
  <2>. QED BY <1>2, <2>1, <2>2, <2>3 DEF AheadOf
<1>. QED BY <1>4, <1>5, <1>6

(* Its own step. *)
LEMMA AheadReader ==
  ASSUME SliceInv, NEW p \in Lookups, AheadOf(p), QuietStep(p), UNCHANGED nameOf
  PROVE  AheadOf(p)'
<1>. Typed /\ Guarded
  BY DEF SliceInv
<1>0. /\ p \in Clients /\ p \notin Creates /\ p \notin Deletes
      /\ cursor[p].array \in 1..Len(heap) /\ cursor[p].len \in Nat
      /\ cursor[p].pos \in Nat \ {0} /\ Len(heap[cursor[p].array]) \in Nat
      /\ StayLen \in Nat /\ header.len \in Nat /\ StayLen <= header.len
      /\ at \in [Clients -> CatalogLabels] /\ found \in [Clients -> Slots]
      /\ cursor \in [Clients -> [array : 1..Len(heap), len : Nat, pos : Nat \ {0}]]
      /\ listedAt \in [Lookups -> SUBSET (Ids \cup {""})]
      /\ at[p] \in {"idle", "scanArray", "scanLen", "scan", "blueprint", "done"}
  BY LookupType, StayPart, Roles DEF Typed, Guarded
<1>n. /\ StayLen \in Nat /\ header.len \in Nat /\ StayLen <= header.len
      /\ cursor[p].len \in Nat /\ cursor[p].pos \in Nat /\ Len(heap[cursor[p].array]) \in Nat
  BY <1>0
<1>1. SameList /\ UNCHANGED <<heap, header>>
  BY <1>0, QuietList, QuietFrame
<1>2. \A k \in 1..StayLen : k \in 1..StayLen' /\ Item(k)' = Item(k)
  BY <1>1 DEF SameList
<1>3. CASE Start(p)
  <2>1. at' = [at EXCEPT ![p] = "scanArray"] /\ listedAt' = [listedAt EXCEPT ![p] = Staying]
    BY <1>3 DEF Start, Jump
  <2>2. at'[p] = "scanArray" /\ listedAt'[p] = Staying
    BY <1>0, <2>1
  <2>3. Staying = {Item(k).id : k \in 1..StayLen}
    <3>1. CASE \E d \in Deletes : at[d] = "publish"
      <4>1. StayLen = next.len
        BY <3>1, StayPart
      <4>2. {j \in 1..header.len : (\E d \in Deletes : at[d] = "publish") => j <= next.len} = 1..StayLen
        BY <1>n, <3>1, <4>1
      <4>. QED BY <4>2 DEF Staying, Item
    <3>2. CASE ~\E d \in Deletes : at[d] = "publish"
      <4>1. StayLen = header.len
        BY <3>2, StayPart
      <4>2. {j \in 1..header.len : (\E d \in Deletes : at[d] = "publish") => j <= next.len} = 1..StayLen
        BY <3>2, <4>1
      <4>. QED BY <4>2 DEF Staying, Item
    <3>. QED BY <3>1, <3>2
  <2>4. \A k \in 1..StayLen : Item(k).id = Wanted[p] => Ahead(p, k)'
    BY <1>2, <2>2 DEF Ahead, Item
  <2>. QED BY <1>2, <2>2, <2>3, <2>4 DEF AheadOf
<1>4. CASE CopyArray(p)
  <2>1. at[p] = "scanArray" /\ at'[p] = "scanLen" /\ listedAt' = listedAt
    BY <1>0, <1>4 DEF CopyArray, Jump
  <2>2. cursor'[p].array = header.array
    BY <1>0, <2>1, QuietCursor
  <2>3. header.len <= Len(heap[header.array]) /\ Len(heap[header.array]) \in Nat
    BY HeaderType, ArrayType
  <2>4. \A k \in 1..StayLen : k <= Len(heap[header.array])
    BY <1>n, <2>3
  <2>5. \A k \in 1..StayLen : Ahead(p, k) => Ahead(p, k)'
    BY <1>1, <1>2, <2>1, <2>2, <2>4 DEF Ahead, Item
  <2>. QED BY <1>2, <2>1, <2>5 DEF AheadOf
<1>5. CASE CopyLength(p)
  <2>1. at[p] = "scanLen" /\ at'[p] = "scan" /\ listedAt' = listedAt
    BY <1>0, <1>5 DEF CopyLength, Jump
  <2>2. cursor'[p].array = cursor[p].array /\ cursor'[p].len = header.len /\ cursor'[p].pos = 1
    BY <1>0, <2>1, QuietCursor
  <2>3. \A k \in 1..StayLen : 1 <= k /\ k <= header.len
    BY <1>n
  <2>4. \A k \in 1..StayLen : Ahead(p, k) => Ahead(p, k)'
    BY <1>1, <1>2, <2>1, <2>2, <2>3 DEF Ahead, Item
  <2>. QED BY <1>2, <2>1, <2>4 DEF AheadOf
<1>6. CASE ScanEntry(p)
  <2>. DEFINE array == heap[cursor[p].array]
  <2>0. /\ at[p] = "scan" /\ listedAt' = listedAt
        /\ \/ /\ cursor[p].pos <= Len(array) /\ Matches(p, array[cursor[p].pos])
              /\ found' = [found EXCEPT ![p] = array[cursor[p].pos]]
              /\ at' = [at EXCEPT ![p] = "blueprint"]
           \/ /\ cursor[p].pos > Len(array) \/ ~Matches(p, array[cursor[p].pos])
              /\ UNCHANGED <<at, found>>
              /\ cursor' = cursor \/ cursor' = [cursor EXCEPT ![p].pos = cursor[p].pos + 1]
    BY <1>0, <1>6 DEF ScanEntry, AfterHit, Jump
  <2>1. CASE /\ Matches(p, array[cursor[p].pos])
             /\ found' = [found EXCEPT ![p] = array[cursor[p].pos]]
             /\ at' = [at EXCEPT ![p] = "blueprint"]
    <3>1. found'[p].id = Wanted[p] /\ at'[p] = "blueprint"
      BY <1>0, <2>1 DEF Matches
    <3>2. Wanted[p] # "" /\ NoEntry.id = ""
      BY CatalogBounds DEF NoEntry, Entry
    <3>. QED BY <3>1, <3>2 DEF AheadOf
  <2>2. CASE /\ cursor[p].pos > Len(array) \/ ~Matches(p, array[cursor[p].pos])
             /\ UNCHANGED <<at, found>>
             /\ cursor' = cursor \/ cursor' = [cursor EXCEPT ![p].pos = cursor[p].pos + 1]
    <3>1. /\ cursor'[p].array = cursor[p].array /\ cursor'[p].len = cursor[p].len
          /\ cursor'[p].pos \in {cursor[p].pos, cursor[p].pos + 1}
      <4>1. cursor[p] \in [array : 1..Len(heap), len : Nat, pos : Nat \ {0}] /\ p \in DOMAIN cursor
        BY <1>0
      <4>2. CASE cursor' = cursor BY <4>2
      <4>3. CASE cursor' = [cursor EXCEPT ![p].pos = cursor[p].pos + 1]
        <5>1. cursor'[p] = [cursor[p] EXCEPT !.pos = cursor[p].pos + 1]
          BY <4>1, <4>3
        <5>. QED BY <4>1, <5>1
      <4>. QED BY <2>2, <4>2, <4>3
    <3>2. ASSUME NEW k \in 1..StayLen, Ahead(p, k) PROVE Ahead(p, k)'
      <4>1. /\ k <= Len(array) /\ array[k].id = Wanted[p] /\ cursor[p].pos <= k /\ k <= cursor[p].len
            /\ Item(k).id = Wanted[p]
        BY <2>0, <3>2 DEF Ahead, Item
      <4>2. k # cursor[p].pos
        <5>1. SUFFICES ASSUME k = cursor[p].pos PROVE FALSE
          OBVIOUS
        <5>2. ~Matches(p, array[k]) /\ array[k].id = Wanted[p]
          BY <1>n, <2>2, <4>1, <5>1
        <5>. QED BY <5>2 DEF Matches
      <4>3. cursor'[p].pos <= k /\ k <= cursor'[p].len
        BY <1>n, <3>1, <4>1, <4>2
      <4>4. Item(k)'.id = Wanted[p]
        BY <1>2, <4>1
      <4>. QED BY <1>1, <3>1, <4>1, <4>3, <4>4 DEF Ahead, Item
    <3>. QED BY <1>2, <2>0, <2>2, <3>2 DEF AheadOf
  <2>. QED BY <2>0, <2>1, <2>2
<1>7. CASE ScanEnd(p)
  <2>1. at[p] = "scan" /\ cursor[p].pos > cursor[p].len /\ at'[p] = "done" /\ listedAt' = listedAt
    BY <1>0, <1>7 DEF ScanEnd, AfterMiss, Answer, Jump, readVars
  <2>2. \A k \in 1..StayLen : ~Ahead(p, k)
    BY <1>n, <2>1 DEF Ahead
  <2>. QED BY <2>1, <2>2 DEF AheadOf
<1>8. CASE MapRace(p) \/ GetKubernetesBlueprint(p)
  <2>1. /\ at[p] \in {"blueprint", "create"} /\ UNCHANGED <<found, listedAt>>
        /\ at'[p] \in {at[p], "done"}
    BY <1>0, <1>8 DEF MapRace, GetKubernetesBlueprint, Answer, Jump, readVars
  <2>. QED BY <1>0, <2>1 DEF AheadOf
<1>. QED BY <1>0, <1>3, <1>4, <1>5, <1>6, <1>7, <1>8 DEF QuietStep, ReaderStep,
         CreateDynamicService, UpdateServiceBroker

LEMMA AheadStep ==
  ASSUME SliceInv, StillAhead, [Next]_catalogVars
  PROVE  StillAhead'
<1>0. SUFFICES ASSUME NEW p \in Lookups PROVE AheadOf(p)'
  BY DEF StillAhead, AheadOf
<1>1. AheadOf(p)
  BY DEF StillAhead, AheadOf
<1>2. CASE UNCHANGED catalogVars
  <2>1. UNCHANGED <<at, heap, header, next, cursor, found, listedAt>>
    BY <1>2 DEF catalogVars, sliceVars, readVars
  <2>2. StayLen' = StayLen
    BY <2>1 DEF StayLen
  <2>3. \A k : Ahead(p, k)' <=> Ahead(p, k)
    BY <2>1 DEF Ahead
  <2>. QED BY <1>1, <2>1, <2>2, <2>3 DEF AheadOf
<1>3. CASE Next
  <2>0. nameOf' = nameOf
    BY <1>3, NextCases
  <2>1. PICK r \in Clients : CatalogStep(r)
    BY <1>3, NextCases DEF CatalogStep
  <2>2. CASE ~QuietStep(r)
    BY <1>1, <2>0, <2>1, <2>2, AheadWriter DEF CatalogStep
  <2>3. CASE QuietStep(r) /\ r = p
    BY <1>1, <2>0, <2>3, AheadReader
  <2>4. CASE QuietStep(r) /\ r # p
    <3>1. /\ UNCHANGED <<heap, header>> /\ at'[p] = at[p] /\ cursor'[p] = cursor[p]
          /\ found'[p] = found[p] /\ listedAt'[p] = listedAt[p] /\ SameList
      BY <2>4, QuietFrame, QuietList, Roles DEF SliceInv
    <3>2. \A k \in 1..StayLen : Ahead(p, k) => Ahead(p, k)'
      BY <3>1, AheadStays DEF SameList
    <3>. QED BY <1>1, <3>1, <3>2 DEF AheadOf, SameList
  <2>. QED BY <2>2, <2>3, <2>4
<1>. QED BY <1>2, <1>3

LEMMA AheadInit ==
  ASSUME Init
  PROVE  StillAhead
<1>1. \A p \in Lookups : at[p] = "idle"
  BY Roles DEF Init
<1>. QED BY <1>1 DEF StillAhead

(* A lookup misses only what was not listed when it began, or was removed  *)
(* or moved to the front since: creations, growing arrays and headers that *)
(* are copied in two halves never hide an offering, although readers take  *)
(* no lock.                                                                *)
THEOREM LookupFindsListed == Spec => []ListedIsFound
<1>1. ASSUME StillAhead PROVE ListedIsFound
  BY <1>1 DEF StillAhead, ListedIsFound
<1>. QED BY <1>1, SliceWellFormed, AheadInit, AheadStep, PTL DEF Spec
=============================================================================
