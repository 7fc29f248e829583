------------------------------- MODULE Catalog -------------------------------
(***************************************************************************)
(* catalog/servicescatalog.go and catalog/dynamic_catalog.go with the      *)
(* handlers of app/tap that use them: the list of service offerings, to    *)
(* which dynamic services are added and from which they are removed while  *)
(* other requests search it.                                               *)
(*                                                                         *)
(* The list is a Go slice: a header that names a backing array and a       *)
(* length.  Writers hold catalog_mutex; readers hold nothing.  A reader    *)
(* copies the header (two words, which a writer may change in between) and *)
(* then reads the entries one by one from an array that a removal shifts   *)
(* in place.  The blueprints of dynamic services are a Go map that is      *)
(* written under the mutex and read without it.                            *)
(***************************************************************************)
EXTENDS Naturals, Sequences, FiniteSets

CONSTANTS
  Builtin,    \* the offerings read from catalogData, a sequence of names
  Slack,      \* free slots at the end of the first backing array
  Creates,    \* PUT /v2/dynamicservice requests
  Deletes,    \* DELETE /v2/dynamicservice requests
  Lookups,    \* requests that search an offering by its id
  Namings,    \* the assignments of service names to the create and delete requests
  Wanted,     \* the id a lookup is about
  MayFail     \* whether parsing, reading the template or updating Cloud Foundry may fail

Free == "nobody"

(* In place of a name: the request is not sent. *)
NotSent == "not sent"

Clients == Creates \cup Deletes \cup Lookups

BuiltinIds == {Builtin[i] : i \in 1..Len(Builtin)}

(* The id of a dynamic service is a fresh UUID: the request that makes it. *)
Ids == BuiltinIds \cup Creates

ASSUME RequestsDistinct ==
  /\ Creates \cap Deletes = {} /\ Creates \cap Lookups = {} /\ Deletes \cap Lookups = {}
  /\ BuiltinIds \cap Clients = {}
  /\ Free \notin Clients

ASSUME CatalogBounds ==
  /\ Builtin \in Seq(BuiltinIds) /\ Len(Builtin) > 0
  /\ Slack \in Nat
  /\ \A f \in Namings : DOMAIN f = Creates \cup Deletes
  /\ Wanted \in [Lookups -> Ids]
  /\ MayFail \in BOOLEAN
  /\ "" \notin Ids

VARIABLES
  nameOf,      \* the service name in the body of a create or a delete request
  at,          \* where a request is
  heap,        \* the backing arrays, oldest first
  header,      \* GLOBAL_SERVICES_METADATA.Services: array and length
  blueprints,  \* the ids in TEMP_DYNAMIC_BLUEPRINTS
  lock,        \* the holder of catalog_mutex
  cursor,      \* a reader's copy of the header and its position
  found,       \* the entry a reader's search returned
  next,        \* the header a writer is about to store
  answer,      \* the status a request was answered with
  listedAt,    \* history: the offerings listed when a lookup began, and not moved since
  crashed      \* the process was ended by the Go runtime

sliceVars == <<heap, header, next>>
readVars == <<cursor, found, listedAt>>
catalogVars == <<nameOf, at, sliceVars, blueprints, lock, readVars, answer, crashed>>

Entry(id, name) == [id |-> id, name |-> name]

(* The zero value that fills the free slots of an array. *)
NoEntry == Entry("", "")

NoCursor == [array |-> 1, len |-> 0, pos |-> 1]

Init ==
  LET first == [i \in 1..(Len(Builtin) + Slack) |->
                  IF i <= Len(Builtin) THEN Entry(Builtin[i], Builtin[i]) ELSE NoEntry]
  IN /\ nameOf \in Namings
     /\ at = [p \in Clients |-> "idle"]
     /\ heap = <<first>>
     /\ header = [array |-> 1, len |-> Len(Builtin)]
     /\ blueprints = {}
     /\ lock = Free
     /\ cursor = [p \in Clients |-> NoCursor]
     /\ found = [p \in Clients |-> NoEntry]
     /\ next = header
     /\ answer = [p \in Clients |-> "none"]
     /\ listedAt = [p \in Lookups |-> {}]
     /\ crashed = FALSE

(* The entries of the list, and their ids. *)
Entries == {heap[header.array][i] : i \in 1..header.len}
Listed == {e.id : e \in Entries}

(* Those that stay when the removal under way, if any, is done. *)
Staying ==
  LET removing == \E d \in Deletes : at[d] = "publish"
  IN {heap[header.array][i].id : i \in {j \in 1..header.len : removing => j <= next.len}}

(* The ids from a position of the list on. *)
ListedFrom(i) == {heap[header.array][j].id : j \in i..header.len}

Jump(p, label) == at' = [at EXCEPT ![p] = label]

Answer(p, status) ==
  /\ answer' = [answer EXCEPT ![p] = status]
  /\ Jump(p, "done")

-----------------------------------------------------------------------------
(* The search, by id or by name, through GetAvailableServicesMetadata *)

(* A request arrives; the body of a create or delete request may not parse. *)
Start(p) ==
  /\ at[p] = "idle"
  /\ \/ /\ listedAt' = IF p \in Lookups THEN [listedAt EXCEPT ![p] = Staying] ELSE listedAt
        /\ Jump(p, "scanArray")
        /\ UNCHANGED answer
     \/ MayFail /\ p \notin Lookups /\ Answer(p, "500") /\ UNCHANGED listedAt
  /\ UNCHANGED <<sliceVars, blueprints, lock, cursor, found, crashed>>

(* The copy of the header: the word that names the array ... *)
CopyArray(p) ==
  /\ at[p] = "scanArray"
  /\ cursor' = [cursor EXCEPT ![p].array = header.array]
  /\ Jump(p, "scanLen")
  /\ UNCHANGED <<sliceVars, blueprints, lock, found, answer, listedAt, crashed>>

(* Mutant of CopyLength: the length is read as the last index. *)
CopyLengthShort(p) ==
  /\ at[p] = "scanLen"
  /\ cursor' = [cursor EXCEPT ![p].len = header.len - 1, ![p].pos = 1]
  /\ Jump(p, "scan")
  /\ UNCHANGED <<sliceVars, blueprints, lock, found, answer, listedAt, crashed>>

(* Mutant of CopyLength: the loop runs one entry too far. *)
CopyLengthLong(p) ==
  /\ at[p] = "scanLen"
  /\ cursor' = [cursor EXCEPT ![p].len = header.len + 1, ![p].pos = 1]
  /\ Jump(p, "scan")
  /\ UNCHANGED <<sliceVars, blueprints, lock, found, answer, listedAt, crashed>>

(* ... and the length. *)
CopyLength(p) ==
  /\ at[p] = "scanLen"
  /\ cursor' = [cursor EXCEPT ![p].len = header.len, ![p].pos = 1]
  /\ Jump(p, "scan")
  /\ UNCHANGED <<sliceVars, blueprints, lock, found, answer, listedAt, crashed>>

Matches(p, e) == IF p \in Lookups THEN e.id = Wanted[p] ELSE e.name = nameOf[p]

(* What the handler does with the result: CheckIfServiceAlreadyExist,      *)
(* GetServiceByName and GetServiceMetadataByServiceId in this order.       *)
AfterHit(p) ==
  IF p \in Creates THEN Answer(p, "500")
  ELSE UNCHANGED answer /\ Jump(p, IF p \in Deletes THEN "lock" ELSE "blueprint")

AfterMiss(p) ==
  IF p \in Creates THEN UNCHANGED answer /\ Jump(p, "create")
  ELSE Answer(p, IF p \in Deletes THEN "410" ELSE "500")

(* One round of the loop.  A length that is newer than the array leads     *)
(* beyond its end: the process is ended or reads what matches nothing.     *)
ScanEntry(p) ==
  LET c == cursor[p]
      array == heap[c.array]
      Skip == /\ cursor' = [cursor EXCEPT ![p].pos = c.pos + 1]
              /\ UNCHANGED <<at, answer, found, crashed>>
  IN /\ at[p] = "scan"
     /\ c.pos <= c.len
     /\ \/ /\ c.pos <= Len(array) /\ Matches(p, array[c.pos])
           /\ found' = [found EXCEPT ![p] = array[c.pos]]
           /\ AfterHit(p)
           /\ UNCHANGED <<cursor, crashed>>
        \/ c.pos <= Len(array) /\ ~Matches(p, array[c.pos]) /\ Skip
        \/ c.pos > Len(array) /\ Skip
        \/ /\ c.pos > Len(array)
           /\ crashed' = TRUE
           /\ UNCHANGED <<at, answer, found, cursor>>
     /\ UNCHANGED <<sliceVars, blueprints, lock, listedAt>>

ScanEnd(p) ==
  /\ at[p] = "scan"
  /\ cursor[p].pos > cursor[p].len
  /\ AfterMiss(p)
  /\ UNCHANGED <<sliceVars, blueprints, lock, readVars, crashed>>

-----------------------------------------------------------------------------
(* GetKubernetesBlueprint and CreateDynamicService: reading the map *)

(* The runtime ends a process that reads a map while it is written. *)
MapWriteInProgress == \E q \in Clients : at[q] = "mapWrite"

MapRace(p) ==
  /\ at[p] \in {"blueprint", "create"}
  /\ MapWriteInProgress
  /\ crashed' = TRUE
  /\ UNCHANGED <<at, sliceVars, blueprints, lock, readVars, answer>>

(* A blueprint comes from the map or, for a builtin offering, from files. *)
GetKubernetesBlueprint(p) ==
  /\ at[p] = "blueprint"
  /\ Answer(p, IF found[p].id \in blueprints \cup BuiltinIds THEN "200" ELSE "500")
  /\ UNCHANGED <<sliceVars, blueprints, lock, readVars, crashed>>

(* The metadata and the blueprint of a new service are made up. *)
CreateDynamicService(p) ==
  /\ at[p] = "create"
  /\ \/ Jump(p, "lock") /\ UNCHANGED answer
     \/ MayFail /\ Answer(p, "500")
  /\ UNCHANGED <<sliceVars, blueprints, lock, readVars, crashed>>

-----------------------------------------------------------------------------
(* RegisterOfferingInCatalog and UnregisterOfferingFromCatalog *)

(* Mutant of Lock: nobody waits. *)
LockIgnored(p) ==
  /\ at[p] = "lock"
  /\ lock' = p
  /\ Jump(p, IF p \in Creates THEN "append" ELSE "remove")
  /\ UNCHANGED <<sliceVars, blueprints, readVars, answer, crashed>>

Lock(p) ==
  /\ at[p] = "lock"
  /\ lock = Free
  /\ lock' = p
  /\ Jump(p, IF p \in Creates THEN "append" ELSE "remove")
  /\ UNCHANGED <<sliceVars, blueprints, readVars, answer, crashed>>

(* append(Services, service): into the free slot behind the entries, or    *)
(* into a copy of twice the size when there is none.                       *)
AppendEntry(p) ==
  LET n == header.len
      array == heap[header.array]
      e == Entry(p, nameOf[p])
  IN /\ at[p] = "append"
     /\ IF n < Len(array)
        THEN /\ heap' = [heap EXCEPT ![header.array][n + 1] = e]
             /\ next' = [array |-> header.array, len |-> n + 1]
        ELSE /\ heap' = Append(heap, [i \in 1..(2 * n) |->
                          IF i <= n THEN array[i] ELSE IF i = n + 1 THEN e ELSE NoEntry])
             /\ next' = [array |-> Len(heap) + 1, len |-> n + 1]
     /\ Jump(p, "publish")
     /\ UNCHANGED <<header, blueprints, lock, readVars, answer, crashed>>

(* The first entry with the name of the service that p's search returned. *)
FirstNamed(p, i) ==
  LET array == heap[header.array] IN
  /\ i \in 1..header.len
  /\ array[i].name = found[p].name
  /\ \A j \in 1..(i - 1) : array[j].name # found[p].name

(* Mutant of RemoveEntry: the function returns once the entry is removed,  *)
(* without unlocking.                                                      *)
RemoveEntryReturns(p) ==
  /\ at[p] = "remove"
  /\ \E i \in 1..header.len :
       /\ FirstNamed(p, i)
       /\ header' = [header EXCEPT !.len = @ - 1]
  /\ Answer(p, "204")
  /\ UNCHANGED <<heap, next, blueprints, lock, readVars, crashed>>

(* The entries behind the removed one move one slot to the front. *)
RemoveEntry(p) ==
  /\ at[p] = "remove"
  /\ \/ \E i \in 1..header.len :
          /\ FirstNamed(p, i)
          /\ heap' = [heap EXCEPT ![header.array] =
                        [j \in DOMAIN @ |-> IF j \in i..(header.len - 1) THEN @[j + 1] ELSE @[j]]]
          /\ next' = [header EXCEPT !.len = @ - 1]
          /\ listedAt' = [l \in Lookups |-> listedAt[l] \ ListedFrom(i)]
          /\ Jump(p, "publish")
     \/ /\ \A i \in 1..header.len : ~FirstNamed(p, i)
        /\ Jump(p, "mapWrite")
        /\ UNCHANGED <<heap, next, listedAt>>
  /\ UNCHANGED <<header, blueprints, lock, cursor, found, answer, crashed>>

(* The header is stored. *)
Publish(p) ==
  /\ at[p] = "publish"
  /\ header' = next
  /\ Jump(p, "mapWrite")
  /\ UNCHANGED <<heap, next, blueprints, lock, readVars, answer, crashed>>

(* Mutant of WriteBlueprint: the blueprint of a removed service stays. *)
WriteBlueprintOnlyAdds(p) ==
  /\ at[p] = "mapWrite"
  /\ blueprints' = IF p \in Creates THEN blueprints \cup {p} ELSE blueprints
  /\ lock' = Free
  /\ Jump(p, "update")
  /\ UNCHANGED <<sliceVars, readVars, answer, crashed>>

(* The map is written and the mutex released. *)
WriteBlueprint(p) ==
  /\ at[p] = "mapWrite"
  /\ blueprints' = IF p \in Creates THEN blueprints \cup {p} ELSE blueprints \ {found[p].id}
  /\ lock' = Free
  /\ Jump(p, "update")
  /\ UNCHANGED <<sliceVars, readVars, answer, crashed>>

(* Cloud Foundry is asked to read the catalog again; if that fails the     *)
(* request fails, but what it registered or removed stays so.              *)
UpdateServiceBroker(p) ==
  /\ at[p] = "update"
  /\ \/ Answer(p, IF p \in Creates THEN "201" ELSE "204")
     \/ MayFail /\ Answer(p, "500")
  /\ UNCHANGED <<sliceVars, blueprints, lock, readVars, crashed>>

-----------------------------------------------------------------------------
ReaderStep(p) ==
  \/ CopyArray(p) \/ CopyLength(p) \/ ScanEntry(p) \/ ScanEnd(p)
  \/ MapRace(p) \/ GetKubernetesBlueprint(p) \/ CreateDynamicService(p)

WriterStep(p) ==
  Lock(p) \/ AppendEntry(p) \/ RemoveEntry(p) \/ Publish(p) \/ WriteBlueprint(p)
    \/ UpdateServiceBroker(p)

Step(p) == ~crashed /\ (ReaderStep(p) \/ WriterStep(p)) /\ UNCHANGED nameOf

Arrive(p) ==
  /\ ~crashed
  /\ p \notin Lookups => nameOf[p] # NotSent
  /\ Start(p)
  /\ UNCHANGED nameOf

Next == \E p \in Clients : Arrive(p) \/ Step(p)

Spec == Init /\ [][Next]_catalogVars

(* The handler of a request that arrived keeps running. *)
FairSpec == Spec /\ \A p \in Clients : WF_catalogVars(Step(p))

-----------------------------------------------------------------------------
(* A delete request may have taken an entry with this name off the list. *)
MayBeRemoved(name) ==
  \E d \in Deletes : nameOf[d] = name /\ at[d] \in {"remove", "publish", "mapWrite", "update", "done"}

(* What was on the list, or was answered with 201, is on the list unless a *)
(* delete request for its name came: no update of the list is lost,        *)
(* however writers interleave.                                             *)
NoLostOffering ==
  /\ \A b \in BuiltinIds : ~MayBeRemoved(b) => b \in Listed
  /\ \A c \in Creates : answer[c] = "201" /\ ~MayBeRemoved(nameOf[c]) => c \in Listed

(* No two dynamic services ask for the same name, nor for a builtin one. *)
DistinctNames ==
  \A c \in Creates : nameOf[c] \notin BuiltinIds /\ \A d \in Creates : nameOf[c] = nameOf[d] => c = d

(* Where names are distinct, whenever no update is under way exactly the   *)
(* dynamic services on the list have a blueprint.                          *)
BlueprintsMatchList ==
  DistinctNames /\ lock = Free => Listed \cap Creates = blueprints

(* A lookup that is answered "No such service by ID" is about an offering  *)
(* that was not listed when it began, or was removed or moved to the front *)
(* since, by the removal of one before it: creations, growing arrays and   *)
(* headers that are copied in two halves never hide an offering.           *)
ListedIsFound ==
  \A p \in Lookups : at[p] = "done" /\ found[p] = NoEntry => Wanted[p] \notin listedAt[p]

(* A search runs beyond the end of its array only with a header that was   *)
(* torn by a growth, an outgrown array with a later length: as long as the *)
(* list is in the array that is searched, the array has all the slots the  *)
(* search is going to read, whatever was added or removed since.           *)
SearchInBounds ==
  \A p \in Clients :
    at[p] = "scan" /\ cursor[p].array = header.array => cursor[p].len <= Len(heap[header.array])

(* Every request is answered, unless the runtime ends the process. *)
Answered == \A p \in Clients : at[p] = "scanArray" ~> (at[p] = "done" \/ crashed)
=============================================================================
