--------------------------- MODULE TemplateProofs ---------------------------
(***************************************************************************)
(* The template repository keeps its templates, for any number of          *)
(* requests and templates, whatever fails and whenever the process ends.   *)
(***************************************************************************)
EXTENDS TemplateRepository, SequenceTheorems, TLAPS

LoadLabels == {"loadMake", "loadList"} \cup Loading

RepoLabels ==
  {"idle", "check", "save", "write", "remove", "lookup", "iterate", "read", "done"} \cup LoadLabels

RepoTyped ==
  /\ idOf \in Naming
  /\ at \in [Procs -> RepoLabels]
  /\ answer \in [Procs -> {"none", "200", "201", "409", "500", "lost"}]
  /\ DOMAIN files = Ids /\ \A i \in Ids : DOMAIN files[i] = Kinds \cup {Plan, "k8s"}
  /\ pos \in [Procs -> Nat \ {0}]
  /\ DOMAIN todo = Procs /\ DOMAIN cur = Procs /\ DOMAIN seen = Procs
  /\ maker \in Procs

(* Which requests come to which labels. *)
RepoRoles ==
  /\ \A p \in Procs :
       /\ at[p] \in {"check", "save", "write"} => p \in Creates
       /\ at[p] = "remove" => p \in Deletes
       /\ at[p] = "lookup" => p \in Gets
       /\ at[p] = "iterate" => p \in Lists
       /\ at[p] = "read" => p \in Gets \cup Lists
       /\ at[p] \in LoadLabels => p \notin Gets
  /\ \A r \in Requests :
       /\ answer[r] # "none" => at[r] = "done"
       /\ at[r] # "idle" => idOf[r] # None

Planned(i) == i \in dirs /\ HasPlan(i)

(* What makes NoLostTemplate inductive: the plan of a template is on the   *)
(* disk before it is loaded ...                                            *)
OnDisk ==
  \A c \in Creates : ~DeleteBegan(idOf[c]) =>
    /\ at[c] = "write" => idOf[c] \in dirs /\ (SavedFiles(c)[pos[c]] = Plan => HasPlan(idOf[c]))
    /\ at[c] \in LoadLabels \/ answer[c] = "201" => Planned(idOf[c])

Landed(c) == at[c] \in LoadLabels \ {"loadMake"} \/ answer[c] = "201"

(* ... and the load that made the map comes to every such template.        *)
MapCovers ==
  up => \A c \in Creates : Landed(c) /\ ~DeleteBegan(idOf[c]) =>
          /\ complete => idOf[c] \in templates
          /\ at[maker] \in Loading => idOf[c] \in todo[maker] \cup templates

(* What makes UnlistedOnceDeleted inductive: nothing of the template is on *)
(* the disk, nobody is about to write it there, no load has it yet to read *)
(* and the map that the deletion makes has it not.                         *)
Gone(d) ==
  /\ d \in Deletes /\ at[d] \in LoadLabels \cup {"done"}
  /\ \A c \in Creates : idOf[c] = idOf[d] => ~Saving(c)
  /\ idOf[d] \notin dirs
  /\ \A name \in DOMAIN files[idOf[d]] : files[idOf[d]][name] = None
  /\ \A p \in Procs :
       /\ at[p] \in Loading => idOf[d] \notin todo[p]
       /\ at[p] \in {"loadRead", "loadWrite"} => cur[p] # idOf[d]
  /\ at[d] \in LoadLabels \ {"loadMake"} \/ answer[d] = "200" => idOf[d] \notin templates

CleanIsGone == \A d \in clean : Gone(d)

RepoInv == RepoTyped /\ RepoRoles

(* What makes ServedIsWhole inductive, for a template that one request     *)
(* creates and that nobody deletes. *)
Made(c) == Sole(c) /\ ~DeleteBegan(idOf[c])

SavedKinds(c) == Body[c] \ {"statefulset"}

File(c, name) == files[idOf[c]][name]

(* Only the request that creates it writes its files, the plan last. *)
Written(c) ==
  /\ \A k \in Kinds \ SavedKinds(c) : File(c, k) = None
  /\ at[c] \in {"idle", "check", "save", "write"} => File(c, Plan) # c
  /\ File(c, Plan) \in {None, Torn, c}
  /\ at[c] \in {"idle", "check"} => pos[c] = 1
  /\ at[c] \in {"save", "write"} =>
       /\ pos[c] <= Len(SavedFiles(c))
       /\ \A n \in 1..(pos[c] - 1) :
            \/ File(c, SavedFiles(c)[n]) = c
            \/ at[c] = "write" /\ SavedFiles(c)[n] = SavedFiles(c)[pos[c]]
  /\ at[c] = "write" => File(c, SavedFiles(c)[pos[c]]) # None
  /\ File(c, Plan) = c => \A k \in SavedKinds(c) : File(c, k) = c

KindsIn(S, i) == {s.kind : s \in {t \in S : t.id = i}}

SeenKinds(p, i) == KindsIn(seen[p], i)

WholeOnDisk(c) == File(c, Plan) = c

(* Its id is in the map, in a load or at a reader only when it is whole,   *)
(* and a reader has seen the files it has come by.                         *)
ServedAt(c, p) ==
  LET i == idOf[c]
  IN /\ at[p] = "loadWrite" /\ cur[p] = i => WholeOnDisk(c)
     /\ at[p] \in {"iterate", "read"} /\ i \in todo[p] => WholeOnDisk(c) /\ SeenKinds(p, i) = {}
     /\ at[p] = "read" /\ cur[p] = i =>
          /\ WholeOnDisk(c) /\ i \notin todo[p]
          /\ SeenKinds(p, i) = SavedKinds(c) \cap {ReadOrder[n] : n \in 1..(pos[p] - 1)}
     /\ (at[p] = "read" /\ cur[p] # i) \/ at[p] = "iterate" \/ (p \in Lists /\ answer[p] = "200") =>
          SeenKinds(p, i) \in {{}, SavedKinds(c)}
     /\ p \in Gets /\ idOf[p] = i /\ answer[p] = "200" => SeenKinds(p, i) = SavedKinds(c)

(* How a reader starts. *)
ReaderAt(p) ==
  /\ at[p] \notin {"iterate", "read", "done"} \/ p = Boot => seen[p] = {}
  /\ at[p] \in {"idle", "lookup"} => pos[p] = 1 /\ todo[p] = {}
  /\ at[p] = "read" /\ p \in Gets => cur[p] = idOf[p]

Served(c) ==
  /\ idOf[c] \in templates => WholeOnDisk(c)
  /\ \A p \in Procs : ServedAt(c, p)

Readers == \A p \in Procs : ReaderAt(p)

WholeInv == \A c \in Creates : Made(c) => Written(c) /\ Served(c)

-----------------------------------------------------------------------------
(* The files of a template *)

Members(s) == {s[n] : n \in 1..Len(s)}

LEMMA ConcatMembers ==
  ASSUME NEW S, NEW s \in Seq(S), NEW t \in Seq(S)
  PROVE  s \o t \in Seq(S) /\ Members(s \o t) = Members(s) \cup Members(t)
<1>1. /\ s \o t \in Seq(S) /\ Len(s \o t) = Len(s) + Len(t) /\ Len(s) \in Nat /\ Len(t) \in Nat
      /\ \A n \in 1..(Len(s) + Len(t)) : (s \o t)[n] = IF n <= Len(s) THEN s[n] ELSE t[n - Len(s)]
  BY ConcatProperties, LenProperties
<1>2. \A n \in 1..Len(s) : n \in 1..(Len(s) + Len(t)) /\ n <= Len(s)
  BY <1>1
<1>3. \A n \in 1..Len(t) : /\ n + Len(s) \in 1..(Len(s) + Len(t)) /\ ~(n + Len(s) <= Len(s))
                           /\ (n + Len(s)) - Len(s) = n
  BY <1>1
<1>4. \A n \in 1..(Len(s) + Len(t)) : n \in 1..Len(s) \/ (~(n <= Len(s)) /\ n - Len(s) \in 1..Len(t))
  BY <1>1
<1>5. Members(s) \subseteq Members(s \o t)
  BY <1>1, <1>2 DEF Members
<1>6. Members(t) \subseteq Members(s \o t)
  <2>. SUFFICES ASSUME NEW n \in 1..Len(t) PROVE t[n] \in Members(s \o t)
    BY DEF Members
  <2>1. PICK m \in 1..(Len(s) + Len(t)) : ~(m <= Len(s)) /\ m - Len(s) = n
    BY <1>3
  <2>2. (s \o t)[m] = t[n]
    BY <1>1, <2>1
  <2>. QED BY <1>1, <2>2 DEF Members
<1>7. Members(s \o t) \subseteq Members(s) \cup Members(t)
  BY <1>1, <1>2, <1>4 DEF Members
<1>. QED BY <1>1, <1>5, <1>6, <1>7

LEMMA HavingMembers ==
  ASSUME NEW k \in ObjectKinds, NEW body
  PROVE  Having(k, body) \in Seq(ObjectKinds) /\ Members(Having(k, body)) = {k} \cap body
BY DEF Having, Members

(* The files of the objects, whatever they are. *)
LEMMA SavedMembers ==
  ASSUME NEW body \in SUBSET ObjectKinds
  PROVE  /\ SavedObjects(body) \in Seq(ObjectKinds)
         /\ Members(SavedObjects(body)) = body \ {"statefulset"}
<1>. DEFINE h(k) == Having(k, body)
            s2 == h("persistentvolumeclaim") \o h("deployment")
            s3 == s2 \o h("service")
            s4 == s3 \o h("account")
            s5 == s4 \o h("secret")
            s6 == s5 \o h("job")
<1>1. \A k \in ObjectKinds : h(k) \in Seq(ObjectKinds) /\ Members(h(k)) = {k} \cap body
  BY HavingMembers
<1>2. SavedObjects(body) = s6
  BY DEF SavedObjects
<1>. HIDE DEF h
<1>3. /\ h("persistentvolumeclaim") \in Seq(ObjectKinds) /\ h("deployment") \in Seq(ObjectKinds)
      /\ h("service") \in Seq(ObjectKinds) /\ h("account") \in Seq(ObjectKinds)
      /\ h("secret") \in Seq(ObjectKinds) /\ h("job") \in Seq(ObjectKinds)
      /\ Members(h("persistentvolumeclaim")) = {"persistentvolumeclaim"} \cap body
      /\ Members(h("deployment")) = {"deployment"} \cap body
      /\ Members(h("service")) = {"service"} \cap body
      /\ Members(h("account")) = {"account"} \cap body
      /\ Members(h("secret")) = {"secret"} \cap body
      /\ Members(h("job")) = {"job"} \cap body
  BY <1>1 DEF ObjectKinds
<1>4. s2 \in Seq(ObjectKinds) /\ Members(s2) = {"persistentvolumeclaim", "deployment"} \cap body
  BY <1>3, ConcatMembers
<1>. HIDE DEF s2
<1>5. s3 \in Seq(ObjectKinds) /\ Members(s3) = {"persistentvolumeclaim", "deployment", "service"} \cap body
  BY <1>3, <1>4, ConcatMembers
<1>. HIDE DEF s3
<1>6. /\ s4 \in Seq(ObjectKinds)
      /\ Members(s4) = {"persistentvolumeclaim", "deployment", "service", "account"} \cap body
  BY <1>3, <1>5, ConcatMembers
<1>. HIDE DEF s4
<1>7. /\ s5 \in Seq(ObjectKinds)
      /\ Members(s5) = {"persistentvolumeclaim", "deployment", "service", "account", "secret"} \cap body
  BY <1>3, <1>6, ConcatMembers
<1>. HIDE DEF s5
<1>8. /\ s6 \in Seq(ObjectKinds)
      /\ Members(s6) = {"persistentvolumeclaim", "deployment", "service", "account", "secret", "job"} \cap body
  BY <1>3, <1>7, ConcatMembers
<1>. HIDE DEF s6
<1>9. {"persistentvolumeclaim", "deployment", "service", "account", "secret", "job"} \cap body
        = body \ {"statefulset"}
  BY DEF ObjectKinds
<1>. QED BY <1>2, <1>8, <1>9

(* What a creation saves: its objects, and the plan after them. *)
LEMMA SavedNames ==
  ASSUME NEW c \in Creates
  PROVE  /\ Len(SavedFiles(c)) \in Nat \ {0}
         /\ \A n \in 1..Len(SavedFiles(c)) :
              /\ SavedFiles(c)[n] \in SavedKinds(c) \cup {Plan}
              /\ SavedFiles(c)[n] = Plan <=> n = Len(SavedFiles(c))
         /\ \A k \in SavedKinds(c) : \E n \in 1..(Len(SavedFiles(c)) - 1) : SavedFiles(c)[n] = k
<1>. DEFINE s == SavedObjects(Body[c])
<1>1. Body[c] \in SUBSET ObjectKinds
  BY RepositoryBounds
<1>2. s \in Seq(ObjectKinds) /\ Members(s) = SavedKinds(c)
  BY <1>1, SavedMembers DEF SavedKinds
<1>3. SavedFiles(c) = Append(s, Plan)
  BY DEF SavedFiles
<1>. HIDE DEF s
<1>4. /\ Len(s) \in Nat /\ Len(SavedFiles(c)) = Len(s) + 1
      /\ \A n \in 1..Len(s) : SavedFiles(c)[n] = s[n]
      /\ SavedFiles(c)[Len(s) + 1] = Plan
  <2>1. Len(s) \in Nat
    BY <1>2, LenProperties
  <2>2. s \in Seq(ObjectKinds \cup {Plan})
    BY <1>2
  <2>. QED BY <1>3, <2>1, <2>2, AppendProperties
<1>5. \A n \in 1..Len(s) : s[n] \in SavedKinds(c) /\ s[n] # Plan
  <2>1. \A n \in 1..Len(s) : s[n] \in SavedKinds(c)
    BY <1>2 DEF Members
  <2>2. Plan \notin SavedKinds(c)
    BY <1>1 DEF SavedKinds, ObjectKinds, Plan
  <2>. QED BY <2>1, <2>2
<1>6. \A k \in SavedKinds(c) : \E n \in 1..Len(s) : s[n] = k
  BY <1>2 DEF Members
<1>7. \A n \in 1..(Len(s) + 1) : n \in 1..Len(s) \/ n = Len(s) + 1
  BY <1>4
<1>8. \A n \in 1..Len(s) : n # Len(s) + 1 /\ n \in 1..((Len(s) + 1) - 1)
  BY <1>4
<1>9. \A n \in 1..(Len(s) + 1) : /\ SavedFiles(c)[n] \in SavedKinds(c) \cup {Plan}
                                 /\ SavedFiles(c)[n] = Plan <=> n = Len(s) + 1
  BY <1>4, <1>5, <1>7, <1>8
<1>10. \A k \in SavedKinds(c) : \E n \in 1..((Len(s) + 1) - 1) : SavedFiles(c)[n] = k
  BY <1>4, <1>6, <1>8
<1>11. Len(s) + 1 \in Nat \ {0}
  BY <1>4
<1>. QED BY <1>4, <1>9, <1>10, <1>11

-----------------------------------------------------------------------------
(* The steps *)

LEMMA Parties ==
  /\ \A p \in Creates : p \in Procs /\ p \in Requests /\ p \notin Deletes /\ p \notin Gets /\ p \notin Lists
  /\ \A p \in Deletes : p \in Procs /\ p \in Requests /\ p \notin Creates /\ p \notin Gets /\ p \notin Lists
  /\ \A p \in Gets : p \in Procs /\ p \in Requests /\ p \notin Creates /\ p \notin Deletes /\ p \notin Lists
  /\ \A p \in Lists : p \in Procs /\ p \in Requests /\ p \notin Creates /\ p \notin Deletes /\ p \notin Gets
  /\ \A p \in Requests : /\ p \in Procs /\ p \notin {Boot, None, Torn}
                         /\ p \in Creates \/ p \in Deletes \/ p \in Gets \/ p \in Lists
  /\ Boot \in Procs /\ Boot \notin Requests
BY RequestsDistinct DEF Procs, Requests

(* The other requests stay where they are. *)
Local(p) ==
  /\ up' = up
  /\ \A q \in Procs \ {p} :
       /\ at'[q] = at[q] /\ answer'[q] = answer[q] /\ pos'[q] = pos[q]
       /\ todo'[q] = todo[q] /\ cur'[q] = cur[q] /\ seen'[q] = seen[q]

Acts(p) == (p \in Requests /\ (Arrive(p) \/ Malformed(p))) \/ Step(p)

Dies == Die /\ UNCHANGED <<diskVars, mapVars, clean>>

LEMMA ActsLocally ==
  ASSUME RepoTyped, NEW p \in Procs, Acts(p)
  PROVE  Dies \/ Local(p)
<1>. USE DEF RepoTyped
<1>1. CASE Arrive(p) \/ Malformed(p)
  BY <1>1 DEF Arrive, Malformed, Respond, Jump, Local, localVars
<1>2. CASE CheckExists(p)
  BY <1>2 DEF CheckExists, Respond, Jump, Local, localVars
<1>3. CASE OpenFile(p)
  <2>1. /\ UNCHANGED <<pos, todo, cur, seen, up>>
        /\ \/ at' = [at EXCEPT ![p] = "write"] /\ answer' = answer
           \/ at' = [at EXCEPT ![p] = "done"] /\ answer' = [answer EXCEPT ![p] = "500"]
    BY <1>3 DEF OpenFile, Respond, Jump, localVars
  <2>. QED BY <2>1 DEF Local
<1>4. CASE WriteFile(p)
  <2>1. /\ UNCHANGED <<todo, cur, seen, up>>
        /\ pos' = pos \/ pos' = [pos EXCEPT ![p] = @ + 1]
        /\ answer' = answer \/ answer' = [answer EXCEPT ![p] = "500"]
        /\ \E l \in {"loadMake", "save", "done"} : at' = [at EXCEPT ![p] = l]
    BY <1>4 DEF WriteFile, Respond, Jump
  <2>. QED BY <2>1 DEF Local
<1>5. CASE RemoveFile(p)
  <2>1. UNCHANGED <<at, answer, pos, todo, cur, seen, up>>
    BY <1>5 DEF RemoveFile, localVars
  <2>. QED BY <2>1 DEF Local
<1>6. CASE RemoveDone(p) \/ RemoveFails(p)
  BY <1>6 DEF RemoveDone, RemoveFails, Respond, Jump, Local, localVars
<1>7. CASE LoadMake(p) \/ LoadEntry(p) \/ LoadEnd(p)
  BY <1>7 DEF LoadMake, LoadEntry, LoadEnd, Respond, Jump, Local, localVars
<1>8. CASE LoadList(p)
  BY <1>8 DEF LoadList, Panic, Respond, Jump, Local, localVars
<1>9. CASE LoadDir(p)
  <2>1. UNCHANGED <<diskVars, mapVars, clean>>
    BY <1>9 DEF LoadDir
  <2>2. PICK i \in todo[p] :
           \/ /\ cur' = [cur EXCEPT ![p] = i] /\ at' = [at EXCEPT ![p] = "loadRead"]
              /\ UNCHANGED <<todo, answer, up, pos, seen>>
           \/ /\ todo' = [todo EXCEPT ![p] = @ \ {i}]
              /\ UNCHANGED <<at, cur, answer, up, pos, seen>>
           \/ Panic(p)
    BY <1>9 DEF LoadDir, Jump
  <2>3. Panic(p) => Die \/ Local(p)
    BY DEF Panic, Respond, Jump, Local, localVars
  <2>. QED BY <2>1, <2>2, <2>3 DEF Dies, Local
<1>10. CASE LoadPlan(p)
  BY <1>10 DEF LoadPlan, Jump, Local, localVars, Dies
<1>11. CASE MapRace(p)
  BY <1>11 DEF MapRace, Dies
<1>12. CASE Lookup(p) \/ Iterate(p)
  BY <1>12 DEF Lookup, Iterate, Respond, Jump, Local
<1>13. CASE ReadFiles(p)
  <2>1. /\ UNCHANGED <<todo, cur, up>>
        /\ \/ /\ UNCHANGED <<at, answer>> /\ pos' = [pos EXCEPT ![p] = @ + 1]
              /\ seen' = seen \/ \E v : seen' = [seen EXCEPT ![p] = v]
           \/ Respond(p, "500") /\ UNCHANGED <<seen, pos>>
    BY <1>13 DEF ReadFiles
  <2>. QED BY <2>1 DEF Local, Respond, Jump
<1>14. CASE ReadEnd(p)
  BY <1>14 DEF ReadEnd, Respond, Jump, Local, localVars
<1>. QED BY <1>1, <1>2, <1>3, <1>4, <1>5, <1>6, <1>7, <1>8, <1>9, <1>10, <1>11, <1>12, <1>13, <1>14
         DEF Acts, Step, LoadStep

LEMMA NextForms ==
  ASSUME RepoTyped, Next
  PROVE  /\ idOf' = idOf
         /\ \/ Dies
            \/ Start
            \/ up /\ \E p \in Procs : Local(p) /\ Acts(p)
<1>1. idOf' = idOf
  BY DEF Next
<1>2. CASE Crash
  BY <1>1, <1>2 DEF Crash, Dies
<1>3. CASE Start
  BY <1>1, <1>3
<1>4. CASE up /\ \E p \in Procs : Acts(p)
  BY <1>1, <1>4, ActsLocally
<1>. QED BY <1>2, <1>3, <1>4, Parties DEF Next, Acts

-----------------------------------------------------------------------------
(* What a step does to the disk *)

(* A file is created or truncated, with the directory k8s if need be. *)
Opened(i, name) ==
  /\ dirs' = dirs \cup {i}
  /\ \A j \in Ids \ {i} : files'[j] = files[j]
  /\ i \in Ids =>
       /\ DOMAIN files'[i] = DOMAIN files[i]
       /\ name \in DOMAIN files[i] \ {"k8s"} => files'[i][name] = Torn
       /\ \A n \in DOMAIN files[i] \ {name, "k8s"} : files'[i][n] = files[i][n]

(* The directories are made, but no file. *)
OnlyDirs(i) ==
  /\ dirs' = dirs \cup {i}
  /\ \A j \in Ids \ {i} : files'[j] = files[j]
  /\ i \in Ids =>
       /\ DOMAIN files'[i] = DOMAIN files[i]
       /\ \A n \in DOMAIN files[i] \ {"k8s"} : files'[i][n] = files[i][n]

LEMMA OpenEffect ==
  ASSUME RepoTyped, NEW p \in Procs, OpenFile(p)
  PROVE  \/ UNCHANGED diskVars /\ at'[p] = "done"
         \/ at'[p] = "done" /\ DOMAIN files' = Ids /\ OnlyDirs(idOf[p])
         \/ /\ at'[p] = "write" /\ DOMAIN files' = Ids
            /\ Opened(idOf[p], SavedFiles(p)[pos[p]])
<1>. DEFINE name == SavedFiles(p)[pos[p]]
            i == idOf[p]
<1>0. DOMAIN files = Ids /\ at \in [Procs -> RepoLabels]
  BY DEF RepoTyped
<1>. DEFINE f1 == MkdirAll(files[i], name)
            f2 == [f1 EXCEPT ![name] = Torn]
<1>1. \/ UNCHANGED diskVars /\ at' = [at EXCEPT ![p] = "done"]
      \/ /\ dirs' = dirs \cup {i}
         /\ files' = [files EXCEPT ![i] = f1]
         /\ at' = [at EXCEPT ![p] = "done"]
      \/ /\ dirs' = dirs \cup {i}
         /\ files' = [files EXCEPT ![i] = f2]
         /\ at' = [at EXCEPT ![p] = "write"]
  BY DEF OpenFile, Respond, Jump
<1>. HIDE DEF name, i, f1, f2
<1>5. /\ DOMAIN f1 = DOMAIN files[i]
      /\ \A n \in DOMAIN files[i] \ {"k8s"} : f1[n] = files[i][n]
  BY DEF f1, MkdirAll
<1>2. CASE UNCHANGED diskVars /\ at' = [at EXCEPT ![p] = "done"]
  BY <1>0, <1>2
<1>4. CASE /\ dirs' = dirs \cup {i}
           /\ files' = [files EXCEPT ![i] = f1]
           /\ at' = [at EXCEPT ![p] = "done"]
  <2>1. i \in Ids => files'[i] = f1
    BY <1>0, <1>4
  <2>2. DOMAIN files' = Ids /\ (\A j \in Ids \ {i} : files'[j] = files[j]) /\ at'[p] = "done"
    BY <1>0, <1>4
  <2>3. OnlyDirs(i)
    BY <1>4, <1>5, <2>1, <2>2 DEF OnlyDirs
  <2>. QED BY <2>2, <2>3 DEF i
<1>3. CASE /\ dirs' = dirs \cup {i}
           /\ files' = [files EXCEPT ![i] = f2]
           /\ at' = [at EXCEPT ![p] = "write"]
  <2>1. i \in Ids => files'[i] = f2
    BY <1>0, <1>3
  <2>2. DOMAIN files' = Ids /\ \A j \in Ids \ {i} : files'[j] = files[j]
    BY <1>0, <1>3
  <2>3. /\ DOMAIN f2 = DOMAIN files[i]
        /\ name \in DOMAIN files[i] \ {"k8s"} => f2[name] = Torn
        /\ \A n \in DOMAIN files[i] \ {name, "k8s"} : f2[n] = files[i][n]
    BY <1>5 DEF f2
  <2>4. at'[p] = "write"
    BY <1>0, <1>3
  <2>5. Opened(i, name)
    BY <1>3, <2>1, <2>2, <2>3 DEF Opened
  <2>. QED BY <2>2, <2>4, <2>5 DEF i, name
<1>. QED BY <1>1, <1>2, <1>3, <1>4

(* A file gets its content, unless it was removed. *)
Stored(i, name, p) ==
  /\ dirs' = dirs
  /\ \A j \in Ids \ {i} : files'[j] = files[j]
  /\ i \in Ids =>
       /\ DOMAIN files'[i] = DOMAIN files[i]
       /\ name \in DOMAIN files[i] => files'[i][name] = IF files[i][name] = None THEN None ELSE p
       /\ \A n \in DOMAIN files[i] \ {name} : files'[i][n] = files[i][n]

LEMMA WriteEffect ==
  ASSUME RepoTyped, NEW p \in Procs, WriteFile(p)
  PROVE  \/ UNCHANGED <<dirs, files, pos>> /\ at'[p] = "done"
         \/ /\ DOMAIN files' = Ids /\ Stored(idOf[p], SavedFiles(p)[pos[p]], p)
            /\ pos'[p] = pos[p] + 1 /\ answer' = answer
            /\ at'[p] = IF pos[p] = Len(SavedFiles(p)) THEN "loadMake" ELSE "save"
<1>. DEFINE name == SavedFiles(p)[pos[p]]
            i == idOf[p]
            last == pos[p] = Len(SavedFiles(p))
<1>0. DOMAIN files = Ids /\ at \in [Procs -> RepoLabels] /\ pos \in [Procs -> Nat \ {0}]
  BY DEF RepoTyped
<1>1. \/ UNCHANGED <<dirs, files, pos>> /\ at' = [at EXCEPT ![p] = "done"]
      \/ /\ dirs' = dirs /\ answer' = answer
         /\ files' = [files EXCEPT ![i][name] = IF @ = None THEN None ELSE p]
         /\ pos' = [pos EXCEPT ![p] = @ + 1]
         /\ at' = [at EXCEPT ![p] = IF last THEN "loadMake" ELSE "save"]
  BY DEF WriteFile, Respond, Jump
<1>. HIDE DEF name, i, last
<1>2. CASE UNCHANGED <<dirs, files, pos>> /\ at' = [at EXCEPT ![p] = "done"]
  BY <1>0, <1>2
<1>3. CASE /\ dirs' = dirs /\ answer' = answer
           /\ files' = [files EXCEPT ![i][name] = IF @ = None THEN None ELSE p]
           /\ pos' = [pos EXCEPT ![p] = @ + 1]
           /\ at' = [at EXCEPT ![p] = IF last THEN "loadMake" ELSE "save"]
  <2>. DEFINE f1 == [files[i] EXCEPT ![name] = IF files[i][name] = None THEN None ELSE p]
  <2>1. i \in Ids => files'[i] = f1
    BY <1>0, <1>3
  <2>2. DOMAIN files' = Ids /\ \A j \in Ids \ {i} : files'[j] = files[j]
    BY <1>0, <1>3
  <2>3. /\ DOMAIN f1 = DOMAIN files[i]
        /\ name \in DOMAIN files[i] => f1[name] = IF files[i][name] = None THEN None ELSE p
        /\ \A n \in DOMAIN files[i] \ {name} : f1[n] = files[i][n]
    OBVIOUS
  <2>4. /\ at'[p] = IF last THEN "loadMake" ELSE "save"
        /\ pos'[p] = pos[p] + 1
    BY <1>0, <1>3
  <2>5. Stored(i, name, p)
    BY <1>3, <2>1, <2>2, <2>3 DEF Stored
  <2>. QED BY <1>3, <2>2, <2>4, <2>5 DEF i, name, last
<1>. QED BY <1>1, <1>2, <1>3

(* One file of the template is removed. *)
Removed(i) ==
  /\ \A j \in Ids \ {i} : files'[j] = files[j]
  /\ i \in Ids =>
       /\ DOMAIN files'[i] = DOMAIN files[i]
       /\ \A n \in DOMAIN files[i] : files'[i][n] \in {files[i][n], None}

LEMMA RemoveFileEffect ==
  ASSUME RepoTyped, NEW p \in Procs, RemoveFile(p)
  PROVE  DOMAIN files' = Ids /\ dirs' = dirs /\ at' = at /\ Removed(idOf[p])
<1>. DEFINE i == idOf[p]
<1>0. DOMAIN files = Ids
  BY DEF RepoTyped
<1>1. PICK name \in DOMAIN files[i] : files' = [files EXCEPT ![i][name] = None]
  BY DEF RemoveFile
<1>2. dirs' = dirs /\ at' = at
  BY DEF RemoveFile
<1>. HIDE DEF i
<1>. DEFINE f1 == [files[i] EXCEPT ![name] = None]
<1>3. i \in Ids => files'[i] = f1
  BY <1>0, <1>1
<1>4. DOMAIN files' = Ids /\ \A j \in Ids \ {i} : files'[j] = files[j]
  BY <1>0, <1>1
<1>5. DOMAIN f1 = DOMAIN files[i] /\ \A n \in DOMAIN files[i] : f1[n] \in {files[i][n], None}
  OBVIOUS
<1>6. Removed(i)
  BY <1>3, <1>4, <1>5 DEF Removed
<1>. QED BY <1>2, <1>4, <1>6 DEF i

(* All other steps leave the files alone, and the directories but for      *)
(* RemoveDone.                                                             *)
LEMMA DiskStays ==
  ASSUME NEW p \in Procs, Acts(p), ~OpenFile(p), ~WriteFile(p), ~RemoveFile(p)
  PROVE  files' = files /\ (dirs' = dirs \/ (RemoveDone(p) /\ dirs' = dirs \ {idOf[p]}))
BY DEF Acts, Step, LoadStep, Arrive, Malformed, CheckExists, RemoveDone, RemoveFails, LoadMake,
   LoadList, LoadDir, LoadPlan, LoadEntry, LoadEnd, MapRace, Lookup, Iterate, ReadFiles, ReadEnd,
   diskVars

-----------------------------------------------------------------------------
(* The values of the variables and who comes to which label *)

LEMMA DiskTyped ==
  ASSUME RepoTyped, NEW p \in Procs, Acts(p)
  PROVE  DOMAIN files' = Ids /\ \A i \in Ids : DOMAIN files'[i] = Kinds \cup {Plan, "k8s"}
<1>1. DOMAIN files = Ids /\ \A i \in Ids : DOMAIN files[i] = Kinds \cup {Plan, "k8s"}
  BY DEF RepoTyped
<1>2. CASE OpenFile(p)
  BY <1>1, <1>2, OpenEffect DEF Opened, OnlyDirs, diskVars
<1>3. CASE WriteFile(p)
  BY <1>1, <1>3, WriteEffect DEF Stored
<1>4. CASE RemoveFile(p)
  BY <1>1, <1>4, RemoveFileEffect DEF Removed
<1>. QED BY <1>1, <1>2, <1>3, <1>4, DiskStays

RestTyped ==
  /\ at \in [Procs -> RepoLabels]
  /\ answer \in [Procs -> {"none", "200", "201", "409", "500", "lost"}]
  /\ pos \in [Procs -> Nat \ {0}]
  /\ DOMAIN todo = Procs /\ DOMAIN cur = Procs /\ DOMAIN seen = Procs
  /\ maker \in Procs

LEMMA RestStep ==
  ASSUME RestTyped, NEW p \in Procs, Acts(p)
  PROVE  RestTyped'
<1>. USE DEF RestTyped, RepoLabels, LoadLabels, Loading
<1>0. CASE Die /\ UNCHANGED mapVars
  BY <1>0 DEF Die, mapVars
<1>1. CASE Arrive(p) \/ Malformed(p) \/ CheckExists(p)
  BY <1>1 DEF Arrive, Malformed, CheckExists, Respond, Jump, localVars, mapVars
<1>2. CASE OpenFile(p)
  <2>1. /\ UNCHANGED <<pos, todo, cur, seen, maker>>
        /\ \/ at' = [at EXCEPT ![p] = "write"] /\ answer' = answer
           \/ at' = [at EXCEPT ![p] = "done"] /\ answer' = [answer EXCEPT ![p] = "500"]
    BY <1>2 DEF OpenFile, Respond, Jump, localVars, mapVars
  <2>. QED BY <2>1
<1>3. CASE WriteFile(p)
  <2>1. /\ UNCHANGED <<todo, cur, seen, maker>>
        /\ pos' = pos \/ pos' = [pos EXCEPT ![p] = @ + 1]
        /\ answer' = answer \/ answer' = [answer EXCEPT ![p] = "500"]
        /\ \E l \in {"loadMake", "save", "done"} : at' = [at EXCEPT ![p] = l]
    BY <1>3 DEF WriteFile, Respond, Jump, mapVars
  <2>. QED BY <2>1
<1>4. CASE RemoveFile(p) \/ RemoveDone(p) \/ RemoveFails(p)
  <2>1. /\ UNCHANGED <<pos, todo, cur, seen, maker>>
        /\ answer' = answer \/ answer' = [answer EXCEPT ![p] = "500"]
        /\ at' = at \/ \E l \in {"loadMake", "done"} : at' = [at EXCEPT ![p] = l]
    BY <1>4 DEF RemoveFile, RemoveDone, RemoveFails, Respond, Jump, localVars, mapVars
  <2>. QED BY <2>1
<1>5. CASE LoadMake(p) \/ LoadEntry(p) \/ LoadEnd(p)
  BY <1>5 DEF LoadMake, LoadEntry, LoadEnd, Respond, Jump, localVars
<1>6. CASE LoadList(p)
  BY <1>0, <1>6 DEF LoadList, Panic, Respond, Jump, localVars, mapVars
<1>7. CASE LoadDir(p)
  <2>1. maker' = maker /\ UNCHANGED mapVars
    BY <1>7 DEF LoadDir, mapVars
  <2>2. PICK i \in todo[p] :
           \/ /\ cur' = [cur EXCEPT ![p] = i] /\ at' = [at EXCEPT ![p] = "loadRead"]
              /\ UNCHANGED <<todo, answer, up, pos, seen>>
           \/ /\ todo' = [todo EXCEPT ![p] = @ \ {i}]
              /\ UNCHANGED <<at, cur, answer, up, pos, seen>>
           \/ Panic(p)
    BY <1>7 DEF LoadDir, Jump
  <2>3. Panic(p) => Die \/ /\ at' = [at EXCEPT ![p] = "done"] /\ answer' = [answer EXCEPT ![p] = "500"]
                           /\ UNCHANGED <<pos, todo, cur, seen>>
    BY DEF Panic, Respond, Jump, localVars
  <2>. QED BY <1>0, <2>1, <2>2, <2>3
<1>8. CASE LoadPlan(p)
  BY <1>0, <1>8 DEF LoadPlan, Jump, localVars, mapVars
<1>9. CASE MapRace(p)
  BY <1>0, <1>9 DEF MapRace
<1>10. CASE Lookup(p) \/ Iterate(p)
  BY <1>10 DEF Lookup, Iterate, Respond, Jump, mapVars
<1>11. CASE ReadFiles(p)
  <2>1. /\ UNCHANGED <<todo, cur, maker>>
        /\ \/ /\ UNCHANGED <<at, answer>> /\ pos' = [pos EXCEPT ![p] = @ + 1]
              /\ seen' = seen \/ \E v : seen' = [seen EXCEPT ![p] = v]
           \/ Respond(p, "500") /\ UNCHANGED <<seen, pos>>
    BY <1>11 DEF ReadFiles, mapVars
  <2>. QED BY <2>1 DEF Respond, Jump
<1>12. CASE ReadEnd(p)
  BY <1>12 DEF ReadEnd, Respond, Jump, localVars, mapVars
<1>. QED BY <1>1, <1>2, <1>3, <1>4, <1>5, <1>6, <1>7, <1>8, <1>9, <1>10, <1>11, <1>12
         DEF Acts, Step, LoadStep

(* Which labels a request comes to from where, and its answer. *)
Moves(p) ==
  \/ at[p] \in {"remove", "loadScan", "read"} /\ at'[p] = at[p] /\ answer'[p] = answer[p]
  \/ /\ at[p] \notin {"idle", "done"} /\ at'[p] = "done"
     /\ answer'[p] \in {"409", "500"}
  \/ at[p] = "idle" /\ idOf[p] # None /\ at'[p] = "done" /\ answer'[p] = "500"
  \/ at[p] = "loadScan" /\ todo[p] = {} /\ p \in Creates /\ at'[p] = "done" /\ answer'[p] = "201"
  \/ at[p] = "loadScan" /\ todo[p] = {} /\ p \notin Creates /\ p \notin Lists /\ at'[p] = "done" /\ answer'[p] = "200"
  \/ at[p] \in {"iterate", "read"} /\ at'[p] = "done" /\ answer'[p] = "200"
  \/ /\ answer'[p] = answer[p]
     /\ \/ /\ at[p] = "idle" /\ idOf[p] # None /\ p \in Requests
           /\ at'[p] = IF p \in Creates THEN "check" ELSE IF p \in Deletes THEN "remove"
                       ELSE IF p \in Gets THEN "lookup" ELSE "loadMake"
        \/ at[p] = "check" /\ at'[p] = "save" /\ CheckExists(p) /\ idOf[p] \notin templates
        \/ at[p] = "save" /\ at'[p] = "write" /\ OpenFile(p)
        \/ at[p] = "write" /\ at'[p] \in {"save", "loadMake"} /\ WriteFile(p)
        \/ at[p] = "remove" /\ at'[p] = "loadMake" /\ RemoveDone(p)
        \/ at[p] = "loadMake" /\ at'[p] = "loadList" /\ LoadMake(p)
        \/ at[p] = "loadList" /\ at'[p] = "loadScan"
        \/ at[p] = "loadScan" /\ at'[p] = "loadRead"
        \/ at[p] = "loadRead" /\ at'[p] = "loadWrite"
        \/ at[p] = "loadWrite" /\ at'[p] = "loadScan"
        \/ at[p] = "loadScan" /\ at'[p] = "iterate" /\ p \in Lists
        \/ at[p] = "lookup" /\ at'[p] = "read"
        \/ at[p] = "iterate" /\ at'[p] = "read"
        \/ at[p] = "read" /\ at'[p] = "iterate" /\ p \in Lists

LEMMA ActsMove ==
  ASSUME RestTyped, NEW p \in Procs, Acts(p), Local(p)
  PROVE  Dies \/ Moves(p)
<1>0. /\ at \in [Procs -> RepoLabels] /\ DOMAIN at = Procs /\ DOMAIN answer = Procs
  BY DEF RestTyped
<1>00. ASSUME NEW s, Respond(p, s) PROVE at'[p] = "done" /\ answer'[p] = s
  BY <1>0, <1>00 DEF Respond, Jump
<1>01. ASSUME NEW l, Jump(p, l) PROVE at'[p] = l
  BY <1>0, <1>01 DEF Jump
<1>02. ASSUME Panic(p) PROVE Die \/ (at'[p] = "done" /\ answer'[p] = "500")
  BY <1>02, <1>00 DEF Panic
<1>1. CASE Arrive(p) /\ p \in Requests
  BY <1>1, <1>01 DEF Arrive, Moves
<1>2. CASE Malformed(p)
  BY <1>2, <1>00 DEF Malformed, Moves
<1>3. CASE CheckExists(p)
  BY <1>3, <1>00, <1>01 DEF CheckExists, Moves
<1>4. CASE OpenFile(p)
  <2>1. at[p] = "save" /\ (Respond(p, "500") \/ (Jump(p, "write") /\ answer' = answer))
    BY <1>4 DEF OpenFile
  <2>. QED BY <1>4, <2>1, <1>00, <1>01 DEF Moves
<1>5. CASE WriteFile(p)
  <2>1. /\ at[p] = "write"
        /\ \/ Respond(p, "500")
           \/ /\ Jump(p, IF pos[p] = Len(SavedFiles(p)) THEN "loadMake" ELSE "save")
              /\ answer' = answer
    BY <1>5 DEF WriteFile
  <2>. QED BY <1>5, <2>1, <1>00, <1>01 DEF Moves
<1>6. CASE RemoveFile(p)
  BY <1>6 DEF RemoveFile, Moves
<1>7. CASE RemoveDone(p)
  BY <1>7, <1>01 DEF RemoveDone, Moves
<1>8. CASE RemoveFails(p)
  BY <1>8, <1>00 DEF RemoveFails, Moves
<1>9. CASE LoadMake(p)
  BY <1>9, <1>01 DEF LoadMake, Moves
<1>10. CASE LoadList(p)
  <2>1. /\ at[p] = "loadList" /\ UNCHANGED <<diskVars, mapVars, clean>>
        /\ (Jump(p, "loadScan") /\ answer' = answer) \/ Panic(p)
    BY <1>10 DEF LoadList
  <2>. QED BY <2>1, <1>01, <1>02 DEF Moves, Dies
<1>11. CASE LoadDir(p)
  <2>1. /\ at[p] = "loadScan" /\ UNCHANGED <<diskVars, mapVars, clean>>
        /\ \/ Jump(p, "loadRead") /\ answer' = answer
           \/ UNCHANGED <<at, answer>>
           \/ Panic(p)
    BY <1>11 DEF LoadDir
  <2>. QED BY <2>1, <1>01, <1>02 DEF Moves, Dies
<1>12. CASE LoadPlan(p)
  BY <1>12, <1>01 DEF LoadPlan, Moves, Dies
<1>13. CASE LoadEntry(p)
  BY <1>13, <1>01 DEF LoadEntry, Moves
<1>14. CASE LoadEnd(p)
  BY <1>14, <1>00, <1>01 DEF LoadEnd, Moves
<1>15. CASE MapRace(p)
  BY <1>15 DEF MapRace, Dies
<1>16. CASE Lookup(p)
  BY <1>16, <1>00, <1>01 DEF Lookup, Moves
<1>17. CASE Iterate(p)
  BY <1>17, <1>00, <1>01 DEF Iterate, Moves
<1>18. CASE ReadFiles(p)
  <2>1. at[p] = "read" /\ (Respond(p, "500") \/ UNCHANGED <<at, answer>>)
    BY <1>18 DEF ReadFiles
  <2>. QED BY <2>1, <1>00 DEF Moves
<1>19. CASE ReadEnd(p)
  BY <1>19, <1>00, <1>01 DEF ReadEnd, Moves
<1>. QED BY <1>1, <1>2, <1>3, <1>4, <1>5, <1>6, <1>7, <1>8, <1>9, <1>10, <1>11, <1>12, <1>13, <1>14,
            <1>15, <1>16, <1>17, <1>18, <1>19 DEF Acts, Step, LoadStep

Role(p) ==
  /\ at[p] \in {"check", "save", "write"} => p \in Creates
  /\ at[p] = "remove" => p \in Deletes
  /\ at[p] = "lookup" => p \in Gets
  /\ at[p] = "iterate" => p \in Lists
  /\ at[p] = "read" => p \in Gets \cup Lists
  /\ at[p] \in LoadLabels => p \notin Gets
  /\ p \in Requests => /\ answer[p] # "none" => at[p] = "done"
                       /\ at[p] # "idle" => idOf[p] # None

LEMMA RolesAreRole == RepoRoles <=> \A p \in Procs : Role(p)
BY Parties DEF RepoRoles, Role

LEMMA RepoInit == Init => RepoInv
<1>. SUFFICES ASSUME Init PROVE RepoInv
  OBVIOUS
<1>1. RepoTyped
  BY Parties DEF Init, RepoTyped, RepoLabels, LoadLabels, Loading
<1>2. \A p \in Procs : Role(p)
  BY Parties DEF Init, Role, LoadLabels, Loading
<1>. QED BY <1>1, <1>2, RolesAreRole DEF RepoInv

LEMMA RepoNext == RepoInv /\ [Next]_repoVars => RepoInv'
<1>. SUFFICES ASSUME RepoInv, [Next]_repoVars PROVE RepoInv'
  OBVIOUS
<1>1. RepoTyped /\ RestTyped /\ \A p \in Procs : Role(p)
  BY RolesAreRole DEF RepoInv, RepoTyped, RestTyped
<1>2. (RepoRoles <=> \A p \in Procs : Role(p))'
  BY RolesAreRole, PTL
<1>3. CASE UNCHANGED repoVars
  BY <1>3 DEF RepoInv, RepoTyped, RepoRoles, repoVars, diskVars, localVars, mapVars
<1>4. CASE Dies
  <2>. CASE Next
    <3>0. idOf' = idOf
      BY DEF Next
    <3>1. RepoTyped'
      BY <1>1, <1>4, <3>0 DEF RepoTyped, RestTyped, Dies, Die, diskVars, mapVars, RepoLabels
    <3>2. \A p \in Procs : Role(p)'
      BY <1>1, <1>4, <3>0 DEF Role, Dies, Die, LoadLabels, Loading, RestTyped
    <3>. QED BY <1>2, <3>1, <3>2 DEF RepoInv
  <2>. QED BY <1>3
<1>5. CASE Start /\ Next
  <2>0. idOf' = idOf
    BY <1>5 DEF Next
  <2>1. RepoTyped'
    BY <1>1, <1>5, <2>0, Parties DEF RepoTyped, Start, Jump, diskVars, localVars, RepoLabels, LoadLabels
  <2>2. \A p \in Procs : Role(p)'
    BY <1>1, <1>5, <2>0, Parties DEF Role, Start, Jump, LoadLabels, Loading, RestTyped
  <2>. QED BY <1>2, <2>1, <2>2 DEF RepoInv
<1>6. ASSUME Next, NEW p \in Procs, Acts(p), Local(p) PROVE RepoInv'
  <2>0. idOf' = idOf
    BY <1>6 DEF Next
  <2>1. CASE Dies
    BY <1>4, <2>1
  <2>2. CASE Moves(p)
    <3>1. RestTyped' /\ DOMAIN files' = Ids /\ \A i \in Ids : DOMAIN files'[i] = Kinds \cup {Plan, "k8s"}
      BY <1>1, <1>6, RestStep, DiskTyped
    <3>2. RepoTyped'
      BY <1>1, <2>0, <3>1 DEF RepoTyped, RestTyped
    <3>3. ASSUME NEW q \in Procs \ {p} PROVE Role(q)'
      BY <1>1, <1>6, <2>0 DEF Local, Role
    <3>4. Role(p)'
      BY <1>1, <2>0, <2>2, Parties DEF Moves, Role, LoadLabels, Loading
    <3>5. \A q \in Procs : Role(q)'
      BY <3>3, <3>4
    <3>. QED BY <1>2, <3>2, <3>5 DEF RepoInv
  <2>. QED BY <1>1, <1>6, <2>1, <2>2, ActsMove
<1>. QED BY <1>1, <1>3, <1>4, <1>5, <1>6, NextForms

LEMMA NextMoves ==
  ASSUME RepoInv, Next
  PROVE  /\ idOf' = idOf
         /\ \/ Dies
            \/ Start
            \/ up /\ \E p \in Procs : Local(p) /\ Acts(p) /\ Moves(p)
<1>1. RepoTyped /\ RestTyped
  BY DEF RepoInv, RepoTyped, RestTyped
<1>. QED BY <1>1, NextForms, ActsMove

(* A request that is made names a template, but for listings. *)
LEMMA NamesTemplate ==
  ASSUME RepoInv, NEW r \in Requests \ Lists, idOf[r] # None
  PROVE  idOf[r] \in Ids
<1>1. idOf \in Naming /\ r \in DOMAIN idOf \ Lists
  BY RepositoryBounds DEF RepoInv, RepoTyped
<1>2. idOf[r] \in Named(idOf)
  BY <1>1 DEF Named
<1>. QED BY <1>1, <1>2 DEF Ids

LEMMA BeganStays ==
  ASSUME RepoInv, Next, NEW i, DeleteBegan(i)
  PROVE  DeleteBegan(i)'
<1>1. PICK d \in Deletes : idOf[d] = i /\ at[d] # "idle"
  BY DEF DeleteBegan
<1>2. d \in Procs /\ d # Boot
  BY Parties
<1>3. idOf' = idOf /\ at \in [Procs -> RepoLabels]
  BY NextMoves DEF RepoInv, RepoTyped
<1>4. at'[d] # "idle"
  <2>1. CASE Dies
    BY <1>1, <1>2, <2>1 DEF Dies, Die
  <2>2. CASE Start
    BY <1>1, <1>2, <1>3, <2>2 DEF Start, Jump
  <2>3. ASSUME NEW p \in Procs, Local(p), Moves(p) PROVE at'[d] # "idle"
    BY <1>1, <1>2, <2>3 DEF Local, Moves
  <2>. QED BY <2>1, <2>2, <2>3, NextMoves
<1>. QED BY <1>1, <1>3, <1>4 DEF DeleteBegan

(* The plan of a template that nobody deletes stays on the disk. *)
LEMMA PlanStays ==
  ASSUME RepoInv, Next, NEW i \in Ids, ~DeleteBegan(i)
  PROVE  (i \in dirs => i \in dirs') /\ (HasPlan(i) => HasPlan(i)')
<1>1. CASE Dies \/ Start
  BY <1>1 DEF Dies, Start, diskVars, HasPlan
<1>2. ASSUME NEW p \in Procs, Acts(p) PROVE (i \in dirs => i \in dirs') /\ (HasPlan(i) => HasPlan(i)')
  <2>1. RepoTyped /\ Role(p)
    BY RolesAreRole DEF RepoInv
  <2>2. DOMAIN files = Ids /\ DOMAIN files[i] = Kinds \cup {Plan, "k8s"}
    BY <2>1 DEF RepoTyped
  <2>3. CASE OpenFile(p)
    BY <1>2, <2>1, <2>2, <2>3, OpenEffect DEF Opened, OnlyDirs, HasPlan, Torn, None, Plan, diskVars
  <2>4. CASE WriteFile(p)
    <3>1. p # None
      BY <2>1, <2>4, Parties DEF WriteFile, Role
    <3>. QED BY <1>2, <2>1, <2>2, <2>4, <3>1, WriteEffect DEF Stored, HasPlan
  <2>5. CASE at[p] = "remove"
    <3>1. idOf[p] # i
      BY <2>1, <2>5 DEF Role, DeleteBegan
    <3>2. CASE RemoveFile(p)
      BY <2>1, <3>1, <3>2, RemoveFileEffect DEF Removed, HasPlan
    <3>. QED BY <1>2, <2>3, <2>4, <3>1, <3>2, DiskStays DEF HasPlan
  <2>6. CASE at[p] # "remove" /\ ~OpenFile(p) /\ ~WriteFile(p)
    BY <1>2, <2>6, DiskStays DEF HasPlan, RemoveFile, RemoveDone
  <2>. QED BY <2>3, <2>4, <2>5, <2>6
<1>. QED BY <1>1, <1>2, NextMoves

-----------------------------------------------------------------------------
(* No template is lost *)

LEMMA OnDiskNext == RepoInv /\ OnDisk /\ [Next]_repoVars => OnDisk'
<1>. SUFFICES ASSUME RepoInv, OnDisk, [Next]_repoVars PROVE OnDisk'
  OBVIOUS
<1>1. CASE UNCHANGED repoVars
  BY <1>1 DEF OnDisk, repoVars, diskVars, localVars, mapVars, DeleteBegan, HasPlan, Planned
<1>. SUFFICES ASSUME Next, NEW c \in Creates, ~DeleteBegan(idOf[c])'
              PROVE  /\ at'[c] = "write" =>
                          /\ idOf'[c] \in dirs' 
                          /\ SavedFiles(c)[pos'[c]] = Plan => HasPlan(idOf[c])'
                     /\ at'[c] \in LoadLabels \/ answer'[c] = "201" => Planned(idOf[c])'
  BY <1>1 DEF OnDisk
<1>. DEFINE i == idOf[c]
<1>2. idOf' = idOf /\ ~DeleteBegan(i)
  BY NextMoves, BeganStays
<1>3. c \in Procs /\ c \in Requests /\ Role(c) /\ c \notin Lists /\ c # Boot
  BY Parties, RolesAreRole DEF RepoInv
<1>4. at[c] # "idle" => i \in Ids
  BY <1>3, NamesTemplate DEF Role
<1>5. /\ at[c] = "write" => i \in dirs /\ (SavedFiles(c)[pos[c]] = Plan => HasPlan(i))
      /\ at[c] \in LoadLabels \/ answer[c] = "201" => Planned(i)
  BY <1>2 DEF OnDisk
<1>6. at[c] # "idle" => (i \in dirs => i \in dirs') /\ (HasPlan(i) => HasPlan(i)')
  BY <1>2, <1>4, PlanStays
<1>7. at[c] # "idle" => (Planned(i) => Planned(i)')
  BY <1>2, <1>6 DEF Planned, HasPlan
<1>8. (answer[c] = "201" \/ at[c] \in LoadLabels \/ at[c] = "write") => at[c] # "idle"
  BY <1>3 DEF Role, LoadLabels, Loading
<1>9. CASE Dies
  BY <1>2, <1>3, <1>5, <1>7, <1>8, <1>9 DEF Dies, Die, LoadLabels, Loading
<1>10. CASE Start
  <2>1. at'[c] = at[c] /\ answer' = answer /\ pos' = pos
    BY <1>3, <1>10 DEF Start, Jump, localVars, RepoInv, RepoTyped
  <2>. QED BY <1>2, <1>5, <1>6, <1>7, <1>8, <2>1
<1>11. ASSUME NEW p \in Procs, p # c, Local(p)
       PROVE  /\ at'[c] = "write" => /\ i \in dirs' 
                                     /\ SavedFiles(c)[pos'[c]] = Plan => HasPlan(i)'
              /\ at'[c] \in LoadLabels \/ answer'[c] = "201" => Planned(i)'
  <2>1. at'[c] = at[c] /\ answer'[c] = answer[c] /\ pos'[c] = pos[c]
    BY <1>3, <1>11 DEF Local
  <2>. QED BY <1>5, <1>6, <1>7, <1>8, <2>1
<1>12. ASSUME Acts(c), Moves(c)
       PROVE  /\ at'[c] = "write" => /\ i \in dirs' 
                                     /\ SavedFiles(c)[pos'[c]] = Plan => HasPlan(i)'
              /\ at'[c] \in LoadLabels \/ answer'[c] = "201" => Planned(i)'
  <2>0. RepoTyped /\ (at[c] # "idle" => DOMAIN files[i] = Kinds \cup {Plan, "k8s"})
    BY <1>4 DEF RepoInv, RepoTyped
  <2>1. at'[c] = "write" => OpenFile(c)
    BY <1>3, <1>12 DEF Moves
  <2>2. ASSUME OpenFile(c), at'[c] = "write"
        PROVE  i \in dirs' /\ (SavedFiles(c)[pos'[c]] = Plan => HasPlan(i)')
    <3>1. at[c] = "save" /\ pos' = pos
      BY <2>2 DEF OpenFile, localVars
    <3>2. Opened(i, SavedFiles(c)[pos[c]])
      BY <1>3, <2>0, <2>2, OpenEffect
    <3>3. i \in dirs'
      BY <3>2 DEF Opened
    <3>4. ASSUME SavedFiles(c)[pos[c]] = Plan PROVE HasPlan(i)'
      <4>1. Plan \in DOMAIN files[i] \ {"k8s"} /\ i \in Ids
        BY <1>4, <2>0, <3>1 DEF Plan
      <4>2. files'[i][Plan] = Torn
        BY <3>2, <3>4, <4>1 DEF Opened
      <4>. QED BY <1>2, <4>2 DEF HasPlan, Torn, None
    <3>. QED BY <1>2, <3>1, <3>3, <3>4
  <2>3. at'[c] \in LoadLabels \/ answer'[c] = "201" =>
          at[c] \in LoadLabels \/ answer[c] = "201" \/ (WriteFile(c) /\ at'[c] = "loadMake")
    BY <1>3, <1>12, Parties DEF Moves, LoadLabels, Loading, Role
  <2>4. ASSUME WriteFile(c), at'[c] = "loadMake" PROVE Planned(i)'
    <3>1. at[c] = "write"
      BY <2>4 DEF WriteFile
    <3>2. pos[c] = Len(SavedFiles(c))
      BY <1>3, <2>0, <2>4, WriteEffect
    <3>3. SavedFiles(c)[pos[c]] = Plan
      <4>1. pos[c] \in 1..Len(SavedFiles(c))
        BY <3>2, SavedNames
      <4>. QED BY <3>2, <4>1, SavedNames
    <3>. QED BY <1>2, <1>5, <1>6, <3>1, <3>3 DEF Planned, HasPlan
  <2>. QED BY <1>5, <1>7, <1>8, <2>1, <2>2, <2>3, <2>4
<1>. QED BY <1>2, <1>9, <1>10, <1>11, <1>12, NextMoves

(* The map, and what the others have yet to load, change in loads alone. *)
LEMMA MapStays ==
  ASSUME NEW p \in Procs, Acts(p), ~LoadMake(p), ~LoadEntry(p), ~LoadEnd(p)
  PROVE  templates' = templates /\ maker' = maker /\ complete' = complete
BY DEF Acts, Step, LoadStep, Arrive, Malformed, CheckExists, OpenFile, WriteFile, RemoveFile, RemoveDone,
   RemoveFails, LoadList, LoadDir, LoadPlan, MapRace, Lookup, Iterate, ReadFiles, ReadEnd, mapVars

(* What is left to load: the directories, less those that were read. *)
LEMMA LeftToLoad ==
  ASSUME RestTyped, NEW p \in Procs, Acts(p), Local(p), Moves(p), at'[p] \in Loading
  PROVE  /\ at[p] = "loadList" \/ at[p] \in Loading
         /\ at[p] = "loadList" => todo'[p] = dirs
         /\ at[p] \in Loading =>
              \/ todo'[p] = todo[p] /\ (cur'[p] = cur[p] \/ (cur'[p] \in todo[p] /\ LoadDir(p)))
              \/ LoadEntry(p) /\ todo'[p] = todo[p] \ {cur[p]} /\ cur'[p] = cur[p]
              \/ LoadDir(p) /\ \E i \in todo[p] : /\ i \in dirs /\ ~HasPlan(i) /\ todo'[p] = todo[p] \ {i}
                                                  /\ cur'[p] = cur[p]
<1>0. DOMAIN todo = Procs /\ DOMAIN cur = Procs /\ DOMAIN at = Procs
  BY DEF RestTyped
<1>00. ASSUME at'[p] = "done" \/ Die PROVE FALSE
  BY <1>00, Parties DEF Loading, Die
<1>1. at[p] = "loadList" \/ at[p] \in Loading
  BY DEF Moves, Loading
<1>2. LoadList(p) \/ LoadDir(p) \/ LoadPlan(p) \/ LoadEntry(p) \/ LoadEnd(p)
  BY <1>1, <1>00 DEF Acts, Step, LoadStep, Arrive, Malformed, CheckExists, OpenFile, WriteFile, RemoveFile,
     RemoveDone, RemoveFails, LoadMake, MapRace, Lookup, Iterate, ReadFiles, ReadEnd, Loading
<1>3. CASE LoadList(p)
  BY <1>0, <1>00, <1>3 DEF LoadList, Panic, Respond, Jump, Loading
<1>4. CASE LoadDir(p)
  <2>1. at[p] = "loadScan"
    BY <1>4 DEF LoadDir
  <2>2. PICK i \in todo[p] :
           \/ /\ cur' = [cur EXCEPT ![p] = i] /\ todo' = todo
           \/ /\ i \in dirs /\ ~HasPlan(i) /\ todo' = [todo EXCEPT ![p] = @ \ {i}] /\ cur' = cur
           \/ Panic(p)
    BY <1>4 DEF LoadDir
  <2>3. ~Panic(p)
    BY <1>0, <1>00 DEF Panic, Respond, Jump
  <2>. QED BY <1>0, <1>1, <1>4, <2>1, <2>2, <2>3 DEF Loading
<1>5. CASE LoadPlan(p)
  BY <1>0, <1>00, <1>5 DEF LoadPlan, localVars, Loading
<1>6. CASE LoadEntry(p)
  BY <1>0, <1>6 DEF LoadEntry, Loading
<1>7. CASE LoadEnd(p)
  BY <1>0, <1>00, <1>7 DEF LoadEnd, Respond, Jump, Loading
<1>. QED BY <1>2, <1>3, <1>4, <1>5, <1>6, <1>7

LEMMA MapCoversNext == RepoInv /\ OnDisk /\ MapCovers /\ [Next]_repoVars => MapCovers'
<1>. SUFFICES ASSUME RepoInv, OnDisk, MapCovers, [Next]_repoVars PROVE MapCovers'
  OBVIOUS
<1>1. CASE UNCHANGED repoVars
  BY <1>1 DEF MapCovers, repoVars, diskVars, localVars, mapVars, DeleteBegan, Landed
<1>. SUFFICES ASSUME Next, up', NEW c \in Creates, Landed(c)', ~DeleteBegan(idOf[c])'
              PROVE  /\ complete' => idOf'[c] \in templates'
                     /\ at'[maker'] \in Loading => idOf'[c] \in todo'[maker'] \cup templates'
  BY <1>1 DEF MapCovers
<1>. DEFINE i == idOf[c]
<1>2. idOf' = idOf /\ ~DeleteBegan(i)
  BY NextMoves, BeganStays
<1>3. c \in Procs /\ Role(c) /\ RestTyped /\ maker \in Procs
  BY Parties, RolesAreRole DEF RepoInv, RepoTyped, RestTyped
<1>4. CASE Dies
  BY <1>4 DEF Dies, Die
<1>5. CASE Start
  BY <1>3, <1>5, Parties DEF Start, Jump, Loading, RestTyped
<1>6. ASSUME up, NEW p \in Procs, Local(p), Acts(p), Moves(p)
      PROVE  /\ complete' => i \in templates'
             /\ at'[maker'] \in Loading => i \in todo'[maker'] \cup templates'
  <2>1. CASE LoadMake(p)
    BY <1>3, <2>1 DEF LoadMake, Jump, Loading, RestTyped
  <2>2. CASE ~LoadMake(p)
    <3>1. Landed(c)
      <4>1. CASE c # p
        BY <1>3, <1>6, <4>1 DEF Local, Landed
      <4>2. CASE c = p
        BY <1>3, <1>6, <2>2, <4>2, Parties DEF Moves, Landed, LoadLabels, Loading, Role
      <4>. QED BY <4>1, <4>2
    <3>2. /\ complete => i \in templates
          /\ at[maker] \in Loading => i \in todo[maker] \cup templates
      BY <1>2, <1>6, <3>1 DEF MapCovers
    <3>3. i \in dirs /\ HasPlan(i)
      BY <1>2, <3>1 DEF OnDisk, Planned, Landed
    <3>4. CASE LoadEnd(p)
      <4>1. /\ complete' = (complete \/ maker = p) /\ templates' = templates /\ maker' = maker
            /\ at[p] \in Loading /\ todo[p] = {} /\ at'[p] \notin Loading
        BY <1>3, <3>4 DEF LoadEnd, Respond, Jump, Loading, RestTyped
      <4>2. complete' => i \in templates'
        BY <3>2, <4>1
      <4>3. at'[maker] \in Loading => maker # p /\ at[maker] \in Loading /\ todo'[maker] = todo[maker]
        BY <1>3, <1>6, <4>1 DEF Local
      <4>. QED BY <3>2, <4>1, <4>2, <4>3
    <3>5. CASE ~LoadEnd(p)
      <4>1. /\ complete' = complete /\ maker' = maker
            /\ templates' = templates \/ (LoadEntry(p) /\ templates' = templates \cup {cur[p]})
        BY <1>6, <2>2, <3>5, MapStays DEF LoadEntry
      <4>2. CASE maker # p
        <5>1. at'[maker] = at[maker] /\ todo'[maker] = todo[maker]
          BY <1>3, <1>6, <4>2 DEF Local
        <5>. QED BY <3>2, <4>1, <5>1
      <4>3. CASE maker = p
        <5>1. CASE at'[p] \notin Loading
          BY <3>2, <4>1, <4>3, <5>1
        <5>2. CASE at'[p] \in Loading
          <6>1. /\ at[p] = "loadList" \/ at[p] \in Loading
                /\ at[p] = "loadList" => todo'[p] = dirs
                /\ at[p] \in Loading =>
                     \/ todo'[p] = todo[p]
                     \/ LoadEntry(p) /\ todo'[p] = todo[p] \ {cur[p]}
                     \/ \E j \in todo[p] : ~HasPlan(j) /\ todo'[p] = todo[p] \ {j}
            BY <1>3, <1>6, <5>2, LeftToLoad
          <6>2. CASE at[p] = "loadList"
            BY <3>2, <3>3, <4>1, <4>3, <6>1, <6>2
          <6>3. CASE at[p] \in Loading
            <7>1. LoadEntry(p) => templates' = templates \cup {cur[p]}
              BY DEF LoadEntry
            <7>. QED BY <3>2, <3>3, <4>1, <4>3, <6>1, <6>3, <7>1
          <6>. QED BY <6>1, <6>2, <6>3
        <5>. QED BY <5>1, <5>2
      <4>. QED BY <4>2, <4>3
    <3>. QED BY <3>4, <3>5
  <2>. QED BY <2>1, <2>2
<1>. QED BY <1>2, <1>4, <1>5, <1>6, NextMoves

LEMMA CoversInit == Init => OnDisk /\ MapCovers
<1>. SUFFICES ASSUME Init PROVE OnDisk /\ MapCovers
  OBVIOUS
<1>1. \A c \in Creates : at[c] = "idle" /\ answer[c] = "none"
  BY Parties DEF Init
<1>. QED BY <1>1 DEF OnDisk, MapCovers, Landed, LoadLabels, Loading

LEMMA RepoHolds == Spec => [](RepoInv /\ OnDisk /\ MapCovers)
<1>1. Init => RepoInv /\ OnDisk /\ MapCovers
  BY RepoInit, CoversInit
<1>2. RepoInv /\ OnDisk /\ MapCovers /\ [Next]_repoVars => (RepoInv /\ OnDisk /\ MapCovers)'
  BY RepoNext, OnDiskNext, MapCoversNext
<1>. QED BY <1>1, <1>2, PTL DEF Spec

LEMMA CoversAll == RepoInv /\ MapCovers => NoLostTemplate
<1>. SUFFICES ASSUME RepoInv, MapCovers PROVE NoLostTemplate
  OBVIOUS
<1>. QED BY DEF MapCovers, NoLostTemplate, Landed

(* Once the load that made the map of LoadAvailableTemplates has come to   *)
(* its end, the map has every template whose creation was answered with    *)
(* 201 and that nobody began to delete: for any number of requests,        *)
(* overlapping loads, failed saves and ends of the process.                *)
THEOREM NoTemplateLost == Spec => []NoLostTemplate
BY RepoHolds, CoversAll, PTL

(* CreateCustomTemplate gets past its check for an id that is taken only   *)
(* while the map is being filled or after the load that filled it failed.  *)
THEOREM ConflictIsSeen == Spec => ConflictSeen
<1>. DEFINE A == \A b, c \in Creates :
                   /\ b # c /\ idOf[b] = idOf[c]
                   /\ answer[b] = "201" /\ ~DeleteBegan(idOf[b])
                   /\ at[c] = "check" /\ at'[c] = "save"
                   => ~complete
<1>1. RepoInv /\ MapCovers /\ [Next]_repoVars => [A]_repoVars
  <2>. SUFFICES ASSUME RepoInv, MapCovers, Next,
                       NEW b \in Creates, NEW c \in Creates,
                       idOf[b] = idOf[c], answer[b] = "201", ~DeleteBegan(idOf[b]),
                       at[c] = "check", at'[c] = "save", complete
                PROVE  FALSE
    OBVIOUS
  <2>1. c \in Procs /\ c # Boot /\ b \in Procs
    BY Parties
  <2>2. CASE Dies
    BY <2>1, <2>2 DEF Dies, Die
  <2>3. CASE Start
    BY <2>1, <2>3 DEF Start, Jump, RepoInv, RepoTyped
  <2>4. ASSUME up, NEW p \in Procs, Local(p), Moves(p) PROVE FALSE
    <3>1. p = c
      BY <2>1, <2>4 DEF Local
    <3>2. idOf[c] \notin templates
      BY <2>4, <3>1 DEF Moves
    <3>3. idOf[b] \in templates
      BY <2>4 DEF MapCovers, Landed
    <3>. QED BY <3>2, <3>3
  <2>. QED BY <2>2, <2>3, <2>4, NextMoves
<1>2. Spec => [][A]_repoVars
  BY <1>1, RepoHolds, PTL DEF Spec
<1>. QED BY <1>2 DEF ConflictSeen

-----------------------------------------------------------------------------
(* What was deleted is not listed *)

LEMMA CleanChanges ==
  ASSUME NEW p \in Procs, Acts(p)
  PROVE  /\ clean' \subseteq clean \/ (RemoveDone(p) /\ NothingOverlaps(p) /\ clean' = clean \cup {p})
         /\ p \in Creates /\ at[p] = "idle" => Malformed(p) \/ clean' = {d \in clean : idOf[d] # idOf[p]}
<1>1. CASE Arrive(p)
  BY <1>1 DEF Arrive
<1>2. CASE RemoveDone(p)
  BY <1>2 DEF RemoveDone
<1>3. CASE ~Arrive(p) /\ ~RemoveDone(p)
  <2>1. clean' = clean /\ (at[p] = "idle" => Malformed(p))
    BY <1>3 DEF Acts, Step, LoadStep, Malformed, CheckExists, OpenFile, WriteFile, RemoveFile, RemoveFails,
       LoadMake, LoadList, LoadDir, LoadPlan, LoadEntry, LoadEnd, MapRace, Lookup, Iterate, ReadFiles, ReadEnd
  <2>. QED BY <2>1
<1>. QED BY <1>1, <1>2, <1>3

(* A load is at a template that it has read from its list. *)
LEMMA LoadsFromList ==
  ASSUME RestTyped, NEW p \in Procs, Acts(p), Local(p), Moves(p), at'[p] \in {"loadRead", "loadWrite"}
  PROVE  \/ at[p] \in {"loadRead", "loadWrite"} /\ cur'[p] = cur[p]
         \/ at[p] \in Loading /\ cur'[p] \in todo[p]
<1>1. at[p] \in {"loadScan", "loadRead"}
  BY DEF Moves
<1>2. CASE at[p] = "loadRead"
  <2>1. LoadPlan(p)
    BY <1>2 DEF Acts, Step, LoadStep, Arrive, Malformed, CheckExists, OpenFile, WriteFile, RemoveFile,
       RemoveDone, RemoveFails, LoadMake, LoadList, LoadDir, LoadEntry, LoadEnd, MapRace, Lookup, Iterate,
       ReadFiles, ReadEnd
  <2>2. cur' = cur \/ Die
    BY <2>1 DEF LoadPlan, localVars
  <2>3. ~Die
    BY DEF Die
  <2>. QED BY <1>2, <2>2, <2>3
<1>3. CASE at[p] = "loadScan"
  <2>0. DOMAIN cur = Procs /\ DOMAIN at = Procs
    BY DEF RestTyped
  <2>1. LoadDir(p) \/ LoadEnd(p)
    BY <1>3 DEF Acts, Step, LoadStep, Arrive, Malformed, CheckExists, OpenFile, WriteFile, RemoveFile,
       RemoveDone, RemoveFails, LoadMake, LoadList, LoadPlan, LoadEntry, MapRace, Lookup, Iterate,
       ReadFiles, ReadEnd
  <2>2. ~LoadEnd(p)
    BY <2>0 DEF LoadEnd, Respond, Jump
  <2>3. ~Panic(p)
    BY <2>0 DEF Panic, Die, Respond, Jump
  <2>4. \E i \in todo[p] : cur' = [cur EXCEPT ![p] = i] \/ at' = at
    BY <2>1, <2>2, <2>3 DEF LoadDir
  <2>. QED BY <1>3, <2>0, <2>4 DEF Loading
<1>. QED BY <1>1, <1>2, <1>3

(* Nobody writes files of a template that nobody saves. *)
LEMMA StaysAway ==
  ASSUME RepoInv, NEW p \in Procs, Acts(p), NEW i \in Ids,
         \A c \in Creates : idOf[c] = i => ~Saving(c),
         i \notin dirs, \A name \in DOMAIN files[i] : files[i][name] = None
  PROVE  i \notin dirs' /\ \A name \in DOMAIN files'[i] : files'[i][name] = None
<1>1. RepoTyped /\ Role(p) /\ DOMAIN files = Ids
  BY RolesAreRole DEF RepoInv, RepoTyped
<1>2. OpenFile(p) \/ WriteFile(p) => idOf[p] # i
  BY <1>1 DEF OpenFile, WriteFile, Saving, Role
<1>3. CASE OpenFile(p)
  BY <1>1, <1>2, <1>3, OpenEffect DEF Opened, OnlyDirs, diskVars
<1>4. CASE WriteFile(p)
  BY <1>1, <1>2, <1>4, WriteEffect DEF Stored
<1>5. CASE RemoveFile(p)
  BY <1>1, <1>5, RemoveFileEffect DEF Removed
<1>. QED BY <1>3, <1>4, <1>5, DiskStays

LEMMA GoneNext == RepoInv /\ CleanIsGone /\ [Next]_repoVars => CleanIsGone'
<1>. SUFFICES ASSUME RepoInv, CleanIsGone, [Next]_repoVars PROVE CleanIsGone'
  OBVIOUS
<1>1. CASE UNCHANGED repoVars
  BY <1>1 DEF CleanIsGone, Gone, Saving, repoVars, diskVars, localVars, mapVars
<1>. SUFFICES ASSUME Next, NEW d \in clean' PROVE Gone(d)'
  BY <1>1 DEF CleanIsGone
<1>2. RestTyped /\ RepoTyped /\ idOf' = idOf /\ \A p \in Procs : Role(p)
  BY RolesAreRole, NextMoves DEF RepoInv, RepoTyped, RestTyped
<1>3. ASSUME Dies PROVE Gone(d)'
  <2>1. d \in clean /\ Gone(d)
    BY <1>3 DEF Dies, CleanIsGone
  <2>2. \A p \in Procs : at'[p] \in {"idle", "done"}
    BY <1>3 DEF Dies, Die
  <2>3. d \in Procs /\ d \in Deletes /\ at[d] # "idle"
    BY <2>1, Parties DEF Gone, LoadLabels, Loading
  <2>4. at'[d] = "done" /\ (answer'[d] = "200" => answer[d] = "200")
    BY <1>3, <2>3 DEF Dies, Die
  <2>5. dirs' = dirs /\ files' = files /\ templates' = templates
    BY <1>3 DEF Dies, diskVars, mapVars
  <2>6. \A c \in Creates : ~Saving(c)'
    BY <2>2, Parties DEF Saving
  <2>. QED BY <1>2, <2>1, <2>2, <2>3, <2>4, <2>5, <2>6 DEF Gone, LoadLabels, Loading
<1>4. ASSUME Start PROVE Gone(d)'
  <2>1. d \in clean /\ Gone(d) /\ d \in Procs /\ d # Boot /\ d \in Deletes
    BY <1>4, Parties DEF Start, CleanIsGone, Gone
  <2>2. /\ \A p \in Procs \ {Boot} : at'[p] = at[p]
        /\ at'[Boot] = "loadMake" /\ answer' = answer /\ todo' = todo /\ cur' = cur
        /\ dirs' = dirs /\ files' = files /\ templates' = {}
    BY <1>2, <1>4, Parties DEF Start, Jump, RestTyped, localVars, diskVars
  <2>3. \A c \in Creates : idOf[c] = idOf[d] => ~Saving(c)'
    BY <2>1, <2>2, Parties DEF Saving, Gone
  <2>4. \A p \in Procs : /\ at'[p] \in Loading => idOf[d] \notin todo'[p]
                         /\ at'[p] \in {"loadRead", "loadWrite"} => cur'[p] # idOf[d]
    BY <2>1, <2>2 DEF Gone, Loading
  <2>. QED BY <1>2, <2>1, <2>2, <2>3, <2>4 DEF Gone
<1>5. ASSUME NEW p \in Procs, Local(p), Acts(p), Moves(p), d \notin clean PROVE Gone(d)'
  <2>1. RemoveDone(p) /\ NothingOverlaps(p) /\ p = d
    BY <1>5, CleanChanges
  <2>2. /\ at[d] = "remove" /\ d \in Deletes /\ d \in Requests /\ d \in Procs /\ answer[d] = "none"
    BY <1>2, <1>5, <2>1, Parties DEF RemoveDone, Role
  <2>3. /\ at'[d] = "loadMake" /\ answer' = answer /\ files' = files /\ dirs' = dirs \ {idOf[d]}
        /\ \A name \in DOMAIN files[idOf[d]] : files[idOf[d]][name] = None
    BY <1>2, <2>1, <2>2 DEF RemoveDone, Jump, RestTyped
  <2>4. \A q \in Procs \ {d} : at'[q] = at[q] /\ at[q] \notin Loading
    BY <1>5, <2>1 DEF Local, NothingOverlaps
  <2>5. \A c \in Creates : idOf[c] = idOf[d] => ~Saving(c)'
    BY <2>1, <2>2, <2>4, Parties DEF NothingOverlaps, Saving
  <2>6. \A q \in Procs : at'[q] \notin Loading /\ at'[q] \notin {"loadRead", "loadWrite"}
    BY <2>3, <2>4 DEF Loading
  <2>. QED BY <1>2, <2>2, <2>3, <2>5, <2>6 DEF Gone, LoadLabels
<1>6. ASSUME NEW p \in Procs, Local(p), Acts(p), Moves(p), d \in clean PROVE Gone(d)'
  <2>. DEFINE i == idOf[d]
  <2>1. Gone(d) /\ d \in Procs /\ d \in Requests /\ d \notin Lists /\ d \in Deletes
    BY <1>6, Parties DEF CleanIsGone, Gone
  <2>2. i \in Ids
    BY <1>2, <2>1, NamesTemplate DEF Gone, Role, LoadLabels, Loading
  <2>3. /\ \A c \in Creates : idOf[c] = i => ~Saving(c)
        /\ i \notin dirs /\ \A name \in DOMAIN files[i] : files[i][name] = None
    BY <2>1 DEF Gone
  <2>4. i \notin dirs' /\ \A name \in DOMAIN files'[i] : files'[i][name] = None
    BY <1>6, <2>2, <2>3, StaysAway
  <2>5. at'[d] \in LoadLabels \cup {"done"}
    <3>1. CASE p = d
      BY <1>2, <1>6, <2>1, <3>1, Parties DEF Gone, Moves, LoadLabels, Loading
    <3>2. CASE p # d
      BY <1>6, <2>1, <3>2 DEF Gone, Local
    <3>. QED BY <3>1, <3>2
  <2>6. ASSUME NEW c \in Creates, idOf[c] = i PROVE ~Saving(c)'
    <3>0. c \in Procs /\ ~Saving(c)
      BY <2>3, <2>6, Parties
    <3>1. CASE p # c
      BY <1>6, <3>0, <3>1 DEF Local, Saving
    <3>2. CASE p = c
      <4>1. CASE at[c] = "idle"
        <5>1. Malformed(c)
          BY <1>6, <2>6, <3>2, <4>1, CleanChanges
        <5>. QED BY <1>2, <3>0, <5>1 DEF Malformed, Respond, Jump, Saving, RestTyped
      <4>2. CASE at[c] # "idle"
        BY <1>6, <3>0, <3>2, <4>2, Parties DEF Moves, Saving
      <4>. QED BY <4>1, <4>2
    <3>. QED BY <3>1, <3>2
  <2>7. ASSUME NEW q \in Procs
        PROVE  /\ at'[q] \in Loading => i \notin todo'[q]
               /\ at'[q] \in {"loadRead", "loadWrite"} => cur'[q] # i
    <3>0. /\ at[q] \in Loading => i \notin todo[q]
          /\ at[q] \in {"loadRead", "loadWrite"} => cur[q] # i
      BY <2>1 DEF Gone
    <3>1. CASE p # q
      BY <1>6, <3>0, <3>1 DEF Local
    <3>2. CASE p = q
      <4>1. at'[q] \in Loading => i \notin todo'[q]
        BY <1>2, <1>6, <2>3, <3>0, <3>2, LeftToLoad
      <4>2. at'[q] \in {"loadRead", "loadWrite"} => cur'[q] # i
        BY <1>2, <1>6, <3>0, <3>2, LoadsFromList
      <4>. QED BY <4>1, <4>2
    <3>. QED BY <3>1, <3>2
  <2>8. at'[d] \in LoadLabels \ {"loadMake"} \/ answer'[d] = "200" => i \notin templates'
    <3>1. CASE LoadMake(p)
      BY <3>1 DEF LoadMake
    <3>2. CASE ~LoadMake(p)
      <4>1. at'[d] \in LoadLabels \ {"loadMake"} \/ answer'[d] = "200" =>
              at[d] \in LoadLabels \ {"loadMake"} \/ answer[d] = "200"
        <5>1. CASE p # d
          BY <1>6, <2>1, <5>1 DEF Local
        <5>2. CASE p = d
          BY <1>2, <1>6, <2>1, <3>2, <5>2, Parties DEF Moves, Role, Gone, LoadLabels, Loading
        <5>. QED BY <5>1, <5>2
      <4>2. i \notin templates => i \notin templates'
        <5>1. CASE LoadEntry(p)
          <6>1. cur[p] # i /\ templates' = templates \cup {cur[p]}
            BY <2>1, <5>1 DEF LoadEntry, Gone
          <6>. QED BY <6>1
        <5>2. CASE LoadEnd(p)
          BY <5>2 DEF LoadEnd
        <5>. QED BY <1>6, <3>2, <5>1, <5>2, MapStays
      <4>3. at[d] \in LoadLabels \ {"loadMake"} \/ answer[d] = "200" => i \notin templates
        BY <2>1 DEF Gone
      <4>. QED BY <4>1, <4>2, <4>3
    <3>. QED BY <3>1, <3>2
  <2>9. \A c \in Creates : idOf[c] = i => ~Saving(c)'
    BY <2>6
  <2>10. \A q \in Procs : /\ at'[q] \in Loading => i \notin todo'[q]
                          /\ at'[q] \in {"loadRead", "loadWrite"} => cur'[q] # i
    BY <2>7
  <2>11. d \in Deletes
    BY <2>1
  <2>. QED BY <1>2, <2>4, <2>5, <2>8, <2>9, <2>10, <2>11 DEF Gone
<1>. QED BY <1>3, <1>4, <1>5, <1>6, NextMoves

(* A template whose deletion was answered with 200 is neither in the map   *)
(* nor on the disk, unless RemoveAndUnregisterCustomTemplate removed it    *)
(* while another load read the directories or another request saved it.    *)
THEOREM DeletedIsUnlisted == Spec => []UnlistedOnceDeleted
<1>1. Init => RepoInv /\ CleanIsGone
  BY RepoInit DEF Init, CleanIsGone
<1>2. RepoInv /\ CleanIsGone /\ [Next]_repoVars => (RepoInv /\ CleanIsGone)'
  BY RepoNext, GoneNext
<1>3. RepoInv /\ CleanIsGone => UnlistedOnceDeleted
  BY DEF CleanIsGone, Gone, UnlistedOnceDeleted
<1>. QED BY <1>1, <1>2, <1>3, PTL DEF Spec

-----------------------------------------------------------------------------
(* What is served is whole *)

(* The kinds of files that readers look for are those that requests have.  *)
LEMMA KindsInUse ==
  /\ Kinds = InUse /\ Kinds \subseteq ObjectKinds /\ Plan \notin Kinds /\ "k8s" \notin Kinds
  /\ ReadOrder \in Seq(ObjectKinds)
  /\ \A c \in Creates : SavedKinds(c) \subseteq Kinds
<1>. DEFINE h(k) == Having(k, InUse)
            s2 == h("persistentvolumeclaim") \o h("secret")
            s3 == s2 \o h("statefulset")
            s4 == s3 \o h("deployment")
            s5 == s4 \o h("service")
            s6 == s5 \o h("account")
            s7 == s6 \o h("job")
<1>0. InUse \subseteq ObjectKinds /\ \A c \in Creates : Body[c] \subseteq InUse
  BY RepositoryBounds DEF InUse
<1>1. \A k \in ObjectKinds : h(k) \in Seq(ObjectKinds) /\ Members(h(k)) = {k} \cap InUse
  BY HavingMembers
<1>2. ReadOrder = s7
  BY DEF ReadOrder
<1>. HIDE DEF h
<1>3. /\ h("persistentvolumeclaim") \in Seq(ObjectKinds) /\ h("deployment") \in Seq(ObjectKinds)
      /\ h("service") \in Seq(ObjectKinds) /\ h("account") \in Seq(ObjectKinds)
      /\ h("secret") \in Seq(ObjectKinds) /\ h("job") \in Seq(ObjectKinds)
      /\ h("statefulset") \in Seq(ObjectKinds)
      /\ Members(h("persistentvolumeclaim")) = {"persistentvolumeclaim"} \cap InUse
      /\ Members(h("deployment")) = {"deployment"} \cap InUse
      /\ Members(h("service")) = {"service"} \cap InUse
      /\ Members(h("account")) = {"account"} \cap InUse
      /\ Members(h("secret")) = {"secret"} \cap InUse
      /\ Members(h("job")) = {"job"} \cap InUse
      /\ Members(h("statefulset")) = {"statefulset"} \cap InUse
  BY <1>1 DEF ObjectKinds
<1>4. s2 \in Seq(ObjectKinds) /\ Members(s2) = {"persistentvolumeclaim", "secret"} \cap InUse
  BY <1>3, ConcatMembers
<1>. HIDE DEF s2
<1>5. s3 \in Seq(ObjectKinds) /\ Members(s3) = {"persistentvolumeclaim", "secret", "statefulset"} \cap InUse
  BY <1>3, <1>4, ConcatMembers
<1>. HIDE DEF s3
<1>6. /\ s4 \in Seq(ObjectKinds)
      /\ Members(s4) = {"persistentvolumeclaim", "secret", "statefulset", "deployment"} \cap InUse
  BY <1>3, <1>5, ConcatMembers
<1>. HIDE DEF s4
<1>7. /\ s5 \in Seq(ObjectKinds)
      /\ Members(s5) = {"persistentvolumeclaim", "secret", "statefulset", "deployment", "service"} \cap InUse
  BY <1>3, <1>6, ConcatMembers
<1>. HIDE DEF s5
<1>8. /\ s6 \in Seq(ObjectKinds)
      /\ Members(s6) =
           {"persistentvolumeclaim", "secret", "statefulset", "deployment", "service", "account"} \cap InUse
  BY <1>3, <1>7, ConcatMembers
<1>. HIDE DEF s6
<1>9. /\ s7 \in Seq(ObjectKinds)
      /\ Members(s7) =
           {"persistentvolumeclaim", "secret", "statefulset", "deployment", "service", "account", "job"}
             \cap InUse
  BY <1>3, <1>8, ConcatMembers
<1>. HIDE DEF s7
<1>10. {"persistentvolumeclaim", "secret", "statefulset", "deployment", "service", "account", "job"}
         \cap InUse = InUse
  BY <1>0 DEF ObjectKinds
<1>11. Kinds = InUse
  BY <1>2, <1>9, <1>10 DEF Kinds, Members
<1>12. Plan \notin ObjectKinds /\ "k8s" \notin ObjectKinds
  BY DEF Plan, ObjectKinds
<1>13. \A c \in Creates : SavedKinds(c) \subseteq Kinds
  BY <1>0, <1>11 DEF SavedKinds
<1>. QED BY <1>0, <1>2, <1>9, <1>11, <1>12, <1>13

LEMMA MadeBefore ==
  ASSUME RepoInv, Next, NEW c \in Creates, Made(c)'
  PROVE  /\ Made(c) /\ idOf' = idOf /\ idOf[c] \in Ids
         /\ DOMAIN files[idOf[c]] = Kinds \cup {Plan, "k8s"}
<1>1. idOf' = idOf
  BY NextMoves
<1>2. Sole(c) /\ ~DeleteBegan(idOf[c])
  BY <1>1, BeganStays DEF Made, Sole
<1>3. idOf[c] \in Ids
  BY <1>2, Parties, NamesTemplate DEF Sole
<1>. QED BY <1>1, <1>2, <1>3 DEF Made, RepoInv, RepoTyped

(* Nobody but the request that creates a template touches its files. *)
LEMMA OwnFiles ==
  ASSUME RepoInv, NEW c \in Creates, Made(c), idOf[c] \in Ids, NEW p \in Procs, Acts(p),
         p # c \/ at[c] \notin {"save", "write"}
  PROVE  files'[idOf[c]] = files[idOf[c]]
<1>1. RepoTyped /\ Role(p)
  BY RolesAreRole DEF RepoInv
<1>2. CASE OpenFile(p)
  <2>1. at[p] = "save" /\ p \in Creates
    BY <1>1, <1>2 DEF OpenFile, Role
  <2>2. idOf[p] # idOf[c]
    BY <2>1 DEF Made, Sole
  <2>. QED BY <1>1, <1>2, <2>2, OpenEffect DEF Opened, OnlyDirs, diskVars
<1>3. CASE WriteFile(p)
  <2>1. at[p] = "write" /\ p \in Creates
    BY <1>1, <1>3 DEF WriteFile, Role
  <2>2. idOf[p] # idOf[c]
    BY <2>1 DEF Made, Sole
  <2>. QED BY <1>1, <1>3, <2>2, WriteEffect DEF Stored
<1>4. CASE RemoveFile(p)
  <2>1. at[p] = "remove" /\ p \in Deletes
    BY <1>1, <1>4 DEF RemoveFile, Role
  <2>2. idOf[p] # idOf[c]
    BY <2>1 DEF Made, DeleteBegan
  <2>. QED BY <1>1, <1>4, <2>2, RemoveFileEffect DEF Removed
<1>. QED BY <1>2, <1>3, <1>4, DiskStays

LEMMA OpenWritten ==
  ASSUME RepoInv, NEW c \in Creates, idOf[c] \in Ids, DOMAIN files[idOf[c]] = Kinds \cup {Plan, "k8s"},
         Written(c), at[c] = "save", at'[c] = "write", pos'[c] = pos[c], idOf' = idOf,
         Opened(idOf[c], SavedFiles(c)[pos[c]])
  PROVE  Written(c)'
<1>. DEFINE i == idOf[c]
            S == SavedFiles(c)
            name == S[pos[c]]
<1>1. pos[c] \in Nat \ {0} /\ pos[c] <= Len(S) /\ \A n \in 1..(pos[c] - 1) : files[i][S[n]] = c
  BY Parties DEF RepoInv, RepoTyped, Written, File
<1>2. /\ Len(S) \in Nat \ {0}
      /\ \A n \in 1..Len(S) : S[n] \in SavedKinds(c) \cup {Plan}
  BY SavedNames
<1>3. pos[c] \in 1..Len(S) /\ \A n \in 1..(pos[c] - 1) : n \in 1..Len(S)
  BY <1>1, <1>2
<1>4. \A n \in 1..Len(S) : S[n] \in DOMAIN files[i] \ {"k8s"}
  BY <1>2, KindsInUse DEF Plan
<1>5. name \in DOMAIN files[i] \ {"k8s"} /\ name \in SavedKinds(c) \cup {Plan}
  BY <1>2, <1>3, <1>4
<1>6. /\ files'[i][name] = Torn
      /\ \A n \in DOMAIN files[i] \ {name, "k8s"} : files'[i][n] = files[i][n]
  BY <1>5 DEF Opened
<1>7. Torn # None /\ c # Torn /\ c # None
  BY Parties DEF Torn, None
<1>8. /\ \A k \in Kinds \ SavedKinds(c) : files[i][k] = None
      /\ files[i][Plan] # c /\ files[i][Plan] \in {None, Torn, c}
  BY DEF Written, File
<1>. HIDE DEF name, S
<1>9. \A k \in Kinds \ SavedKinds(c) : files'[i][k] = None
  <2>. SUFFICES ASSUME NEW k \in Kinds \ SavedKinds(c) PROVE files'[i][k] = None
    OBVIOUS
  <2>1. k \in DOMAIN files[i] \ {name, "k8s"}
    BY <1>5, KindsInUse
  <2>. QED BY <1>6, <1>8, <2>1
<1>10. files'[i][Plan] # c /\ files'[i][Plan] \in {None, Torn, c}
  <2>1. Plan \in DOMAIN files[i] \ {"k8s"}
    BY DEF Plan
  <2>. QED BY <1>6, <1>7, <1>8, <2>1
<1>11. \A n \in 1..(pos[c] - 1) : files'[i][S[n]] = c \/ S[n] = name
  <2>. SUFFICES ASSUME NEW n \in 1..(pos[c] - 1), S[n] # name PROVE files'[i][S[n]] = c
    OBVIOUS
  <2>1. S[n] \in DOMAIN files[i] \ {name, "k8s"}
    BY <1>3, <1>4
  <2>. QED BY <1>1, <1>6, <2>1
<1>. QED BY <1>1, <1>6, <1>7, <1>9, <1>10, <1>11 DEF Written, File, S, name

LEMMA StoreWritten ==
  ASSUME RepoInv, NEW c \in Creates, idOf[c] \in Ids, DOMAIN files[idOf[c]] = Kinds \cup {Plan, "k8s"},
         Written(c), at[c] = "write", pos'[c] = pos[c] + 1, idOf' = idOf,
         at'[c] = IF pos[c] = Len(SavedFiles(c)) THEN "loadMake" ELSE "save",
         Stored(idOf[c], SavedFiles(c)[pos[c]], c)
  PROVE  Written(c)'
<1>. DEFINE i == idOf[c]
            S == SavedFiles(c)
            name == S[pos[c]]
<1>1. /\ pos[c] \in Nat \ {0} /\ pos[c] <= Len(S)
      /\ \A n \in 1..(pos[c] - 1) : files[i][S[n]] = c \/ S[n] = name
      /\ files[i][name] # None
  BY Parties DEF RepoInv, RepoTyped, Written, File
<1>2. /\ Len(S) \in Nat \ {0}
      /\ \A n \in 1..Len(S) : S[n] \in SavedKinds(c) \cup {Plan} /\ (S[n] = Plan <=> n = Len(S))
      /\ \A k \in SavedKinds(c) : \E n \in 1..(Len(S) - 1) : S[n] = k
  BY SavedNames
<1>3. pos[c] \in 1..Len(S) /\ \A n \in 1..(pos[c] - 1) : n \in 1..Len(S)
  BY <1>1, <1>2
<1>4. \A n \in 1..Len(S) : S[n] \in DOMAIN files[i]
  BY <1>2, KindsInUse
<1>5. name \in DOMAIN files[i] /\ name \in SavedKinds(c) \cup {Plan} /\ (name = Plan <=> pos[c] = Len(S))
  BY <1>2, <1>3, <1>4
<1>6. /\ files'[i][name] = c
      /\ \A n \in DOMAIN files[i] \ {name} : files'[i][n] = files[i][n]
  BY <1>1, <1>5 DEF Stored
<1>8. /\ \A k \in Kinds \ SavedKinds(c) : files[i][k] = None
      /\ files[i][Plan] # c /\ files[i][Plan] \in {None, Torn, c}
  BY DEF Written, File
<1>. HIDE DEF name, S
<1>9. \A k \in Kinds \ SavedKinds(c) : files'[i][k] = None
  <2>. SUFFICES ASSUME NEW k \in Kinds \ SavedKinds(c) PROVE files'[i][k] = None
    OBVIOUS
  <2>1. k \in DOMAIN files[i] \ {name}
    BY <1>5, KindsInUse
  <2>. QED BY <1>6, <1>8, <2>1
<1>10. /\ files'[i][Plan] \in {None, Torn, c}
       /\ pos[c] # Len(S) => files'[i][Plan] # c
  <2>1. Plan \in DOMAIN files[i]
    OBVIOUS
  <2>. QED BY <1>5, <1>6, <1>8, <2>1
<1>11. \A n \in 1..pos[c] : files'[i][S[n]] = c
  <2>. SUFFICES ASSUME NEW n \in 1..pos[c], S[n] # name PROVE files'[i][S[n]] = c
    BY <1>6
  <2>1. n \in 1..(pos[c] - 1)
    <3>1. n # pos[c]
      BY DEF name
    <3>. QED BY <1>1, <3>1
  <2>2. S[n] \in DOMAIN files[i] \ {name}
    BY <1>3, <1>4, <2>1
  <2>. QED BY <1>1, <1>6, <2>1, <2>2
<1>12. pos[c] # Len(S) => pos[c] + 1 <= Len(S) /\ (pos[c] + 1) - 1 = pos[c]
  BY <1>1, <1>2
<1>13. pos[c] = Len(S) => \A k \in SavedKinds(c) : files'[i][k] = c
  <2>. SUFFICES ASSUME pos[c] = Len(S), NEW k \in SavedKinds(c) PROVE files'[i][k] = c
    OBVIOUS
  <2>1. PICK n \in 1..(Len(S) - 1) : S[n] = k
    BY <1>2
  <2>2. n \in 1..pos[c]
    BY <1>2
  <2>. QED BY <1>11, <2>1, <2>2
<1>. QED BY <1>9, <1>10, <1>11, <1>12, <1>13 DEF Written, File, S

(* Steps that leave the files alone. *)
LEMMA SameWritten ==
  ASSUME NEW c \in Creates, Written(c), files'[idOf[c]] = files[idOf[c]], idOf' = idOf,
         \/ at'[c] = at[c] /\ pos'[c] = pos[c]
         \/ at[c] = "idle" /\ at'[c] = "idle" /\ pos'[c] = 1
         \/ at[c] = "idle" /\ at'[c] = "check" /\ pos'[c] = pos[c]
         \/ at[c] = "check" /\ at'[c] = "save" /\ pos'[c] = pos[c]
         \/ at'[c] \notin {"idle", "check", "save", "write"}
  PROVE  Written(c)'
<1>1. \A name : File(c, name)' = File(c, name)
  BY DEF File
<1>2. CASE at'[c] = at[c] /\ pos'[c] = pos[c]
  BY <1>1, <1>2 DEF Written
<1>3. CASE (at[c] = "idle" /\ at'[c] = "idle" /\ pos'[c] = 1) \/ (at[c] = "idle" /\ at'[c] = "check" /\ pos'[c] = pos[c])
  BY <1>1, <1>3 DEF Written
<1>4. CASE at[c] = "check" /\ at'[c] = "save" /\ pos'[c] = pos[c]
  <2>1. pos'[c] = 1 /\ 1 <= Len(SavedFiles(c)) /\ 1..(1 - 1) = {}
    BY <1>4, SavedNames DEF Written
  <2>. QED BY <1>1, <1>4, <2>1 DEF Written
<1>5. CASE at'[c] \notin {"idle", "check", "save", "write"}
  BY <1>1, <1>5 DEF Written
<1>. QED BY <1>2, <1>3, <1>4, <1>5

LEMMA WrittenNext ==
  ASSUME RepoInv, Next, NEW c \in Creates, Made(c)', Written(c)
  PROVE  Written(c)'
<1>0. /\ Made(c) /\ idOf' = idOf /\ idOf[c] \in Ids /\ RepoTyped
      /\ DOMAIN files[idOf[c]] = Kinds \cup {Plan, "k8s"}
  BY MadeBefore DEF RepoInv
<1>1. c \in Procs /\ c # Boot /\ DOMAIN at = Procs /\ RestTyped
  BY Parties DEF RepoInv, RepoTyped, RestTyped
<1>2. CASE Dies
  <2>1. files' = files /\ pos'[c] = 1 /\ at'[c] = IF at[c] = "idle" THEN "idle" ELSE "done"
    BY <1>1, <1>2 DEF Dies, Die, diskVars
  <2>. QED BY <1>0, <2>1, SameWritten
<1>3. CASE Start
  <2>1. files' = files /\ pos' = pos /\ at'[c] = at[c]
    BY <1>1, <1>3 DEF Start, Jump, diskVars, localVars
  <2>. QED BY <1>0, <2>1, SameWritten
<1>4. ASSUME NEW p \in Procs, p # c, Local(p), Acts(p) PROVE Written(c)'
  <2>1. files'[idOf[c]] = files[idOf[c]]
    BY <1>0, <1>4, OwnFiles
  <2>2. at'[c] = at[c] /\ pos'[c] = pos[c]
    BY <1>1, <1>4 DEF Local
  <2>. QED BY <1>0, <2>1, <2>2, SameWritten
<1>5. ASSUME Local(c), Acts(c), Moves(c) PROVE Written(c)'
  <2>1. CASE OpenFile(c)
    <3>1. pos' = pos /\ at[c] = "save"
      BY <2>1 DEF OpenFile, localVars
    <3>2. CASE UNCHANGED diskVars /\ at'[c] = "done"
      <4>1. files' = files
        BY <3>2 DEF diskVars
      <4>. QED BY <1>0, <3>2, <4>1, SameWritten
    <3>3. CASE OnlyDirs(idOf[c]) /\ at'[c] = "done"
      <4>1. \A n \in Kinds \cup {Plan} : File(c, n)' = File(c, n)
        BY <1>0, <3>3, KindsInUse DEF OnlyDirs, Plan, File
      <4>2. /\ \A k \in Kinds \ SavedKinds(c) : File(c, k)' = None
            /\ File(c, Plan)' \in {None, Torn, c}
            /\ File(c, Plan)' = c => \A k \in SavedKinds(c) : File(c, k)' = c
        BY <4>1, KindsInUse DEF Written
      <4>. QED BY <3>3, <4>2 DEF Written
    <3>. QED BY <1>0, <1>1, <2>1, <3>1, <3>2, <3>3, OpenEffect, OpenWritten
  <2>2. CASE WriteFile(c)
    <3>1. at[c] = "write"
      BY <2>2 DEF WriteFile
    <3>2. CASE files' = files /\ at'[c] = "done"
      BY <1>0, <3>2, SameWritten
    <3>. QED BY <1>0, <1>1, <2>2, <3>1, <3>2, WriteEffect, StoreWritten
  <2>3. CASE ~OpenFile(c) /\ ~WriteFile(c)
    <3>1. files'[idOf[c]] = files[idOf[c]]
      <4>1. CASE RemoveFile(c)
        <5>1. at[c] = "remove" /\ Role(c)
          BY <4>1, <1>1, RolesAreRole DEF RemoveFile, RepoInv
        <5>. QED BY <5>1, Parties DEF Role
      <4>. QED BY <1>1, <1>5, <2>3, <4>1, DiskStays
    <3>2. \/ at'[c] \notin {"idle", "check", "save", "write"}
          \/ at[c] = "idle" /\ at'[c] = "check"
          \/ at[c] = "check" /\ at'[c] = "save"
      BY <1>5, <2>3 DEF Moves
    <3>3. at[c] \in {"idle", "check"} => pos'[c] = pos[c] \/ Die
      BY <1>5 DEF Acts, Step, LoadStep, Arrive, Malformed, CheckExists, OpenFile, WriteFile, RemoveFile,
         RemoveDone, RemoveFails, LoadMake, LoadList, LoadDir, LoadPlan, LoadEntry, LoadEnd, MapRace, Lookup,
         Iterate, ReadFiles, ReadEnd, localVars
    <3>4. Die => at'[c] \in {"idle", "done"} /\ (at'[c] = "idle" => at[c] = "idle" /\ pos'[c] = 1)
      BY <1>1 DEF Die
    <3>. QED BY <1>0, <3>1, <3>2, <3>3, <3>4, SameWritten
  <2>. QED BY <2>1, <2>2, <2>3
<1>. QED BY <1>2, <1>3, <1>4, <1>5, NextMoves

LEMMA SeenStays ==
  ASSUME NEW p \in Procs, Acts(p), ~ReadFiles(p)
  PROVE  seen' = seen
BY DEF Acts, Step, LoadStep, Arrive, Malformed, CheckExists, OpenFile, WriteFile, RemoveFile, RemoveDone,
   RemoveFails, LoadMake, LoadList, LoadDir, LoadPlan, LoadEntry, LoadEnd, MapRace, Lookup, Iterate, ReadEnd,
   Panic, Die, localVars

LEMMA ReadersInit == Init => Readers
BY Parties DEF Init, Readers, ReaderAt

LEMMA ReadersNext == RepoInv /\ Readers /\ [Next]_repoVars => Readers'
<1>. SUFFICES ASSUME RepoInv, Readers, [Next]_repoVars PROVE Readers'
  OBVIOUS
<1>1. CASE UNCHANGED repoVars
  BY <1>1 DEF Readers, ReaderAt, repoVars, localVars
<1>. SUFFICES ASSUME Next, NEW q \in Procs PROVE ReaderAt(q)'
  BY <1>1 DEF Readers
<1>2. ReaderAt(q) /\ idOf' = idOf /\ Role(q)
  BY NextMoves, RolesAreRole DEF Readers, RepoInv
<1>3. CASE Dies
  BY <1>2, <1>3 DEF Dies, Die, ReaderAt
<1>4. CASE Start
  BY <1>2, <1>4 DEF Start, Jump, localVars, ReaderAt, RepoInv, RepoTyped
<1>5. ASSUME NEW p \in Procs, p # q, Local(p) PROVE ReaderAt(q)'
  BY <1>2, <1>5 DEF Local, ReaderAt
<1>6. ASSUME Acts(q), Moves(q) PROVE ReaderAt(q)'
  <2>0. DOMAIN cur = Procs /\ DOMAIN at = Procs /\ DOMAIN answer = Procs
    BY DEF RepoInv, RepoTyped
  <2>1. CASE ReadFiles(q)
    <3>1. at[q] = "read" /\ at'[q] \in {"read", "done"} /\ cur' = cur
      BY <1>6, <2>0, <2>1 DEF ReadFiles, Respond, Jump
    <3>2. q # Boot
      BY <1>2, <3>1, Parties DEF Role
    <3>. QED BY <1>2, <3>1, <3>2 DEF ReaderAt
  <2>2. CASE ~ReadFiles(q)
    <3>1. seen' = seen
      BY <1>6, <2>2, SeenStays
    <3>2. at'[q] \notin {"iterate", "read", "done"} => at[q] \notin {"iterate", "read", "done"}
      BY <1>6 DEF Moves
    <3>3. at'[q] \in {"idle", "lookup"} => at[q] = "idle" /\ pos'[q] = 1 /\ todo'[q] = {}
      <4>. SUFFICES ASSUME at'[q] \in {"idle", "lookup"} PROVE at[q] = "idle" /\ pos'[q] = 1 /\ todo'[q] = {}
        OBVIOUS
      <4>1. at[q] = "idle"
        BY <1>6 DEF Moves
      <4>2. UNCHANGED localVars
        BY <1>6, <4>1 DEF Acts, Step, LoadStep, Arrive, Malformed, CheckExists, OpenFile, WriteFile,
           RemoveFile, RemoveDone, RemoveFails, LoadMake, LoadList, LoadDir, LoadPlan, LoadEntry, LoadEnd,
           MapRace, Lookup, Iterate, ReadFiles, ReadEnd
      <4>. QED BY <1>2, <4>1, <4>2 DEF ReaderAt, localVars
    <3>4. at'[q] = "read" /\ q \in Gets => cur'[q] = idOf[q]
      <4>. SUFFICES ASSUME at'[q] = "read", q \in Gets PROVE cur'[q] = idOf[q]
        OBVIOUS
      <4>1. at[q] \in {"lookup", "read"}
        BY <1>2, <1>6, Parties DEF Moves, Role
      <4>2. Lookup(q) \/ ReadEnd(q) \/ Die
        BY <1>6, <2>2, <4>1 DEF Acts, Step, LoadStep, Arrive, Malformed, CheckExists, OpenFile, WriteFile,
           RemoveFile, RemoveDone, RemoveFails, LoadMake, LoadList, LoadDir, LoadPlan, LoadEntry, LoadEnd,
           MapRace, Iterate
      <4>3. ~Die
        BY DEF Die
      <4>4. ~ReadEnd(q)
        BY <2>0 DEF ReadEnd, Respond, Jump
      <4>. QED BY <2>0, <4>2, <4>3, <4>4 DEF Lookup, Respond, Jump
    <3>. QED BY <1>2, <3>1, <3>2, <3>3, <3>4 DEF ReaderAt
  <2>. QED BY <2>1, <2>2
<1>. QED BY <1>3, <1>4, <1>5, <1>6, NextMoves

(* A template that is whole stays so. *)
LEMMA WholeStays ==
  ASSUME RepoInv, Next, NEW c \in Creates, Made(c)', Written(c), WholeOnDisk(c)
  PROVE  WholeOnDisk(c)'
<1>0. Made(c) /\ idOf' = idOf /\ idOf[c] \in Ids
  BY MadeBefore
<1>1. CASE Dies \/ Start
  BY <1>0, <1>1 DEF Dies, Start, diskVars, WholeOnDisk, File
<1>2. ASSUME NEW p \in Procs, Acts(p) PROVE WholeOnDisk(c)'
  <2>1. at[c] \notin {"save", "write"}
    BY DEF Written, WholeOnDisk
  <2>2. files'[idOf[c]] = files[idOf[c]]
    BY <1>0, <1>2, <2>1, OwnFiles
  <2>. QED BY <1>0, <2>2 DEF WholeOnDisk, File
<1>. QED BY <1>1, <1>2, NextMoves

LEMMA KindsInAdd ==
  ASSUME NEW S, NEW i, NEW r
  PROVE  KindsIn(S \cup {r}, i) = IF r.id = i THEN KindsIn(S, i) \cup {r.kind} ELSE KindsIn(S, i)
<1>. DEFINE A == {t \in S : t.id = i}
            B == {t \in S \cup {r} : t.id = i}
<1>1. B = IF r.id = i THEN A \cup {r} ELSE A
  OBVIOUS
<1>. HIDE DEF A, B
<1>2. {s.kind : s \in B} = IF r.id = i THEN {s.kind : s \in A} \cup {r.kind} ELSE {s.kind : s \in A}
  BY <1>1
<1>. QED BY <1>2 DEF KindsIn, A, B

LEMMA NoKinds == ASSUME NEW i PROVE KindsIn({}, i) = {}
BY DEF KindsIn

(* Of a template that is whole a reader sees every kind that was saved. *)
LEMMA ReadsKind ==
  ASSUME RepoInv, NEW c \in Creates, NEW p \in Procs, ServedAt(c, p), Written(c), ReadFiles(p),
         at'[p] = "read", cur[p] = idOf[c]
  PROVE  /\ KindsIn(seen'[p], idOf[c]) = SavedKinds(c) \cap {ReadOrder[n] : n \in 1..(pos'[p] - 1)}
<1>. DEFINE i == idOf[c]
            k == ReadOrder[pos[p]]
            content == files[i][k]
<1>0. pos \in [Procs -> Nat \ {0}] /\ DOMAIN seen = Procs /\ DOMAIN at = Procs
  BY DEF RepoInv, RepoTyped
<1>1. /\ at[p] = "read" /\ pos[p] <= Len(ReadOrder)
      /\ pos' = [pos EXCEPT ![p] = @ + 1]
      /\ seen' = IF content = None THEN seen
                 ELSE [seen EXCEPT ![p] = @ \cup {[id |-> i, kind |-> k, by |-> content]}]
  BY <1>0 DEF ReadFiles, Respond, Jump
<1>2. pos'[p] = pos[p] + 1 /\ pos[p] \in Nat \ {0}
  BY <1>0, <1>1
<1>3. k \in Kinds
  BY <1>1, <1>2, KindsInUse DEF Kinds
<1>4. /\ WholeOnDisk(c)
      /\ KindsIn(seen[p], i) = SavedKinds(c) \cap {ReadOrder[n] : n \in 1..(pos[p] - 1)}
  BY <1>1 DEF ServedAt, SeenKinds
<1>5. /\ k \in SavedKinds(c) => content # None
      /\ k \notin SavedKinds(c) => content = None
  <2>1. c # None
    BY Parties
  <2>. QED BY <1>3, <1>4, <2>1 DEF Written, WholeOnDisk, File
<1>6. {ReadOrder[n] : n \in 1..(pos'[p] - 1)} = {ReadOrder[n] : n \in 1..(pos[p] - 1)} \cup {k}
  <2>1. \A n : n \in 1..(pos'[p] - 1) <=> n \in 1..(pos[p] - 1) \/ n = pos[p]
    BY <1>2
  <2>. QED BY <2>1
<1>. HIDE DEF k, content
<1>7. KindsIn(seen'[p], i) = IF content = None THEN KindsIn(seen[p], i) ELSE KindsIn(seen[p], i) \cup {k}
  <2>1. CASE content = None
    BY <1>1, <2>1
  <2>2. CASE content # None
    <3>. DEFINE r == [id |-> i, kind |-> k, by |-> content]
    <3>1. seen'[p] = seen[p] \cup {r}
      BY <1>0, <1>1, <2>2
    <3>2. r.id = i /\ r.kind = k
      OBVIOUS
    <3>. HIDE DEF r, i
    <3>3. KindsIn(seen[p] \cup {r}, i) = KindsIn(seen[p], i) \cup {k}
      BY <3>2, KindsInAdd
    <3>. QED BY <2>2, <3>1, <3>3
  <2>. QED BY <2>1, <2>2
<1>. QED BY <1>4, <1>5, <1>6, <1>7

LEMMA ReadsOther ==
  ASSUME RepoInv, NEW p \in Procs, ReadFiles(p), NEW i, cur[p] # i
  PROVE  KindsIn(seen'[p], i) = KindsIn(seen[p], i)
<1>0. DOMAIN seen = Procs
  BY DEF RepoInv, RepoTyped
<1>1. \/ seen' = seen
      \/ \E k, b : seen' = [seen EXCEPT ![p] = @ \cup {[id |-> cur[p], kind |-> k, by |-> b]}]
  BY DEF ReadFiles
<1>2. ASSUME NEW k, NEW b, seen' = [seen EXCEPT ![p] = @ \cup {[id |-> cur[p], kind |-> k, by |-> b]}]
      PROVE  KindsIn(seen'[p], i) = KindsIn(seen[p], i)
  <2>. DEFINE r == [id |-> cur[p], kind |-> k, by |-> b]
  <2>1. seen'[p] = seen[p] \cup {r} /\ r.id = cur[p]
    BY <1>0, <1>2
  <2>. HIDE DEF r
  <2>2. KindsIn(seen[p] \cup {r}, i) = KindsIn(seen[p], i)
    BY <2>1, KindsInAdd
  <2>. QED BY <2>1, <2>2
<1>. QED BY <1>1, <1>2

(* What a reader has seen, for each of the conjuncts of ServedAt. *)
LEMMA ServedSame ==
  ASSUME NEW c \in Creates, NEW p \in Procs, ServedAt(c, p), idOf' = idOf,
         WholeOnDisk(c) => WholeOnDisk(c)',
         seen'[p] = seen[p], at'[p] = at[p], answer'[p] = answer[p], pos'[p] = pos[p],
         todo'[p] = todo[p], cur'[p] = cur[p]
  PROVE  ServedAt(c, p)'
<1>1. SeenKinds(p, idOf[c])' = SeenKinds(p, idOf[c])
  BY DEF SeenKinds
<1>. QED BY <1>1 DEF ServedAt

(* Steps that are none of a reader's. *)
LEMMA ElsewhereServed ==
  ASSUME NEW c \in Creates, NEW p \in Procs,
         at'[p] \notin {"iterate", "read", "loadWrite"}, answer'[p] # "200"
  PROVE  ServedAt(c, p)'
BY DEF ServedAt

LEMMA Elsewhere ==
  ASSUME RepoInv, NEW p \in Procs, Acts(p), Moves(p), ~LoadEnd(p), ~LoadPlan(p), ~Lookup(p), ~Iterate(p),
         ~ReadFiles(p), ~ReadEnd(p)
  PROVE  at'[p] \notin {"iterate", "read", "loadWrite"} /\ (p \in Requests => answer'[p] # "200")
<1>0. Role(p)
  BY RolesAreRole DEF RepoInv
<1>1. at[p] # "read"
  <2>1. CASE MapRace(p)
    BY <2>1 DEF MapRace
  <2>. QED BY <2>1 DEF Acts, Step, LoadStep, Arrive, Malformed, CheckExists, OpenFile, WriteFile, RemoveFile,
       RemoveDone, RemoveFails, LoadMake, LoadList, LoadDir, LoadEntry
<1>2. at[p] \in {"lookup", "iterate", "loadRead"} => MapRace(p)
  BY DEF Acts, Step, LoadStep, Arrive, Malformed, CheckExists, OpenFile, WriteFile, RemoveFile,
       RemoveDone, RemoveFails, LoadMake, LoadList, LoadDir, LoadEntry
<1>3. MapRace(p) => /\ at'[p] \in {"idle", "done"}
                    /\ answer'[p] = "lost"
  BY DEF MapRace, Die
<1>4. CASE at[p] = "loadScan"
  <2>1. LoadDir(p)
    BY <1>4 DEF Acts, Step, LoadStep, Arrive, Malformed, CheckExists, OpenFile, WriteFile, RemoveFile,
       RemoveDone, RemoveFails, LoadMake, LoadList, LoadEntry, MapRace
  <2>2. /\ DOMAIN at = Procs /\ DOMAIN answer = Procs
    BY DEF RepoInv, RepoTyped
  <2>3. Panic(p) => at'[p] \in {"idle", "done"} /\ answer'[p] \in {"500", "lost"}
    BY <1>4, <2>2 DEF Panic, Die, Respond, Jump
  <2>4. \/ at'[p] = "loadRead" /\ answer' = answer
        \/ at' = at /\ answer' = answer
        \/ Panic(p)
    BY <2>1, <2>2 DEF LoadDir, Jump
  <2>. QED BY <1>0, <1>4, <2>3, <2>4 DEF Role
<1>5. CASE at[p] # "loadScan"
  BY <1>0, <1>1, <1>2, <1>3, <1>5 DEF Moves, Role
<1>. QED BY <1>4, <1>5

LEMMA ServedStep ==
  ASSUME RepoInv, NEW c \in Creates, Made(c), Written(c), Served(c), idOf' = idOf,
         WholeOnDisk(c) => WholeOnDisk(c)',
         NEW p \in Procs, Local(p), Acts(p), Moves(p), ReaderAt(p)
  PROVE  ServedAt(c, p)'
<1>. DEFINE i == idOf[c]
<1>0. /\ DOMAIN at = Procs /\ DOMAIN answer = Procs /\ DOMAIN todo = Procs /\ DOMAIN cur = Procs
      /\ pos \in [Procs -> Nat \ {0}]
  BY DEF RepoInv, RepoTyped
<1>1. ServedAt(c, p) /\ (i \in templates => WholeOnDisk(c)) /\ Role(p)
  BY RolesAreRole DEF Served, RepoInv
<1>2. ~ReadFiles(p) => seen' = seen
  BY SeenStays
<1>3. SeenKinds(p, i) = KindsIn(seen[p], i) /\ SeenKinds(p, idOf[c])' = KindsIn(seen'[p], i)
  BY DEF SeenKinds
<1>4. KindsIn({}, i) = {}
  BY NoKinds
<1>5. CASE LoadEnd(p)
  <2>1. at[p] = "loadScan" /\ seen'[p] = {} /\ seen' = seen /\ p \notin Gets
    BY <1>1, <1>2, <1>5 DEF LoadEnd, ReaderAt, ReadFiles, Role, LoadLabels, Loading
  <2>2. CASE p \in Lists
    <3>1. todo'[p] = templates /\ at'[p] = "iterate"
      BY <1>0, <1>5, <2>2 DEF LoadEnd, Jump
    <3>2. SeenKinds(p, idOf[c])' = {}
      BY <1>3, <1>4, <2>1
    <3>. QED BY <1>1, <2>1, <3>1, <3>2 DEF ServedAt
  <2>3. CASE p \notin Lists
    <3>1. at'[p] = "done"
      BY <1>0, <1>5, <2>3 DEF LoadEnd, Respond, Jump
    <3>. QED BY <2>1, <2>3, <3>1 DEF ServedAt
  <2>. QED BY <2>2, <2>3
<1>6. CASE LoadPlan(p)
  <2>1. at[p] = "loadRead" /\ p \notin Gets /\ (p \in Lists => answer[p] = "none")
    BY <1>1, <1>6, Parties DEF LoadPlan, Role, LoadLabels, Loading
  <2>2. CASE Die
    BY <1>0, <2>1, <2>2 DEF Die, ServedAt
  <2>3. CASE ~Die
    <3>1. files[cur[p]][Plan] \notin {None, Torn} /\ cur' = cur /\ answer' = answer /\ at'[p] = "loadWrite"
      BY <1>0, <1>6, <2>3 DEF LoadPlan, Jump, localVars
    <3>2. cur[p] = i => WholeOnDisk(c)
      BY <3>1 DEF Written, WholeOnDisk, File
    <3>. QED BY <2>1, <3>1, <3>2 DEF ServedAt
  <2>. QED BY <2>2, <2>3
<1>7. CASE Lookup(p)
  <2>1. /\ at[p] = "lookup" /\ p \in Gets /\ p \notin Lists /\ p \in Requests /\ answer[p] = "none"
        /\ seen[p] = {} /\ pos[p] = 1 /\ todo[p] = {}
    BY <1>1, <1>7, Parties DEF Lookup, Role, ReaderAt
  <2>2. /\ pos' = pos /\ todo' = todo /\ seen' = seen
    BY <1>7 DEF Lookup
  <2>3. CASE idOf[p] \in templates
    <3>1. cur'[p] = idOf[p] /\ at'[p] = "read" /\ answer' = answer
      BY <1>0, <1>7, <2>3 DEF Lookup, Jump
    <3>2. SeenKinds(p, idOf[c])' = {} /\ {ReadOrder[n] : n \in 1..(pos'[p] - 1)} = {}
      BY <1>3, <1>4, <2>1, <2>2
    <3>. QED BY <1>1, <2>1, <2>2, <2>3, <3>1, <3>2 DEF ServedAt
  <2>4. CASE idOf[p] \notin templates
    <3>1. at'[p] = "done" /\ answer'[p] = "500"
      BY <1>0, <1>7, <2>4 DEF Lookup, Respond, Jump
    <3>. QED BY <3>1, ElsewhereServed
  <2>. QED BY <2>3, <2>4
<1>8. CASE Iterate(p)
  <2>1. at[p] = "iterate" /\ p \in Lists /\ p \notin Gets /\ seen' = seen
    BY <1>1, <1>8, Parties DEF Iterate, Role
  <2>2. SeenKinds(p, idOf[c])' = SeenKinds(p, i)
    BY <1>3, <2>1
  <2>3. /\ i \in todo[p] => WholeOnDisk(c) /\ SeenKinds(p, i) = {}
        /\ SeenKinds(p, i) \in {{}, SavedKinds(c)}
    BY <1>1, <2>1 DEF ServedAt
  <2>4. CASE at'[p] = "done"
    BY <2>1, <2>2, <2>3, <2>4 DEF ServedAt
  <2>5. CASE at'[p] # "done"
    <3>1. PICK j \in todo[p] : /\ cur' = [cur EXCEPT ![p] = j] /\ pos' = [pos EXCEPT ![p] = 1]
                               /\ todo' = [todo EXCEPT ![p] = @ \ {j}] /\ at' = [at EXCEPT ![p] = "read"]
                               /\ answer' = answer
      BY <1>0, <1>8, <2>5 DEF Iterate, Respond, Jump
    <3>2. cur'[p] = j /\ pos'[p] = 1 /\ todo'[p] = todo[p] \ {j} /\ at'[p] = "read"
      BY <1>0, <3>1
    <3>3. {ReadOrder[n] : n \in 1..(pos'[p] - 1)} = {}
      BY <3>2
    <3>. QED BY <2>1, <2>2, <2>3, <3>2, <3>3 DEF ServedAt
  <2>. QED BY <2>4, <2>5
<1>9. CASE ReadFiles(p)
  <2>1. at[p] = "read" /\ p \in Requests /\ answer[p] = "none"
    BY <1>1, <1>9, Parties DEF ReadFiles, Role
  <2>2. cur' = cur /\ todo' = todo
    BY <1>9 DEF ReadFiles
  <2>3. at'[p] = "read" \/ (at'[p] = "done" /\ answer'[p] = "500")
    BY <1>0, <1>9, <2>1 DEF ReadFiles, Respond, Jump
  <2>4. CASE at'[p] = "read"
    <3>1. answer'[p] = "none"
      BY <1>0, <1>9, <2>1, <2>4 DEF ReadFiles, Respond, Jump
    <3>2. CASE cur[p] = i
      <4>1. SeenKinds(p, idOf[c])' = SavedKinds(c) \cap {ReadOrder[n] : n \in 1..(pos'[p] - 1)}
        BY <1>1, <1>3, <1>9, <2>4, <3>2, ReadsKind
      <4>. QED BY <1>1, <2>1, <2>2, <2>4, <3>1, <3>2, <4>1 DEF ServedAt
    <3>3. CASE cur[p] # i
      <4>1. SeenKinds(p, idOf[c])' = SeenKinds(p, i)
        BY <1>3, <1>9, <3>3, ReadsOther
      <4>. QED BY <1>1, <2>1, <2>2, <2>4, <3>1, <3>3, <4>1 DEF ServedAt
    <3>. QED BY <3>2, <3>3
  <2>. QED BY <2>3, <2>4, ElsewhereServed
<1>10. CASE ReadEnd(p)
  <2>1. /\ at[p] = "read" /\ pos[p] > Len(ReadOrder) /\ p \in Gets \cup Lists /\ answer[p] = "none"
        /\ UNCHANGED localVars
    BY <1>1, <1>10, Parties DEF ReadEnd, Role
  <2>2. cur' = cur /\ todo' = todo /\ seen' = seen
    BY <2>1 DEF localVars
  <2>3. SeenKinds(p, idOf[c])' = SeenKinds(p, i)
    BY <1>3, <2>2
  <2>4. cur[p] = i => SeenKinds(p, i) = SavedKinds(c)
    <3>1. Kinds \subseteq {ReadOrder[n] : n \in 1..(pos[p] - 1)}
      <4>1. Len(ReadOrder) \in Nat /\ pos[p] \in Nat
        BY <1>0, KindsInUse, LenProperties
      <4>2. \A n \in 1..Len(ReadOrder) : n \in 1..(pos[p] - 1)
        BY <2>1, <4>1
      <4>. QED BY <4>2 DEF Kinds
    <3>2. SavedKinds(c) \subseteq Kinds
      BY KindsInUse
    <3>. QED BY <1>1, <2>1, <3>1, <3>2 DEF ServedAt
  <2>5. CASE p \in Lists
    <3>1. at'[p] = "iterate" /\ answer' = answer /\ p \notin Gets
      BY <1>0, <1>10, <2>5, Parties DEF ReadEnd, Jump
    <3>. QED BY <1>1, <2>1, <2>2, <2>3, <2>4, <3>1 DEF ServedAt
  <2>6. CASE p \notin Lists
    <3>1. at'[p] = "done" /\ p \in Gets
      BY <1>0, <1>10, <2>1, <2>6 DEF ReadEnd, Respond, Jump
    <3>2. cur[p] = idOf[p]
      BY <2>1, <3>1 DEF ReaderAt
    <3>. QED BY <2>3, <2>4, <2>6, <3>1, <3>2 DEF ServedAt
  <2>. QED BY <2>5, <2>6
<1>11. CASE ~LoadEnd(p) /\ ~LoadPlan(p) /\ ~Lookup(p) /\ ~Iterate(p) /\ ~ReadFiles(p) /\ ~ReadEnd(p)
  <2>1. at'[p] \notin {"iterate", "read", "loadWrite"} /\ (p \in Requests => answer'[p] # "200")
    BY <1>11, Elsewhere
  <2>2. CASE p \in Requests
    BY <2>1, <2>2, ElsewhereServed
  <2>3. CASE p \notin Requests
    <3>1. p \notin Lists /\ p \notin Gets
      BY <2>3, Parties
    <3>. QED BY <2>1, <3>1 DEF ServedAt
  <2>. QED BY <2>2, <2>3
<1>. QED BY <1>5, <1>6, <1>7, <1>8, <1>9, <1>10, <1>11

LEMMA ServedNext ==
  ASSUME RepoInv, Next, Readers, NEW c \in Creates, Made(c)', Written(c), Served(c)
  PROVE  Served(c)'
<1>0. Made(c) /\ idOf' = idOf
  BY MadeBefore
<1>1. WholeOnDisk(c) => WholeOnDisk(c)'
  BY WholeStays
<1>2. CASE Dies
  <2>1. templates' = templates /\ seen' = seen
    BY <1>2 DEF Dies, Die, mapVars
  <2>2. ASSUME NEW p \in Procs PROVE ServedAt(c, p)'
    <3>1. at'[p] \in {"idle", "done"} /\ (answer'[p] = "200" => answer[p] = "200")
      BY <1>2 DEF Dies, Die
    <3>2. SeenKinds(p, idOf[c])' = SeenKinds(p, idOf[c])
      BY <1>0, <2>1 DEF SeenKinds
    <3>. QED BY <1>0, <3>1, <3>2 DEF Served, ServedAt
  <2>. QED BY <1>0, <1>1, <2>1, <2>2 DEF Served
<1>3. CASE Start
  <2>1. templates' = {} /\ UNCHANGED <<answer, pos, todo, cur, seen>>
    BY <1>3 DEF Start, localVars
  <2>2. at'[Boot] = "loadMake" /\ \A p \in Procs \ {Boot} : at'[p] = at[p]
    BY <1>3, Parties DEF Start, Jump, RepoInv, RepoTyped
  <2>3. ASSUME NEW p \in Procs PROVE ServedAt(c, p)'
    <3>1. CASE p = Boot
      BY <2>2, <3>1, Parties DEF ServedAt
    <3>2. CASE p # Boot
      BY <1>0, <1>1, <2>1, <2>2, <3>2, ServedSame DEF Served
    <3>. QED BY <3>1, <3>2
  <2>. QED BY <2>1, <2>3 DEF Served
<1>4. ASSUME NEW p \in Procs, Local(p), Acts(p), Moves(p) PROVE Served(c)'
  <2>1. ASSUME NEW q \in Procs PROVE ServedAt(c, q)'
    <3>1. CASE q = p
      BY <1>0, <1>1, <1>4, <3>1, ServedStep DEF Readers
    <3>2. CASE q # p
      BY <1>0, <1>1, <1>4, <3>2, ServedSame DEF Served, Local
    <3>. QED BY <3>1, <3>2
  <2>2. idOf[c] \in templates' => WholeOnDisk(c)
    <3>1. CASE LoadMake(p)
      BY <3>1 DEF LoadMake
    <3>2. CASE LoadEntry(p)
      <4>1. at[p] = "loadWrite" /\ templates' = templates \cup {cur[p]}
        BY <3>2 DEF LoadEntry
      <4>. QED BY <4>1 DEF Served, ServedAt
    <3>3. CASE LoadEnd(p)
      BY <3>3 DEF LoadEnd, Served
    <3>. QED BY <1>4, <3>1, <3>2, <3>3, MapStays DEF Served
  <2>. QED BY <1>0, <1>1, <2>1, <2>2 DEF Served
<1>. QED BY <1>2, <1>3, <1>4, NextMoves

LEMMA WholeInit == Init => WholeInv
<1>. SUFFICES ASSUME Init, NEW c \in Creates, Made(c) PROVE Written(c) /\ Served(c)
  BY DEF WholeInv
<1>1. RepoInv
  BY RepoInit
<1>2. idOf[c] \in Ids /\ c \in Procs /\ c # Boot /\ c # None
  BY <1>1, NamesTemplate, Parties DEF Made, Sole
<1>3. at[c] = "idle" /\ pos[c] = 1 /\ \A k \in Kinds \cup {Plan, "k8s"} : File(c, k) = None
  BY <1>2 DEF Init, File
<1>4. Written(c)
  BY <1>2, <1>3, KindsInUse DEF Written
<1>5. Served(c)
  BY Parties DEF Init, Served, ServedAt
<1>. QED BY <1>4, <1>5

LEMMA WholeNext == RepoInv /\ Readers /\ WholeInv /\ [Next]_repoVars => WholeInv'
<1>. SUFFICES ASSUME RepoInv, Readers, WholeInv, [Next]_repoVars PROVE WholeInv'
  OBVIOUS
<1>1. CASE UNCHANGED repoVars
  <2>1. UNCHANGED <<idOf, at, answer, files, pos, todo, cur, seen, templates>>
    BY <1>1 DEF repoVars, diskVars, localVars, mapVars
  <2>2. ASSUME NEW c \in Creates, Made(c)' PROVE Written(c)' /\ Served(c)'
    <3>1. Written(c) /\ Served(c)
      BY <2>1, <2>2 DEF WholeInv, Made, Sole, DeleteBegan
    <3>2. Written(c)'
      BY <2>1, <3>1 DEF Written, File
    <3>3. WholeOnDisk(c)' <=> WholeOnDisk(c)
      BY <2>1 DEF WholeOnDisk, File
    <3>4. ASSUME NEW p \in Procs PROVE ServedAt(c, p)'
      <4>1. ServedAt(c, p)
        BY <3>1 DEF Served
      <4>2. \A i : SeenKinds(p, i)' = SeenKinds(p, i)
        BY <2>1 DEF SeenKinds
      <4>. QED BY <2>1, <3>3, <4>1, <4>2 DEF ServedAt
    <3>. QED BY <2>1, <3>1, <3>2, <3>3, <3>4 DEF Served
  <2>. QED BY <2>2 DEF WholeInv
<1>2. ASSUME Next, NEW c \in Creates, Made(c)' PROVE Written(c)' /\ Served(c)'
  BY <1>2, MadeBefore, WrittenNext, ServedNext DEF WholeInv
<1>. QED BY <1>1, <1>2 DEF WholeInv

(* A template that GetCustomTemplate or Templates serves has all objects   *)
(* that AddAndRegisterCustomTemplate saves of the request that created it, *)
(* as long as nobody began to delete it and no other request creates the   *)
(* same id: for any number of requests and templates, whatever saves fail  *)
(* and whenever the process ends.                                          *)
THEOREM WholeIsServed == Spec => []ServedIsWhole
<1>1. Init => RepoInv /\ Readers /\ WholeInv
  BY RepoInit, ReadersInit, WholeInit
<1>2. RepoInv /\ Readers /\ WholeInv /\ [Next]_repoVars => (RepoInv /\ Readers /\ WholeInv)'
  BY RepoNext, ReadersNext, WholeNext
<1>3. WholeInv => ServedIsWhole
  <2>. SUFFICES ASSUME WholeInv, NEW p \in Gets \cup Lists, NEW c \in Creates,
                       answer[p] = "200", Sole(c), ~DeleteBegan(idOf[c]),
                       IF p \in Gets THEN idOf[p] = idOf[c] ELSE \E s \in seen[p] : s.id = idOf[c]
                PROVE  {s.kind : s \in {t \in seen[p] : t.id = idOf[c]}} = Body[c] \ {"statefulset"}
    BY DEF ServedIsWhole
  <2>1. Served(c) /\ p \in Procs
    BY Parties DEF WholeInv, Made
  <2>2. CASE p \in Gets
    BY <2>1, <2>2 DEF Served, ServedAt, SeenKinds, KindsIn, SavedKinds
  <2>3. CASE p \notin Gets
    <3>1. SeenKinds(p, idOf[c]) \in {{}, SavedKinds(c)}
      BY <2>1, <2>3 DEF Served, ServedAt
    <3>2. SeenKinds(p, idOf[c]) # {}
      BY <2>3 DEF SeenKinds, KindsIn
    <3>. QED BY <3>1, <3>2 DEF SeenKinds, KindsIn, SavedKinds
  <2>. QED BY <2>2, <2>3
<1>. QED BY <1>1, <1>2, <1>3, PTL DEF Spec
=============================================================================
