------------------------- MODULE TemplateRepository -------------------------
(***************************************************************************)
(* catalog/template.go with the handlers of app/template_repository: the   *)
(* templates that are kept as files and the map of their ids in memory.    *)
(*                                                                         *)
(* A custom template is a directory: k8s/<kind>_<n>.json for its objects   *)
(* and jobs, and plan.json for its id.  Nothing is locked: requests save,  *)
(* remove and read files one after the other, and every load replaces the  *)
(* map TEMPLATES by an empty one before it reads the directories, so that  *)
(* other requests search a map that is being filled, and loads that        *)
(* overlap write into the map of the one that came last.  The templates    *)
(* that come with the image are never changed and are left out.            *)
(***************************************************************************)
EXTENDS Naturals, Sequences, FiniteSets

CONSTANTS
  Creates,    \* POST /templates requests
  Deletes,    \* DELETE /template/:templateId requests
  Gets,       \* GET /template/:templateId and POST /parsed_template requests
  Lists,      \* GET /templates requests
  Naming,     \* which requests come and the template ids they are about
  Body,       \* the kinds of objects in the body of a POST
  MayFail,    \* whether the body of a request or a file operation may fail
  MaxCrashes  \* bound on how often the process is killed

Boot == "boot"

Requests == Creates \cup Deletes \cup Gets \cup Lists

Procs == Requests \cup {Boot}

ObjectKinds ==
  {"persistentvolumeclaim", "secret", "statefulset", "deployment", "service", "account", "job"}

(* The files of one kind, where there are objects of it. *)
Having(k, body) == IF k \in body THEN <<k>> ELSE << >>

InUse == UNION {Body[c] : c \in Creates}

(* The order in which GetRawTemplate and GetParsedTemplate read the files; *)
(* the kinds that no request has are left out.                             *)
ReadOrder ==
  Having("persistentvolumeclaim", InUse) \o Having("secret", InUse) \o Having("statefulset", InUse)
    \o Having("deployment", InUse) \o Having("service", InUse) \o Having("account", InUse)
    \o Having("job", InUse)

Kinds == {ReadOrder[i] : i \in 1..Len(ReadOrder)}

Plan == "plan"

None == "none"

(* A file that is created, but not written yet. *)
Torn == "torn"

(* The templates that requests are about; a listing is about none of them. *)
Named(f) == {f[r] : r \in DOMAIN f \ Lists} \ {None}

Ids == UNION {Named(f) : f \in Naming}

ASSUME RequestsDistinct ==
  /\ Creates \cap (Deletes \cup Gets \cup Lists) = {}
  /\ Deletes \cap (Gets \cup Lists) = {} /\ Gets \cap Lists = {}
  /\ {Boot, None, Torn} \cap Requests = {}

ASSUME RepositoryBounds ==
  /\ \A f \in Naming : DOMAIN f = Requests
  /\ Body \in [Creates -> SUBSET ObjectKinds] /\ Kinds # {}
  /\ MayFail \in BOOLEAN
  /\ MaxCrashes \in Nat

VARIABLES
  idOf,       \* the template id in a request; None: the request is not made
  at,         \* where a request, or the start of the process, is
  answer,     \* the status a request was answered with
  dirs,       \* the ids with a directory below custom/
  files,      \* the files of a template: none, torn or who wrote them
  pos,        \* the next file a request saves or reads
  todo,       \* the directories a load, or the templates a reader, has yet to read
  cur,        \* the template a load or a reader is at
  seen,       \* the files a reader has read
  templates,  \* the ids in the map TEMPLATES
  maker,      \* the load that made this map
  complete,   \* that load has come to its end
  up,         \* the process runs: TRUE, FALSE
  crashes,    \* how often it was killed
  clean       \* history: deletions that no load and no creation overlapped

diskVars == <<dirs, files>>
localVars == <<pos, todo, cur, seen>>
mapVars == <<templates, maker, complete>>
repoVars == <<idOf, at, answer, diskVars, localVars, mapVars, up, crashes, clean>>

Init ==
  /\ idOf \in Naming
  /\ at = [p \in Procs |-> IF p = Boot THEN "loadMake" ELSE "idle"]
  /\ answer = [p \in Procs |-> "none"]
  /\ dirs = {}
  /\ files = [i \in Ids |-> [k \in Kinds \cup {Plan, "k8s"} |-> None]]
  /\ pos = [p \in Procs |-> 1]
  /\ todo = [p \in Procs |-> {}]
  /\ cur = [p \in Procs |-> None]
  /\ seen = [p \in Procs |-> {}]
  /\ templates = {}
  /\ maker = Boot
  /\ complete = FALSE
  /\ up = TRUE
  /\ crashes = 0
  /\ clean = {}

Jump(p, label) == at' = [at EXCEPT ![p] = label]

Respond(p, status) ==
  /\ answer' = [answer EXCEPT ![p] = status]
  /\ Jump(p, "done")

(* The process ends: requests in flight are lost, the files stay. *)
Die ==
  /\ up' = FALSE
  /\ at' = [p \in Procs |-> IF at[p] = "idle" THEN "idle" ELSE "done"]
  /\ answer' = [p \in Procs |-> IF at[p] \in {"idle", "done"} THEN answer[p] ELSE "lost"]
  /\ pos' = [p \in Procs |-> 1]
  /\ todo' = [p \in Procs |-> {}]
  /\ cur' = [p \in Procs |-> None]
  /\ UNCHANGED seen

(* logger.Panic: the handler is left and answered with 500; while the      *)
(* process starts nobody recovers.                                         *)
Panic(p) == IF p = Boot THEN Die ELSE Respond(p, "500") /\ UNCHANGED <<localVars, up>>

-----------------------------------------------------------------------------
(* CreateCustomTemplate and AddAndRegisterCustomTemplate *)

(* A request arrives. *)
Arrive(p) ==
  /\ at[p] = "idle" /\ idOf[p] # None
  /\ at[Boot] = "done"
  /\ Jump(p, IF p \in Creates THEN "check" ELSE IF p \in Deletes THEN "remove"
             ELSE IF p \in Gets THEN "lookup" ELSE "loadMake")
  /\ clean' = IF p \in Creates THEN {d \in clean : idOf[d] # idOf[p]} ELSE clean
  /\ UNCHANGED <<answer, diskVars, localVars, mapVars, up>>

(* Its body does not parse, or it names no template or no service. *)
Malformed(p) ==
  /\ MayFail /\ p \in Creates \cup Gets
  /\ at[p] = "idle" /\ idOf[p] # None
  /\ at[Boot] = "done"
  /\ Respond(p, "500")
  /\ UNCHANGED <<diskVars, localVars, mapVars, up, clean>>

(* Mutant of CheckExists: nobody looks whether the id is taken. *)
CheckNothing(p) ==
  /\ at[p] = "check"
  /\ Jump(p, "save") /\ UNCHANGED answer
  /\ UNCHANGED <<diskVars, localVars, mapVars, up, clean>>

CheckExists(p) ==
  /\ at[p] = "check"
  /\ IF idOf[p] \in templates THEN Respond(p, "409") ELSE Jump(p, "save") /\ UNCHANGED answer
  /\ UNCHANGED <<diskVars, localVars, mapVars, up, clean>>

(* The order in which AddAndRegisterCustomTemplate saves the objects.      *)
(* Stateful sets are not among them.                                       *)
SavedObjects(body) ==
  Having("persistentvolumeclaim", body) \o Having("deployment", body) \o Having("service", body)
    \o Having("account", body) \o Having("secret", body) \o Having("job", body)

(* Mutant of SavedFiles: the plan is saved before the objects. *)
SavedFilesPlanFirst(c) == <<Plan>> \o SavedObjects(Body[c])

(* The files of a template in the order in which they are saved. *)
SavedFiles(c) == Append(SavedObjects(Body[c]), Plan)

(* The files f of a template once the directory of one of them is made:    *)
(* that of the template for the plan, k8s in it for an object.             *)
MkdirAll(f, name) == IF name = Plan THEN f ELSE [f EXCEPT !["k8s"] = "dir"]

(* The directories are made if need be, the file is created or truncated;  *)
(* a failure may leave the directories without the file ...                *)
OpenFile(p) ==
  LET name == SavedFiles(p)[pos[p]] IN
  /\ at[p] = "save"
  /\ \/ /\ dirs' = dirs \cup {idOf[p]}
        /\ files' = [files EXCEPT ![idOf[p]] = [MkdirAll(@, name) EXCEPT ![name] = Torn]]
        /\ Jump(p, "write") /\ UNCHANGED answer
     \/ /\ MayFail /\ Respond(p, "500")
        /\ \/ UNCHANGED diskVars
           \/ /\ dirs' = dirs \cup {idOf[p]}
              /\ files' = [files EXCEPT ![idOf[p]] = MkdirAll(@, name)]
  /\ UNCHANGED <<localVars, mapVars, up, clean>>

(* ... and written, unless it was removed in between.  The first error     *)
(* ends the request and leaves what was saved.                             *)
WriteFile(p) ==
  LET name == SavedFiles(p)[pos[p]] IN
  /\ at[p] = "write"
  /\ \/ /\ files' = [files EXCEPT ![idOf[p]][name] = IF @ = None THEN None ELSE p]
        /\ pos' = [pos EXCEPT ![p] = @ + 1]
        /\ Jump(p, IF pos[p] = Len(SavedFiles(p)) THEN "loadMake" ELSE "save")
        /\ UNCHANGED answer
     \/ MayFail /\ Respond(p, "500") /\ UNCHANGED <<files, pos>>
  /\ UNCHANGED <<dirs, todo, cur, seen, mapVars, up, clean>>

-----------------------------------------------------------------------------
(* RemoveAndUnregisterCustomTemplate; os.RemoveAll is external. *)

(* The next file, or the directory k8s once it is empty. *)
RemoveFile(p) ==
  LET f == files[idOf[p]] IN
  /\ at[p] = "remove"
  /\ \E name \in DOMAIN f :
       /\ f[name] # None
       /\ name = "k8s" => \A k \in Kinds : f[k] = None
       /\ files' = [files EXCEPT ![idOf[p]][name] = None]
  /\ UNCHANGED <<at, answer, dirs, localVars, mapVars, up, clean>>

Loading == {"loadScan", "loadRead", "loadWrite"}

Saving(c) == at[c] \in {"check", "save", "write"}

NothingOverlaps(p) ==
  /\ \A q \in Procs \ {p} : at[q] \notin Loading
  /\ \A c \in Creates : idOf[c] = idOf[p] => ~Saving(c)

(* Mutant of RemoveDone: the map is not loaded again. *)
RemoveDoneNoLoad(p) ==
  /\ at[p] = "remove"
  /\ \A name \in DOMAIN files[idOf[p]] : files[idOf[p]][name] = None
  /\ dirs' = dirs \ {idOf[p]}
  /\ clean' = IF NothingOverlaps(p) THEN clean \cup {p} ELSE clean
  /\ Respond(p, "200")
  /\ UNCHANGED <<files, localVars, mapVars, up>>

(* The directory of the template itself.  An id that has none is no error. *)
RemoveDone(p) ==
  /\ at[p] = "remove"
  /\ \A name \in DOMAIN files[idOf[p]] : files[idOf[p]][name] = None
  /\ dirs' = dirs \ {idOf[p]}
  /\ clean' = IF NothingOverlaps(p) THEN clean \cup {p} ELSE clean
  /\ Jump(p, "loadMake")
  /\ UNCHANGED <<answer, files, localVars, mapVars, up>>

(* A file cannot be removed, or a new one is in the way. *)
RemoveFails(p) ==
  /\ at[p] = "remove"
  /\ MayFail \/ \E c \in Creates : idOf[c] = idOf[p] /\ Saving(c)
  /\ Respond(p, "500")
  /\ UNCHANGED <<diskVars, localVars, mapVars, up, clean>>

-----------------------------------------------------------------------------
(* LoadAvailableTemplates *)

LoadMake(p) ==
  /\ at[p] = "loadMake"
  /\ templates' = {}
  /\ maker' = p
  /\ complete' = FALSE
  /\ Jump(p, "loadList")
  /\ UNCHANGED <<answer, diskVars, localVars, up, clean>>

(* The directories are read; while requests are served that may fail. *)
LoadList(p) ==
  /\ at[p] = "loadList"
  /\ \/ /\ todo' = [todo EXCEPT ![p] = dirs]
        /\ Jump(p, "loadScan")
        /\ UNCHANGED <<answer, up, pos, cur, seen>>
     \/ MayFail /\ p # Boot /\ Panic(p)
  /\ UNCHANGED <<diskVars, mapVars, clean>>

HasPlan(i) == files[i][Plan] # None

(* Mutant of LoadDir: the loop ends at a directory without a plan. *)
LoadDirBreaks(p) ==
  /\ at[p] = "loadScan"
  /\ \E i \in todo[p] :
       \/ /\ i \in dirs /\ HasPlan(i)
          /\ cur' = [cur EXCEPT ![p] = i]
          /\ Jump(p, "loadRead")
          /\ UNCHANGED <<todo, answer, up, pos, seen>>
       \/ /\ i \in dirs /\ ~HasPlan(i)
          /\ todo' = [todo EXCEPT ![p] = {}]
          /\ UNCHANGED <<at, cur, answer, up, pos, seen>>
       \/ i \notin dirs /\ Panic(p)
  /\ UNCHANGED <<diskVars, mapVars, clean>>

(* Mutant of LoadDir: a directory without a plan is a fatal error. *)
LoadDirNeedsPlan(p) ==
  /\ at[p] = "loadScan"
  /\ \E i \in todo[p] :
       \/ /\ i \in dirs /\ HasPlan(i)
          /\ cur' = [cur EXCEPT ![p] = i]
          /\ Jump(p, "loadRead")
          /\ UNCHANGED <<todo, answer, up, pos, seen>>
       \/ i \in dirs /\ ~HasPlan(i) /\ Die
       \/ i \notin dirs /\ Panic(p)
  /\ UNCHANGED <<diskVars, mapVars, clean>>

(* The directory of a template is read: it has a plan, it has none, or it  *)
(* is there no more.                                                       *)
LoadDir(p) ==
  /\ at[p] = "loadScan"
  /\ \E i \in todo[p] :
       \/ /\ i \in dirs /\ HasPlan(i)
          /\ cur' = [cur EXCEPT ![p] = i]
          /\ Jump(p, "loadRead")
          /\ UNCHANGED <<todo, answer, up, pos, seen>>
       \/ /\ i \in dirs /\ ~HasPlan(i)
          /\ todo' = [todo EXCEPT ![p] = @ \ {i}]
          /\ UNCHANGED <<at, cur, answer, up, pos, seen>>
       \/ i \notin dirs /\ Panic(p)
  /\ UNCHANGED <<diskVars, mapVars, clean>>

(* The plan is read and parsed; logger.Fatal ends the process if it is not *)
(* there any more or not written yet.                                      *)
LoadPlan(p) ==
  LET i == cur[p] IN
  /\ at[p] = "loadRead"
  /\ IF files[i][Plan] \notin {None, Torn}
     THEN Jump(p, "loadWrite") /\ UNCHANGED <<answer, localVars, up>>
     ELSE Die
  /\ UNCHANGED <<diskVars, mapVars, clean>>

(* The id is written to the map that TEMPLATES names now. *)
LoadEntry(p) ==
  /\ at[p] = "loadWrite"
  /\ templates' = templates \cup {cur[p]}
  /\ todo' = [todo EXCEPT ![p] = @ \ {cur[p]}]
  /\ Jump(p, "loadScan")
  /\ UNCHANGED <<answer, diskVars, pos, cur, seen, maker, complete, up, clean>>

(* The load is done, and so is a request that adds or removes a template.  *)
(* A listing goes on to read every template in the map.                    *)
LoadEnd(p) ==
  /\ at[p] = "loadScan"
  /\ todo[p] = {}
  /\ complete' = (complete \/ maker = p)
  /\ IF p \in Lists
     THEN /\ todo' = [todo EXCEPT ![p] = templates]
          /\ Jump(p, "iterate")
          /\ UNCHANGED answer
     ELSE Respond(p, IF p \in Creates THEN "201" ELSE "200") /\ UNCHANGED todo
  /\ UNCHANGED <<diskVars, pos, cur, seen, templates, maker, up, clean>>

(* The runtime ends a process that uses a map while it is written.  Some   *)
(* of these ends cannot be: the two may use the maps of different loads.   *)
MapRace(p) ==
  /\ at[p] \in {"check", "lookup", "iterate", "loadWrite"}
  /\ \E q \in Procs \ {p} : at[q] = "loadWrite"
  /\ Die
  /\ UNCHANGED <<diskVars, mapVars, clean>>

-----------------------------------------------------------------------------
(* GetCustomTemplate, GenerateParsedTemplate and Templates: GetRawTemplate *)
(* and GetParsedTemplate read the same files.                              *)

Lookup(p) ==
  /\ at[p] = "lookup"
  /\ IF idOf[p] \in templates
     THEN /\ cur' = [cur EXCEPT ![p] = idOf[p]]
          /\ Jump(p, "read") /\ UNCHANGED answer
     ELSE Respond(p, "500") /\ UNCHANGED cur
  /\ UNCHANGED <<diskVars, pos, todo, seen, mapVars, up, clean>>

Iterate(p) ==
  /\ at[p] = "iterate"
  /\ \/ \E i \in todo[p] :
          /\ cur' = [cur EXCEPT ![p] = i]
          /\ pos' = [pos EXCEPT ![p] = 1]
          /\ todo' = [todo EXCEPT ![p] = @ \ {i}]
          /\ Jump(p, "read") /\ UNCHANGED answer
     \/ todo[p] = {} /\ Respond(p, "200") /\ UNCHANGED <<cur, pos, todo>>
  /\ UNCHANGED <<diskVars, seen, mapVars, up, clean>>

(* The files of one kind can be read and parsed: there are none without    *)
(* the directory k8s, and a file that is not written yet does not parse.   *)
Readable(i, k) == files[i]["k8s"] # None /\ files[i][k] # Torn

(* One kind after the other is read.  The first error fails the request, a *)
(* listing for all templates.                                              *)
ReadFiles(p) ==
  LET i == cur[p]
      k == ReadOrder[pos[p]]
      content == files[i][k]
  IN
  /\ at[p] = "read"
  /\ pos[p] <= Len(ReadOrder)
  /\ IF Readable(i, k)
     THEN /\ seen' = IF content = None THEN seen
                     ELSE [seen EXCEPT ![p] = @ \cup {[id |-> i, kind |-> k, by |-> content]}]
          /\ pos' = [pos EXCEPT ![p] = @ + 1]
          /\ UNCHANGED <<at, answer>>
     ELSE Respond(p, "500") /\ UNCHANGED <<seen, pos>>
  /\ UNCHANGED <<diskVars, todo, cur, mapVars, up, clean>>

ReadEnd(p) ==
  /\ at[p] = "read"
  /\ pos[p] > Len(ReadOrder)
  /\ IF p \in Lists THEN Jump(p, "iterate") /\ UNCHANGED answer ELSE Respond(p, "200")
  /\ UNCHANGED <<diskVars, localVars, mapVars, up, clean>>

-----------------------------------------------------------------------------
(* The process is killed ... *)
Crash ==
  /\ crashes < MaxCrashes
  /\ crashes' = crashes + 1
  /\ Die
  /\ UNCHANGED <<diskVars, mapVars, clean>>

(* ... and started again by Kubernetes; main loads the templates. *)
Start ==
  /\ ~up
  /\ up' = TRUE
  /\ templates' = {} /\ maker' = Boot /\ complete' = FALSE
  /\ Jump(Boot, "loadMake")
  /\ UNCHANGED <<answer, diskVars, localVars, crashes, clean>>

LoadStep(p) == LoadMake(p) \/ LoadList(p) \/ LoadDir(p) \/ LoadPlan(p) \/ LoadEntry(p) \/ LoadEnd(p)

Step(p) ==
  \/ CheckExists(p) \/ OpenFile(p) \/ WriteFile(p)
  \/ RemoveFile(p) \/ RemoveDone(p) \/ RemoveFails(p)
  \/ LoadStep(p) \/ MapRace(p)
  \/ Lookup(p) \/ Iterate(p) \/ ReadFiles(p) \/ ReadEnd(p)

Next ==
  /\ \/ /\ up
        /\ \/ \E p \in Requests : Arrive(p) \/ Malformed(p)
           \/ \E p \in Procs : Step(p)
        /\ UNCHANGED crashes
     \/ up /\ Crash
     \/ Start
  /\ UNCHANGED idOf

Spec == Init /\ [][Next]_repoVars

(* Kubernetes starts the process again and its main keeps running. *)
FairSpec ==
  /\ Spec
  /\ WF_repoVars(Start /\ UNCHANGED idOf)
  /\ WF_repoVars(up /\ LoadStep(Boot) /\ UNCHANGED <<crashes, idOf>>)

-----------------------------------------------------------------------------
DeleteBegan(i) == \E d \in Deletes : idOf[d] = i /\ at[d] # "idle"

(* Each template id is created by one request. *)
Sole(c) == idOf[c] # None /\ \A b \in Creates : idOf[b] = idOf[c] => b = c

(* A template that is served, by itself or in the listing, has all the     *)
(* objects that are saved of the request that created it, whatever saves   *)
(* failed and whenever the process was killed, unless a deletion of it has *)
(* begun: its id is written last.  It is said of ids that one request      *)
(* creates: a second request with the id of a failed one writes into the   *)
(* directory that was left, over the files that are there, and what is     *)
(* served then mixes the two.                                              *)
ServedIsWhole ==
  \A p \in Gets \cup Lists : \A c \in Creates :
    /\ answer[p] = "200"
    /\ Sole(c) /\ ~DeleteBegan(idOf[c])
    /\ IF p \in Gets THEN idOf[p] = idOf[c] ELSE \E s \in seen[p] : s.id = idOf[c]
    => {s.kind : s \in {t \in seen[p] : t.id = idOf[c]}} = Body[c] \ {"statefulset"}

(* Once the load that made the map is at its end, the map has every        *)
(* template whose creation was answered with 201 and whose deletion was    *)
(* not requested, also after the process was started again: overlapping    *)
(* loads do not lose entries.                                              *)
NoLostTemplate ==
  up /\ complete =>
    \A c \in Creates : answer[c] = "201" /\ ~DeleteBegan(idOf[c]) => idOf[c] \in templates

(* A template whose deletion was answered with 200 is not in the map any   *)
(* more, unless another load was reading the directories when it was       *)
(* removed or a creation of the same id came.                              *)
UnlistedOnceDeleted ==
  \A d \in clean : answer[d] = "200" =>
    /\ idOf[d] \notin templates
    /\ \A name \in DOMAIN files[idOf[d]] : files[idOf[d]][name] = None

(* A creation gets past the check for an id that is taken only while the   *)
(* map is being filled, or after the load that filled it has failed.       *)
ConflictSeen ==
  [][\A b, c \in Creates :
       /\ b # c /\ idOf[b] = idOf[c]
       /\ answer[b] = "201" /\ ~DeleteBegan(idOf[b])
       /\ at[c] = "check" /\ at'[c] = "save"
       => ~complete]_repoVars

(* After it was ended the process comes up again, unless the plan of a     *)
(* template was being written at that moment.                              *)
Recovers ==
  ~up ~> \/ up /\ at[Boot] = "done"
         \/ \E i \in Ids : files[i][Plan] = Torn
=============================================================================
