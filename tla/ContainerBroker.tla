--------------------------- MODULE ContainerBroker ---------------------------
(***************************************************************************)
(* app/container_broker: the broker that serves one fixed cluster and runs *)
(* the job hooks of a template when an instance is created, deleted, bound *)
(* or unbound.  A background loop, the job processor, collects what the    *)
(* jobs have printed into a ConfigMap and deletes the jobs; an observer of *)
(* the interrupt signal ends the process between two rounds of that loop.  *)
(*                                                                         *)
(* Kubernetes is external: it starts the pod of a job some time after the  *)
(* job was created, and the job then succeeds or fails.  The objects of an *)
(* instance are one thing here: K8Fabricator has their details.            *)
(***************************************************************************)
EXTENDS Naturals, FiniteSets

CONSTANTS
  Uuids,    \* service instances
  Calls,    \* requests to the broker
  OpOf,     \* "create", "delete", "bind" or "unbind"
  UuidOf,   \* the instance a request is about
  Jobs,     \* names of jobs
  Hooks,    \* the names of the jobs of an instance's template, by operation
  Saving,   \* the jobs with the annotation createConfigMap
  MaxFailures \* bound on the calls of the Kubernetes API that fail

Ops == {"create", "delete", "bind", "unbind"}

ASSUME ContainerBounds ==
  /\ OpOf \in [Calls -> Ops]
  /\ UuidOf \in [Calls -> Uuids]
  /\ Hooks \in [Uuids -> [Ops -> SUBSET Jobs]]
  /\ Saving \subseteq Jobs
  /\ MaxFailures \in Nat

VARIABLES
  at,        \* where a request is
  hooks,     \* the jobs a request has still to create
  answer,    \* the status a request was answered with
  objects,   \* how much of an instance exists: "none", "some" or "all"
  jobs,      \* the status of a job in the cluster
  maps,      \* the jobs with a ConfigMap
  proc,      \* where the job processor is
  snapshot,  \* the listed jobs that the processor has still to look at
  current,   \* the job it is at, with the status it was listed with
  working,   \* the flag of the same name
  running,   \* the count of waitGroup
  observer,  \* where the termination observer is
  failures,  \* how many calls have failed
  printed,   \* history: the jobs that succeeded
  early,     \* history: the jobs that were listed as not started, and deleted
  unsaved    \* history: the jobs whose ConfigMap could not be created

callVars == <<at, hooks, answer, objects>>
jobVars == <<jobs, maps, printed, early, unsaved>>
procVars == <<proc, snapshot, current, running>>
stopVars == <<working, observer>>
vars == <<callVars, jobVars, procVars, stopVars, failures>>

JobStates == {"absent", "new", "active", "succeeded", "failed"}

NoJob == [name |-> "no job", status |-> "absent"]

Init ==
  /\ at = [c \in Calls |-> "idle"]
  /\ hooks = [c \in Calls |-> {}]
  /\ answer = [c \in Calls |-> "none"]
  /\ objects = [u \in Uuids |-> "none"]
  /\ jobs = [j \in Jobs |-> "absent"]
  /\ maps = {} /\ printed = {} /\ early = {} /\ unsaved = {}
  /\ failures = 0
  /\ proc = "unstarted" /\ running = 0
  /\ snapshot = [j \in {} |-> "absent"]
  /\ current = NoJob
  /\ working = TRUE /\ observer = "idle"

Alive == observer # "exited"

(* A call of the Kubernetes API fails. *)
Fails == failures < MaxFailures /\ failures' = failures + 1

Works == UNCHANGED failures

-----------------------------------------------------------------------------
(* The handlers *)

Reply(c, status) ==
  /\ answer' = [answer EXCEPT ![c] = status]
  /\ at' = [at EXCEPT ![c] = "done"]

(* The request is parsed and its template fetched and parsed.  A creation  *)
(* goes on with the objects, the others with their jobs.                   *)
CallStart(c) ==
  /\ at[c] = "idle"
  /\ \/ /\ at' = [at EXCEPT ![c] = IF OpOf[c] = "create" THEN "fabricate" ELSE "jobs"]
        /\ hooks' = [hooks EXCEPT ![c] = Hooks[UuidOf[c]][OpOf[c]]]
        /\ UNCHANGED answer
     \/ Reply(c, "500") /\ UNCHANGED hooks
  /\ Works
  /\ UNCHANGED <<objects, jobVars, procVars, stopVars>>

(* FabricateService: names are unique, and an error leaves what is made. *)
Fabricate(c) ==
  LET u == UuidOf[c] IN
  /\ at[c] = "fabricate"
  /\ \/ /\ objects[u] = "none" /\ Works
        /\ objects' = [objects EXCEPT ![u] = "all"]
        /\ at' = [at EXCEPT ![c] = "jobs"]
        /\ UNCHANGED answer
     \/ /\ objects[u] # "none" /\ Works
        /\ Reply(c, "500")
        /\ UNCHANGED objects
     \/ /\ objects[u] = "none" /\ Fails
        /\ \E left \in {"none", "some", "all"} : objects' = [objects EXCEPT ![u] = left]
        /\ Reply(c, "500")
  /\ UNCHANGED <<hooks, jobVars, procVars, stopVars>>

(* CreateJobsByType, one job ... *)
CreateJob(c) ==
  /\ at[c] = "jobs"
  /\ Works
  /\ \E j \in hooks[c] :
       /\ jobs[j] = "absent"
       /\ jobs' = [jobs EXCEPT ![j] = "new"]
       /\ hooks' = [hooks EXCEPT ![c] = @ \ {j}]
  /\ UNCHANGED <<at, answer, objects, maps, printed, early, unsaved, procVars, stopVars>>

(* ... which fails if there is a job of that name or for another reason,   *)
(* maybe after the job was created: only CreateServiceInstance ignores it. *)
CreateJobFails(c) ==
  /\ at[c] = "jobs"
  /\ \E j \in hooks[c] :
       \/ jobs[j] # "absent" /\ Works /\ UNCHANGED jobs
       \/ Fails /\ UNCHANGED jobs
       \/ jobs[j] = "absent" /\ Fails /\ jobs' = [jobs EXCEPT ![j] = "new"]
  /\ hooks' = [hooks EXCEPT ![c] = {}]
  /\ Reply(c, IF OpOf[c] = "create" THEN "202" ELSE "500")
  /\ UNCHANGED <<objects, maps, printed, early, unsaved, procVars, stopVars>>

JobsCreated(c) ==
  /\ at[c] = "jobs"
  /\ hooks[c] = {}
  /\ IF OpOf[c] = "delete"
     THEN at' = [at EXCEPT ![c] = "deleteAll"] /\ UNCHANGED answer
     ELSE Reply(c, IF OpOf[c] = "create" THEN "202" ELSE "200")
  /\ Works
  /\ UNCHANGED <<hooks, objects, jobVars, procVars, stopVars>>

(* DeleteAllByServiceId: neither jobs nor ConfigMaps are among what goes. *)
DeleteAll(c) ==
  LET u == UuidOf[c] IN
  /\ at[c] = "deleteAll"
  /\ \/ /\ Works
        /\ objects' = [objects EXCEPT ![u] = "none"]
        /\ Reply(c, "200")
     \/ /\ Fails
        /\ \E left \in {objects[u], "none"} \cup {o \in {"some"} : objects[u] = "all"} :
             objects' = [objects EXCEPT ![u] = left]
        /\ Reply(c, "500")
  /\ UNCHANGED <<hooks, jobVars, procVars, stopVars>>

-----------------------------------------------------------------------------
(* ProcessJobsResult and the loop around it *)

(* runJobsProcessor starts: waitGroup.Add(1). *)
ProcessorStart ==
  /\ proc = "unstarted"
  /\ proc' = "loop"
  /\ running' = running + 1
  /\ UNCHANGED <<snapshot, current, callVars, jobVars, stopVars, failures>>

(* The condition of the loop; after it the processor sleeps. *)
ProcessorLoop ==
  /\ proc = "loop"
  /\ IF working THEN proc' = "list" /\ UNCHANGED running
     ELSE proc' = "stopped" /\ running' = running - 1
  /\ UNCHANGED <<snapshot, current, callVars, jobVars, stopVars, failures>>

(* The jobs are listed, with the status they have now. *)
ListJobs ==
  /\ proc = "list"
  /\ \/ /\ snapshot' = [j \in {k \in Jobs : jobs[k] # "absent"} |-> jobs[j]]
        /\ proc' = "jobs"
        /\ Works
     \/ Fails /\ proc' = "loop" /\ UNCHANGED snapshot
  /\ UNCHANGED <<current, running, callVars, jobVars, stopVars>>

Rest(j) == [k \in DOMAIN snapshot \ {j} |-> snapshot[k]]

(* A job that was active when it was listed is left for the next round ... *)
SkipJob ==
  /\ proc = "jobs"
  /\ \E j \in DOMAIN snapshot : snapshot[j] = "active" /\ snapshot' = Rest(j)
  /\ UNCHANGED <<proc, current, running, callVars, jobVars, stopVars, failures>>

(* The processor takes up a listed job. *)
TakeUp(j) ==
  /\ current' = [name |-> j, status |-> snapshot[j]]
  /\ proc' = IF snapshot[j] = "succeeded" /\ j \in Saving THEN "save" ELSE "delete"

(* Mutant of ReadLogs: an active job is not told from a finished one. *)
ReadLogsOfAll ==
  /\ proc = "jobs"
  /\ \E j \in DOMAIN snapshot : snapshot' = Rest(j) /\ TakeUp(j)
  /\ UNCHANGED <<running, callVars, jobVars, stopVars, failures>>

(* Mutant of ReadLogs: a failed job is reported and nothing else. *)
ReadLogsNotOfFailed ==
  /\ proc = "jobs"
  /\ \E j \in DOMAIN snapshot :
       /\ snapshot[j] # "active"
       /\ snapshot' = Rest(j)
       /\ IF snapshot[j] = "failed" THEN UNCHANGED <<proc, current>> ELSE TakeUp(j)
  /\ UNCHANGED <<running, callVars, jobVars, stopVars, failures>>

(* ... and the logs of any other are read. *)
ReadLogs ==
  /\ proc = "jobs"
  /\ \E j \in DOMAIN snapshot :
       /\ snapshot[j] # "active"
       /\ snapshot' = Rest(j)
       /\ \/ TakeUp(j) /\ Works
          \/ Fails /\ UNCHANGED <<proc, current>>
  /\ UNCHANGED <<running, callVars, jobVars, stopVars>>

(* The logs are saved; a ConfigMap of that name, or a failure, also one    *)
(* after the ConfigMap was created, is ignored.                            *)
SaveLogs ==
  /\ proc = "save"
  /\ proc' = "delete"
  /\ \/ /\ Works
        /\ maps' = maps \cup {current.name}
        /\ UNCHANGED unsaved
     \/ /\ Fails
        /\ unsaved' = unsaved \cup {current.name}
        /\ maps' \in {maps, maps \cup {current.name}}
  /\ UNCHANGED <<snapshot, current, running, jobs, printed, early, callVars, stopVars>>

(* The job is deleted, whatever it does by now; an error, before or after  *)
(* the deletion took effect, is only reported.                             *)
DeleteJob ==
  /\ proc = "delete"
  /\ proc' = "jobs"
  /\ current' = NoJob
  /\ \/ /\ Works \/ Fails
        /\ jobs' = [jobs EXCEPT ![current.name] = "absent"]
        /\ early' = IF current.status = "new" THEN early \cup {current.name} ELSE early
     \/ Fails /\ UNCHANGED <<jobs, early>>
  /\ UNCHANGED <<snapshot, running, maps, printed, unsaved, callVars, stopVars>>

RoundEnds ==
  /\ proc = "jobs"
  /\ DOMAIN snapshot = {}
  /\ proc' = "loop"
  /\ UNCHANGED <<snapshot, current, running, callVars, jobVars, stopVars, failures>>

-----------------------------------------------------------------------------
(* terminationObserver *)

(* Mutant of Signal: the flag is not cleared. *)
SignalIgnored ==
  /\ observer = "idle"
  /\ observer' = "waiting"
  /\ UNCHANGED <<working, callVars, jobVars, procVars, failures>>

Signal ==
  /\ observer = "idle"
  /\ working' = FALSE
  /\ observer' = "waiting"
  /\ UNCHANGED <<callVars, jobVars, procVars, failures>>

(* Mutant of Exit: the observer does not wait. *)
ExitAtOnce ==
  /\ observer = "waiting"
  /\ observer' = "exited"
  /\ UNCHANGED <<working, callVars, jobVars, procVars, failures>>

(* waitGroup.Wait() returns and the process ends. *)
Exit ==
  /\ observer = "waiting"
  /\ running = 0
  /\ observer' = "exited"
  /\ UNCHANGED <<working, callVars, jobVars, procVars, failures>>

-----------------------------------------------------------------------------
(* Kubernetes runs the jobs. *)
JobStarts(j) ==
  /\ jobs[j] = "new"
  /\ jobs' = [jobs EXCEPT ![j] = "active"]
  /\ UNCHANGED <<maps, printed, early, unsaved, callVars, procVars, stopVars, failures>>

JobEnds(j) ==
  /\ jobs[j] = "active"
  /\ \/ jobs' = [jobs EXCEPT ![j] = "succeeded"] /\ printed' = printed \cup {j}
     \/ jobs' = [jobs EXCEPT ![j] = "failed"] /\ UNCHANGED printed
  /\ UNCHANGED <<maps, early, unsaved, callVars, procVars, stopVars, failures>>

CallStep(c) ==
  Alive /\ (Fabricate(c) \/ CreateJob(c) \/ CreateJobFails(c) \/ JobsCreated(c) \/ DeleteAll(c))

ProcessorStep ==
  Alive /\ (ProcessorStart \/ ProcessorLoop \/ ListJobs \/ SkipJob \/ ReadLogs \/ SaveLogs
              \/ DeleteJob \/ RoundEnds)

Next ==
  \/ \E c \in Calls : (Alive /\ CallStart(c)) \/ CallStep(c)
  \/ ProcessorStep
  \/ Signal \/ Exit
  \/ \E j \in Jobs : JobStarts(j) \/ JobEnds(j)

Spec == Init /\ [][Next]_vars

(* Goroutines keep running and Kubernetes runs its jobs. *)
FairSpec ==
  /\ Spec
  /\ \A c \in Calls : WF_vars(CallStep(c))
  /\ WF_vars(ProcessorStep)
  /\ WF_vars(Exit)
  /\ \A j \in Jobs : WF_vars(JobStarts(j)) /\ WF_vars(JobEnds(j))

-----------------------------------------------------------------------------
(* The process does not end in the middle of a round of the job processor, *)
(* also if the signal comes while the processor is being started.          *)
ExitIsClean == observer = "exited" => proc \in {"unstarted", "loop", "stopped"}

(* What a job printed is not lost, whatever calls fail and are repeated in *)
(* a later round: when a job that succeeded is gone, its name has a        *)
(* ConfigMap, unless creating that ConfigMap failed.  The jobs that the    *)
(* processor took up before they had started are left to OnlyEndedDeleted. *)
OutputKept ==
  \A j \in (printed \cap Saving) \ (early \cup unsaved) : jobs[j] = "absent" => j \in maps

(* A job that has ended is deleted in the end, though some calls fail,     *)
(* unless the broker is told to stop.                                      *)
EndedIsCollected ==
  \A j \in Jobs : jobs[j] \in {"succeeded", "failed"} ~> (jobs[j] = "absent" \/ ~working)

(* After the signal the process ends. *)
SignalEnds == observer = "waiting" ~> observer = "exited"

(* "Job ... is still running. Results will be collected on next attempt":  *)
(* the processor deletes only jobs that had ended when it listed them.     *)
OnlyEndedDeleted == early = {}
=============================================================================
