------------------------ MODULE ContainerBrokerProofs ------------------------
(***************************************************************************)
(* The job processor of the container broker loses no output and is not    *)
(* interrupted, for any number of requests, jobs and failing calls.        *)
(***************************************************************************)
EXTENDS ContainerBroker, TLAPS

ProcLabels == {"unstarted", "loop", "list", "jobs", "save", "delete", "stopped"}

JobTyped ==
  /\ jobs \in [Jobs -> JobStates]
  /\ DOMAIN snapshot \subseteq Jobs
  /\ hooks \in [Calls -> SUBSET Jobs]
  /\ proc \in ProcLabels

(* What the listing said of a job that has ended still holds: nobody but   *)
(* the processor deletes it, and a name is not used again before.          *)
ListingHolds ==
  \A j \in DOMAIN snapshot :
    /\ snapshot[j] \in JobStates \ {"absent"}
    /\ snapshot[j] \in {"succeeded", "failed"} => jobs[j] = snapshot[j]

(* The job the processor is at: it is not met again in this round, and if  *)
(* it succeeded its output was taken care of before it is deleted.         *)
CurrentIs ==
  proc \in {"save", "delete"} =>
    /\ current.name \in Jobs \ DOMAIN snapshot
    /\ current.status \in {"succeeded", "failed"} => jobs[current.name] = current.status
    /\ current.status \in {"new", "succeeded", "failed"}
    /\ proc = "delete" /\ current.status = "succeeded" /\ current.name \in Saving =>
         current.name \in maps \cup unsaved

(* Output that was not taken care of is that of a job still there. *)
OutputHeld == \A j \in (printed \cap Saving) \ (early \cup unsaved \cup maps) : jobs[j] = "succeeded"

JobInv == JobTyped /\ ListingHolds /\ CurrentIs /\ OutputHeld

(* waitGroup counts the processor from its start to its end, and the       *)
(* process does not end while the count is not zero.                       *)
Counted ==
  /\ proc \in ProcLabels
  /\ running = IF proc \in {"unstarted", "stopped"} THEN 0 ELSE 1
  /\ observer = "exited" => proc \in {"unstarted", "stopped"}

-----------------------------------------------------------------------------
(* A job that has not ended, or is absent, changes its status. *)
LEMMA JobMoves ==
  ASSUME JobInv, NEW j \in Jobs, jobs[j] \in {"absent", "new", "active"},
         NEW st \in JobStates, jobs' = [jobs EXCEPT ![j] = st],
         printed' = printed \/ (printed' = printed \cup {j} /\ st = "succeeded"),
         UNCHANGED <<maps, early, unsaved, proc, snapshot, current>>,
         hooks' \in [Calls -> SUBSET Jobs]
  PROVE  JobInv'
<1>. JobTyped /\ ListingHolds /\ CurrentIs /\ OutputHeld
  BY DEF JobInv
<1>1. jobs' \in [Jobs -> JobStates] /\ jobs'[j] = st /\ \A k \in Jobs \ {j} : jobs'[k] = jobs[k]
  BY DEF JobTyped
<1>2. JobTyped'
  BY <1>1 DEF JobTyped
<1>3. ListingHolds'
  BY <1>1 DEF ListingHolds, JobTyped
<1>4. CurrentIs'
  BY <1>1 DEF CurrentIs
<1>5. OutputHeld'
  <2>. SUFFICES ASSUME NEW k \in (printed' \cap Saving) \ (early \cup unsaved \cup maps)
                PROVE  jobs'[k] = "succeeded"
    BY DEF OutputHeld
  <2>1. k \in Jobs
    BY ContainerBounds
  <2>2. CASE k \in printed
    BY <1>1, <2>1, <2>2 DEF OutputHeld
  <2>3. CASE k \notin printed
    BY <1>1, <2>3
  <2>. QED BY <2>2, <2>3
<1>. QED BY <1>2, <1>3, <1>4, <1>5 DEF JobInv

(* Steps that touch neither the jobs nor the processor. *)
LEMMA JobFrame ==
  ASSUME JobInv, UNCHANGED <<jobVars, proc, snapshot, current>>, hooks' \in [Calls -> SUBSET Jobs]
  PROVE  JobInv'
BY DEF JobInv, JobTyped, ListingHolds, CurrentIs, OutputHeld, jobVars

LEMMA CallInv ==
  ASSUME JobInv, NEW c \in Calls,
         CallStart(c) \/ Fabricate(c) \/ CreateJob(c) \/ CreateJobFails(c) \/ JobsCreated(c)
           \/ DeleteAll(c)
  PROVE  JobInv'
<1>0. hooks \in [Calls -> SUBSET Jobs] /\ jobs \in [Jobs -> JobStates]
  BY DEF JobInv, JobTyped
<1>1. hooks' \in [Calls -> SUBSET Jobs]
  <2>1. CASE CallStart(c)
    <3>1. Hooks[UuidOf[c]][OpOf[c]] \in SUBSET Jobs
      BY ContainerBounds
    <3>. QED BY <1>0, <2>1, <3>1 DEF CallStart
  <2>2. CASE CreateJob(c)
    <3>1. PICK j \in hooks[c] : hooks' = [hooks EXCEPT ![c] = hooks[c] \ {j}]
      BY <2>2 DEF CreateJob
    <3>. QED BY <1>0, <3>1
  <2>3. CASE CreateJobFails(c)
    BY <1>0, <2>3 DEF CreateJobFails
  <2>. QED BY <1>0, <2>1, <2>2, <2>3 DEF Fabricate, JobsCreated, DeleteAll
<1>2. CASE CreateJob(c) \/ CreateJobFails(c)
  <2>1. /\ UNCHANGED <<maps, printed, early, unsaved, proc, snapshot, current>>
        /\ \/ jobs' = jobs
           \/ \E j \in hooks[c] : jobs[j] = "absent" /\ jobs' = [jobs EXCEPT ![j] = "new"]
    BY <1>2 DEF CreateJob, CreateJobFails, procVars
  <2>2. CASE jobs' = jobs
    BY <1>1, <2>1, <2>2, JobFrame DEF jobVars
  <2>3. CASE \E j \in hooks[c] : jobs[j] = "absent" /\ jobs' = [jobs EXCEPT ![j] = "new"]
    <3>1. PICK j \in Jobs : jobs[j] = "absent" /\ jobs' = [jobs EXCEPT ![j] = "new"]
      BY <1>0, <2>3
    <3>2. "new" \in JobStates
      BY DEF JobStates
    <3>. QED BY <1>1, <2>1, <3>1, <3>2, JobMoves
  <2>. QED BY <2>1, <2>2, <2>3
<1>3. CASE CallStart(c) \/ Fabricate(c) \/ JobsCreated(c) \/ DeleteAll(c)
  <2>1. UNCHANGED <<jobVars, proc, snapshot, current>>
    BY <1>3 DEF CallStart, Fabricate, JobsCreated, DeleteAll, procVars
  <2>. QED BY <1>1, <2>1, JobFrame
<1>. QED BY <1>2, <1>3

LEMMA ProcessorInv ==
  ASSUME JobInv, ProcessorStep
  PROVE  JobInv'
<1>. JobTyped /\ ListingHolds /\ CurrentIs /\ OutputHeld
  BY DEF JobInv
<1>0. jobs \in [Jobs -> JobStates] /\ DOMAIN snapshot \subseteq Jobs /\ hooks' = hooks
      /\ hooks \in [Calls -> SUBSET Jobs]
  BY DEF JobTyped, ProcessorStep, ProcessorStart, ProcessorLoop, ListJobs, SkipJob, ReadLogs,
     SaveLogs, DeleteJob, RoundEnds, callVars
<1>1. CASE ProcessorStart \/ ProcessorLoop \/ RoundEnds
  <2>1. /\ UNCHANGED <<jobVars, snapshot, current>>
        /\ proc' \in {"loop", "list", "stopped"}
    BY <1>1 DEF ProcessorStart, ProcessorLoop, RoundEnds
  <2>. QED BY <1>0, <2>1 DEF JobInv, JobTyped, ListingHolds, CurrentIs, OutputHeld, jobVars,
              ProcLabels
<1>2. CASE ListJobs
  <2>1. /\ UNCHANGED <<jobVars, current>> /\ proc' \in {"jobs", "loop"}
        /\ \/ snapshot' = snapshot
           \/ snapshot' = [j \in {k \in Jobs : jobs[k] # "absent"} |-> jobs[j]]
    BY <1>2 DEF ListJobs
  <2>2. DOMAIN snapshot' \subseteq Jobs
    BY <1>0, <2>1
  <2>3. JobTyped' /\ CurrentIs' /\ OutputHeld'
    BY <1>0, <2>1, <2>2 DEF JobTyped, CurrentIs, OutputHeld, jobVars, ProcLabels
  <2>4. ListingHolds'
    BY <1>0, <2>1 DEF ListingHolds, jobVars
  <2>. QED BY <2>3, <2>4 DEF JobInv
<1>3. CASE SkipJob \/ ReadLogs
  <2>1. PICK j \in DOMAIN snapshot :
           /\ UNCHANGED jobVars /\ proc = "jobs" /\ snapshot' = Rest(j)
           /\ \/ UNCHANGED <<proc, current>>
              \/ snapshot[j] # "active" /\ TakeUp(j)
    BY <1>3 DEF SkipJob, ReadLogs
  <2>2. /\ DOMAIN snapshot' = DOMAIN snapshot \ {j}
        /\ \A k \in DOMAIN snapshot \ {j} : snapshot'[k] = snapshot[k]
    BY <2>1 DEF Rest
  <2>3. ListingHolds' /\ OutputHeld'
    BY <2>1, <2>2 DEF ListingHolds, OutputHeld, jobVars
  <2>4. CASE UNCHANGED <<proc, current>>
    <3>1. JobTyped' /\ CurrentIs'
      BY <1>0, <2>1, <2>2, <2>4 DEF JobTyped, CurrentIs, jobVars
    <3>. QED BY <2>3, <3>1 DEF JobInv
  <2>5. CASE snapshot[j] # "active" /\ TakeUp(j)
    <3>1. /\ current'.name = j /\ current'.status = snapshot[j]
          /\ proc' = IF snapshot[j] = "succeeded" /\ j \in Saving THEN "save" ELSE "delete"
      BY <2>5 DEF TakeUp
    <3>2. /\ snapshot[j] \in {"new", "succeeded", "failed"}
          /\ snapshot[j] \in {"succeeded", "failed"} => jobs[j] = snapshot[j]
          /\ jobs' = jobs
      BY <2>1, <2>5 DEF ListingHolds, JobStates, jobVars
    <3>3. CurrentIs'
      BY <1>0, <2>2, <3>1, <3>2 DEF CurrentIs
    <3>4. JobTyped'
      BY <1>0, <2>2, <3>1, <3>2 DEF JobTyped, ProcLabels
    <3>. QED BY <2>3, <3>3, <3>4 DEF JobInv
  <2>. QED BY <2>1, <2>4, <2>5
<1>4. CASE SaveLogs
  <2>1. /\ UNCHANGED <<snapshot, current, jobs, printed, early>> /\ proc = "save" /\ proc' = "delete"
        /\ maps \subseteq maps' /\ unsaved \subseteq unsaved'
        /\ current.name \in maps' \cup unsaved'
    BY <1>4 DEF SaveLogs
  <2>2. JobTyped' /\ ListingHolds'
    BY <1>0, <2>1 DEF JobTyped, ListingHolds, ProcLabels
  <2>3. CurrentIs'
    BY <2>1 DEF CurrentIs
  <2>4. OutputHeld'
    BY <2>1 DEF OutputHeld
  <2>. QED BY <2>2, <2>3, <2>4 DEF JobInv
<1>5. CASE DeleteJob
  <2>. DEFINE j == current.name
  <2>1. /\ UNCHANGED <<snapshot, maps, printed, unsaved>> /\ proc = "delete" /\ proc' = "jobs"
        /\ \/ /\ jobs' = [jobs EXCEPT ![j] = "absent"]
              /\ early' = IF current.status = "new" THEN early \cup {j} ELSE early
           \/ UNCHANGED <<jobs, early>>
    BY <1>5 DEF DeleteJob
  <2>2. /\ j \in Jobs \ DOMAIN snapshot
        /\ current.status \in {"new", "succeeded", "failed"}
        /\ current.status \in {"succeeded", "failed"} => jobs[j] = current.status
        /\ current.status = "succeeded" /\ j \in Saving => j \in maps \cup unsaved
    BY <2>1 DEF CurrentIs
  <2>. HIDE DEF j
  <2>3. CurrentIs'
    BY <2>1 DEF CurrentIs
  <2>4. CASE UNCHANGED <<jobs, early>>
    BY <1>0, <2>1, <2>3, <2>4 DEF JobInv, JobTyped, ListingHolds, OutputHeld, ProcLabels
  <2>5. CASE /\ jobs' = [jobs EXCEPT ![j] = "absent"]
             /\ early' = IF current.status = "new" THEN early \cup {j} ELSE early
    <3>1. jobs' \in [Jobs -> JobStates] /\ \A k \in Jobs \ {j} : jobs'[k] = jobs[k]
      BY <1>0, <2>2, <2>5 DEF JobStates
    <3>2. JobTyped' /\ ListingHolds'
      BY <1>0, <2>1, <2>2, <3>1 DEF JobTyped, ListingHolds, ProcLabels
    <3>3. j \in printed \cap Saving => j \in early' \cup unsaved \cup maps
      BY <2>2, <2>5 DEF OutputHeld
    <3>4. early \subseteq early'
      BY <2>5
    <3>5. OutputHeld'
      <4>. SUFFICES ASSUME NEW k \in (printed \cap Saving) \ (early' \cup unsaved \cup maps)
                    PROVE  jobs'[k] = "succeeded"
        BY <2>1 DEF OutputHeld
      <4>1. k \in Jobs \ {j}
        BY <3>3, ContainerBounds
      <4>. QED BY <3>1, <3>4, <4>1 DEF OutputHeld
    <3>. QED BY <2>3, <3>2, <3>5 DEF JobInv
  <2>. QED BY <2>1, <2>4, <2>5
<1>. QED BY <1>1, <1>2, <1>3, <1>4, <1>5 DEF ProcessorStep

LEMMA JobInvStep ==
  ASSUME JobInv, [Next]_vars
  PROVE  JobInv'
<1>0. hooks \in [Calls -> SUBSET Jobs]
  BY DEF JobInv, JobTyped
<1>1. CASE UNCHANGED vars
  BY <1>0, <1>1, JobFrame DEF vars, procVars, callVars
<1>2. CASE \E c \in Calls : (Alive /\ CallStart(c)) \/ CallStep(c)
  BY <1>2, CallInv DEF CallStep
<1>3. CASE ProcessorStep
  BY <1>3, ProcessorInv
<1>4. CASE Signal \/ Exit
  <2>1. UNCHANGED <<jobVars, proc, snapshot, current>> /\ hooks' = hooks
    BY <1>4 DEF Signal, Exit, procVars, callVars
  <2>. QED BY <1>0, <2>1, JobFrame
<1>5. CASE \E j \in Jobs : JobStarts(j) \/ JobEnds(j)
  <2>1. PICK j \in Jobs : JobStarts(j) \/ JobEnds(j)
    BY <1>5
  <2>2. /\ jobs[j] \in {"new", "active"}
        /\ UNCHANGED <<maps, early, unsaved, proc, snapshot, current>> /\ hooks' = hooks
        /\ \/ jobs' = [jobs EXCEPT ![j] = "active"] /\ printed' = printed
           \/ jobs' = [jobs EXCEPT ![j] = "succeeded"] /\ printed' = printed \cup {j}
           \/ jobs' = [jobs EXCEPT ![j] = "failed"] /\ printed' = printed
    BY <2>1 DEF JobStarts, JobEnds, procVars, callVars
  <2>3. {"active", "succeeded", "failed"} \subseteq JobStates
    BY DEF JobStates
  <2>. QED BY <1>0, <2>2, <2>3, JobMoves
<1>. QED BY <1>1, <1>2, <1>3, <1>4, <1>5 DEF Next

(* What a job printed is kept: when a job that succeeded is gone its name  *)
(* has a ConfigMap, unless creating the ConfigMap failed or the processor  *)
(* took the job up before it had started.                                  *)
THEOREM OutputIsKept == Spec => []OutputKept
<1>1. ASSUME Init PROVE JobInv
  <2>1. /\ jobs = [j \in Jobs |-> "absent"] /\ hooks = [c \in Calls |-> {}]
        /\ DOMAIN snapshot = {} /\ proc = "unstarted" /\ printed = {}
    BY <1>1 DEF Init
  <2>. QED BY <2>1 DEF JobInv, JobTyped, ListingHolds, CurrentIs, OutputHeld, JobStates, ProcLabels
<1>2. ASSUME JobInv PROVE OutputKept
  BY <1>2 DEF JobInv, OutputHeld, OutputKept
<1>. QED BY <1>1, <1>2, JobInvStep, PTL DEF Spec

(* The signal handler waits for the job processor: the process does not    *)
(* end in the middle of a round, also if the signal comes before the       *)
(* processor has been started.                                             *)
THEOREM ExitsCleanly == Spec => []ExitIsClean
<1>1. ASSUME Init PROVE Counted
  BY <1>1 DEF Init, Counted, ProcLabels
<1>2. ASSUME Counted, [Next]_vars PROVE Counted'
  <2>1. CASE UNCHANGED vars
    BY <1>2, <2>1 DEF Counted, vars, procVars, stopVars
  <2>2. CASE \E c \in Calls : (Alive /\ CallStart(c)) \/ CallStep(c)
    <3>1. UNCHANGED <<proc, running, observer>>
      BY <2>2 DEF CallStart, CallStep, Fabricate, CreateJob, CreateJobFails, JobsCreated, DeleteAll,
         procVars, stopVars
    <3>. QED BY <1>2, <3>1 DEF Counted
  <2>3. CASE ProcessorStep
    <3>1. observer' = observer /\ observer # "exited"
      BY <2>3 DEF ProcessorStep, ProcessorStart, ProcessorLoop, ListJobs, SkipJob, ReadLogs, SaveLogs,
         DeleteJob, RoundEnds, stopVars, Alive
    <3>2. /\ proc' \in ProcLabels
          /\ running' = IF proc' \in {"unstarted", "stopped"} THEN 0 ELSE 1
      BY <1>2, <2>3 DEF Counted, ProcLabels, ProcessorStep, ProcessorStart, ProcessorLoop, ListJobs,
         SkipJob, ReadLogs, TakeUp, SaveLogs, DeleteJob, RoundEnds
    <3>. QED BY <3>1, <3>2 DEF Counted
  <2>4. CASE Signal
    BY <1>2, <2>4 DEF Signal, Counted, procVars
  <2>5. CASE Exit
    BY <1>2, <2>5 DEF Exit, Counted, procVars
  <2>6. CASE \E j \in Jobs : JobStarts(j) \/ JobEnds(j)
    BY <1>2, <2>6 DEF JobStarts, JobEnds, Counted, procVars, stopVars
  <2>. QED BY <1>2, <2>1, <2>2, <2>3, <2>4, <2>5, <2>6 DEF Next
<1>3. ASSUME Counted PROVE ExitIsClean
  BY <1>3 DEF Counted, ExitIsClean
<1>. QED BY <1>1, <1>2, <1>3, PTL DEF Spec
=============================================================================
