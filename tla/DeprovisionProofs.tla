-------------------------- MODULE DeprovisionProofs --------------------------
(***************************************************************************)
(* Fabrication and deletion of instances that are requested once: no       *)
(* fabrication outlives its failure, so a deletion leaves nothing behind.  *)
(***************************************************************************)
EXTENDS TapBrokerProofs

(* A step of a provisioning request p concerns its own instance only. *)
LEMMA PutFrame ==
  ASSUME TypeOK, OnePut, NEW p \in Puts,
         PutMalformed(p) \/ PutStart(p) \/ PutStep(p) \/ PutRespond(p)
  PROVE  /\ \A q \in Puts \ {p} : InstOf[q] # InstOf[p] /\ open'[q] = open[q]
         /\ \A q \in Requests \ {p} : resp'[q] = resp[q]
         /\ \A q \in Procs \ {p} : pc'[q] = pc[q]
         /\ \A i \in Instances \ {InstOf[p]} : cf'[i] = cf[i] /\ state_map'[i] = state_map[i]
         /\ (\A g \in Guids : ~stale[g]) => \A g \in Guids : ~stale'[g]
<1>. p \in Procs /\ p \in Requests /\ InstOf[p] \in Instances /\ InstOf[p] \in Guids
  BY PutType, GuidType
<1>1. \A q \in Puts \ {p} : InstOf[q] # InstOf[p] /\ open'[q] = open[q]
  BY DEF OnePut, PutMalformed, PutStart, PutStep, PutRespond, PutLookup, PutParse, PutFail, PutOk,
     brokerVars, TypeOK
<1>2. \A q \in Requests \ {p} : resp'[q] = resp[q]
  BY DEF PutMalformed, PutStart, PutStep, PutRespond, PutLookup, PutParse, PutFail, PutOk,
     brokerVars, TypeOK
<1>3. \A q \in Procs \ {p} : pc'[q] = pc[q]
  BY DEF PutMalformed, PutStart, PutStep, PutRespond, PutLookup, PutParse, PutFail, PutOk,
     GetOrCreateCluster, IsApiWorking, CheckQuota, PostCluster, CreateSecretForPrivateTapRepo,
     FabricateStart, FabricateService, Goto, TypeOK
<1>4. \A i \in Instances \ {InstOf[p]} : cf'[i] = cf[i]
  BY DEF PutMalformed, PutStart, PutStep, PutRespond, PutLookup, PutParse, PutFail, PutOk,
     CfAfterPut, brokerVars, TypeOK
<1>5. \/ UNCHANGED stateVars
      \/ \E s \in ProgressStates : ReportProgress(InstOf[p], s) \/ ReportProgress(UnparsedGuid, s)
  BY DEF PutMalformed, PutStart, PutStep, PutRespond, PutLookup, PutParse, PutFail, PutOk,
     FabricateStart, FabricateService, ProgressStates
<1>6. \A i \in Instances \ {InstOf[p]} : state_map'[i] = state_map[i]
  BY <1>5, GuidAssumption, GuidType DEF ReportProgress, stateVars, TypeOK
<1>7. (\A g \in Guids : ~stale[g]) => \A g \in Guids : ~stale'[g]
  BY <1>5 DEF ReportProgress, stateVars, TypeOK
<1>. QED BY <1>1, <1>2, <1>3, <1>4, <1>6, <1>7

(* What a step of a provisioning request does to the request itself. *)
OwnStep(p) ==
  /\ pc'[p] \in {"done", "killed"} \cup PutLabels
  /\ pc'[p] \in Fabricating => /\ cf'[InstOf[p]] \in {"creating", "polling"}
                               /\ state_map'[InstOf[p]] = "IN_PROGRESS"
                               /\ pc[p] \in Fabricating \/ cf[InstOf[p]] = "none"
  /\ open'[p] /\ resp'[p] # "none" => pc'[p] = "done"
  /\ cf[InstOf[p]] \in Settled \cup {"polling"} => cf'[InstOf[p]] = cf[InstOf[p]]

LEMMA PutOwnStep ==
  ASSUME TypeOK, OneFabrication, NEW p \in Puts,
         PutMalformed(p) \/ PutStart(p) \/ PutStep(p) \/ PutRespond(p)
  PROVE  OwnStep(p)
<1>. p \in Procs /\ p \in Requests /\ InstOf[p] \in Instances /\ InstOf[p] \in Guids
  BY PutType, GuidType
<1>. /\ pc[p] \in {"idle", "done", "killed"} \cup PutLabels
     /\ pc[p] = "idle" => cf[InstOf[p]] = "none" /\ resp[p] = "none" /\ ~open[p]
     /\ pc[p] \in Fabricating => /\ cf[InstOf[p]] \in {"creating", "polling"}
                                 /\ state_map[InstOf[p]] = "IN_PROGRESS"
     /\ open[p] /\ resp[p] # "none" => pc[p] = "done"
  BY DEF OneFabrication
<1>. USE DEF OwnStep, Fabricating, PutLabels, Settled, Goto, ReportProgress, stateVars, brokerVars
<1>1. CASE PutMalformed(p) BY <1>1 DEF PutMalformed, MayPut, TypeOK
<1>2. CASE PutStart(p) BY <1>2 DEF PutStart, MayPut, TypeOK
<1>3. CASE PutLookup(p)
  <2>1. CASE pc'[p] = "putParse" BY <1>3, <2>1 DEF PutLookup, TypeOK
  <2>2. CASE pc'[p] = "done" BY <1>3, <2>2 DEF PutLookup, CfAfterPut, TypeOK
  <2>. QED BY <1>3, <2>1, <2>2 DEF PutLookup, TypeOK
<1>4. CASE PutParse(p) BY <1>4 DEF PutParse, TypeOK
<1>5. CASE PutFail(p) BY <1>5 DEF PutFail, TypeOK
<1>6. CASE PutOk(p) BY <1>6 DEF PutOk, TypeOK
<1>7. CASE PutRespond(p) BY <1>7 DEF PutRespond, CfAfterPut, TypeOK
<1>8. CASE /\ UNCHANGED <<stateVars, kubeVars, brokerVars>>
           /\ GetOrCreateCluster(p) \/ IsApiWorking(p) \/ CheckQuota(p) \/ PostCluster(p)
                \/ CreateSecretForPrivateTapRepo(p)
  BY <1>8 DEF GetOrCreateCluster, IsApiWorking, CheckQuota, PostCluster,
     CreateSecretForPrivateTapRepo, TypeOK
<1>9. CASE FabricateStart(p) /\ UNCHANGED brokerVars BY <1>9 DEF FabricateStart, TypeOK
<1>10. CASE FabricateService(p) /\ UNCHANGED brokerVars BY <1>10 DEF FabricateService, TypeOK
<1>. QED BY <1>1, <1>2, <1>3, <1>4, <1>5, <1>6, <1>7, <1>8, <1>9, <1>10 DEF PutStep

LEMMA OneFabricationPut ==
  ASSUME TypeOK, OnePut, OneFabrication, NEW p \in Puts,
         PutMalformed(p) \/ PutStart(p) \/ PutStep(p) \/ PutRespond(p)
  PROVE  OneFabrication'
<1>. p \in Procs /\ p \in Requests /\ InstOf[p] \in Instances
  BY PutType
<1>1. /\ \A q \in Puts \ {p} : InstOf[q] # InstOf[p] /\ open'[q] = open[q]
      /\ \A q \in Requests \ {p} : resp'[q] = resp[q]
      /\ \A q \in Procs \ {p} : pc'[q] = pc[q]
      /\ \A i \in Instances \ {InstOf[p]} : cf'[i] = cf[i] /\ state_map'[i] = state_map[i]
      /\ \A g \in Guids : ~stale'[g]
  BY PutFrame DEF OneFabrication
<1>2. OwnStep(p)
  BY PutOwnStep
<1>3. pc'[InstOf[p]] = pc[InstOf[p]]
  BY <1>1, ProcessesDistinct DEF Procs, Requests
<1>4. ASSUME NEW q \in Puts
      PROVE  /\ pc'[q] \in {"idle", "done", "killed"} \cup PutLabels
             /\ pc'[q] = "idle" => cf'[InstOf[q]] = "none" /\ resp'[q] = "none" /\ ~open'[q]
             /\ pc'[q] \in Fabricating => /\ cf'[InstOf[q]] \in {"creating", "polling"}
                                          /\ state_map'[InstOf[q]] = "IN_PROGRESS"
             /\ open'[q] /\ resp'[q] # "none" => pc'[q] = "done"
             /\ pc'[InstOf[q]] = "pollHealth" => pc'[q] \notin Fabricating
  <2>1. CASE q = p
    BY <1>2, <1>3, <2>1 DEF OwnStep, OneFabrication, PutLabels
  <2>2. CASE q # p
    <3>1. /\ q \in Procs /\ q \in Requests /\ InstOf[q] \in Instances \ {InstOf[p]}
          /\ InstOf[q] \in Procs \ {p}
      BY <1>1, <2>2, PutType, ProcessesDistinct DEF Procs, Requests
    <3>. QED BY <1>1, <2>2, <3>1 DEF OneFabrication
  <2>. QED BY <2>1, <2>2
<1>5. ASSUME NEW d \in Dels, pc'[d] # "idle"
      PROVE  cf'[InstOf[d]] \in Settled
  <2>1. d # p /\ d \in Procs /\ InstOf[d] \in Instances
    BY DelType, ProcessesDistinct
  <2>2. cf[InstOf[d]] \in Settled
    BY <1>1, <1>5, <2>1 DEF OneFabrication
  <2>. QED BY <1>1, <1>2, <2>1, <2>2 DEF OwnStep
<1>6. ASSUME NEW i \in Instances, pc'[i] = "pollHealth"
      PROVE  cf'[i] = "polling"
  <2>1. i # p /\ i \in Procs
    BY ProcessesDistinct DEF Procs, Requests
  <2>2. cf[i] = "polling"
    BY <1>1, <1>6, <2>1 DEF OneFabrication
  <2>. QED BY <1>1, <1>2, <2>2 DEF OwnStep
<1>. QED BY <1>1, <1>4, <1>5, <1>6 DEF OneFabrication

LEMMA OneFabricationPoll ==
  ASSUME TypeOK, OneFabrication, Fault("slow") = FALSE, NEW i \in Instances,
         CfTimeout(i) \/ GetLastOperation(i) \/ CheckHealth(i)
  PROVE  OneFabrication'
<1>. i \in Procs /\ i \in Guids
  BY GuidType DEF Procs
<1>1. UNCHANGED <<state_map, stale, open, resp>> /\ ~CfTimeout(i)
  BY DEF CfTimeout, GetLastOperation, CheckHealth, stateVars
<1>2. \A q \in Procs \ {i} : pc'[q] = pc[q]
  BY DEF CfTimeout, GetLastOperation, CheckHealth, Goto, TypeOK
<1>3. \A j \in Instances \ {i} : cf'[j] = cf[j]
  BY DEF CfTimeout, GetLastOperation, CheckHealth, TypeOK
<1>4. /\ cf[i] = "polling" /\ cf'[i] \in {"polling", "ready", "failed"}
      /\ pc'[i] = "pollHealth" => cf'[i] = "polling"
  <2>1. CASE GetLastOperation(i)
    BY <2>1 DEF GetLastOperation, Goto, TypeOK
  <2>2. CASE CheckHealth(i)
    BY <2>2 DEF CheckHealth, OneFabrication, Goto, TypeOK
  <2>. QED BY <1>1, <2>1, <2>2
<1>5. ASSUME NEW q \in Puts, InstOf[q] = i, cf'[i] # "polling" \/ pc'[i] = "pollHealth"
      PROVE  pc[q] \notin Fabricating
  <2>1. CASE GetLastOperation(i)
    BY <1>5, <2>1 DEF GetLastOperation, HasProgressRecords, ReadProgress, OneFabrication
  <2>2. CASE CheckHealth(i)
    BY <1>5, <2>2 DEF CheckHealth, OneFabrication
  <2>. QED BY <1>1, <2>1, <2>2
<1>6. ASSUME NEW q \in Puts
      PROVE  /\ pc'[q] \in {"idle", "done", "killed"} \cup PutLabels
             /\ pc'[q] = "idle" => cf'[InstOf[q]] = "none" /\ resp'[q] = "none" /\ ~open'[q]
             /\ pc'[q] \in Fabricating => /\ cf'[InstOf[q]] \in {"creating", "polling"}
                                          /\ state_map'[InstOf[q]] = "IN_PROGRESS"
             /\ open'[q] /\ resp'[q] # "none" => pc'[q] = "done"
             /\ pc'[InstOf[q]] = "pollHealth" => pc'[q] \notin Fabricating
  <2>1. q \in Procs \ {i} /\ InstOf[q] \in Instances /\ InstOf[q] \in Procs
    BY PutType, ProcessesDistinct DEF Procs, Requests
  <2>. QED BY <1>1, <1>2, <1>3, <1>4, <1>5, <2>1 DEF OneFabrication
<1>7. ASSUME NEW d \in Dels, pc'[d] # "idle"
      PROVE  cf'[InstOf[d]] \in Settled
  <2>1. d \in Procs \ {i} /\ InstOf[d] \in Instances
    BY DelType, ProcessesDistinct DEF Requests
  <2>. QED BY <1>2, <1>3, <1>4, <1>7, <2>1 DEF OneFabrication, Settled
<1>8. ASSUME NEW j \in Instances, pc'[j] = "pollHealth"
      PROVE  cf'[j] = "polling"
  BY <1>2, <1>3, <1>4, <1>8 DEF OneFabrication, Procs
<1>. QED BY <1>1, <1>6, <1>7, <1>8 DEF OneFabrication

LEMMA OneFabricationDel ==
  ASSUME TypeOK, OneFabrication, NEW p \in Dels, DelStart(p) \/ DelStep(p)
  PROVE  OneFabrication'
<1>. p \in Procs /\ p \in Requests /\ InstOf[p] \in Instances
  BY DelType
<1>1. UNCHANGED <<state_map, stale, open>>
  BY DEF DelStart, DelStep, DelLookup, DelGetCluster, DelObjects, ListByServiceId, DeleteByName,
     DeleteCallFails, DelDone, DelAnswer, stateVars, brokerVars
<1>2. /\ \A q \in Procs \ {p} : pc'[q] = pc[q]
      /\ \A q \in Requests \ {p} : resp'[q] = resp[q]
      /\ \A i \in Instances \ {InstOf[p]} : cf'[i] = cf[i]
  BY DEF DelStart, DelStep, DelLookup, DelGetCluster, DelObjects, ListByServiceId, DeleteByName,
     DeleteCallFails, DelDone, DelAnswer, NextKind, brokerVars, Goto, TypeOK
<1>3. cf[InstOf[p]] \in Settled
  BY DEF DelStart, DelStep, DelLookup, DelGetCluster, DelObjects, ListByServiceId, DeleteByName,
     DeleteCallFails, DelDone, OneFabrication, Settled
<1>4. cf'[InstOf[p]] \in Settled
  BY <1>3 DEF DelStart, DelStep, DelLookup, DelGetCluster, DelObjects, ListByServiceId,
     DeleteByName, DeleteCallFails, DelDone, DelAnswer, brokerVars, Settled, TypeOK
<1>5. \A i \in Instances : pc'[i] = pc[i] /\ i \in Procs
  BY <1>2, ProcessesDistinct DEF Procs, Requests
<1>6. \A q \in Puts : pc'[q] = pc[q] /\ resp'[q] = resp[q] /\ q \in Procs /\ InstOf[q] \in Instances
  BY <1>2, PutType, ProcessesDistinct
<1>7. \A i \in Instances : cf[i] \notin Settled => cf'[i] = cf[i]
  BY <1>2, <1>3
<1>8. \A i \in Instances : cf[i] \in Settled => cf'[i] \in Settled
  BY <1>2, <1>4
<1>9. \A d \in Dels : pc'[d] # "idle" => cf'[InstOf[d]] \in Settled
  BY <1>2, <1>4, <1>8, DelType DEF OneFabrication
<1>. QED BY <1>1, <1>5, <1>6, <1>7, <1>8, <1>9 DEF OneFabrication, Settled

LEMMA OneFabricationRest ==
  ASSUME TypeOK, OneFabrication, Fault("slow") = FALSE,
         (\E p \in Removers : RemoverStep(p)) \/ EnvStep \/ Restart
  PROVE  OneFabrication'
<1>1. ASSUME NEW p \in Removers, RemoverStep(p)
      PROVE  OneFabrication'
  <2>1. UNCHANGED <<state_map, stale, open, resp, cf>>
    BY <1>1 DEF RemoverStep, RcServices, RcDeployments, RemoverRead, RcPurge, ListAllClaims,
       DeleteClaim, ClaimsDeleted, RcVolumes, RcDelete, stateVars, brokerVars
  <2>2. \A q \in Procs \ {p} : pc'[q] = pc[q]
    BY <1>1, RemoverType DEF RemoverStep, RcServices, RcDeployments, RemoverRead, RcPurge,
       ListAllClaims, DeleteClaim, ClaimsDeleted, RcVolumes, RcDelete, Goto, TypeOK
  <2>3. pc[p] # "idle"
    BY <1>1 DEF RemoverStep, RcServices, RcDeployments, RemoverRead, RcPurge, ListAllClaims,
       DeleteClaim, ClaimsDeleted, RcVolumes, RcDelete
  <2>4. (\A q \in Puts : pc'[q] = pc[q]) /\ (\A i \in Instances : pc'[i] = pc[i])
    BY <2>2, Disjoint DEF Procs
  <2>5. \A d \in Dels : pc'[d] # "idle" => pc[d] # "idle"
    BY <2>2, <2>3, DelType
  <2>. QED BY <2>1, <2>4, <2>5, PutType DEF OneFabrication
<1>2. CASE EnvStep
  BY <1>2 DEF EnvStep, ClusterReady, BindVolume, ReclaimVolume, GarbageCollect, Age, stateVars, brokerVars,
     OneFabrication
<1>3. CASE Restart
  <2>1. /\ \A p \in Puts : /\ pc'[p] \in {"idle", "done", "killed"}
                           /\ pc'[p] = "idle" => pc[p] = "idle" /\ resp'[p] = "none"
        /\ \A d \in Dels : pc'[d] # "idle" => pc[d] # "idle"
        /\ \A i \in Instances : pc'[i] = "idle"
    BY <1>3, PutType, DelType, ProcessesDistinct
       DEF Restart, OneFabrication, PutLabels, FinalLabels, Procs, Requests
  <2>2. \A i \in Instances :
          (cf[i] = "none" => cf'[i] = "none") /\ (cf[i] \in Settled => cf'[i] \in Settled)
    BY <1>3 DEF Restart, Settled
  <2>3. (\A g \in Guids : ~stale'[g]) /\ (\A p \in Puts : ~open'[p])
    BY <1>3 DEF Restart, StateReset
  <2>4. ASSUME NEW p \in Puts
        PROVE  /\ pc'[p] = "idle" => cf'[InstOf[p]] = "none"
               /\ pc'[p] \notin Fabricating
               /\ pc'[InstOf[p]] # "pollHealth"
    <3>1. InstOf[p] \in Instances /\ (pc[p] = "idle" => cf[InstOf[p]] = "none")
      BY PutType DEF OneFabrication
    <3>. QED BY <2>1, <2>2, <3>1 DEF Fabricating, PutLabels
  <2>5. ASSUME NEW d \in Dels, pc'[d] # "idle"
        PROVE  cf'[InstOf[d]] \in Settled
    <3>1. InstOf[d] \in Instances /\ (pc[d] # "idle" => cf[InstOf[d]] \in Settled)
      BY DelType DEF OneFabrication
    <3>. QED BY <2>1, <2>2, <2>5, <3>1
  <2>. QED BY <2>1, <2>3, <2>4, <2>5 DEF OneFabrication
<1>. QED BY <1>1, <1>2, <1>3

LEMMA OneFabricationInvariant ==
  ASSUME OnePut, Fault("slow") = FALSE
  PROVE  Spec => []OneFabrication
<1>1. Init => OneFabrication
  BY PutType, DelType DEF Init, StateInit, OneFabrication, Fabricating, PutLabels, Procs
<1>2. TypeOK /\ OneFabrication /\ [Next]_vars => OneFabrication'
  <2>. SUFFICES ASSUME TypeOK, OneFabrication, [Next]_vars PROVE OneFabrication'
    OBVIOUS
  <2>1. CASE UNCHANGED vars
    BY <2>1 DEF OneFabrication, vars, stateVars, brokerVars
  <2>2. CASE Next
    BY <2>2, OneFabricationPut, OneFabricationPoll, OneFabricationDel, OneFabricationRest DEF Next
  <2>. QED BY <2>1, <2>2
<1>. QED BY <1>1, <1>2, TypeCorrect, PTL DEF Spec

(* If each instance is requested once and no request is overdue, then no   *)
(* fabrication function outlives the failure that Cloud Foundry is told.   *)
THEOREM FabricationStops ==
  ASSUME OnePut, Fault("slow") = FALSE
  PROVE  Spec => []FailedMeansStopped
<1>1. OneFabrication => FailedMeansStopped
  BY DEF OneFabrication, FailedMeansStopped, Fabricating, FinalLabels
<1>. QED BY <1>1, OneFabricationInvariant, PTL

-----------------------------------------------------------------------------
(* Deletion *)

LEMMA DelOrg == \A p \in Dels : ProcOrg(p) = OrgOf[InstOf[p]]
BY ProcessesDistinct DEF ProcOrg, Requests

LEMMA PutOrg == \A p \in Puts : ProcOrg(p) = OrgOf[InstOf[p]]
BY ProcessesDistinct DEF ProcOrg, Requests

(* DeleteAllByServiceId sweeps every kind of object. *)
LEMMA EveryKindSwept == \A b \in AllObjs : \E s \in 1..Len(DeleteOrder) : b.kind = DeleteOrder[s]
<1>. SUFFICES ASSUME NEW b \in AllObjs
              PROVE  \E s \in 1..Len(DeleteOrder) : b.kind = DeleteOrder[s]
  OBVIOUS
<1>1. b.kind \in Kinds
  BY BlueprintAssumption DEF AllObjs, Obj
<1>2. /\ DeleteOrder[1] = "account" /\ DeleteOrder[2] = "service"
      /\ DeleteOrder[3] = "statefulset" /\ DeleteOrder[4] = "deployment"
      /\ DeleteOrder[5] = "secret" /\ DeleteOrder[6] = "pvc"
  BY DEF DeleteOrder
<1>. QED BY <1>1, <1>2, SixKinds DEF Kinds

(* A step that adds no object of an instance under deletion, and by which  *)
(* a deletion stays where it is or leaves the sweep.                       *)
LEMMA SweptFrame ==
  ASSUME Swept, TypeOK,
         \A p \in Puts : todo'[p] \subseteq todo[p],
         \A p \in Dels :
           /\ pc[p] # "idle" => ObjsOf(InstOf[p])' \subseteq ObjsOf(InstOf[p])
           /\ resp'[p] = "200" => resp[p] = "200" /\ pc'[p] # "idle"
           /\ \/ pc'[p] = pc[p] /\ todo'[p] = todo[p] /\ stage'[p] = stage[p]
              \/ pc'[p] \in RemoverLabels \cup FinalLabels
              \/ pc'[p] = "idle" /\ stage'[p] = 1
  PROVE  Swept'
<1>1. \A p \in Puts : todo'[p] \subseteq Blueprint[InstOf[p]]
  BY DEF Swept
<1>2. ASSUME NEW p \in Dels
      PROVE  /\ resp'[p] = "200" => pc'[p] # "idle"
             /\ pc'[p] \in {"idle", "delLookup", "delGet"} => stage'[p] = 1
  BY <1>2 DEF Swept, RemoverLabels, FinalLabels
<1>3. ASSUME NEW p \in Dels, NEW b \in ObjsOf(InstOf[p])'
      PROVE  /\ resp'[p] # "200" /\ pc'[p] # "delDone"
             /\ pc'[p] \in {"delList", "delItem"} =>
                  \A s \in 1..Len(DeleteOrder) : b.kind = DeleteOrder[s] =>
                    stage'[p] <= s /\ (pc'[p] = "delItem" /\ stage'[p] = s => b \in todo'[p])
  <2>1. CASE pc[p] = "idle"
    BY <1>3, <2>1 DEF Swept, RemoverLabels, FinalLabels
  <2>2. CASE pc[p] # "idle"
    <3>1. b \in ObjsOf(InstOf[p])
      BY <1>3, <2>2
    <3>. QED BY <1>3, <2>2, <3>1 DEF Swept, RemoverLabels, FinalLabels
  <2>. QED BY <2>1, <2>2
<1>. QED BY <1>1, <1>2, <1>3 DEF Swept

LEMMA SweptPut ==
  ASSUME TypeOK, OneFabrication, Swept, NEW p \in Puts,
         PutMalformed(p) \/ PutStart(p) \/ PutStep(p) \/ PutRespond(p)
  PROVE  Swept'
<1>. p \in Procs /\ p \in Requests /\ InstOf[p] \in Instances /\ ProcOrg(p) \in Orgs
  BY PutType, ProcOrgType
<1>1. \A d \in Dels : d # p /\ d \in Procs /\ d \in Requests /\ InstOf[d] \in Instances
  BY DelType, ProcessesDistinct
<1>2. \A d \in Dels : pc'[d] = pc[d] /\ resp'[d] = resp[d]
  BY <1>1 DEF PutMalformed, PutStart, PutStep, PutRespond, PutLookup, PutParse, PutFail, PutOk,
     GetOrCreateCluster, IsApiWorking, CheckQuota, PostCluster, CreateSecretForPrivateTapRepo,
     FabricateStart, FabricateService, brokerVars, Goto, TypeOK
<1>3. \A d \in Dels : todo'[d] = todo[d] /\ stage'[d] = stage[d]
  BY <1>1 DEF PutMalformed, PutStart, PutStep, PutRespond, PutLookup, PutParse, PutFail, PutOk,
     GetOrCreateCluster, IsApiWorking, CheckQuota, PostCluster, CreateSecretForPrivateTapRepo,
     FabricateStart, FabricateService, kubeVars, TypeOK
<1>4. \A q \in Puts : todo'[q] \subseteq Blueprint[InstOf[q]]
  BY PutType DEF PutMalformed, PutStart, PutStep, PutRespond, PutLookup, PutParse, PutFail, PutOk,
     GetOrCreateCluster, IsApiWorking, CheckQuota, PostCluster, CreateSecretForPrivateTapRepo,
     FabricateStart, FabricateService, kubeVars, TypeOK, Swept
<1>5. ASSUME NEW d \in Dels, pc[d] # "idle"
      PROVE  ObjsOf(InstOf[d])' \subseteq ObjsOf(InstOf[d])
  <2>1. CASE FabricateService(p)
    <3>1. PICK b \in todo[p] : Store(ProcOrg(p), b) \/ UNCHANGED objs
      BY <2>1 DEF FabricateService
    <3>2. b.inst = InstOf[p]
      BY BlueprintAssumption DEF Swept
    <3>3. pc[p] \in Fabricating
      BY <2>1 DEF FabricateService, Fabricating, PutLabels
    <3>4. InstOf[p] # InstOf[d]
      BY <1>5, <3>3 DEF OneFabrication, Settled
    <3>5. \A o \in Orgs : \A c \in objs'[o] : c \in objs[o] \/ c = b
      <4>1. CASE Store(ProcOrg(p), b)
        BY <4>1, ProcOrgType, PutType DEF Store, TypeOK
      <4>2. CASE UNCHANGED objs BY <4>2
      <4>. QED BY <3>1, <4>1, <4>2
    <3>. QED BY <1>1, <3>2, <3>4, <3>5, TenancyAssumption DEF ObjsOf
  <2>2. CASE ~FabricateService(p)
    <3>1. UNCHANGED objs
      BY <2>2 DEF PutMalformed, PutStart, PutStep, PutRespond, PutLookup, PutParse, PutFail, PutOk,
         GetOrCreateCluster, IsApiWorking, CheckQuota, PostCluster, CreateSecretForPrivateTapRepo,
         FabricateStart, kubeVars
    <3>. QED BY <3>1 DEF ObjsOf
  <2>. QED BY <2>1, <2>2
<1>6. ASSUME NEW d \in Dels, NEW b \in ObjsOf(InstOf[d])'
      PROVE  /\ resp'[d] # "200" /\ pc'[d] # "delDone"
             /\ pc'[d] \in {"delList", "delItem"} =>
                  \A s \in 1..Len(DeleteOrder) : b.kind = DeleteOrder[s] =>
                    stage'[d] <= s /\ (pc'[d] = "delItem" /\ stage'[d] = s => b \in todo'[d])
  BY <1>2, <1>3, <1>5, <1>6 DEF Swept
<1>. QED BY <1>2, <1>3, <1>4, <1>6 DEF Swept

LEMMA SweptDel ==
  ASSUME TypeOK, Swept, NEW p \in Dels, DelStart(p) \/ DelStep(p)
  PROVE  Swept'
<1>. /\ p \in Procs /\ p \in Requests /\ InstOf[p] \in Instances
     /\ ProcOrg(p) \in Orgs /\ ProcOrg(p) = OrgOf[InstOf[p]]
  BY DelType, ProcOrgType, DelOrg
<1>1. \A q \in Puts : todo'[q] = todo[q]
  BY PutType, ProcessesDistinct DEF DelStart, DelStep, DelLookup, DelGetCluster, DelObjects,
     ListByServiceId, DeleteByName, DeleteCallFails, DelDone, kubeVars, TypeOK
<1>2. \A d \in Dels \ {p} :
        pc'[d] = pc[d] /\ resp'[d] = resp[d] /\ todo'[d] = todo[d] /\ stage'[d] = stage[d]
  BY DelType DEF DelStart, DelStep, DelLookup, DelGetCluster, DelObjects, ListByServiceId,
     DeleteByName, DeleteCallFails, DelDone, DelAnswer, NextKind, brokerVars, kubeVars, Goto, TypeOK
<1>3. \A o \in Orgs : objs'[o] \subseteq objs[o]
  <2>1. CASE DeleteByName(p)
    BY <2>1 DEF DeleteByName, Discard, TypeOK
  <2>2. CASE DeleteCallFails(p)
    BY <2>2 DEF DeleteCallFails, Discard, TypeOK
  <2>3. CASE UNCHANGED objs
    BY <2>3
  <2>. QED BY <2>1, <2>2, <2>3 DEF DelStart, DelStep, DelLookup, DelGetCluster, DelObjects,
           ListByServiceId, DelDone, kubeVars
<1>4. \A i \in Instances : ObjsOf(i)' \subseteq ObjsOf(i)
  BY <1>3, TenancyAssumption DEF ObjsOf
<1>5. /\ resp'[p] = "200" => pc'[p] # "idle"
      /\ pc'[p] \in {"idle", "delLookup", "delGet"} => stage'[p] = 1
  BY DEF DelStart, DelStep, DelLookup, DelGetCluster, DelObjects, ListByServiceId, DeleteByName,
     DeleteCallFails, DelDone, DelAnswer, NextKind, brokerVars, kubeVars, Goto, TypeOK, Swept
<1>6. ASSUME NEW b \in ObjsOf(InstOf[p])'
      PROVE  /\ resp'[p] # "200" /\ pc'[p] # "delDone"
             /\ pc'[p] \in {"delList", "delItem"} =>
                  \A s \in 1..Len(DeleteOrder) : b.kind = DeleteOrder[s] =>
                    stage'[p] <= s /\ (pc'[p] = "delItem" /\ stage'[p] = s => b \in todo'[p])
  <2>. /\ b \in ObjsOf(InstOf[p]) /\ b \in objs'[ProcOrg(p)] /\ b \in objs[ProcOrg(p)]
       /\ b.inst = InstOf[p] /\ b \in AllObjs
    BY <1>3, <1>4, <1>6 DEF ObjsOf, TypeOK
  <2>. stage[p] \in 1..6
    BY SixKinds DEF TypeOK
  <2>0. PICK k \in 1..Len(DeleteOrder) : b.kind = DeleteOrder[k]
    BY EveryKindSwept
  <2>1. CASE ListByServiceId(p) /\ UNCHANGED brokerVars
    <3>2. CASE FindByServiceId(p, DeleteOrder[stage[p]]) = {}
      <4>1. \A s \in 1..Len(DeleteOrder) : b.kind = DeleteOrder[s] => stage[p] < s
        <5>1. \A s \in 1..Len(DeleteOrder) : b.kind = DeleteOrder[s] => stage[p] <= s
          BY <2>1 DEF ListByServiceId, Swept
        <5>2. \A s \in 1..Len(DeleteOrder) : b.kind = DeleteOrder[s] => stage[p] # s
          BY <3>2 DEF FindByServiceId, OfKind, InCluster
        <5>. QED BY <5>1, <5>2, SixKinds
      <4>2. NextKind(p) /\ resp' = resp /\ resp[p] # "200"
        BY <2>1, <3>2 DEF ListByServiceId, brokerVars, Swept
      <4>3. stage[p] < Len(DeleteOrder)
        BY <2>0, <4>1, SixKinds
      <4>4. pc'[p] = "delList" /\ stage'[p] = stage[p] + 1
        BY <4>2, <4>3 DEF NextKind, Goto, TypeOK
      <4>. QED BY <4>1, <4>2, <4>4, SixKinds
    <3>3. CASE FindByServiceId(p, DeleteOrder[stage[p]]) # {}
      BY <2>1, <3>3 DEF ListByServiceId, FindByServiceId, OfKind, InCluster, Swept, Goto, TypeOK, brokerVars
    <3>. QED BY <3>2, <3>3
  <2>2. CASE DeleteByName(p) /\ UNCHANGED brokerVars
    <3>1. PICK c \in todo[p] :
            /\ objs' = [objs EXCEPT ![ProcOrg(p)] = @ \ {c}]
            /\ todo' = [todo EXCEPT ![p] = @ \ {c}]
            /\ IF todo[p] = {c} THEN NextKind(p) ELSE UNCHANGED <<pc, stage>>
      BY <2>2 DEF DeleteByName, Discard
    <3>2. b # c /\ pc[p] = "delItem" /\ resp' = resp
      BY <2>2, <3>1 DEF DeleteByName, Discard, brokerVars, TypeOK
    <3>3. CASE todo[p] = {c}
      BY <2>0, <3>1, <3>2, <3>3, SixKinds DEF NextKind, Swept, Goto, TypeOK
    <3>4. CASE todo[p] # {c}
      BY <3>1, <3>2, <3>4 DEF Swept, TypeOK
    <3>. QED BY <3>3, <3>4
  <2>3. CASE DelDone(p)
    BY <2>3 DEF DelDone, Swept
  <2>4. CASE DelStart(p) \/ DelLookup(p) \/ DelGetCluster(p)
    BY <2>4 DEF DelStart, DelLookup, DelGetCluster, DelAnswer, brokerVars, kubeVars, Swept, Goto, TypeOK
  <2>5. CASE DeleteCallFails(p) /\ DelAnswer(p, "500")
    BY <2>5 DEF DeleteCallFails, Discard, DelAnswer, Goto, TypeOK
  <2>. QED BY <2>1, <2>2, <2>3, <2>4, <2>5 DEF DelStep, DelObjects
<1>7. ASSUME NEW d \in Dels, NEW b \in ObjsOf(InstOf[d])'
      PROVE  /\ resp'[d] # "200" /\ pc'[d] # "delDone"
             /\ pc'[d] \in {"delList", "delItem"} =>
                  \A s \in 1..Len(DeleteOrder) : b.kind = DeleteOrder[s] =>
                    stage'[d] <= s /\ (pc'[d] = "delItem" /\ stage'[d] = s => b \in todo'[d])
  <2>1. CASE d = p
    BY <1>6, <1>7, <2>1
  <2>2. CASE d # p
    BY <1>2, <1>4, <1>7, <2>2, DelType DEF Swept
  <2>. QED BY <2>1, <2>2
<1>8. \A d \in Dels :
        /\ resp'[d] = "200" => pc'[d] # "idle"
        /\ pc'[d] \in {"idle", "delLookup", "delGet"} => stage'[d] = 1
  BY <1>2, <1>5 DEF Swept
<1>. QED BY <1>1, <1>7, <1>8 DEF Swept

LEMMA SweptRest ==
  ASSUME TypeOK, Swept,
         \/ \E i \in Instances : CfTimeout(i) \/ GetLastOperation(i) \/ CheckHealth(i)
         \/ \E p \in Removers : RemoverStep(p)
         \/ EnvStep
         \/ Restart
  PROVE  Swept'
<1>1. ASSUME NEW i \in Instances, CfTimeout(i) \/ GetLastOperation(i) \/ CheckHealth(i)
      PROVE  Swept'
  <2>1. UNCHANGED <<kubeVars, resp>>
    BY <1>1 DEF CfTimeout, GetLastOperation, CheckHealth
  <2>2. \A d \in Dels : d # i /\ d \in Procs
    BY DelType, ProcessesDistinct DEF Requests
  <2>3. \A d \in Dels : pc'[d] = pc[d]
    BY <1>1, <2>2 DEF CfTimeout, GetLastOperation, CheckHealth, Goto, TypeOK
  <2>. QED BY <2>1, <2>3 DEF Swept, ObjsOf, kubeVars
<1>2. ASSUME NEW p \in Removers, RemoverStep(p)
      PROVE  Swept'
  <2>. p \in Procs /\ ProcOrg(p) \in Orgs
    BY RemoverType, ProcOrgType
  <2>1. resp' = resp /\ stage' = stage
    BY <1>2 DEF RemoverStep, RcServices, RcDeployments, RemoverRead, RcPurge, ListAllClaims,
       DeleteClaim, ClaimsDeleted, RcVolumes, RcDelete, brokerVars, kubeVars
  <2>2. \A q \in Procs \ {p} : pc'[q] = pc[q] /\ todo'[q] = todo[q]
    BY <1>2 DEF RemoverStep, RcServices, RcDeployments, RemoverRead, RcPurge, ListAllClaims,
       DeleteClaim, ClaimsDeleted, RcVolumes, RcDelete, kubeVars, Goto, TypeOK
  <2>3. pc'[p] \in RemoverLabels \cup FinalLabels
    BY <1>2 DEF RemoverStep, RcServices, RcDeployments, RemoverRead, RcPurge, ListAllClaims,
       DeleteClaim, ClaimsDeleted, RcVolumes, RcDelete, Goto, TypeOK, RemoverLabels, FinalLabels
  <2>4. \A o \in Orgs : objs'[o] \subseteq objs[o]
    <3>1. CASE DeleteClaim(p)
      BY <3>1 DEF DeleteClaim, TypeOK
    <3>2. CASE RcDelete(p)
      BY <3>2 DEF RcDelete, Unregister, TypeOK
    <3>3. CASE ~DeleteClaim(p) /\ ~RcDelete(p)
      BY <1>2, <3>3 DEF RemoverStep, RcServices, RcDeployments, RemoverRead, RcPurge,
         ListAllClaims, ClaimsDeleted, RcVolumes, kubeVars
    <3>. QED BY <3>1, <3>2, <3>3
  <2>5. \A i \in Instances : ObjsOf(i)' \subseteq ObjsOf(i)
    BY <2>4, TenancyAssumption DEF ObjsOf
  <2>6. \A q \in Puts : todo'[q] = todo[q]
    BY <2>2, PutType, Disjoint
  <2>7. ASSUME NEW d \in Dels
        PROVE  /\ ObjsOf(InstOf[d])' \subseteq ObjsOf(InstOf[d])
               /\ resp'[d] = "200" => resp[d] = "200" /\ pc'[d] # "idle"
               /\ \/ pc'[d] = pc[d] /\ todo'[d] = todo[d] /\ stage'[d] = stage[d]
                  \/ pc'[d] \in RemoverLabels \cup FinalLabels
    BY <2>1, <2>2, <2>3, <2>5, DelType DEF Swept, RemoverLabels, FinalLabels
  <2>. QED BY <2>6, <2>7, SweptFrame
<1>3. CASE EnvStep
  BY <1>3 DEF EnvStep, ClusterReady, BindVolume, ReclaimVolume, GarbageCollect, Age, brokerVars, kubeVars, Swept, ObjsOf
<1>4. CASE Restart
  <2>1. objs' = objs /\ \A p \in Puts : todo'[p] = {}
    BY <1>4, PutType DEF Restart
  <2>2. ASSUME NEW d \in Dels
        PROVE  /\ ObjsOf(InstOf[d])' = ObjsOf(InstOf[d])
               /\ resp'[d] = resp[d] /\ stage'[d] = 1
               /\ pc'[d] \in {"idle"} \cup FinalLabels
               /\ pc'[d] = "idle" => pc[d] = "idle"
    BY <1>4, <2>1, DelType, ProcessesDistinct DEF Restart, ObjsOf, FinalLabels, Requests
  <2>3. \A d \in Dels : pc'[d] # "delDone" /\ ~(pc'[d] \in {"delList", "delItem"})
    BY <2>2 DEF FinalLabels
  <2>4. ASSUME NEW d \in Dels, NEW b \in ObjsOf(InstOf[d])'
        PROVE  resp'[d] # "200"
    <3>1. b \in ObjsOf(InstOf[d])
      BY <2>2
    <3>. QED BY <2>2, <3>1 DEF Swept
  <2>5. \A p \in Puts : todo'[p] \subseteq Blueprint[InstOf[p]]
    BY <2>1
  <2>6. \A d \in Dels : stage'[d] = 1
    BY <2>2
  <2>7. \A d \in Dels :
          /\ resp'[d] = "200" => pc'[d] # "idle"
          /\ pc'[d] \in {"idle", "delLookup", "delGet"} => stage'[d] = 1
    BY <2>2, <2>6 DEF Swept
  <2>8. \A d \in Dels : \A b \in ObjsOf(InstOf[d])' :
          /\ resp'[d] # "200" /\ pc'[d] # "delDone"
          /\ ~(pc'[d] \in {"delList", "delItem"})
    BY <2>3, <2>4, Zenon
  <2>. QED BY <2>5, <2>7, <2>8, Zenon DEF Swept
<1>. QED BY <1>1, <1>2, <1>3, <1>4

LEMMA SweptInvariant ==
  ASSUME OnePut, Fault("slow") = FALSE
  PROVE  Spec => []Swept
<1>1. Init => Swept
  <2>. SUFFICES ASSUME Init PROVE Swept
    OBVIOUS
  <2>1. \A p \in Puts : todo[p] = {}
    BY PutType DEF Init, KubeInit
  <2>2. \A d \in Dels : resp[d] = "none" /\ pc[d] = "idle" /\ stage[d] = 1
    BY DelType DEF Init, KubeInit
  <2>. QED BY <2>1, <2>2 DEF Swept
<1>2. TypeOK /\ OneFabrication /\ Swept /\ [Next]_vars => Swept'
  <2>. SUFFICES ASSUME TypeOK, OneFabrication, Swept, [Next]_vars PROVE Swept'
    OBVIOUS
  <2>1. CASE UNCHANGED vars
    BY <2>1 DEF Swept, ObjsOf, vars, kubeVars, brokerVars
  <2>2. CASE Next
    BY <2>2, SweptPut, SweptDel, SweptRest DEF Next
  <2>. QED BY <2>1, <2>2
<1>. QED BY <1>1, <1>2, TypeCorrect, OneFabricationInvariant, PTL DEF Spec

(* If each instance is requested once and no request is overdue, an        *)
(* instance whose deletion was answered with 200 has no object left, now   *)
(* or later, whatever failed or was restarted in between.                  *)
THEOREM DeletionIsComplete ==
  ASSUME OnePut, Fault("slow") = FALSE
  PROVE  Spec => []DeletedMeansGone
<1>1. Swept => DeletedMeansGone
  BY DEF Swept, DeletedMeansGone
<1>. QED BY <1>1, SweptInvariant, PTL
=============================================================================
