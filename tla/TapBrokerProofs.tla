--------------------------- MODULE TapBrokerProofs ---------------------------
(***************************************************************************)
(* TapBrokerProps holds for every set of tenants, requests and blueprints, *)
(* every choice of faults and any number of restarts: what TLC checks on   *)
(* small instances is proved here for all of them.                         *)
(***************************************************************************)
EXTENDS TapBrokerProps, TLAPS

(* Every goroutine works for one organization. *)
LEMMA ProcOrgType == \A p \in Procs : ProcOrg(p) \in Orgs
BY TenancyAssumption, ProcessesDistinct DEF ProcOrg, Procs, Requests

LEMMA PutType == \A p \in Puts : p \in Procs /\ p \in Requests /\ InstOf[p] \in Instances
BY TenancyAssumption DEF Procs, Requests

LEMMA DelType == \A p \in Dels : p \in Procs /\ p \in Requests /\ InstOf[p] \in Instances
BY TenancyAssumption DEF Procs, Requests

LEMMA RemoverType == \A p \in Removers : p \in Procs
BY DEF Procs, Removers

LEMMA BlueprintType == \A i \in Instances : Blueprint[i] \in SUBSET AllObjs
BY DEF AllObjs

LEMMA GuidType == UnparsedGuid \in Guids /\ \A i \in Instances : i \in Guids
BY DEF Guids

LEMMA SixKinds == Len(DeleteOrder) = 6
BY DEF DeleteOrder

(* The labels a goroutine is sent to. *)
LEMMA LabelType ==
  /\ PutLabels \subseteq Labels /\ DelLabels \subseteq Labels
  /\ RemoverLabels \subseteq Labels /\ FinalLabels \subseteq Labels
  /\ "idle" \in Labels /\ "pollHealth" \in Labels
BY DEF Labels

LEMMA ReportType ==
  ASSUME TypeOK, NEW g \in Guids, NEW s \in ProgressStates, ReportProgress(g, s)
  PROVE  state_map' \in [Guids -> ProgressStates] /\ stale' \in [Guids -> BOOLEAN]
BY DEF TypeOK, ReportProgress

LEMMA OfKindType ==
  ASSUME TypeOK, NEW o \in Orgs, NEW k
  PROVE  OfKind(o, k) \in SUBSET AllObjs
BY DEF TypeOK, Terminable, OfKind, InCluster

(* What deleting an object does to the cluster it is in, and to others. *)
LEMMA DiscardEffect ==
  ASSUME TypeOK, NEW o \in Orgs, NEW b, Discard(o, b)
  PROVE  /\ objs' \in [Orgs -> SUBSET AllObjs]
         /\ terminating' \in [Orgs -> SUBSET Terminable]
         /\ objs'[o] = objs[o] \ {b}
         /\ \A q \in Orgs : /\ objs'[q] \subseteq objs[q]
                            /\ q # o => objs'[q] = objs[q]
                            /\ objs'[q] \cup terminating'[q] \subseteq objs[q] \cup terminating[q]
<1>1. objs' \in [Orgs -> SUBSET AllObjs] /\ objs'[o] = objs[o] \ {b}
  BY DEF Discard, TypeOK
<1>2. \A q \in Orgs : terminating'[q] \subseteq terminating[q] \cup objs[q]
  BY DEF Discard, TypeOK
<1>3. terminating' \in [Orgs -> SUBSET Terminable]
  BY DEF Discard, TypeOK, Terminable
<1>4. \A q \in Orgs : objs'[q] \subseteq objs[q] /\ (q # o => objs'[q] = objs[q])
  BY DEF Discard, TypeOK
<1>5. \A q \in Orgs : objs'[q] \cup terminating'[q] \subseteq objs[q] \cup terminating[q]
  BY <1>2, <1>4 DEF TypeOK
<1>. QED BY <1>1, <1>3, <1>4, <1>5

LEMMA GotoType ==
  ASSUME TypeOK, NEW p \in Procs, NEW l \in Labels, Goto(p, l)
  PROVE  pc' \in [Procs -> Labels]
BY DEF TypeOK, Goto

-----------------------------------------------------------------------------
LEMMA PutTypes ==
  ASSUME TypeOK, NEW p \in Puts,
         PutMalformed(p) \/ PutStart(p) \/ PutLookup(p) \/ PutParse(p) \/ PutFail(p)
           \/ PutOk(p) \/ PutRespond(p)
  PROVE  TypeOK'
<1>. p \in Procs /\ p \in Requests /\ InstOf[p] \in Instances /\ InstOf[p] \in Guids
  BY PutType, GuidType
<1>. USE DEF TypeOK, stateVars, clusterVars, kubeVars, brokerVars, CfStates, Statuses, Goto,
             Labels, PutLabels, FinalLabels, ReportProgress, ProgressStates, MayPut, CfAfterPut
<1>1. CASE PutMalformed(p) BY <1>1, GuidType DEF PutMalformed
<1>2. CASE PutStart(p) BY <1>2 DEF PutStart
<1>3. CASE PutLookup(p)
  <2>1. state_map' \in [Guids -> ProgressStates] /\ stale' \in [Guids -> BOOLEAN]
    BY <1>3 DEF PutLookup
  <2>2. Goto(p, "putParse") \/ Goto(p, "done")
    BY <1>3 DEF PutLookup
  <2>3. pc' \in [Procs -> Labels]
    BY <2>2
  <2>4. cf' = cf \/ cf' = CfAfterPut(InstOf[p], "500")
    BY <1>3 DEF PutLookup
  <2>5. cf' \in [Instances -> CfStates]
    <3>1. CASE cf' = cf BY <3>1
    <3>2. CASE cf' = CfAfterPut(InstOf[p], "500") BY <3>2
    <3>. QED BY <2>4, <3>1, <3>2
  <2>6. resp' \in [Requests -> Statuses]
    BY <1>3 DEF PutLookup
  <2>7. open' \in [Puts -> BOOLEAN] /\ UNCHANGED <<creds, clusterVars, kubeVars, restarts>>
    BY <1>3 DEF PutLookup
  <2>. QED BY <2>1, <2>3, <2>5, <2>6, <2>7
<1>4. CASE PutParse(p) BY <1>4 DEF PutParse
<1>5. CASE PutFail(p) BY <1>5 DEF PutFail
<1>6. CASE PutOk(p) BY <1>6 DEF PutOk
<1>7. CASE PutRespond(p) BY <1>7 DEF PutRespond
<1>. QED BY <1>1, <1>2, <1>3, <1>4, <1>5, <1>6, <1>7

LEMMA ConnectorTypes ==
  ASSUME TypeOK, NEW p \in Puts, UNCHANGED <<stateVars, kubeVars, brokerVars>>,
         GetOrCreateCluster(p) \/ IsApiWorking(p) \/ CheckQuota(p) \/ PostCluster(p)
           \/ CreateSecretForPrivateTapRepo(p)
  PROVE  TypeOK'
<1>. p \in Procs /\ ProcOrg(p) \in Orgs
  BY PutType, ProcOrgType
<1>. USE DEF TypeOK, stateVars, clusterVars, kubeVars, brokerVars, Goto, Labels, PutLabels
<1>1. CASE GetOrCreateCluster(p) BY <1>1 DEF GetOrCreateCluster
<1>2. CASE IsApiWorking(p) BY <1>2 DEF IsApiWorking
<1>3. CASE CheckQuota(p) BY <1>3 DEF CheckQuota
<1>4. CASE PostCluster(p)
  <2>1. Register(ProcOrg(p)) \/ UNCHANGED <<cluster, gen, repo>>
    BY <1>4 DEF PostCluster
  <2>2. /\ cluster' \in [Orgs -> {"absent", "creating", "ready"}]
        /\ gen' \in [Orgs -> Nat] /\ repo' \in [Orgs -> BOOLEAN]
    <3>1. CASE Register(ProcOrg(p)) BY <3>1 DEF Register
    <3>2. CASE UNCHANGED <<cluster, gen, repo>> BY <3>2
    <3>. QED BY <2>1, <3>1, <3>2
  <2>3. wasCreated' = [wasCreated EXCEPT ![p] = TRUE] \/ wasCreated' = wasCreated
    BY <1>4 DEF PostCluster
  <2>4. wasCreated' \in [Puts -> BOOLEAN]
    BY <2>3
  <2>5. pc' \in [Procs -> Labels] /\ creds' = creds
    BY <1>4 DEF PostCluster
  <2>. QED BY <2>2, <2>4, <2>5
<1>5. CASE CreateSecretForPrivateTapRepo(p) BY <1>5 DEF CreateSecretForPrivateTapRepo
<1>. QED BY <1>1, <1>2, <1>3, <1>4, <1>5

LEMMA FabricateTypes ==
  ASSUME TypeOK, NEW p \in Puts, UNCHANGED brokerVars,
         FabricateStart(p) \/ FabricateService(p)
  PROVE  TypeOK'
<1>. /\ p \in Procs /\ ProcOrg(p) \in Orgs
     /\ InstOf[p] \in Instances /\ InstOf[p] \in Guids
  BY PutType, ProcOrgType, GuidType
<1>. USE DEF TypeOK, stateVars, clusterVars, kubeVars, brokerVars, Goto, Labels, PutLabels,
             ReportProgress, ProgressStates
<1>1. CASE FabricateStart(p) BY <1>1, BlueprintType DEF FabricateStart
<1>2. CASE FabricateService(p)
  <2>1. PICK b \in todo[p] : Store(ProcOrg(p), b) \/ UNCHANGED <<objs, touched>>
    BY <1>2 DEF FabricateService
  <2>2. objs' \in [Orgs -> SUBSET AllObjs] /\ touched' \in SUBSET Removers
    <3>1. CASE Store(ProcOrg(p), b) BY <3>1 DEF Store
    <3>2. CASE UNCHANGED <<objs, touched>> BY <3>2
    <3>. QED BY <2>1, <3>1, <3>2
  <2>3. todo' \in [Procs -> SUBSET AllObjs] /\ pc' \in [Procs -> Labels]
    <3>1. /\ UNCHANGED todo \/ \E c : todo' = [todo EXCEPT ![p] = @ \ {c}]
          /\ UNCHANGED pc \/ pc' = [pc EXCEPT ![p] = "putFail"]
      BY <1>2 DEF FabricateService
    <3>. QED BY <3>1
  <2>4. PICK s \in ProgressStates : ReportProgress(InstOf[p], s)
    BY <1>2 DEF FabricateService
  <2>5. state_map' \in [Guids -> ProgressStates] /\ stale' \in [Guids -> BOOLEAN]
    BY <2>4, ReportType
  <2>6. UNCHANGED <<creds, clusterVars, terminating, pvs, stage>>
    BY <1>2 DEF FabricateService
  <2>. QED BY <2>2, <2>3, <2>5, <2>6
<1>. QED BY <1>1, <1>2

LEMMA PollTypes ==
  ASSUME TypeOK, NEW i \in Instances, CfTimeout(i) \/ GetLastOperation(i) \/ CheckHealth(i)
  PROVE  TypeOK'
<1>. i \in Procs
  BY DEF Procs
<1>. USE DEF TypeOK, stateVars, clusterVars, kubeVars, brokerVars, Goto, Labels, CfStates
<1>1. CASE CfTimeout(i) BY <1>1 DEF CfTimeout
<1>2. CASE GetLastOperation(i) BY <1>2 DEF GetLastOperation
<1>3. CASE CheckHealth(i) BY <1>3 DEF CheckHealth
<1>. QED BY <1>1, <1>2, <1>3

LEMMA DelTypes ==
  ASSUME TypeOK, NEW p \in Dels, DelStart(p) \/ DelStep(p)
  PROVE  TypeOK'
<1>. p \in Procs /\ p \in Requests /\ ProcOrg(p) \in Orgs /\ InstOf[p] \in Instances
  BY DelType, ProcOrgType
<1>. USE SixKinds DEF TypeOK, stateVars, clusterVars, kubeVars, brokerVars, Goto, Labels,
             DelLabels, RemoverLabels, FinalLabels, CfStates, Statuses, DelAnswer
<1>1. CASE DelStart(p) BY <1>1 DEF DelStart
<1>2. CASE DelLookup(p) BY <1>2 DEF DelLookup
<1>3. CASE DelGetCluster(p) BY <1>3 DEF DelGetCluster
<1>4. CASE ListByServiceId(p) /\ UNCHANGED brokerVars
  <2>1. FindByServiceId(p, DeleteOrder[stage[p]]) \in SUBSET AllObjs
    BY OfKindType DEF FindByServiceId
  <2>. QED BY <1>4, <2>1 DEF ListByServiceId, NextKind
<1>5. CASE DeleteByName(p) /\ UNCHANGED brokerVars
  <2>1. objs' \in [Orgs -> SUBSET AllObjs] /\ terminating' \in [Orgs -> SUBSET Terminable]
    BY <1>5, DiscardEffect DEF DeleteByName
  <2>2. /\ todo' \in [Procs -> SUBSET AllObjs]
        /\ pc' \in [Procs -> Labels] /\ stage' \in [Dels -> 1..Len(DeleteOrder)]
        /\ UNCHANGED <<creds, stateVars, clusterVars, pvs, touched>>
    BY <1>5 DEF DeleteByName, NextKind
  <2>. QED BY <1>5, <2>1, <2>2
<1>6. CASE DeleteCallFails(p) /\ DelAnswer(p, "500")
  <2>1. \/ UNCHANGED <<objs, terminating>>
        \/ \E b : Discard(ProcOrg(p), b)
    BY <1>6 DEF DeleteCallFails
  <2>2. objs' \in [Orgs -> SUBSET AllObjs] /\ terminating' \in [Orgs -> SUBSET Terminable]
    BY <2>1, DiscardEffect
  <2>. QED BY <1>6, <2>2 DEF DeleteCallFails
<1>7. CASE DelDone(p) BY <1>7 DEF DelDone
<1>. QED BY <1>1, <1>2, <1>3, <1>4, <1>5, <1>6, <1>7 DEF DelStep, DelObjects

LEMMA RemoverTypes ==
  ASSUME TypeOK, NEW p \in Removers, RemoverStep(p)
  PROVE  TypeOK'
<1>. p \in Procs /\ ProcOrg(p) \in Orgs
  BY RemoverType, ProcOrgType
<1>. USE DEF TypeOK, stateVars, clusterVars, kubeVars, brokerVars, Goto, Labels,
             RemoverLabels, FinalLabels
<1>1. CASE RcServices(p) BY <1>1 DEF RcServices, RemoverRead
<1>2. CASE RcDeployments(p) BY <1>2 DEF RcDeployments, RemoverRead
<1>3. CASE RcPurge(p)
  <2>1. OfKind(ProcOrg(p), "pvc") \in SUBSET AllObjs
    BY OfKindType
  <2>2. CASE ListAllClaims(p) /\ UNCHANGED brokerVars BY <2>2, <2>1 DEF ListAllClaims
  <2>3. CASE DeleteClaim(p) /\ UNCHANGED brokerVars
    <3>1. PICK b \in todo[p] :
            /\ todo' = [todo EXCEPT ![p] = @ \ {b}]
            /\ objs' = [objs EXCEPT ![ProcOrg(p)] = @ \ {b}] \/ UNCHANGED objs
            /\ UNCHANGED pc \/ pc' = [pc EXCEPT ![p] = "rcPurgeErr"]
      BY <2>3 DEF DeleteClaim
    <3>2. todo' \in [Procs -> SUBSET AllObjs]
      BY <3>1
    <3>3. pc' \in [Procs -> Labels]
      BY <3>1
    <3>4. objs' \in [Orgs -> SUBSET AllObjs]
      BY <3>1
    <3>. QED BY <2>3, <3>2, <3>3, <3>4 DEF DeleteClaim
  <2>4. CASE ClaimsDeleted(p) /\ UNCHANGED brokerVars BY <2>4 DEF ClaimsDeleted
  <2>. QED BY <1>3, <2>2, <2>3, <2>4 DEF RcPurge
<1>4. CASE RcVolumes(p) BY <1>4 DEF RcVolumes
<1>5. CASE RcDelete(p) BY <1>5 DEF RcDelete, Unregister
<1>. QED BY <1>1, <1>2, <1>3, <1>4, <1>5 DEF RemoverStep

LEMMA EnvTypes ==
  ASSUME TypeOK, EnvStep
  PROVE  TypeOK'
<1>. USE DEF TypeOK, stateVars, clusterVars, kubeVars, brokerVars
<1>1. ASSUME NEW o \in Orgs, ClusterReady(o), UNCHANGED <<stateVars, kubeVars, brokerVars>>
      PROVE  TypeOK'
  BY <1>1 DEF ClusterReady
<1>2. ASSUME NEW o \in Orgs, BindVolume(o) \/ ReclaimVolume(o) \/ GarbageCollect(o),
             UNCHANGED brokerVars
      PROVE  TypeOK'
  <2>1. CASE BindVolume(o)
    <3>1. OfKind(o, "pvc") \in SUBSET AllObjs
      BY OfKindType
    <3>. QED BY <1>2, <2>1, <3>1 DEF BindVolume
  <2>2. CASE ReclaimVolume(o) BY <1>2, <2>2 DEF ReclaimVolume
  <2>3. CASE GarbageCollect(o) BY <1>2, <2>3 DEF GarbageCollect
  <2>. QED BY <1>2, <2>1, <2>2, <2>3
<1>3. ASSUME NEW g \in Guids, Age(g), UNCHANGED <<pc, creds, clusterVars, kubeVars, brokerVars>>
      PROVE  TypeOK'
  BY <1>3 DEF Age
<1>. QED BY <1>1, <1>2, <1>3 DEF EnvStep

LEMMA RestartTypes ==
  ASSUME TypeOK, Restart
  PROVE  TypeOK'
<1>. USE DEF TypeOK
<1>1. pc' \in [Procs -> Labels] /\ creds' \in [Procs -> Nat]
  BY RemoverType DEF Restart, Labels, RemoverLabels, FinalLabels, Removers
<1>2. state_map' \in [Guids -> ProgressStates] /\ stale' \in [Guids -> BOOLEAN]
  BY DEF Restart, StateReset, ProgressStates
<1>3. resp' \in [Requests -> Statuses] /\ cf' \in [Instances -> CfStates]
  BY DEF Restart, Statuses, CfStates
<1>4. /\ wasCreated' \in [Puts -> BOOLEAN] /\ todo' \in [Procs -> SUBSET AllObjs]
      /\ stage' \in [Dels -> 1..Len(DeleteOrder)] /\ touched' \in SUBSET Removers
      /\ open' \in [Puts -> BOOLEAN] /\ restarts' \in Nat
      /\ UNCHANGED <<cluster, gen, repo, objs, terminating, pvs>>
  BY SixKinds DEF Restart
<1>. QED BY <1>1, <1>2, <1>3, <1>4

LEMMA TypeStep == TypeOK /\ [Next]_vars => TypeOK'
<1>. SUFFICES ASSUME TypeOK, [Next]_vars PROVE TypeOK'
  OBVIOUS
<1>1. CASE UNCHANGED vars
  BY <1>1 DEF TypeOK, vars, stateVars, clusterVars, kubeVars, brokerVars
<1>2. ASSUME NEW p \in Puts, PutMalformed(p) \/ PutStart(p) \/ PutStep(p) \/ PutRespond(p)
      PROVE  TypeOK'
  BY <1>2, PutTypes, ConnectorTypes, FabricateTypes DEF PutStep
<1>3. CASE Next
  BY <1>2, <1>3, PollTypes, DelTypes, RemoverTypes, EnvTypes, RestartTypes DEF Next
<1>. QED BY <1>1, <1>3

(* The whole state keeps its type: in particular DeleteAllByServiceId      *)
(* never runs past the last kind of object.                                *)
THEOREM TypeCorrect == Spec => []TypeOK
<1>1. Init => TypeOK
  BY SixKinds DEF Init, StateInit, ClusterInit, KubeInit, TypeOK, Labels, ProgressStates,
     CfStates, Statuses
<1>. QED BY <1>1, TypeStep, PTL DEF Spec

-----------------------------------------------------------------------------
(* Removal of clusters *)

(* A step that creates nothing, and after which every remover either is    *)
(* where it was or is at a label before its first check or after its end.  *)
LEMMA ClearedFrame ==
  ASSUME Cleared, TypeOK, touched' = touched,
         \A o \in Orgs : /\ objs'[o] \cup terminating'[o] \subseteq objs[o] \cup terminating[o]
                         /\ pvs'[o] \subseteq pvs[o],
         \A p \in Removers : \/ pc'[p] = pc[p] /\ todo'[p] = todo[p]
                             \/ pc'[p] \notin Passed("service")
  PROVE  Cleared'
<1>. SUFFICES ASSUME NEW p \in Removers, p \notin touched'
              PROVE  /\ \A b \in objs'[ProcOrg(p)] \cup terminating'[ProcOrg(p)] :
                          pc'[p] \in Passed(b.kind) =>
                          b.kind = "pvc" /\ (pc'[p] = "rcPurgeErr" \/ (pc'[p] = "rcPurge" /\ b \in todo'[p]))
                     /\ pc'[p] = "rcDelete" => pvs'[ProcOrg(p)] = {}
  BY DEF Cleared, InCluster
<1>. ProcOrg(p) \in Orgs
  BY RemoverType, ProcOrgType
<1>1. CASE pc'[p] = pc[p] /\ todo'[p] = todo[p]
  BY <1>1 DEF Cleared, InCluster
<1>2. CASE pc'[p] \notin Passed("service")
  BY <1>2 DEF Passed
<1>. QED BY <1>1, <1>2

(* What provisioning requests, polls and the environment leave alone. *)
LEMMA Disjoint ==
  /\ \A p \in Puts : \A r \in Removers : p # r
  /\ \A i \in Instances : \A r \in Removers : i # r
BY ProcessesDistinct DEF Requests, Removers

LEMMA ClearedPut ==
  ASSUME TypeOK, Cleared, NEW p \in Puts,
         PutMalformed(p) \/ PutStart(p) \/ PutStep(p) \/ PutRespond(p)
  PROVE  Cleared'
<1>. p \in Procs /\ ProcOrg(p) \in Orgs
  BY PutType, ProcOrgType
<1>1. CASE FabricateService(p)
  <2>1. PICK b \in todo[p] : Store(ProcOrg(p), b) \/ UNCHANGED <<objs, touched>>
    BY <1>1 DEF FabricateService
  <2>2. /\ pvs' = pvs /\ terminating' = terminating
        /\ \A r \in Removers : pc'[r] = pc[r] /\ todo'[r] = todo[r]
    BY <1>1, Disjoint, RemoverType DEF FabricateService, Goto, TypeOK
  <2>3. CASE UNCHANGED <<objs, touched>>
    BY <2>2, <2>3, ClearedFrame
  <2>4. CASE Store(ProcOrg(p), b)
    <3>. SUFFICES ASSUME NEW r \in Removers, r \notin touched'
                  PROVE  /\ \A c \in objs'[ProcOrg(r)] \cup terminating'[ProcOrg(r)] :
                              pc'[r] \in Passed(c.kind) =>
                              c.kind = "pvc" /\ (pc'[r] = "rcPurgeErr" \/ (pc'[r] = "rcPurge" /\ c \in todo'[r]))
                         /\ pc'[r] = "rcDelete" => pvs'[ProcOrg(r)] = {}
      BY DEF Cleared, InCluster
    <3>. ProcOrg(r) \in Orgs
      BY RemoverType, ProcOrgType
    <3>1. r \notin touched /\ (ProcOrg(r) = ProcOrg(p) => pc[r] \notin Passed(b.kind))
      BY <2>4 DEF Store
    <3>2. \A c \in objs'[ProcOrg(r)] : c \in objs[ProcOrg(r)] \/ (c = b /\ ProcOrg(r) = ProcOrg(p))
      BY <2>4 DEF Store, TypeOK
    <3>. QED BY <2>2, <3>1, <3>2 DEF Cleared, InCluster
  <2>. QED BY <2>1, <2>3, <2>4
<1>2. CASE ~FabricateService(p)
  <2>1. UNCHANGED <<objs, terminating, pvs, touched>>
    BY <1>2 DEF PutMalformed, PutStart, PutStep, PutRespond, PutLookup, PutParse, PutFail, PutOk,
       GetOrCreateCluster, IsApiWorking, CheckQuota, PostCluster, CreateSecretForPrivateTapRepo,
       FabricateStart, kubeVars
  <2>2. \A r \in Removers : pc'[r] = pc[r]
    BY <1>2, Disjoint, RemoverType DEF PutMalformed, PutStart, PutStep, PutRespond, PutLookup,
       PutParse, PutFail, PutOk, GetOrCreateCluster, IsApiWorking, CheckQuota, PostCluster,
       CreateSecretForPrivateTapRepo, FabricateStart, Goto, TypeOK
  <2>3. \A r \in Removers : todo'[r] = todo[r]
    BY <1>2, Disjoint, RemoverType DEF PutMalformed, PutStart, PutStep, PutRespond, PutLookup,
       PutParse, PutFail, PutOk, GetOrCreateCluster, IsApiWorking, CheckQuota, PostCluster,
       CreateSecretForPrivateTapRepo, FabricateStart, kubeVars, TypeOK
  <2>. QED BY <2>1, <2>2, <2>3, ClearedFrame
<1>. QED BY <1>1, <1>2

LEMMA ClearedPoll ==
  ASSUME TypeOK, Cleared, NEW i \in Instances,
         CfTimeout(i) \/ GetLastOperation(i) \/ CheckHealth(i)
  PROVE  Cleared'
<1>1. UNCHANGED <<objs, terminating, pvs, touched, todo>>
  BY DEF CfTimeout, GetLastOperation, CheckHealth, kubeVars
<1>2. \A r \in Removers : pc'[r] = pc[r]
  BY Disjoint, RemoverType DEF CfTimeout, GetLastOperation, CheckHealth, Goto, TypeOK
<1>. QED BY <1>1, <1>2, ClearedFrame

LEMMA ClearedDel ==
  ASSUME TypeOK, Cleared, NEW p \in Dels, DelStart(p) \/ DelStep(p)
  PROVE  Cleared'
<1>. p \in Procs /\ ProcOrg(p) \in Orgs
  BY DelType, ProcOrgType
<1>1. touched' = touched /\ pvs' = pvs
  BY DEF DelStart, DelStep, DelLookup, DelGetCluster, DelObjects, ListByServiceId, DeleteByName,
     DeleteCallFails, DelDone, kubeVars
<1>2. \A o \in Orgs : objs'[o] \cup terminating'[o] \subseteq objs[o] \cup terminating[o]
  <2>1. CASE DeleteByName(p)
    BY <2>1, DiscardEffect DEF DeleteByName
  <2>2. CASE DeleteCallFails(p)
    <3>1. UNCHANGED <<objs, terminating>> \/ \E b : Discard(ProcOrg(p), b)
      BY <2>2 DEF DeleteCallFails
    <3>. QED BY <3>1, DiscardEffect
  <2>3. CASE UNCHANGED <<objs, terminating>>
    BY <2>3
  <2>. QED BY <2>1, <2>2, <2>3 DEF DelStart, DelStep, DelLookup, DelGetCluster, DelObjects,
           ListByServiceId, DelDone, kubeVars
<1>3. \A r \in Removers \ {p} : pc'[r] = pc[r] /\ todo'[r] = todo[r]
  BY RemoverType DEF DelStart, DelStep, DelLookup, DelGetCluster, DelObjects, ListByServiceId,
     DeleteByName, DeleteCallFails, DelDone, kubeVars, NextKind, Goto, TypeOK
<1>4. pc'[p] \notin Passed("service")
  <2>1. pc'[p] \in DelLabels \cup {"done", "rcServices"}
    BY DEF DelStart, DelStep, DelLookup, DelGetCluster, DelObjects, ListByServiceId, DeleteByName,
       DeleteCallFails, DelDone, NextKind, Goto, TypeOK, DelLabels
  <2>. QED BY <2>1 DEF Passed, DelLabels
<1>. QED BY <1>1, <1>2, <1>3, <1>4, ClearedFrame

LEMMA ClearedRemover ==
  ASSUME TypeOK, Cleared, NEW p \in Removers, RemoverStep(p)
  PROVE  Cleared'
<1>. p \in Procs /\ ProcOrg(p) \in Orgs
  BY RemoverType, ProcOrgType
<1>1. CASE RcServices(p)
  <2>1. UNCHANGED <<objs, terminating, pvs, todo, touched>> /\ pc[p] = "rcServices"
    BY <1>1 DEF RcServices, RemoverRead, kubeVars
  <2>2. CASE Goto(p, "rcStopped")
    BY <2>1, <2>2, RemoverType, ProcOrgType, ClearedFrame DEF Passed, Goto, TypeOK
  <2>3. CASE Goto(p, "rcDeployments") /\ OfKind(ProcOrg(p), "service") = {}
    BY <2>1, <2>3, RemoverType, ProcOrgType DEF OfKind, InCluster, Cleared, Passed, Goto, TypeOK
  <2>. QED BY <1>1, <2>2, <2>3 DEF RcServices, RemoverRead
<1>2. CASE RcDeployments(p)
  <2>1. UNCHANGED <<objs, terminating, pvs, todo, touched>> /\ pc[p] = "rcDeployments"
    BY <1>2 DEF RcDeployments, RemoverRead, kubeVars
  <2>2. CASE Goto(p, "rcStopped")
    BY <2>1, <2>2, RemoverType, ProcOrgType, ClearedFrame DEF Passed, Goto, TypeOK
  <2>3. CASE Goto(p, "rcPurgeList") /\ OfKind(ProcOrg(p), "deployment") = {}
    BY <2>1, <2>3, RemoverType, ProcOrgType DEF OfKind, InCluster, Cleared, Passed, Goto, TypeOK
  <2>. QED BY <1>2, <2>2, <2>3 DEF RcDeployments, RemoverRead
<1>3. CASE RcPurge(p)
  <2>1. CASE ListAllClaims(p)
    BY <2>1, RemoverType, ProcOrgType DEF ListAllClaims, OfKind, InCluster, Cleared, Passed, Goto, TypeOK
  <2>2. CASE DeleteClaim(p)
    <3>1. PICK b \in todo[p] :
            /\ todo' = [todo EXCEPT ![p] = @ \ {b}]
            /\ \/ objs' = [objs EXCEPT ![ProcOrg(p)] = @ \ {b}] /\ UNCHANGED pc
               \/ Goto(p, "rcPurgeErr") /\ objs' = [objs EXCEPT ![ProcOrg(p)] = @ \ {b}]
               \/ Goto(p, "rcPurgeErr") /\ UNCHANGED objs
      BY <2>2 DEF DeleteClaim
    <3>2. pc[p] \in {"rcPurge", "rcPurgeErr"} /\ UNCHANGED <<terminating, pvs, touched>>
      BY <2>2 DEF DeleteClaim
    <3>3. \A o \in Orgs : objs'[o] \subseteq objs[o]
      BY <3>1 DEF TypeOK
    <3>4. \A r \in Removers \ {p} : pc'[r] = pc[r] /\ todo'[r] = todo[r]
      BY <3>1, RemoverType DEF Goto, TypeOK
    <3>5. \A c \in objs'[ProcOrg(p)] \cup terminating'[ProcOrg(p)] : p \notin touched' /\ pc'[p] \in Passed(c.kind) =>
            c.kind = "pvc" /\ (pc'[p] = "rcPurgeErr" \/ (pc'[p] = "rcPurge" /\ c \in todo'[p]))
      <4>. SUFFICES ASSUME NEW c \in objs'[ProcOrg(p)] \cup terminating'[ProcOrg(p)],
                           p \notin touched', pc'[p] \in Passed(c.kind)
                    PROVE  c.kind = "pvc" /\ (pc'[p] = "rcPurgeErr" \/ (pc'[p] = "rcPurge" /\ c \in todo'[p]))
        OBVIOUS
      <4>1. pc'[p] = pc[p] \/ pc'[p] = "rcPurgeErr"
        BY <3>1 DEF Goto, TypeOK
      <4>2. pc[p] \in Passed(c.kind)
        BY <3>2, <4>1 DEF Passed
      <4>3. c \in InCluster(ProcOrg(p)) /\ p \notin touched
        BY <3>2, <3>3 DEF InCluster
      <4>4. c.kind = "pvc" /\ (pc[p] = "rcPurgeErr" \/ (pc[p] = "rcPurge" /\ c \in todo[p]))
        BY <4>2, <4>3 DEF Cleared
      <4>5. CASE pc'[p] = "rcPurgeErr" BY <4>4, <4>5
      <4>6. CASE pc'[p] = pc[p] /\ pc'[p] # "rcPurgeErr"
        <5>1. objs'[ProcOrg(p)] = objs[ProcOrg(p)] \ {b} /\ todo'[p] = todo[p] \ {b}
          BY <3>1, <3>2, <4>6 DEF Goto, TypeOK
        <5>2. c \in objs'[ProcOrg(p)]
          BY <3>2, <4>4 DEF TypeOK, Terminable, Foreground
        <5>. QED BY <3>2, <4>4, <4>6, <5>1, <5>2
      <4>. QED BY <4>1, <4>5, <4>6
    <3>6. pc'[p] # "rcDelete"
      BY <3>1, <3>2 DEF Goto, TypeOK
    <3>. QED BY <3>2, <3>3, <3>4, <3>5, <3>6, RemoverType, ProcOrgType DEF Cleared, InCluster
  <2>3. CASE ClaimsDeleted(p)
    BY <2>3, RemoverType, ProcOrgType DEF ClaimsDeleted, Cleared, InCluster, Passed, kubeVars, Goto, TypeOK
  <2>4. CASE pc[p] = "rcPurgeList" /\ Goto(p, "rcStopped") /\ UNCHANGED kubeVars
    BY <2>4, RemoverType, ProcOrgType, ClearedFrame DEF Passed, kubeVars, Goto, TypeOK
  <2>. QED BY <1>3, <2>1, <2>2, <2>3, <2>4 DEF RcPurge
<1>4. CASE RcVolumes(p)
  <2>1. UNCHANGED <<objs, terminating, pvs, todo>> /\ pc[p] = "rcVolumes"
    BY <1>4 DEF RcVolumes
  <2>2. CASE Goto(p, "rcStopped") /\ UNCHANGED touched
    BY <2>1, <2>2, RemoverType, ProcOrgType, ClearedFrame DEF Passed, Goto, TypeOK
  <2>3. CASE Goto(p, "rcServices") /\ touched' = touched \ {p}
    BY <2>1, <2>3, RemoverType, ProcOrgType DEF InCluster, Cleared, Passed, Goto, TypeOK
  <2>4. CASE Goto(p, "rcDelete") /\ pvs[ProcOrg(p)] = {} /\ UNCHANGED touched
    BY <2>1, <2>4, RemoverType, ProcOrgType DEF InCluster, Cleared, Passed, Goto, TypeOK
  <2>. QED BY <1>4, <2>2, <2>3, <2>4 DEF RcVolumes
<1>5. CASE RcDelete(p)
  BY <1>5, RemoverType, ProcOrgType, ClearedFrame DEF RcDelete, Unregister, Passed, Goto, TypeOK
<1>. QED BY <1>1, <1>2, <1>3, <1>4, <1>5 DEF RemoverStep

LEMMA ClearedEnv ==
  ASSUME TypeOK, Cleared, EnvStep \/ Restart
  PROVE  Cleared'
<1>1. ASSUME NEW o \in Orgs, BindVolume(o)
      PROVE  Cleared'
  BY <1>1, RemoverType, ProcOrgType DEF BindVolume, OfKind, InCluster, Cleared, Passed, TypeOK
<1>2. ASSUME NEW o \in Orgs, ReclaimVolume(o)
      PROVE  Cleared'
  BY <1>2, RemoverType, ProcOrgType, ClearedFrame DEF ReclaimVolume, TypeOK
<1>3. ASSUME NEW o \in Orgs, GarbageCollect(o)
      PROVE  Cleared'
  BY <1>3, RemoverType, ProcOrgType, ClearedFrame DEF GarbageCollect, TypeOK
<1>4. CASE Restart
  BY <1>4, RemoverType, ProcessesDistinct DEF Restart, Cleared, Passed, FinalLabels, Removers, Requests
<1>5. CASE UNCHANGED <<pc, kubeVars>>
  BY <1>5 DEF Cleared, InCluster, kubeVars
<1>. QED BY <1>1, <1>2, <1>3, <1>4, <1>5 DEF EnvStep, ClusterReady

LEMMA ClearedInvariant == Spec => []Cleared
<1>1. Init => Cleared
  BY RemoverType DEF Init, KubeInit, Cleared, Passed
<1>2. TypeOK /\ Cleared /\ [Next]_vars => Cleared'
  <2>. SUFFICES ASSUME TypeOK, Cleared, [Next]_vars PROVE Cleared'
    OBVIOUS
  <2>1. CASE UNCHANGED vars
    BY <2>1 DEF Cleared, InCluster, vars, kubeVars
  <2>2. CASE Next
    BY <2>2, ClearedPut, ClearedPoll, ClearedDel, ClearedRemover, ClearedEnv DEF Next
  <2>. QED BY <2>1, <2>2
<1>. QED BY <1>1, <1>2, TypeCorrect, PTL DEF Spec

(* A cluster is only removed when the broker has found it unused: no       *)
(* service, deployment, claim or volume is in it that was there when the   *)
(* remover looked.                                                         *)
THEOREM RemovalIsJustified == Spec => []RemovalJustified
<1>1. Cleared => RemovalJustified
  BY DEF Cleared, RemovalJustified, Passed
<1>. QED BY <1>1, ClearedInvariant, PTL

-----------------------------------------------------------------------------
(* Isolation of tenants *)

(* Steps that are not of a deletion or a remover leave the lists alone.    *)
LEMMA ListsUntouched ==
  ASSUME TypeOK,
         \/ \E p \in Puts : PutMalformed(p) \/ PutStart(p) \/ PutStep(p) \/ PutRespond(p)
         \/ \E i \in Instances : CfTimeout(i) \/ GetLastOperation(i) \/ CheckHealth(i)
         \/ EnvStep
  PROVE  \A r \in Removers : pc'[r] = pc[r] /\ todo'[r] = todo[r]
<1>1. ASSUME NEW p \in Puts, PutMalformed(p) \/ PutStart(p) \/ PutStep(p) \/ PutRespond(p)
      PROVE  \A r \in Removers : pc'[r] = pc[r] /\ todo'[r] = todo[r]
  <2>. p \in Procs
    BY PutType
  <2>1. \A r \in Removers : pc'[r] = pc[r]
    BY <1>1, Disjoint, RemoverType DEF PutMalformed, PutStart, PutStep, PutRespond, PutLookup,
       PutParse, PutFail, PutOk, GetOrCreateCluster, IsApiWorking, CheckQuota, PostCluster,
       CreateSecretForPrivateTapRepo, FabricateStart, FabricateService, Goto, TypeOK
  <2>2. \A r \in Removers : todo'[r] = todo[r]
    BY <1>1, Disjoint, RemoverType DEF PutMalformed, PutStart, PutStep, PutRespond, PutLookup,
       PutParse, PutFail, PutOk, GetOrCreateCluster, IsApiWorking, CheckQuota, PostCluster,
       CreateSecretForPrivateTapRepo, FabricateStart, FabricateService, kubeVars, TypeOK
  <2>. QED BY <2>1, <2>2
<1>2. ASSUME NEW i \in Instances, CfTimeout(i) \/ GetLastOperation(i) \/ CheckHealth(i)
      PROVE  \A r \in Removers : pc'[r] = pc[r] /\ todo'[r] = todo[r]
  BY <1>2, Disjoint, RemoverType
     DEF CfTimeout, GetLastOperation, CheckHealth, kubeVars, Goto, TypeOK
<1>3. CASE EnvStep
  BY <1>3 DEF EnvStep, ClusterReady, BindVolume, ReclaimVolume, GarbageCollect, Age, kubeVars
<1>. QED BY <1>1, <1>2, <1>3

LEMMA OwnListsDel ==
  ASSUME TypeOK, OwnLists, NEW p \in Dels, DelStart(p) \/ DelStep(p)
  PROVE  OwnLists'
<1>. p \in Procs /\ p \in Removers
  BY DelType DEF Removers
<1>1. \A r \in Removers \ {p} : pc'[r] = pc[r] /\ todo'[r] = todo[r]
  BY RemoverType DEF DelStart, DelStep, DelLookup, DelGetCluster, DelObjects, ListByServiceId,
     DeleteByName, DeleteCallFails, DelDone, kubeVars, NextKind, Goto, TypeOK
<1>2. pc'[p] \in DelLabels \cup {"done", "rcServices"}
  BY DEF DelStart, DelStep, DelLookup, DelGetCluster, DelObjects, ListByServiceId, DeleteByName,
     DeleteCallFails, DelDone, NextKind, Goto, TypeOK, DelLabels
<1>3. ASSUME pc'[p] = "delItem", NEW b \in todo'[p]
      PROVE  b.inst = InstOf[p]
  <2>1. CASE ListByServiceId(p)
    BY <1>3, <2>1 DEF ListByServiceId, FindByServiceId, TypeOK
  <2>2. CASE DeleteByName(p)
    BY <1>3, <2>2 DEF DeleteByName, OwnLists, TypeOK
  <2>3. CASE ~ListByServiceId(p) /\ ~DeleteByName(p)
    BY <1>3, <2>3 DEF DelStart, DelStep, DelLookup, DelGetCluster, DelObjects,
       DeleteCallFails, DelDone, Goto, TypeOK
  <2>. QED BY <2>1, <2>2, <2>3
<1>. QED BY <1>1, <1>2, <1>3 DEF OwnLists, DelLabels

LEMMA OwnListsRemover ==
  ASSUME TypeOK, OwnLists, NEW p \in Removers, RemoverStep(p)
  PROVE  OwnLists'
<1>. p \in Procs
  BY RemoverType
<1>1. \A r \in Removers \ {p} : pc'[r] = pc[r] /\ todo'[r] = todo[r]
  BY RemoverType DEF RemoverStep, RcServices, RcDeployments, RemoverRead, RcPurge, ListAllClaims,
     DeleteClaim, ClaimsDeleted, RcVolumes, RcDelete, kubeVars, Goto, TypeOK
<1>2. pc'[p] # "delItem"
  BY DEF RemoverStep, RcServices, RcDeployments, RemoverRead, RcPurge, ListAllClaims,
     DeleteClaim, ClaimsDeleted, RcVolumes, RcDelete, Goto, TypeOK
<1>3. ASSUME pc'[p] \in {"rcPurge", "rcPurgeErr"}, NEW b \in todo'[p]
      PROVE  b.kind = "pvc"
  <2>1. CASE ListAllClaims(p)
    BY <1>3, <2>1 DEF ListAllClaims, OfKind, TypeOK
  <2>2. CASE DeleteClaim(p)
    BY <1>3, <2>2 DEF DeleteClaim, OwnLists, TypeOK
  <2>3. CASE ~ListAllClaims(p) /\ ~DeleteClaim(p)
    BY <1>3, <2>3 DEF RemoverStep, RcServices, RcDeployments, RemoverRead, RcPurge, ClaimsDeleted,
       RcVolumes, RcDelete, Goto, TypeOK
  <2>. QED BY <2>1, <2>2, <2>3
<1>. QED BY <1>1, <1>2, <1>3 DEF OwnLists

LEMMA OwnListsInvariant == Spec => []OwnLists
<1>1. Init => OwnLists
  BY RemoverType DEF Init, KubeInit, OwnLists
<1>2. TypeOK /\ OwnLists /\ [Next]_vars => OwnLists'
  <2>. SUFFICES ASSUME TypeOK, OwnLists, [Next]_vars PROVE OwnLists'
    OBVIOUS
  <2>1. CASE UNCHANGED vars
    BY <2>1 DEF OwnLists, vars, kubeVars
  <2>2. CASE Restart
    BY <2>2, RemoverType DEF Restart, OwnLists
  <2>3. CASE \A r \in Removers : pc'[r] = pc[r] /\ todo'[r] = todo[r]
    BY <2>3 DEF OwnLists
  <2>. QED BY <2>1, <2>2, <2>3, ListsUntouched, OwnListsDel, OwnListsRemover DEF Next
<1>. QED BY <1>1, <1>2, TypeCorrect, PTL DEF Spec

(* No tenant loses an object by the deletion of another one's instance:    *)
(* objects disappear by a deletion of their own instance, with the         *)
(* cluster, or in a purge of claims while no service and no deployment is  *)
(* in the cluster but those created behind the remover's back.             *)
THEOREM TenantIsolation == Spec => Isolation
<1>1. TypeOK /\ OwnLists /\ Cleared /\ Next => OnlyOwnerDeletes
  <2>. SUFFICES ASSUME TypeOK, OwnLists, Cleared, Next,
                       NEW o \in Orgs, NEW b \in objs[o] \ objs'[o]
                PROVE  \/ \E p \in Dels : InstOf[p] = b.inst /\ pc[p] = "delItem" /\ b \in todo[p]
                       \/ /\ b.kind = "pvc"
                          /\ \E r \in Removers :
                               /\ ProcOrg(r) = o /\ pc[r] \in {"rcPurge", "rcPurgeErr"}
                               /\ b \in todo[r]
                               /\ r \in touched \/ NotInUse(o)
                       \/ cluster'[o] = "absent"
    BY DEF OnlyOwnerDeletes
  <2>1. ASSUME NEW p \in Puts, PutMalformed(p) \/ PutStart(p) \/ PutStep(p) \/ PutRespond(p)
        PROVE  FALSE
    <3>1. CASE FabricateService(p)
      BY <3>1 DEF FabricateService, Store, TypeOK
    <3>2. CASE ~FabricateService(p)
      BY <2>1, <3>2 DEF PutMalformed, PutStart, PutStep, PutRespond, PutLookup, PutParse, PutFail,
         PutOk, GetOrCreateCluster, IsApiWorking, CheckQuota, PostCluster,
         CreateSecretForPrivateTapRepo, FabricateStart, kubeVars
    <3>. QED BY <3>1, <3>2
  <2>2. ASSUME NEW i \in Instances, CfTimeout(i) \/ GetLastOperation(i) \/ CheckHealth(i)
        PROVE  FALSE
    BY <2>2 DEF CfTimeout, GetLastOperation, CheckHealth, kubeVars
  <2>3. ASSUME NEW p \in Dels, DelStart(p) \/ DelStep(p)
        PROVE  pc[p] = "delItem" /\ b \in todo[p]
    <3>. ProcOrg(p) \in Orgs
      BY DelType, ProcOrgType
    <3>1. ASSUME NEW c \in todo[p], Discard(ProcOrg(p), c)
          PROVE  b \in todo[p]
      BY <3>1, DiscardEffect
    <3>2. CASE DeleteByName(p)
      BY <3>1, <3>2 DEF DeleteByName
    <3>3. CASE DeleteCallFails(p)
      BY <3>1, <3>3 DEF DeleteCallFails
    <3>4. CASE ~DeleteByName(p) /\ ~DeleteCallFails(p)
      BY <2>3, <3>4 DEF DelStart, DelStep, DelLookup, DelGetCluster, DelObjects, ListByServiceId,
         DelDone, kubeVars
    <3>. QED BY <3>2, <3>3, <3>4
  <2>4. ASSUME NEW p \in Dels, DelStart(p) \/ DelStep(p)
        PROVE  InstOf[p] = b.inst /\ pc[p] = "delItem" /\ b \in todo[p]
    BY <2>3, <2>4 DEF OwnLists, Removers
  <2>5. ASSUME NEW p \in Removers, RemoverStep(p)
        PROVE  \/ /\ b \in todo[p] /\ pc[p] \in {"rcPurge", "rcPurgeErr"} /\ ProcOrg(p) = o
                  /\ p \in touched \/ NotInUse(o)
               \/ cluster'[o] = "absent"
    <3>. p \in Procs /\ ProcOrg(p) \in Orgs
      BY RemoverType, ProcOrgType
    <3>1. CASE DeleteClaim(p)
      <4>1. b \in todo[p] /\ pc[p] \in {"rcPurge", "rcPurgeErr"} /\ ProcOrg(p) = o
        BY <3>1 DEF DeleteClaim, TypeOK
      <4>2. p \notin touched => NotInUse(o)
        BY <4>1 DEF Cleared, NotInUse, OfKind, Passed
      <4>. QED BY <4>1, <4>2
    <3>2. CASE RcDelete(p)
      BY <3>2 DEF RcDelete, Unregister, TypeOK
    <3>3. CASE ~DeleteClaim(p) /\ ~RcDelete(p)
      BY <2>5, <3>3 DEF RemoverStep, RcServices, RcDeployments, RemoverRead, RcPurge,
         ListAllClaims, ClaimsDeleted, RcVolumes, kubeVars
    <3>. QED BY <3>1, <3>2, <3>3
  <2>6. CASE EnvStep \/ Restart
    BY <2>6 DEF EnvStep, ClusterReady, BindVolume, ReclaimVolume, GarbageCollect, Restart, kubeVars
  <2>. QED BY <2>1, <2>2, <2>4, <2>5, <2>6 DEF Next, OwnLists
<1>. QED BY <1>1, TypeCorrect, OwnListsInvariant, ClearedInvariant, PTL DEF Spec, Isolation
=============================================================================
