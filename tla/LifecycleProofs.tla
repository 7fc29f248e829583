--------------------------- MODULE LifecycleProofs ---------------------------
(***************************************************************************)
(* The TAP broker implements InstanceLifecycle, for any number of          *)
(* organizations and instances, as long as nothing is created in a cluster *)
(* that a remover is taking down.                                          *)
(***************************************************************************)
EXTENDS ProvisionProofs, TapBrokerRefinement

(* The steps of a life, in the words of the broker's state. *)
LEMMA LifeSteps ==
  ASSUME NEW i \in Instances
  PROVE  /\ LifeOf(i)' = LifeOf(i) /\ ObjsOf(i)' = ObjsOf(i) => Lifecycle!LifeStep(i)
         /\ LifeOf(i) = "none" /\ LifeOf(i)' = "creating" /\ ObjsOf(i)' = ObjsOf(i)
              => Lifecycle!LifeStep(i)
         /\ LifeOf(i) = "creating" /\ LifeOf(i)' = "ready" /\ ObjsOf(i) = Blueprint[i]
              /\ ObjsOf(i)' = ObjsOf(i) => Lifecycle!LifeStep(i)
         /\ LifeOf(i) \in {"ready", "failed"} /\ LifeOf(i)' = "deleting" /\ ObjsOf(i)' = ObjsOf(i)
              => Lifecycle!LifeStep(i)
         /\ LifeOf(i) \in {"none", "creating"} /\ LifeOf(i)' = "failed" /\ ObjsOf(i)' = ObjsOf(i)
              => Lifecycle!LifeStep(i)
         /\ LifeOf(i) = "deleting" /\ LifeOf(i)' = "failed" /\ ObjsOf(i)' \subseteq ObjsOf(i)
              => Lifecycle!LifeStep(i)
         /\ LifeOf(i) \in {"creating", "failed", "deleting", "gone"} /\ LifeOf(i)' = LifeOf(i)
              /\ ObjsOf(i)' \subseteq ObjsOf(i) => Lifecycle!LifeStep(i)
         /\ LifeOf(i) = "deleting" /\ LifeOf(i)' = "deleted" /\ ObjsOf(i) = {}
              /\ ObjsOf(i)' = ObjsOf(i) => Lifecycle!LifeStep(i)
         /\ LifeOf(i) = "deleting" /\ LifeOf(i)' = "gone" /\ ObjsOf(i)' = ObjsOf(i)
              => Lifecycle!LifeStep(i)
BY DEF Lifecycle!LifeStep, Lifecycle!Becomes, Lifecycle!Keeps, Lifecycle!Request, Lifecycle!Finish,
   Lifecycle!Delete, Lifecycle!Fail, Lifecycle!Remove, Lifecycle!Deleted, Lifecycle!Gone

LEMMA LifeCreates ==
  ASSUME NEW i \in Instances, LifeOf(i) = "creating", LifeOf(i)' = "creating",
         NEW b \in Blueprint[i] \ ObjsOf(i), ObjsOf(i)' = ObjsOf(i) \cup {b}
  PROVE  Lifecycle!LifeStep(i)
BY DEF Lifecycle!LifeStep, Lifecycle!Create, Lifecycle!Becomes

(* The life of an instance changes with what Cloud Foundry is told. *)
LEMMA LifeStays ==
  ASSUME NEW i \in Instances, cf'[i] = cf[i],
         cf[i] # "deleted" \/ \A p \in Dels : InstOf[p] = i => resp'[p] = resp[p]
  PROVE  LifeOf(i)' = LifeOf(i)
BY DEF LifeOf

(* The objects of an instance are of its blueprint. *)
LEMMA OwnObjects ==
  ASSUME TypeOK, NEW i \in Instances
  PROVE  ObjsOf(i) \subseteq Blueprint[i]
<1>. SUFFICES ASSUME NEW b \in ObjsOf(i) PROVE b \in Blueprint[i]
  OBVIOUS
<1>1. b \in AllObjs /\ b.inst = i
  BY TenancyAssumption DEF ObjsOf, TypeOK
<1>2. PICK j \in Instances : b \in Blueprint[j]
  BY <1>1 DEF AllObjs
<1>. QED BY <1>1, <1>2, BlueprintAssumption

LEMMA WholeObjects ==
  ASSUME TypeOK, NEW i \in Instances, Whole(i)
  PROVE  ObjsOf(i) = Blueprint[i]
<1>1. Blueprint[i] \subseteq ObjsOf(i)
  BY BlueprintAssumption DEF Whole, ObjsOf
<1>. QED BY <1>1, OwnObjects

-----------------------------------------------------------------------------
(* Provisioning requests *)

(* What a step of a provisioning request does to Cloud Foundry's view of   *)
(* its instance and to its own answer.                                     *)
PutAnswers(p) ==
  /\ open'[p] => cf'[InstOf[p]] = "creating" /\ resp'[p] \in {"none", "500"}
  /\ open'[p] /\ pc'[p] = "done" /\ resp'[p] = "none" => state_map'[InstOf[p]] = "KUBERNETES_OK"
  /\ cf'[InstOf[p]] = "none" => cf[InstOf[p]] = "none"
  /\ Claimed(InstOf[p])' => Claimed(InstOf[p]) \/ PutOk(p)

LEMMA PutAnswered ==
  ASSUME TypeOK, OneFabrication, RequestsLive, NEW p \in Puts,
         PutMalformed(p) \/ PutStart(p) \/ PutStep(p) \/ PutRespond(p)
  PROVE  PutAnswers(p)
<1>. /\ p \in Procs /\ p \in Requests /\ InstOf[p] \in Instances /\ InstOf[p] \in Guids
     /\ InstOf[p] \in Procs /\ InstOf[p] # p /\ UnparsedGuid # InstOf[p] /\ UnparsedGuid \in Guids
  BY PutType, GuidType, GuidAssumption, ProcessesDistinct DEF Procs, Requests
<1>. DEFINE i == InstOf[p]
<1>. /\ pc[p] = "idle" => cf[i] = "none" /\ resp[p] = "none" /\ ~open[p]
     /\ open[p] /\ resp[p] # "none" => pc[p] = "done"
     /\ open[p] => cf[i] = "creating" /\ resp[p] \in {"none", "500"}
     /\ open[p] /\ pc[p] = "done" /\ resp[p] = "none" => state_map[i] = "KUBERNETES_OK"
  BY DEF OneFabrication, RequestsLive
<1>. HIDE DEF i
<1>. i \in Instances /\ i \in Guids /\ i \in Procs /\ i # p /\ UnparsedGuid # i
  BY DEF i
<1>0. (pc'[i] = pc[i]) /\ (InstOf[p] = i)
  BY PutLeavesOthers DEF i
<1>. USE DEF Goto, ReportProgress, stateVars, brokerVars
<1>1. CASE PutMalformed(p) BY <1>0, <1>1 DEF PutAnswers, Claimed, PutMalformed, MayPut, TypeOK
<1>2. CASE PutStart(p) BY <1>0, <1>2 DEF PutAnswers, Claimed, PutStart, MayPut, TypeOK
<1>3. CASE PutLookup(p)
  <2>1. CASE pc'[p] = "putParse" BY <1>0, <1>3, <2>1 DEF PutAnswers, Claimed, PutLookup, TypeOK
  <2>2. CASE pc'[p] = "done" BY <1>0, <1>3, <2>2 DEF PutAnswers, Claimed, PutLookup, CfAfterPut, TypeOK
  <2>. QED BY <1>3, <2>1, <2>2 DEF PutLookup, TypeOK
<1>4. CASE PutParse(p) BY <1>0, <1>4 DEF PutAnswers, Claimed, PutParse, TypeOK
<1>5. CASE PutFail(p) BY <1>0, <1>5 DEF PutAnswers, Claimed, PutFail, TypeOK
<1>6. CASE PutOk(p) BY <1>0, <1>6 DEF PutAnswers, PutOk, TypeOK
<1>7. CASE PutRespond(p)
  <2>1. cf'[i] = "ready" => cf[i] = "ready" \/ (state_map[i] = "KUBERNETES_OK" /\ cf[i] = "creating")
    BY <1>0, <1>7 DEF PutRespond, CfAfterPut, TypeOK
  <2>2. cf'[i] \in {"creating", "polling"} => cf[i] \in {"creating", "polling"}
    BY <1>0, <1>7 DEF PutRespond, CfAfterPut, TypeOK
  <2>3. state_map' = state_map /\ pc' = pc /\ ~open'[p] /\ (cf'[i] = "none" => cf[i] = "none")
    BY <1>0, <1>7 DEF PutRespond, CfAfterPut, TypeOK
  <2>. QED BY <1>0, <2>1, <2>2, <2>3 DEF PutAnswers, Claimed
<1>8. CASE /\ UNCHANGED <<stateVars, kubeVars, brokerVars>>
           /\ GetOrCreateCluster(p) \/ IsApiWorking(p) \/ CheckQuota(p) \/ PostCluster(p)
                \/ CreateSecretForPrivateTapRepo(p)
  BY <1>0, <1>8 DEF PutAnswers, Claimed, GetOrCreateCluster, IsApiWorking, CheckQuota, PostCluster,
     CreateSecretForPrivateTapRepo, TypeOK
<1>9. CASE FabricateStart(p) /\ UNCHANGED brokerVars
  BY <1>0, <1>9 DEF PutAnswers, Claimed, FabricateStart, TypeOK
<1>10. CASE FabricateService(p) /\ UNCHANGED brokerVars
  BY <1>0, <1>10 DEF PutAnswers, Claimed, FabricateService, TypeOK
<1>. QED BY <1>1, <1>2, <1>3, <1>4, <1>5, <1>6, <1>7, <1>8, <1>9, <1>10 DEF PutStep

(* What is no longer on the list of a fabrication exists. *)
LEMMA PutMade ==
  ASSUME TypeOK, RequestsLive, NEW p \in Puts, pc'[p] = "fab",
         PutMalformed(p) \/ PutStart(p) \/ PutStep(p) \/ PutRespond(p)
  PROVE  Blueprint[InstOf[p]] \ todo'[p] \subseteq objs'[ProcOrg(p)]
<1>. p \in Procs /\ ProcOrg(p) \in Orgs
  BY PutType, ProcOrgType
<1>1. CASE FabricateStart(p)
  BY <1>1 DEF FabricateStart, TypeOK, Goto
<1>2. CASE FabricateService(p)
  BY <1>2 DEF FabricateService, Store, InCluster, RequestsLive, TypeOK, Goto
<1>3. CASE ~FabricateStart(p) /\ ~FabricateService(p)
  <2>1. pc[p] = "fab" /\ PutRespond(p)
    BY <1>3 DEF PutMalformed, PutStart, PutStep, PutLookup, PutParse, PutFail, PutOk,
       GetOrCreateCluster, IsApiWorking, CheckQuota, PostCluster,
       CreateSecretForPrivateTapRepo, PutRespond, Goto, TypeOK
  <2>. QED BY <2>1 DEF PutRespond, kubeVars, RequestsLive
<1>. QED BY <1>1, <1>2, <1>3

(* No object of an instance comes but by a request that fabricates it. *)
LEMMA PutCreatesOwn ==
  ASSUME TypeOK, Swept, NEW p \in Puts, NEW i \in Instances,
         PutMalformed(p) \/ PutStart(p) \/ PutStep(p) \/ PutRespond(p)
  PROVE  \/ ObjsOf(i)' = ObjsOf(i)
         \/ /\ i = InstOf[p] /\ FabricateService(p) /\ pc[p] \in Fabricating
            /\ \E b \in Blueprint[i] \ ObjsOf(i) : ObjsOf(i)' = ObjsOf(i) \cup {b}
<1>. InstOf[p] \in Instances /\ ProcOrg(p) \in Orgs /\ OrgOf[i] \in Orgs
  BY PutType, ProcOrgType, TenancyAssumption
<1>1. CASE objs' = objs
  BY <1>1 DEF ObjsOf
<1>2. ASSUME FabricateService(p), NEW b \in todo[p], b \notin objs[ProcOrg(p)],
             objs' = [objs EXCEPT ![ProcOrg(p)] = @ \cup {b}]
      PROVE  \/ ObjsOf(i)' = ObjsOf(i)
             \/ /\ i = InstOf[p] /\ FabricateService(p) /\ pc[p] \in Fabricating
                /\ \E c \in Blueprint[i] \ ObjsOf(i) : ObjsOf(i)' = ObjsOf(i) \cup {c}
  <2>1. b \in Blueprint[InstOf[p]] /\ b.inst = InstOf[p]
    BY BlueprintAssumption DEF Swept
  <2>2. CASE i # InstOf[p]
    <3>1. \A c : c \in objs'[OrgOf[i]] <=> c \in objs[OrgOf[i]] \/ (c = b /\ OrgOf[i] = ProcOrg(p))
      BY <1>2 DEF TypeOK
    <3>. QED BY <2>1, <2>2, <3>1 DEF ObjsOf
  <2>3. CASE i = InstOf[p]
    <3>1. objs'[OrgOf[i]] = objs[OrgOf[i]] \cup {b} /\ b \notin ObjsOf(i)
      BY <1>2, <2>3, PutOrg DEF TypeOK, ObjsOf
    <3>2. ObjsOf(i)' = ObjsOf(i) \cup {b}
      BY <2>1, <2>3, <3>1 DEF ObjsOf
    <3>3. pc[p] \in Fabricating
      BY <1>2 DEF FabricateService, Fabricating, PutLabels
    <3>. QED BY <1>2, <2>1, <2>3, <3>1, <3>2, <3>3
  <2>. QED BY <2>2, <2>3
<1>. QED BY <1>1, <1>2, PutCreates

LEMMA LifePut ==
  ASSUME TypeOK, OneFabrication, Swept, LifeInv, OnePut, NoOverlap, NEW p \in Puts,
         PutMalformed(p) \/ PutStart(p) \/ PutStep(p) \/ PutRespond(p)
  PROVE  LifeInv'
<1>. /\ p \in Procs /\ p \in Requests /\ InstOf[p] \in Instances
     /\ ProcOrg(p) \in Orgs /\ ProcOrg(p) = OrgOf[InstOf[p]]
  BY PutType, ProcOrgType, PutOrg
<1>. RequestsLive /\ DeletionsLive /\ ClaimsHold
  BY DEF LifeInv
<1>1. /\ \A q \in Puts \ {p} : InstOf[q] # InstOf[p] /\ open'[q] = open[q]
      /\ \A q \in Requests \ {p} : resp'[q] = resp[q]
      /\ \A q \in Procs \ {p} : pc'[q] = pc[q] /\ todo'[q] = todo[q]
      /\ \A i \in Instances \ {InstOf[p]} : cf'[i] = cf[i] /\ state_map'[i] = state_map[i]
  BY PutFrame, PutLeavesOthers
<1>2. PutAnswers(p) /\ OwnStep(p)
  BY PutAnswered, PutOwnStep
<1>3. \A r \in Removers : pc'[r] = pc[r]
  BY <1>1, Disjoint, RemoverType
<1>4. \A i \in Instances : Whole(i) => Whole(i)'
  BY PutGrows, TenancyAssumption DEF Whole
<1>5. RequestsLive'
  <2>. SUFFICES ASSUME NEW q \in Puts
                PROVE  /\ pc'[q] = "fab" => Blueprint[InstOf[q]] \ todo'[q] \subseteq objs'[ProcOrg(q)]
                       /\ open'[q] => cf'[InstOf[q]] = "creating" /\ resp'[q] \in {"none", "500"}
                       /\ open'[q] /\ pc'[q] = "done" /\ resp'[q] = "none" =>
                            state_map'[InstOf[q]] = "KUBERNETES_OK"
    BY DEF RequestsLive
  <2>1. CASE q = p
    <3>1. pc'[p] = "fab" => Blueprint[InstOf[p]] \ todo'[p] \subseteq objs'[ProcOrg(p)]
      BY PutMade
    <3>. QED BY <1>2, <2>1, <3>1 DEF PutAnswers
  <2>2. CASE q # p
    <3>1. /\ q \in Procs /\ q \in Requests /\ InstOf[q] \in Instances /\ ProcOrg(q) \in Orgs
          /\ InstOf[q] # InstOf[p]
      BY <1>1, <2>2, PutType, ProcOrgType
    <3>2. /\ pc'[q] = pc[q] /\ todo'[q] = todo[q] /\ open'[q] = open[q] /\ resp'[q] = resp[q]
          /\ cf'[InstOf[q]] = cf[InstOf[q]] /\ state_map'[InstOf[q]] = state_map[InstOf[q]]
      BY <1>1, <2>2, <3>1
    <3>3. objs[ProcOrg(q)] \subseteq objs'[ProcOrg(q)]
      BY <3>1, PutGrows
    <3>. QED BY <3>2, <3>3 DEF RequestsLive
  <2>. QED BY <2>1, <2>2
<1>6. DeletionsLive'
  <2>1. \A d \in Dels : /\ d # p /\ d \in Procs /\ d \in Requests /\ InstOf[d] \in Instances
                        /\ pc'[d] = pc[d] /\ resp'[d] = resp[d]
    BY <1>1, DelType, ProcessesDistinct
  <2>2. \A d \in Dels : cf[InstOf[d]] \in {"deleting", "deleted"} => cf'[InstOf[d]] = cf[InstOf[d]]
    BY <1>1, <1>2, <2>1 DEF OwnStep, Settled
  <2>. QED BY <2>1, <2>2 DEF DeletionsLive
<1>7. ClaimsHold'
  <2>. SUFFICES ASSUME NEW i \in Instances, Claimed(i)'
                PROVE  /\ Whole(i)'
                       /\ \A r \in Removers : ProcOrg(r) = OrgOf[i] =>
                            /\ pc'[r] \notin Passed("deployment")
                            /\ pc'[r] = "rcDeployments" => \A b \in Blueprint[i] : b.kind # "service"
    BY DEF ClaimsHold
  <2>1. CASE Claimed(i)
    BY <1>3, <1>4, <2>1 DEF ClaimsHold
  <2>2. CASE ~Claimed(i)
    <3>1. i = InstOf[p] /\ PutOk(p)
      <4>1. i \in Procs \ {p}
        BY ProcessesDistinct DEF Procs, Requests
      <4>2. CASE i # InstOf[p]
        BY <1>1, <2>2, <4>1, <4>2 DEF Claimed
      <4>3. CASE i = InstOf[p]
        BY <1>2, <2>2, <4>3 DEF PutAnswers
      <4>. QED BY <4>2, <4>3
    <3>2. Whole(i)
      BY <3>1 DEF PutOk, RequestsLive, Whole
    <3>3. \A r \in Removers : ProcOrg(r) = OrgOf[i] => pc[r] \notin Passed("service")
      BY <3>1 DEF PutOk, NoOverlap
    <3>. QED BY <1>3, <1>4, <3>2, <3>3 DEF Passed
  <2>. QED BY <2>1, <2>2
<1>8. ASSUME NEW i \in Instances, cf'[i] = "none"
      PROVE  ObjsOf(i)' = {}
  <2>1. cf[i] = "none"
    BY <1>1, <1>2, <1>8 DEF PutAnswers
  <2>2. i = InstOf[p] => pc[p] \notin Fabricating
    BY <2>1 DEF OneFabrication
  <2>. QED BY <2>1, <2>2, PutCreatesOwn DEF LifeInv
<1>. QED BY <1>5, <1>6, <1>7, <1>8 DEF LifeInv

-----------------------------------------------------------------------------
(* Polls *)

LEMMA PollSays ==
  ASSUME TypeOK, OneFabrication, Fault("slow") = FALSE, NEW i \in Instances,
         CfTimeout(i) \/ GetLastOperation(i) \/ CheckHealth(i)
  PROVE  /\ UNCHANGED <<state_map, open, resp, cluster, objs, todo>>
         /\ \A q \in Procs \ {i} : pc'[q] = pc[q]
         /\ \A j \in Instances \ {i} : cf'[j] = cf[j]
         /\ cf[i] = "polling" /\ cf'[i] \in {"polling", "ready", "failed"}
         /\ Claimed(i)' => Claimed(i)
<1>. i \in Procs /\ i \in Guids
  BY GuidType DEF Procs
<1>1. UNCHANGED <<state_map, open, resp, cluster, objs, todo>> /\ ~CfTimeout(i)
  BY DEF CfTimeout, GetLastOperation, CheckHealth, stateVars, clusterVars, kubeVars
<1>2. CASE GetLastOperation(i)
  BY <1>1, <1>2 DEF GetLastOperation, ReadProgress, Claimed, Goto, TypeOK
<1>3. CASE CheckHealth(i)
  BY <1>1, <1>3 DEF CheckHealth, OneFabrication, Claimed, Goto, TypeOK
<1>. QED BY <1>1, <1>2, <1>3

LEMMA LifePoll ==
  ASSUME TypeOK, OneFabrication, LifeInv, Fault("slow") = FALSE, NEW i \in Instances,
         CfTimeout(i) \/ GetLastOperation(i) \/ CheckHealth(i)
  PROVE  LifeInv'
<1>1. /\ UNCHANGED <<state_map, open, resp, cluster, objs, todo>>
      /\ \A q \in Procs \ {i} : pc'[q] = pc[q]
      /\ \A j \in Instances \ {i} : cf'[j] = cf[j]
      /\ cf[i] = "polling" /\ cf'[i] \in {"polling", "ready", "failed"}
      /\ Claimed(i)' => Claimed(i)
  BY PollSays
<1>2. \A r \in Removers : pc'[r] = pc[r]
  BY <1>1, Disjoint, RemoverType
<1>3. RequestsLive'
  <2>1. \A p \in Puts : p \in Procs /\ p # i /\ InstOf[p] \in Instances
    BY PutType, ProcessesDistinct DEF Requests
  <2>2. \A p \in Puts : pc'[p] = pc[p] /\ (open[p] => cf'[InstOf[p]] = cf[InstOf[p]])
    BY <1>1, <2>1 DEF LifeInv, RequestsLive
  <2>. QED BY <1>1, <2>2 DEF LifeInv, RequestsLive
<1>4. DeletionsLive'
  <2>1. \A d \in Dels : d \in Procs /\ d # i /\ InstOf[d] \in Instances
    BY DelType, ProcessesDistinct DEF Requests
  <2>2. \A d \in Dels : pc'[d] = pc[d] /\ (InstOf[d] # i => cf'[InstOf[d]] = cf[InstOf[d]])
    BY <1>1, <2>1
  <2>. QED BY <1>1, <2>2 DEF LifeInv, DeletionsLive
<1>5. \A j \in Instances : Claimed(j)' => Claimed(j)
  <2>. SUFFICES ASSUME NEW j \in Instances \ {i}, Claimed(j)' PROVE Claimed(j)
    BY <1>1
  <2>1. j \in Procs \ {i}
    BY DEF Procs
  <2>. QED BY <1>1, <2>1 DEF Claimed
<1>6. ClaimsHold'
  BY <1>1, <1>2, <1>5 DEF LifeInv, ClaimsHold, Whole
<1>7. \A j \in Instances : cf'[j] = "none" => ObjsOf(j)' = {}
  BY <1>1 DEF LifeInv, ObjsOf
<1>. QED BY <1>3, <1>4, <1>6, <1>7 DEF LifeInv

-----------------------------------------------------------------------------
(* Deletions *)

(* The steps of a deletion, as Cloud Foundry sees them. *)
DelSays(d) ==
  LET i == InstOf[d] IN
  \/ /\ pc[d] = "idle" /\ pc'[d] \in DelLabels
     /\ cf[i] \in {"ready", "failed"} /\ cf'[i] = "deleting" /\ UNCHANGED <<resp, objs>>
  \/ /\ pc[d] \in DelLabels /\ pc'[d] \in DelLabels
     /\ cf'[i] = cf[i] /\ UNCHANGED resp
  \/ /\ pc[d] \in DelLabels /\ pc'[d] = "done"
     /\ cf'[i] = "failed" /\ resp'[d] = "500"
  \/ /\ pc[d] \in DelLabels /\ pc'[d] = "done"
     /\ cf'[i] = "deleted" /\ resp'[d] = "410" /\ UNCHANGED objs
  \/ /\ pc[d] = "delDone" /\ pc'[d] = "rcServices"
     /\ cf'[i] = "deleted" /\ resp'[d] = "200" /\ UNCHANGED objs

LEMMA DelSteps ==
  ASSUME TypeOK, NEW d \in Dels, DelStart(d) \/ DelStep(d)
  PROVE  DelSays(d)
<1>. d \in Procs /\ d \in Requests /\ InstOf[d] \in Instances
  BY DelType
<1>. USE DEF Goto, DelLabels, DelAnswer, brokerVars, kubeVars
<1>1. CASE DelStart(d) BY <1>1 DEF DelStart, DelSays, TypeOK
<1>2. CASE DelLookup(d) BY <1>2 DEF DelLookup, DelSays, TypeOK
<1>3. CASE DelGetCluster(d)
  BY <1>3 DEF DelGetCluster, DelSays, TypeOK
<1>4. CASE ListByServiceId(d) /\ UNCHANGED brokerVars
  BY <1>4 DEF ListByServiceId, NextKind, DelSays, TypeOK
<1>5. CASE DeleteByName(d) /\ UNCHANGED brokerVars
  BY <1>5 DEF DeleteByName, Discard, NextKind, DelSays, TypeOK
<1>6. CASE DeleteCallFails(d) /\ DelAnswer(d, "500")
  BY <1>6 DEF DeleteCallFails, Discard, DelSays, TypeOK
<1>7. CASE DelDone(d) BY <1>7 DEF DelDone, DelSays, TypeOK
<1>. QED BY <1>1, <1>2, <1>3, <1>4, <1>5, <1>6, <1>7 DEF DelStep, DelObjects

(* A deletion leaves everything else alone. *)
LEMMA DelLeavesOthers ==
  ASSUME TypeOK, NEW d \in Dels, DelStart(d) \/ DelStep(d)
  PROVE  /\ UNCHANGED <<state_map, open, cluster>>
         /\ \A q \in Procs \ {d} : pc'[q] = pc[q] /\ todo'[q] = todo[q]
         /\ \A q \in Requests \ {d} : resp'[q] = resp[q]
         /\ \A j \in Instances \ {InstOf[d]} : cf'[j] = cf[j]
         /\ \A o \in Orgs : objs'[o] \subseteq objs[o]
         /\ \A o \in Orgs \ {ProcOrg(d)} : objs'[o] = objs[o]
<1>. d \in Procs /\ d \in Requests /\ InstOf[d] \in Instances /\ ProcOrg(d) \in Orgs
  BY DelType, ProcOrgType
<1>1. UNCHANGED <<state_map, open, cluster>>
  BY DEF DelStart, DelStep, DelLookup, DelGetCluster, DelObjects, ListByServiceId, DeleteByName,
     DeleteCallFails, DelDone, DelAnswer, stateVars, brokerVars, clusterVars
<1>2. \A q \in Procs \ {d} : pc'[q] = pc[q]
  BY DEF DelStart, DelStep, DelLookup, DelGetCluster, DelObjects, ListByServiceId, DeleteByName,
     DeleteCallFails, DelDone, NextKind, Goto, TypeOK
<1>3. \A q \in Procs \ {d} : todo'[q] = todo[q]
  BY DEF DelStart, DelStep, DelLookup, DelGetCluster, DelObjects, ListByServiceId, DeleteByName,
     DeleteCallFails, DelDone, kubeVars, TypeOK
<1>4. /\ \A q \in Requests \ {d} : resp'[q] = resp[q]
      /\ \A j \in Instances \ {InstOf[d]} : cf'[j] = cf[j]
  BY DEF DelStart, DelStep, DelLookup, DelGetCluster, DelObjects, ListByServiceId, DeleteByName,
     DeleteCallFails, DelDone, DelAnswer, brokerVars, TypeOK
<1>5. objs' = objs \/ \E b : objs' = [objs EXCEPT ![ProcOrg(d)] = @ \ {b}]
  <2>1. CASE DeleteByName(d)
    BY <2>1 DEF DeleteByName, Discard
  <2>2. CASE DeleteCallFails(d)
    BY <2>2 DEF DeleteCallFails, Discard
  <2>3. CASE ~DeleteByName(d) /\ ~DeleteCallFails(d)
    BY <2>3 DEF DelStart, DelStep, DelLookup, DelGetCluster, DelObjects, ListByServiceId,
       DelDone, kubeVars
  <2>. QED BY <2>1, <2>2, <2>3
<1>6. /\ \A o \in Orgs : objs'[o] \subseteq objs[o]
      /\ \A o \in Orgs \ {ProcOrg(d)} : objs'[o] = objs[o]
  BY <1>5 DEF TypeOK
<1>. QED BY <1>1, <1>2, <1>3, <1>4, <1>6

(* A deletion removes objects of its own instance only. *)
LEMMA DelRemovesOwn ==
  ASSUME TypeOK, OwnLists, NEW d \in Dels, DelStart(d) \/ DelStep(d),
         NEW o \in Orgs, NEW b \in objs[o], b.inst # InstOf[d]
  PROVE  b \in objs'[o]
<1>. d \in Removers /\ ProcOrg(d) \in Orgs
  BY DelType, ProcOrgType DEF Removers
<1>1. \A c \in todo[d] : pc[d] = "delItem" => c # b
  BY DEF OwnLists
<1>2. CASE DeleteByName(d)
  BY <1>1, <1>2 DEF DeleteByName, Discard, TypeOK
<1>3. CASE DeleteCallFails(d)
  BY <1>1, <1>3 DEF DeleteCallFails, Discard, TypeOK
<1>4. CASE ~DeleteByName(d) /\ ~DeleteCallFails(d)
  BY <1>4 DEF DelStart, DelStep, DelLookup, DelGetCluster, DelObjects, ListByServiceId,
     DelDone, kubeVars
<1>. QED BY <1>2, <1>3, <1>4

LEMMA DelKeepsOthers ==
  ASSUME TypeOK, OwnLists, NEW d \in Dels, DelStart(d) \/ DelStep(d),
         NEW j \in Instances, j # InstOf[d]
  PROVE  /\ ObjsOf(j)' = ObjsOf(j)
         /\ \A b \in Blueprint[j] : b \in objs[OrgOf[j]] => b \in objs'[OrgOf[j]]
<1>. OrgOf[j] \in Orgs
  BY TenancyAssumption
<1>1. \A b \in objs[OrgOf[j]] : b.inst = j => b \in objs'[OrgOf[j]]
  BY DelRemovesOwn
<1>2. objs'[OrgOf[j]] \subseteq objs[OrgOf[j]]
  BY DelLeavesOthers
<1>. QED BY <1>1, <1>2, BlueprintAssumption DEF ObjsOf

LEMMA LifeDel ==
  ASSUME TypeOK, OneFabrication, OwnLists, LifeInv, NEW d \in Dels, DelStart(d) \/ DelStep(d)
  PROVE  LifeInv'
<1>. DEFINE i == InstOf[d]
<1>. /\ d \in Procs /\ d \in Requests /\ i \in Instances /\ d \in Removers
     /\ ProcOrg(d) \in Orgs /\ ProcOrg(d) = OrgOf[i]
  BY DelType, ProcOrgType, DelOrg DEF Removers
<1>. RequestsLive /\ DeletionsLive /\ ClaimsHold
  BY DEF LifeInv
<1>1. /\ UNCHANGED <<state_map, open, cluster>>
      /\ \A q \in Procs \ {d} : pc'[q] = pc[q] /\ todo'[q] = todo[q]
      /\ \A q \in Requests \ {d} : resp'[q] = resp[q]
      /\ \A j \in Instances \ {i} : cf'[j] = cf[j]
      /\ \A o \in Orgs : objs'[o] \subseteq objs[o]
      /\ \A o \in Orgs \ {ProcOrg(d)} : objs'[o] = objs[o]
  BY DelLeavesOthers
<1>2. DelSays(d)
  BY DelSteps
<1>3. /\ cf[i] \in {"ready", "failed", "deleting"} /\ cf'[i] \in {"failed", "deleting", "deleted"}
      /\ pc[d] \in DelLabels \/ cf[i] # "deleting"
      /\ pc'[d] \in DelLabels => cf'[i] = "deleting"
      /\ resp'[d] = "200" => cf'[i] = "deleted"
  BY <1>2 DEF DelSays, DeletionsLive, DelLabels
<1>4. \A p \in Puts : /\ p \in Procs /\ p \in Requests /\ p # d /\ InstOf[p] \in Instances
                      /\ pc'[p] = pc[p] /\ todo'[p] = todo[p] /\ resp'[p] = resp[p]
                      /\ ProcOrg(p) = OrgOf[InstOf[p]]
  BY <1>1, PutType, PutOrg, ProcessesDistinct
<1>5. \A p \in Puts : InstOf[p] = i => ~open[p] /\ pc[p] # "fab"
  BY <1>3 DEF RequestsLive, OneFabrication, Fabricating, PutLabels
<1>6. \A j \in Instances \ {i} : \A b \in Blueprint[j] : b \in objs[OrgOf[j]] => b \in objs'[OrgOf[j]]
  BY DelKeepsOthers
<1>7. RequestsLive'
  <2>. SUFFICES ASSUME NEW p \in Puts
                PROVE  /\ pc'[p] = "fab" => Blueprint[InstOf[p]] \ todo'[p] \subseteq objs'[ProcOrg(p)]
                       /\ open'[p] => cf'[InstOf[p]] = "creating" /\ resp'[p] \in {"none", "500"}
                       /\ open'[p] /\ pc'[p] = "done" /\ resp'[p] = "none" =>
                            state_map'[InstOf[p]] = "KUBERNETES_OK"
    BY DEF RequestsLive
  <2>1. pc'[p] = "fab" => Blueprint[InstOf[p]] \ todo'[p] \subseteq objs'[ProcOrg(p)]
    BY <1>4, <1>5, <1>6 DEF RequestsLive
  <2>2. open'[p] => cf'[InstOf[p]] = "creating" /\ resp'[p] \in {"none", "500"}
    BY <1>1, <1>4, <1>5 DEF RequestsLive
  <2>. QED BY <1>1, <1>4, <2>1, <2>2 DEF RequestsLive
<1>8. \A e \in Dels \ {d} :
        /\ e \in Procs /\ e \in Requests /\ InstOf[e] \in Instances
        /\ pc'[e] = pc[e] /\ resp'[e] = resp[e]
        /\ InstOf[e] = i => pc[e] \notin DelLabels /\ resp[e] # "200"
  BY <1>1, <1>3, DelType DEF DeletionsLive
<1>9. DeletionsLive'
  <2>. SUFFICES ASSUME NEW e \in Dels
                PROVE  /\ pc'[e] \in DelLabels =>
                            /\ cf'[InstOf[e]] = "deleting"
                            /\ \A f \in Dels : InstOf[f] = InstOf[e] /\ pc'[f] \in DelLabels => f = e
                       /\ resp'[e] = "200" => cf'[InstOf[e]] = "deleted"
    BY DEF DeletionsLive
  <2>1. CASE e = d
    BY <1>3, <1>8, <2>1
  <2>2. CASE e # d /\ InstOf[e] = i
    BY <1>8, <2>2
  <2>3. CASE e # d /\ InstOf[e] # i
    <3>1. \A f \in Dels : InstOf[f] = InstOf[e] => f # d /\ pc'[f] = pc[f]
      BY <1>8, <2>3
    <3>. QED BY <1>1, <1>8, <2>3, <3>1 DEF DeletionsLive
  <2>. QED BY <2>1, <2>2, <2>3
<1>10. ASSUME NEW j \in Instances, Claimed(j)'
       PROVE  j # i /\ Claimed(j)
  <2>1. j \in Procs \ {d}
    BY ProcessesDistinct DEF Procs, Requests
  <2>2. j # i
    BY <1>1, <1>3, <1>10, <2>1 DEF Claimed, OneFabrication
  <2>. QED BY <1>1, <1>10, <2>1, <2>2 DEF Claimed
<1>11. ClaimsHold'
  <2>. SUFFICES ASSUME NEW j \in Instances, Claimed(j)'
                PROVE  /\ Whole(j)'
                       /\ \A r \in Removers : ProcOrg(r) = OrgOf[j] =>
                            /\ pc'[r] \notin Passed("deployment")
                            /\ pc'[r] = "rcDeployments" => \A b \in Blueprint[j] : b.kind # "service"
    BY DEF ClaimsHold
  <2>1. j # i /\ Claimed(j)
    BY <1>10
  <2>2. Whole(j)'
    BY <1>6, <2>1 DEF ClaimsHold, Whole
  <2>3. \A r \in Removers \ {d} : pc'[r] = pc[r]
    BY <1>1, RemoverType
  <2>4. pc'[d] \notin Passed("deployment") /\ pc'[d] # "rcDeployments"
    BY <1>2 DEF DelSays, DelLabels, Passed
  <2>. QED BY <2>1, <2>2, <2>3, <2>4 DEF ClaimsHold
<1>12. ASSUME NEW j \in Instances, cf'[j] = "none"
       PROVE  ObjsOf(j)' = {}
  <2>1. cf[j] = "none" /\ OrgOf[j] \in Orgs
    BY <1>1, <1>3, <1>12, TenancyAssumption
  <2>2. ObjsOf(j) = {} /\ objs'[OrgOf[j]] \subseteq objs[OrgOf[j]]
    BY <1>1, <2>1 DEF LifeInv
  <2>. QED BY <2>2 DEF ObjsOf
<1>. QED BY <1>7, <1>9, <1>11, <1>12 DEF LifeInv

-----------------------------------------------------------------------------
(* Removers, the environment and restarts *)

(* A remover only touches the objects of its cluster once it has found     *)
(* neither services nor deployments.                                       *)
LEMMA RemoverActs ==
  ASSUME TypeOK, NEW r \in Removers, RemoverStep(r)
  PROVE  /\ UNCHANGED <<state_map, cf, resp, open>>
         /\ \A q \in Procs \ {r} : pc'[q] = pc[q] /\ todo'[q] = todo[q]
         /\ pc[r] \in RemoverLabels /\ pc'[r] \in RemoverLabels \cup FinalLabels
         /\ \A o \in Orgs : objs'[o] \subseteq objs[o] /\ (cluster[o] = "absent" => cluster'[o] = "absent")
         /\ \A o \in Orgs \ {ProcOrg(r)} : objs'[o] = objs[o]
         /\ pc[r] \notin Passed("deployment") => objs' = objs
         /\ pc[r] \notin Passed("deployment") =>
              \/ pc'[r] \in FinalLabels
              \/ pc'[r] = "rcDeployments" /\ OfKind(ProcOrg(r), "service") = {}
              \/ pc[r] = "rcDeployments" /\ OfKind(ProcOrg(r), "deployment") = {}
<1>. r \in Procs /\ ProcOrg(r) \in Orgs
  BY RemoverType, ProcOrgType
<1>1. UNCHANGED <<state_map, cf, resp, open>>
  BY DEF RemoverStep, RcServices, RcDeployments, RemoverRead, RcPurge, ListAllClaims,
     DeleteClaim, ClaimsDeleted, RcVolumes, RcDelete, stateVars, brokerVars
<1>2. \A q \in Procs \ {r} : pc'[q] = pc[q] /\ todo'[q] = todo[q]
  BY DEF RemoverStep, RcServices, RcDeployments, RemoverRead, RcPurge, ListAllClaims,
     DeleteClaim, ClaimsDeleted, RcVolumes, RcDelete, kubeVars, Goto, TypeOK
<1>3. pc[r] \in RemoverLabels /\ pc'[r] \in RemoverLabels \cup FinalLabels
  BY DEF RemoverStep, RcServices, RcDeployments, RemoverRead, RcPurge, ListAllClaims,
     DeleteClaim, ClaimsDeleted, RcVolumes, RcDelete, Goto, TypeOK, RemoverLabels, FinalLabels
<1>4. /\ \A o \in Orgs : objs'[o] \subseteq objs[o] /\ (cluster[o] = "absent" => cluster'[o] = "absent")
      /\ \A o \in Orgs \ {ProcOrg(r)} : objs'[o] = objs[o]
  <2>1. CASE DeleteClaim(r)
    BY <2>1 DEF DeleteClaim, clusterVars, TypeOK
  <2>2. CASE RcDelete(r)
    BY <2>2 DEF RcDelete, Unregister, TypeOK
  <2>3. CASE ~DeleteClaim(r) /\ ~RcDelete(r)
    BY <2>3 DEF RemoverStep, RcServices, RcDeployments, RemoverRead, RcPurge,
       ListAllClaims, ClaimsDeleted, RcVolumes, kubeVars, clusterVars
  <2>. QED BY <2>1, <2>2, <2>3
<1>5. ASSUME pc[r] \notin Passed("deployment")
      PROVE  /\ objs' = objs
             /\ \/ pc'[r] \in FinalLabels
                \/ pc'[r] = "rcDeployments" /\ OfKind(ProcOrg(r), "service") = {}
                \/ pc[r] = "rcDeployments" /\ OfKind(ProcOrg(r), "deployment") = {}
  <2>1. CASE RcServices(r)
    BY <2>1 DEF RcServices, RemoverRead, FinalLabels, kubeVars, Goto, TypeOK
  <2>2. CASE RcDeployments(r)
    BY <2>2 DEF RcDeployments, RemoverRead, FinalLabels, kubeVars, Goto, TypeOK
  <2>3. CASE RcPurge(r) \/ RcVolumes(r) \/ RcDelete(r)
    BY <1>5, <2>3 DEF RcPurge, ListAllClaims, DeleteClaim, ClaimsDeleted, RcVolumes, RcDelete, Passed
  <2>. QED BY <2>1, <2>2, <2>3 DEF RemoverStep
<1>. QED BY <1>1, <1>2, <1>3, <1>4, <1>5

LEMMA LifeRemover ==
  ASSUME TypeOK, LifeInv, Guarded, NoOverlap, NEW r \in Removers, RemoverStep(r)
  PROVE  LifeInv'
<1>. r \in Procs /\ ProcOrg(r) \in Orgs
  BY RemoverType, ProcOrgType
<1>. RequestsLive /\ DeletionsLive /\ ClaimsHold
  BY DEF LifeInv
<1>1. /\ UNCHANGED <<state_map, cf, resp, open>>
      /\ \A q \in Procs \ {r} : pc'[q] = pc[q] /\ todo'[q] = todo[q]
      /\ pc[r] \in RemoverLabels /\ pc'[r] \in RemoverLabels \cup FinalLabels
      /\ \A o \in Orgs : objs'[o] \subseteq objs[o] /\ (cluster[o] = "absent" => cluster'[o] = "absent")
      /\ \A o \in Orgs \ {ProcOrg(r)} : objs'[o] = objs[o]
      /\ pc[r] \notin Passed("deployment") => objs' = objs
  BY RemoverActs
<1>2. pc'[r] \notin DelLabels
  BY <1>1 DEF RemoverLabels, FinalLabels, DelLabels
<1>3. RequestsLive'
  <2>1. \A p \in Puts : /\ pc'[p] = pc[p] /\ todo'[p] = todo[p] /\ ProcOrg(p) \in Orgs
    BY <1>1, PutType, ProcOrgType, Disjoint
  <2>2. \A p \in Puts : pc[p] = "fab" => objs'[ProcOrg(p)] = objs[ProcOrg(p)]
    BY <1>1, <2>1 DEF NoOverlap, Passed
  <2>. QED BY <1>1, <2>1, <2>2 DEF RequestsLive
<1>4. DeletionsLive'
  <2>1. \A d \in Dels : pc'[d] \in DelLabels => pc'[d] = pc[d]
    BY <1>1, <1>2, DelType
  <2>. QED BY <1>1, <2>1 DEF DeletionsLive
<1>5. ClaimsHold'
  <2>. SUFFICES ASSUME NEW i \in Instances, Claimed(i)'
                PROVE  /\ Whole(i)'
                       /\ \A q \in Removers : ProcOrg(q) = OrgOf[i] =>
                            /\ pc'[q] \notin Passed("deployment")
                            /\ pc'[q] = "rcDeployments" => \A b \in Blueprint[i] : b.kind # "service"
    BY DEF ClaimsHold
  <2>1. OrgOf[i] \in Orgs /\ i \in Procs /\ i # r
    BY TenancyAssumption, Disjoint DEF Procs
  <2>2. Claimed(i)
    BY <1>1, <2>1 DEF Claimed
  <2>3. CASE OrgOf[i] # ProcOrg(r)
    <3>1. Whole(i)'
      BY <1>1, <2>1, <2>2, <2>3 DEF ClaimsHold, Whole
    <3>. QED BY <1>1, <2>2, <2>3, <3>1, RemoverType DEF ClaimsHold
  <2>4. CASE OrgOf[i] = ProcOrg(r)
    <3>1. /\ pc[r] \notin Passed("deployment") /\ Whole(i)
          /\ pc[r] = "rcDeployments" => \A b \in Blueprint[i] : b.kind # "service"
      BY <2>2, <2>4 DEF ClaimsHold
    <3>2. /\ objs' = objs
          /\ \/ pc'[r] \in FinalLabels
             \/ pc'[r] = "rcDeployments" /\ OfKind(ProcOrg(r), "service") = {}
             \/ pc[r] = "rcDeployments" /\ OfKind(ProcOrg(r), "deployment") = {}
      BY <3>1, RemoverActs
    <3>3. ~(pc[r] = "rcDeployments" /\ OfKind(ProcOrg(r), "deployment") = {})
      BY <2>4, <3>1 DEF Guarded, OfKind, InCluster, Whole
    <3>4. OfKind(ProcOrg(r), "service") = {} => \A b \in Blueprint[i] : b.kind # "service"
      BY <2>4, <3>1 DEF OfKind, InCluster, Whole
    <3>5. /\ pc'[r] \notin Passed("deployment")
          /\ pc'[r] = "rcDeployments" => \A b \in Blueprint[i] : b.kind # "service"
      BY <3>2, <3>3, <3>4 DEF Passed, FinalLabels
    <3>6. Whole(i)'
      BY <3>1, <3>2 DEF Whole
    <3>. QED BY <1>1, <2>2, <3>5, <3>6, RemoverType DEF ClaimsHold
  <2>. QED BY <2>3, <2>4
<1>6. ASSUME NEW j \in Instances, cf'[j] = "none"
      PROVE  ObjsOf(j)' = {}
  <2>1. ObjsOf(j) = {} /\ objs'[OrgOf[j]] \subseteq objs[OrgOf[j]]
    BY <1>1, <1>6, TenancyAssumption DEF LifeInv
  <2>. QED BY <2>1 DEF ObjsOf
<1>. QED BY <1>3, <1>4, <1>5, <1>6 DEF LifeInv

LEMMA LifeEnv ==
  ASSUME LifeInv, EnvStep
  PROVE  LifeInv'
<1>1. UNCHANGED <<pc, state_map, objs, todo, cf, resp, open>>
  BY DEF EnvStep, ClusterReady, BindVolume, ReclaimVolume, GarbageCollect, Age, stateVars, kubeVars, brokerVars
<1>2. RequestsLive' /\ DeletionsLive' /\ ClaimsHold'
  BY <1>1 DEF LifeInv, RequestsLive, DeletionsLive, ClaimsHold, Claimed, Whole
<1>. QED BY <1>1, <1>2 DEF LifeInv, ObjsOf

(* What a restart leaves. *)
LEMMA RestartLeaves ==
  ASSUME TypeOK, OneFabrication, Restart
  PROVE  /\ UNCHANGED <<cluster, objs>>
         /\ \A p \in Puts : ~open'[p] /\ pc'[p] \in {"idle", "done", "killed"} /\ (pc'[p] = "idle" => pc[p] = "idle")
         /\ \A d \in Dels : /\ pc'[d] \in {"idle"} \cup FinalLabels /\ resp'[d] = resp[d]
                            /\ pc'[d] # "idle" => pc[d] # "idle"
         /\ \A o \in Orgs : pc'[o] \in {"idle", "rcServices"} /\ (pc'[o] # "idle" => cluster[o] # "absent")
         /\ \A i \in Instances : pc'[i] = "idle" /\ state_map'[i] = "NONE"
         /\ \A i \in Instances :
              cf'[i] = IF cf[i] \in {"creating", "deleting"} THEN "failed" ELSE cf[i]
<1>1. UNCHANGED <<cluster, objs>>
  BY DEF Restart
<1>2. ASSUME NEW p \in Puts
      PROVE  ~open'[p] /\ pc'[p] \in {"idle", "done", "killed"} /\ (pc'[p] = "idle" => pc[p] = "idle")
  <2>1. p \in Procs /\ p \notin Orgs /\ p \notin Instances
    BY PutType, ProcessesDistinct DEF Requests
  <2>2. pc[p] \in {"idle", "done", "killed"} \cup PutLabels
    BY DEF OneFabrication
  <2>. QED BY <2>1, <2>2 DEF Restart, FinalLabels, PutLabels
<1>3. ASSUME NEW d \in Dels
      PROVE  /\ pc'[d] \in {"idle"} \cup FinalLabels /\ resp'[d] = resp[d]
             /\ pc'[d] # "idle" => pc[d] # "idle"
  <2>1. d \in Procs /\ d \notin Orgs /\ d \notin Instances /\ d \notin Puts /\ d \in Requests
    BY DelType, ProcessesDistinct DEF Requests
  <2>. QED BY <2>1 DEF Restart, FinalLabels
<1>4. \A o \in Orgs : pc'[o] \in {"idle", "rcServices"} /\ (pc'[o] # "idle" => cluster[o] # "absent")
  BY DEF Restart, Procs
<1>5. \A i \in Instances : pc'[i] = "idle"
  BY ProcessesDistinct DEF Restart, Procs
<1>6. \A i \in Instances : state_map'[i] = "NONE"
  BY GuidType DEF Restart, StateReset
<1>7. \A i \in Instances : cf'[i] = IF cf[i] \in {"creating", "deleting"} THEN "failed" ELSE cf[i]
  BY DEF Restart
<1>. QED BY <1>1, <1>2, <1>3, <1>4, <1>5, <1>6, <1>7

LEMMA LifeRestart ==
  ASSUME TypeOK, OneFabrication, LifeInv, Restart
  PROVE  LifeInv'
<1>. RequestsLive /\ DeletionsLive /\ ClaimsHold
  BY DEF LifeInv
<1>1. /\ UNCHANGED <<cluster, objs>>
      /\ \A p \in Puts : ~open'[p] /\ pc'[p] \in {"idle", "done", "killed"} /\ (pc'[p] = "idle" => pc[p] = "idle")
      /\ \A d \in Dels : /\ pc'[d] \in {"idle"} \cup FinalLabels /\ resp'[d] = resp[d]
                         /\ pc'[d] # "idle" => pc[d] # "idle"
      /\ \A o \in Orgs : pc'[o] \in {"idle", "rcServices"} /\ (pc'[o] # "idle" => cluster[o] # "absent")
      /\ \A i \in Instances : pc'[i] = "idle" /\ state_map'[i] = "NONE"
      /\ \A i \in Instances :
           cf'[i] = IF cf[i] \in {"creating", "deleting"} THEN "failed" ELSE cf[i]
  BY RestartLeaves
<1>2. RequestsLive'
  BY <1>1 DEF RequestsLive
<1>3. DeletionsLive'
  <2>1. \A d \in Dels : pc'[d] \notin DelLabels
    BY <1>1 DEF DelLabels, FinalLabels
  <2>. QED BY <1>1, <2>1, DelType DEF DeletionsLive
<1>4. ClaimsHold'
  <2>1. \A r \in Removers : pc'[r] \notin Passed("service")
    BY <1>1 DEF Removers, Passed, FinalLabels
  <2>2. \A r \in Removers : pc'[r] \notin Passed("deployment") /\ pc'[r] # "rcDeployments"
    BY <2>1 DEF Passed
  <2>3. \A i \in Instances : Claimed(i)' => Claimed(i)
    BY <1>1 DEF Claimed
  <2>. QED BY <1>1, <2>2, <2>3 DEF ClaimsHold, Whole
<1>5. \A i \in Instances : cf'[i] = "none" => ObjsOf(i)' = {}
  BY <1>1 DEF LifeInv, ObjsOf
<1>. QED BY <1>2, <1>3, <1>4, <1>5 DEF LifeInv

LEMMA LifeInvariant ==
  ASSUME OnePut, Guarded, Fault("slow") = FALSE
  PROVE  Spec /\ []NoOverlap => []LifeInv
<1>1. Init => LifeInv
  <2>. SUFFICES ASSUME Init PROVE LifeInv
    OBVIOUS
  <2>1. /\ \A p \in Procs : pc[p] = "idle"
        /\ \A p \in Puts : ~open[p]
        /\ \A o \in Orgs : cluster[o] = "absent" /\ objs[o] = {}
        /\ \A p \in Requests : resp[p] = "none"
        /\ \A i \in Instances : cf[i] = "none"
    BY DEF Init, ClusterInit, KubeInit
  <2>2. RequestsLive
    BY <2>1, PutType DEF RequestsLive
  <2>3. DeletionsLive
    BY <2>1, DelType DEF DeletionsLive, DelLabels
  <2>4. ClaimsHold
    BY <2>1 DEF ClaimsHold, Claimed, Procs
  <2>. QED BY <2>1, <2>2, <2>3, <2>4, TenancyAssumption DEF LifeInv, ObjsOf
<1>2. TypeOK /\ OneFabrication /\ Swept /\ OwnLists /\ NoOverlap /\ LifeInv /\ [Next]_vars => LifeInv'
  <2>. SUFFICES ASSUME TypeOK, OneFabrication, Swept, OwnLists, NoOverlap, LifeInv, [Next]_vars
                PROVE  LifeInv'
    OBVIOUS
  <2>1. CASE UNCHANGED vars
    <3>1. UNCHANGED <<pc, state_map, cluster, objs, todo, cf, resp, open>>
      BY <2>1 DEF vars, stateVars, clusterVars, kubeVars, brokerVars
    <3>2. RequestsLive' /\ DeletionsLive' /\ ClaimsHold'
      BY <3>1 DEF LifeInv, RequestsLive, DeletionsLive, ClaimsHold, Claimed, Whole
    <3>. QED BY <3>1, <3>2 DEF LifeInv, ObjsOf
  <2>2. CASE Next
    BY <2>2, LifePut, LifePoll, LifeDel, LifeRemover, LifeEnv, LifeRestart DEF Next
  <2>. QED BY <2>1, <2>2
<1>. QED BY <1>1, <1>2, TypeCorrect, OneFabricationInvariant, SweptInvariant, OwnListsInvariant, PTL
         DEF Spec

-----------------------------------------------------------------------------
(* Every step of the broker is a step of the life of every instance *)

LEMMA PutIsLife ==
  ASSUME TypeOK, OneFabrication, Swept, LifeInv, OnePut, NEW p \in Puts,
         PutMalformed(p) \/ PutStart(p) \/ PutStep(p) \/ PutRespond(p)
  PROVE  \A i \in Instances : Lifecycle!LifeStep(i)
<1>. SUFFICES ASSUME NEW i \in Instances PROVE Lifecycle!LifeStep(i)
  OBVIOUS
<1>. p \in Procs /\ p \in Requests /\ InstOf[p] \in Instances /\ InstOf[p] \in Guids
  BY PutType, GuidType
<1>1. \A d \in Dels : resp'[d] = resp[d]
  BY PutFrame, DelType, ProcessesDistinct
<1>2. CASE ObjsOf(i)' # ObjsOf(i)
  <2>1. i = InstOf[p] /\ FabricateService(p) /\ pc[p] \in Fabricating
    BY <1>2, PutCreatesOwn
  <2>2. PICK b \in Blueprint[i] \ ObjsOf(i) : ObjsOf(i)' = ObjsOf(i) \cup {b}
    BY <1>2, PutCreatesOwn
  <2>3. cf[i] \in {"creating", "polling"}
    BY <2>1 DEF OneFabrication
  <2>4. cf' = cf
    <3>1. objs' # objs
      BY <1>2 DEF ObjsOf
    <3>2. ~PutMalformed(p) /\ ~PutStart(p) /\ ~PutLookup(p) /\ ~PutRespond(p)
      BY <3>1 DEF PutMalformed, PutStart, PutLookup, PutRespond, kubeVars
    <3>. QED BY <3>2 DEF PutStep, PutParse, PutFail, PutOk, brokerVars
  <2>5. LifeOf(i) = "creating" /\ LifeOf(i)' = "creating"
    BY <2>3, <2>4 DEF LifeOf
  <2>. QED BY <2>2, <2>5, LifeCreates
<1>3. CASE ObjsOf(i)' = ObjsOf(i) /\ cf'[i] = cf[i]
  BY <1>1, <1>3, LifeStays, LifeSteps
<1>4. CASE ObjsOf(i)' = ObjsOf(i) /\ cf'[i] # cf[i]
  <2>1. i = InstOf[p]
    BY <1>4, PutFrame
  <2>2. \/ cf[i] = "none" /\ cf'[i] \in {"creating", "failed"}
        \/ cf[i] = "creating" /\ cf'[i] \in {"polling", "failed"}
        \/ cf[i] = "creating" /\ cf'[i] = "ready" /\ PutRespond(p) /\ state_map[i] = "KUBERNETES_OK"
    <3>1. CASE PutMalformed(p) \/ PutStart(p)
      BY <1>4, <2>1, <3>1 DEF PutMalformed, PutStart, MayPut, OneFabrication, TypeOK
    <3>2. CASE PutLookup(p)
      BY <1>4, <2>1, <3>2 DEF PutLookup, CfAfterPut, TypeOK
    <3>3. CASE PutRespond(p)
      <4>1. /\ open[p] => cf[i] = "creating" /\ resp[p] \in {"none", "500"}
            /\ open[p] /\ pc[p] = "done" /\ resp[p] = "none" => state_map[i] = "KUBERNETES_OK"
        BY <2>1 DEF LifeInv, RequestsLive
      <4>. QED BY <1>4, <2>1, <3>3, <4>1 DEF PutRespond, CfAfterPut, TypeOK
    <3>4. CASE PutStep(p) /\ ~PutLookup(p)
      BY <1>4, <3>4 DEF PutStep, PutParse, PutFail, PutOk, brokerVars
    <3>. QED BY <3>1, <3>2, <3>3, <3>4
  <2>3. CASE cf'[i] = "ready" /\ cf[i] = "creating"
    <3>1. ObjsOf(i) = Blueprint[i]
      BY <2>2, <2>3, WholeObjects DEF LifeInv, ClaimsHold, Claimed
    <3>. QED BY <1>4, <2>3, <3>1, LifeSteps DEF LifeOf
  <2>4. CASE cf[i] = "creating" /\ cf'[i] = "polling"
    BY <1>4, <2>4, LifeSteps DEF LifeOf
  <2>5. CASE cf[i] = "none" /\ cf'[i] = "creating"
    BY <1>4, <2>5, LifeSteps DEF LifeOf
  <2>6. CASE cf[i] \in {"none", "creating"} /\ cf'[i] = "failed"
    BY <1>4, <2>6, LifeSteps DEF LifeOf
  <2>. QED BY <2>2, <2>3, <2>4, <2>5, <2>6
<1>. QED BY <1>2, <1>3, <1>4

LEMMA PollIsLife ==
  ASSUME TypeOK, OneFabrication, LifeInv, Fault("slow") = FALSE, NEW j \in Instances,
         CfTimeout(j) \/ GetLastOperation(j) \/ CheckHealth(j)
  PROVE  \A i \in Instances : Lifecycle!LifeStep(i)
<1>. SUFFICES ASSUME NEW i \in Instances PROVE Lifecycle!LifeStep(i)
  OBVIOUS
<1>1. /\ resp' = resp /\ ObjsOf(i)' = ObjsOf(i)
      /\ i # j => cf'[i] = cf[i]
      /\ cf[j] = "polling" /\ cf'[j] \in {"polling", "ready", "failed"}
  BY PollSays DEF ObjsOf
<1>2. CASE cf'[i] = cf[i]
  BY <1>1, <1>2, LifeStays, LifeSteps
<1>3. CASE i = j /\ cf'[i] = "ready"
  <2>1. pc[i] = "pollHealth"
    BY <1>1, <1>3 DEF CfTimeout, GetLastOperation, CheckHealth, TypeOK
  <2>2. ObjsOf(i) = Blueprint[i]
    BY <2>1, WholeObjects DEF LifeInv, ClaimsHold, Claimed
  <2>. QED BY <1>1, <1>3, <2>2, LifeSteps DEF LifeOf
<1>4. CASE i = j /\ cf'[i] = "failed"
  BY <1>1, <1>4, LifeSteps DEF LifeOf
<1>. QED BY <1>1, <1>2, <1>3, <1>4

LEMMA DelIsLife ==
  ASSUME TypeOK, Swept, OwnLists, LifeInv, NEW d \in Dels, DelStart(d) \/ DelStep(d)
  PROVE  \A i \in Instances : Lifecycle!LifeStep(i)
<1>. SUFFICES ASSUME NEW i \in Instances PROVE Lifecycle!LifeStep(i)
  OBVIOUS
<1>. /\ d \in Procs /\ d \in Requests /\ InstOf[d] \in Instances /\ OrgOf[i] \in Orgs
     /\ ProcOrg(d) \in Orgs /\ ProcOrg(d) = OrgOf[InstOf[d]]
  BY DelType, ProcOrgType, DelOrg, TenancyAssumption
<1>1. /\ \A q \in Requests \ {d} : resp'[q] = resp[q]
      /\ \A j \in Instances \ {InstOf[d]} : cf'[j] = cf[j]
      /\ \A o \in Orgs : objs'[o] \subseteq objs[o]
      /\ \A o \in Orgs \ {ProcOrg(d)} : objs'[o] = objs[o]
  BY DelLeavesOthers
<1>2. CASE i # InstOf[d]
  <2>1. ObjsOf(i)' = ObjsOf(i) /\ cf'[i] = cf[i]
    BY <1>1, <1>2, DelKeepsOthers
  <2>2. \A q \in Dels : InstOf[q] = i => resp'[q] = resp[q]
    BY <1>1, <1>2, DelType
  <2>. QED BY <2>1, <2>2, LifeStays, LifeSteps
<1>3. CASE i = InstOf[d]
  <2>1. ObjsOf(i)' \subseteq ObjsOf(i) /\ (objs' = objs => ObjsOf(i)' = ObjsOf(i))
    BY <1>1 DEF ObjsOf
  <2>2. pc[d] \in DelLabels => cf[i] = "deleting"
    BY <1>3 DEF LifeInv, DeletionsLive
  <2>3. pc[d] = "delDone" => ObjsOf(i) = {} /\ cf[i] = "deleting"
    BY <1>3, <2>2 DEF Swept, DelLabels
  <2>4. DelSays(d)
    BY DelSteps
  <2>5. CASE cf[i] \in {"ready", "failed"} /\ cf'[i] = "deleting" /\ objs' = objs
    BY <2>1, <2>5, LifeSteps DEF LifeOf
  <2>6. CASE cf[i] = "deleting" /\ cf'[i] = "deleting"
    BY <2>1, <2>6, LifeSteps DEF LifeOf
  <2>7. CASE cf[i] = "deleting" /\ cf'[i] = "failed"
    BY <2>1, <2>7, LifeSteps DEF LifeOf
  <2>8. CASE cf[i] = "deleting" /\ cf'[i] = "deleted" /\ resp'[d] = "410" /\ objs' = objs
    <3>1. \A q \in Dels : InstOf[q] = i => resp[q] # "200"
      BY <2>8 DEF LifeInv, DeletionsLive
    <3>2. \A q \in Dels : InstOf[q] = i => resp'[q] # "200"
      BY <1>1, <2>8, <3>1, DelType
    <3>3. LifeOf(i) = "deleting" /\ LifeOf(i)' = "gone"
      BY <2>8, <3>2 DEF LifeOf
    <3>. QED BY <2>1, <2>8, <3>3, LifeSteps
  <2>9. CASE cf[i] = "deleting" /\ cf'[i] = "deleted" /\ resp'[d] = "200" /\ objs' = objs /\ ObjsOf(i) = {}
    <3>1. LifeOf(i) = "deleting" /\ LifeOf(i)' = "deleted"
      BY <1>3, <2>9 DEF LifeOf
    <3>. QED BY <2>1, <2>9, <3>1, LifeSteps
  <2>. QED BY <1>3, <2>2, <2>3, <2>4, <2>5, <2>6, <2>7, <2>8, <2>9 DEF DelSays, DelLabels
<1>. QED BY <1>2, <1>3

LEMMA RemoverIsLife ==
  ASSUME TypeOK, Swept, LifeInv, NEW r \in Removers, RemoverStep(r)
  PROVE  \A i \in Instances : Lifecycle!LifeStep(i)
<1>. SUFFICES ASSUME NEW i \in Instances PROVE Lifecycle!LifeStep(i)
  OBVIOUS
<1>. OrgOf[i] \in Orgs
  BY TenancyAssumption
<1>1. /\ UNCHANGED <<cf, resp>>
      /\ \A o \in Orgs : objs'[o] \subseteq objs[o]
      /\ \A o \in Orgs \ {ProcOrg(r)} : objs'[o] = objs[o]
      /\ pc[r] \notin Passed("deployment") => objs' = objs
  BY RemoverActs
<1>2. LifeOf(i)' = LifeOf(i) /\ ObjsOf(i)' \subseteq ObjsOf(i)
  BY <1>1, LifeStays DEF ObjsOf
<1>3. CASE cf[i] = "ready"
  <2>1. ProcOrg(r) = OrgOf[i] => pc[r] \notin Passed("deployment")
    BY <1>3 DEF LifeInv, ClaimsHold, Claimed
  <2>2. ObjsOf(i)' = ObjsOf(i)
    BY <1>1, <2>1 DEF ObjsOf
  <2>. QED BY <1>2, <2>2, LifeSteps
<1>4. CASE ObjsOf(i) = {}
  BY <1>2, <1>4, LifeSteps
<1>5. CASE cf[i] # "ready" /\ ObjsOf(i) # {}
  <2>1. cf[i] # "none" /\ \A d \in Dels : InstOf[d] = i => resp[d] # "200"
    BY <1>5 DEF LifeInv, Swept
  <2>2. LifeOf(i) \in {"creating", "failed", "deleting", "gone"}
    BY <1>5, <2>1 DEF LifeOf, TypeOK, CfStates
  <2>. QED BY <1>2, <2>2, LifeSteps
<1>. QED BY <1>3, <1>4, <1>5

LEMMA RestIsLife ==
  ASSUME TypeOK, OneFabrication, EnvStep \/ Restart \/ UNCHANGED vars
  PROVE  \A i \in Instances : Lifecycle!LifeStep(i)
<1>. SUFFICES ASSUME NEW i \in Instances PROVE Lifecycle!LifeStep(i)
  OBVIOUS
<1>1. CASE EnvStep \/ UNCHANGED vars
  <2>1. UNCHANGED <<cf, resp, objs>>
    BY <1>1 DEF EnvStep, ClusterReady, BindVolume, ReclaimVolume, GarbageCollect, Age, kubeVars, brokerVars, vars
  <2>. QED BY <2>1, LifeStays, LifeSteps DEF ObjsOf
<1>2. CASE Restart
  <2>1. /\ objs' = objs /\ \A d \in Dels : resp'[d] = resp[d]
        /\ cf'[i] = IF cf[i] \in {"creating", "deleting"} THEN "failed" ELSE cf[i]
    BY <1>2, RestartLeaves
  <2>2. ObjsOf(i)' = ObjsOf(i)
    BY <2>1 DEF ObjsOf
  <2>3. CASE cf[i] \notin {"creating", "deleting"}
    BY <2>1, <2>2, <2>3, LifeStays, LifeSteps
  <2>4. CASE cf[i] \in {"creating", "deleting"}
    BY <2>1, <2>2, <2>4, LifeSteps DEF LifeOf
  <2>. QED BY <2>3, <2>4
<1>. QED BY <1>1, <1>2

(* Where each instance is requested once, no request is overdue, every     *)
(* plan has a service or a deployment, and nothing is created in a cluster *)
(* that a remover is taking down, the broker implements the life cycle of  *)
(* instances: complete when Cloud Foundry is told so, untouched until the  *)
(* deletion, nothing left after it; however many instances share a         *)
(* cluster, whatever fails and however often the broker is restarted.      *)
THEOREM BrokerKeepsLifecycle ==
  ASSUME OnePut, Guarded, Fault("slow") = FALSE
  PROVE  Spec /\ []NoOverlap => KeepsLifecycle
<1>1. Init => Lifecycle!LifeInit
  <2>. SUFFICES ASSUME Init PROVE Lifecycle!LifeInit
    OBVIOUS
  <2>1. \A i \in Instances : LifeOf(i) = "none" /\ ObjsOf(i) = {}
    BY TenancyAssumption DEF Init, KubeInit, LifeOf, ObjsOf
  <2>. QED BY <2>1 DEF Lifecycle!LifeInit
<1>2. TypeOK /\ OneFabrication /\ Swept /\ OwnLists /\ LifeInv /\ [Next]_vars => Lifecycle!LifeNext
  <2>. SUFFICES ASSUME TypeOK, OneFabrication, Swept, OwnLists, LifeInv, [Next]_vars
                PROVE  \A i \in Instances : Lifecycle!LifeStep(i)
    BY DEF Lifecycle!LifeNext
  <2>1. CASE UNCHANGED vars
    BY <2>1, RestIsLife
  <2>2. CASE Next
    BY <2>2, PutIsLife, PollIsLife, DelIsLife, RemoverIsLife, RestIsLife DEF Next
  <2>. QED BY <2>1, <2>2
<1>. QED BY <1>1, <1>2, TypeCorrect, OneFabricationInvariant, SweptInvariant, OwnListsInvariant,
         LifeInvariant, PTL DEF Spec, KeepsLifecycle, Lifecycle!LifeSpec

(* Under the same assumptions what Cloud Foundry was told is ready is      *)
(* complete also where instances are deleted and the broker is restarted:  *)
(* a remover that a restart or a deletion starts does not get past the     *)
(* objects of an instance that is in use, and the deletion of one instance *)
(* leaves the others in the cluster whole.                                 *)
THEOREM ReadyStaysComplete ==
  ASSUME OnePut, Guarded, Fault("slow") = FALSE
  PROVE  Spec /\ []NoOverlap => []SuccessIsComplete
<1>1. LifeInv => SuccessIsComplete
  BY DEF LifeInv, ClaimsHold, Claimed, Whole, SuccessIsComplete
<1>. QED BY <1>1, LifeInvariant, PTL

-----------------------------------------------------------------------------
(* With one instance in each organization nothing overlaps *)

(* Requests for one organization are for one instance. *)
LEMMA SameOrg ==
  ASSUME Exclusive
  PROVE  /\ \A p, q \in Requests : ProcOrg(p) = ProcOrg(q) => InstOf[p] = InstOf[q]
         /\ \A p \in Requests : \A i \in Instances : ProcOrg(p) = OrgOf[i] => InstOf[p] = i
         /\ \A p \in Requests : ProcOrg(p) = OrgOf[InstOf[p]]
<1>1. \A p \in Requests : ProcOrg(p) = OrgOf[InstOf[p]] /\ InstOf[p] \in Instances
  BY TenancyAssumption, ProcessesDistinct DEF ProcOrg
<1>. QED BY <1>1 DEF Exclusive

(* A request registers a cluster for its own organization only. *)
LEMMA PutRegisters ==
  ASSUME TypeOK, NEW p \in Puts,
         PutMalformed(p) \/ PutStart(p) \/ PutStep(p) \/ PutRespond(p)
  PROVE  \A o \in Orgs \ {ProcOrg(p)} : cluster'[o] = cluster[o]
<1>. ProcOrg(p) \in Orgs
  BY PutType, ProcOrgType
<1>1. CASE PostCluster(p)
  BY <1>1 DEF PostCluster, Register, clusterVars, TypeOK
<1>2. CASE ~PostCluster(p)
  BY <1>2 DEF PutMalformed, PutStart, PutStep, PutRespond, PutLookup, PutParse, PutFail, PutOk,
     GetOrCreateCluster, IsApiWorking, CheckQuota, CreateSecretForPrivateTapRepo,
     FabricateStart, FabricateService, clusterVars
<1>. QED BY <1>1, <1>2

(* A request that is over stays so. *)
LEMMA PutOver ==
  ASSUME TypeOK, NEW p \in Puts, pc[p] \in {"putFail", "done", "killed"},
         PutMalformed(p) \/ PutStart(p) \/ PutStep(p) \/ PutRespond(p)
  PROVE  pc'[p] \in {"putFail", "done", "killed"}
<1>1. PutFail(p) \/ PutRespond(p)
  BY DEF PutMalformed, PutStart, MayPut, PutStep, PutLookup, PutParse, PutOk, GetOrCreateCluster,
     IsApiWorking, CheckQuota, PostCluster, CreateSecretForPrivateTapRepo, FabricateStart,
     FabricateService
<1>. QED BY <1>1, PutType DEF PutFail, PutRespond, Goto, TypeOK

LEMMA LatePut ==
  ASSUME TypeOK, OneFabrication, RemoversLate, OnePut, Exclusive, NEW p \in Puts,
         PutMalformed(p) \/ PutStart(p) \/ PutStep(p) \/ PutRespond(p)
  PROVE  RemoversLate'
<1>. p \in Procs /\ p \in Requests
  BY PutType
<1>1. \A q \in Procs \ {p} : pc'[q] = pc[q]
  BY PutLeavesOthers
<1>2. \A r \in Removers : pc'[r] = pc[r]
  BY <1>1, Disjoint, RemoverType
<1>. SUFFICES ASSUME NEW q \in Puts
              PROVE  /\ pc'[q] = "idle" => cluster'[ProcOrg(q)] = "absent"
                     /\ \A r \in Removers : ProcOrg(r) = ProcOrg(q) /\ pc'[r] # "idle" =>
                          pc'[q] \in {"putFail", "done", "killed"}
  BY DEF RemoversLate
<1>3. CASE q = p
  <2>1. pc'[p] # "idle"
    BY PutOwnStep DEF OwnStep, PutLabels
  <2>. QED BY <1>2, <1>3, <2>1, PutOver DEF RemoversLate
<1>4. CASE q # p
  <2>1. q \in Procs /\ q \in Requests /\ ProcOrg(q) \in Orgs /\ ProcOrg(q) # ProcOrg(p)
    BY <1>4, PutType, ProcOrgType, SameOrg DEF OnePut
  <2>2. pc'[q] = pc[q] /\ cluster'[ProcOrg(q)] = cluster[ProcOrg(q)]
    BY <1>1, <1>4, <2>1, PutRegisters
  <2>. QED BY <1>2, <2>2 DEF RemoversLate
<1>. QED BY <1>3, <1>4

(* A deletion starts when the request for its instance is over. *)
LEMMA LateDel ==
  ASSUME TypeOK, OneFabrication, RemoversLate, Exclusive, NEW d \in Dels, DelStart(d) \/ DelStep(d)
  PROVE  RemoversLate'
<1>. d \in Procs /\ d \in Requests /\ InstOf[d] \in Instances
  BY DelType
<1>1. cluster' = cluster /\ \A q \in Procs \ {d} : pc'[q] = pc[q]
  BY DelLeavesOthers
<1>2. \A p \in Puts : p \in Requests /\ pc'[p] = pc[p]
  BY <1>1, PutType, ProcessesDistinct
<1>3. cf[InstOf[d]] \in Settled
  <2>1. pc[d] # "idle" => cf[InstOf[d]] \in Settled
    BY DEF OneFabrication
  <2>2. CASE DelStart(d)
    BY <2>2 DEF DelStart, Settled
  <2>3. CASE DelStep(d)
    BY <2>1, <2>3 DEF DelStep, DelLookup, DelGetCluster, DelObjects, ListByServiceId, DeleteByName,
       DeleteCallFails, DelDone
  <2>. QED BY <2>2, <2>3
<1>4. \A p \in Puts : ProcOrg(p) = ProcOrg(d) => pc[p] \in {"putFail", "done", "killed"}
  <2>. SUFFICES ASSUME NEW p \in Puts, ProcOrg(p) = ProcOrg(d)
                PROVE  pc[p] \in {"putFail", "done", "killed"}
    OBVIOUS
  <2>1. InstOf[p] = InstOf[d]
    BY <1>2, SameOrg
  <2>. QED BY <1>3, <2>1 DEF OneFabrication, Settled, Fabricating
<1>. SUFFICES ASSUME NEW p \in Puts
              PROVE  /\ pc'[p] = "idle" => cluster'[ProcOrg(p)] = "absent"
                     /\ \A r \in Removers : ProcOrg(r) = ProcOrg(p) /\ pc'[r] # "idle" =>
                          pc'[p] \in {"putFail", "done", "killed"}
  BY DEF RemoversLate
<1>5. ASSUME NEW r \in Removers, ProcOrg(r) = ProcOrg(p), pc'[r] # "idle"
      PROVE  pc'[p] \in {"putFail", "done", "killed"}
  <2>1. CASE r = d
    BY <1>2, <1>4, <1>5, <2>1
  <2>2. CASE r # d
    BY <1>1, <1>2, <1>5, <2>2, RemoverType DEF RemoversLate
  <2>. QED BY <2>1, <2>2
<1>. QED BY <1>1, <1>2, <1>5 DEF RemoversLate

LEMMA LateRemover ==
  ASSUME TypeOK, RemoversLate, NEW r \in Removers, RemoverStep(r)
  PROVE  RemoversLate'
<1>1. /\ \A q \in Procs \ {r} : pc'[q] = pc[q]
      /\ \A o \in Orgs : cluster[o] = "absent" => cluster'[o] = "absent"
      /\ pc[r] \in RemoverLabels
  BY RemoverActs
<1>2. \A q \in Removers : pc'[q] # "idle" => pc[q] # "idle"
  BY <1>1, RemoverType DEF RemoverLabels
<1>3. \A p \in Puts : pc'[p] = pc[p] /\ ProcOrg(p) \in Orgs
  BY <1>1, PutType, ProcOrgType, Disjoint
<1>. QED BY <1>1, <1>2, <1>3 DEF RemoversLate

LEMMA LateRestart ==
  ASSUME TypeOK, OneFabrication, RemoversLate, Restart
  PROVE  RemoversLate'
<1>1. /\ cluster' = cluster
      /\ \A p \in Puts : pc'[p] \in {"idle", "done", "killed"} /\ (pc'[p] = "idle" => pc[p] = "idle")
      /\ \A d \in Dels : pc'[d] # "idle" => pc[d] # "idle"
      /\ \A o \in Orgs : pc'[o] # "idle" => cluster[o] # "absent"
  BY RestartLeaves
<1>. SUFFICES ASSUME NEW p \in Puts
              PROVE  /\ pc'[p] = "idle" => cluster'[ProcOrg(p)] = "absent"
                     /\ \A r \in Removers : ProcOrg(r) = ProcOrg(p) /\ pc'[r] # "idle" =>
                          pc'[p] \in {"putFail", "done", "killed"}
  BY DEF RemoversLate
<1>2. pc'[p] = "idle" => pc[p] = "idle" /\ cluster[ProcOrg(p)] = "absent"
  BY <1>1 DEF RemoversLate
<1>3. ASSUME NEW r \in Removers, ProcOrg(r) = ProcOrg(p), pc'[r] # "idle"
      PROVE  pc'[p] # "idle"
  <2>1. CASE r \in Orgs
    BY <1>1, <1>2, <1>3, <2>1 DEF ProcOrg
  <2>2. CASE r \in Dels
    BY <1>1, <1>2, <1>3, <2>2 DEF RemoversLate
  <2>. QED BY <2>1, <2>2 DEF Removers
<1>. QED BY <1>1, <1>2, <1>3

LEMMA LateRest ==
  ASSUME TypeOK, OneFabrication, RemoversLate, Fault("slow") = FALSE,
         \/ \E i \in Instances : CfTimeout(i) \/ GetLastOperation(i) \/ CheckHealth(i)
         \/ EnvStep
         \/ UNCHANGED vars
  PROVE  RemoversLate'
<1>1. /\ \A q \in Puts \cup Removers : pc'[q] = pc[q]
      /\ \A o \in Orgs : cluster[o] = "absent" => cluster'[o] = "absent"
  <2>1. ASSUME NEW i \in Instances, CfTimeout(i) \/ GetLastOperation(i) \/ CheckHealth(i)
        PROVE  cluster' = cluster /\ \A q \in Puts \cup Removers : pc'[q] = pc[q]
    <3>1. cluster' = cluster /\ \A q \in Procs \ {i} : pc'[q] = pc[q]
      BY <2>1, PollSays
    <3>2. \A q \in Puts \cup Removers : q \in Procs \ {i}
      BY PutType, RemoverType, Disjoint, ProcessesDistinct DEF Requests
    <3>. QED BY <3>1, <3>2
  <2>2. CASE EnvStep
    BY <2>2 DEF EnvStep, ClusterReady, BindVolume, ReclaimVolume, GarbageCollect, Age, clusterVars, kubeVars, TypeOK
  <2>3. CASE UNCHANGED vars
    BY <2>3 DEF vars, clusterVars
  <2>. QED BY <2>1, <2>2, <2>3
<1>2. \A p \in Puts : ProcOrg(p) \in Orgs
  BY PutType, ProcOrgType
<1>. QED BY <1>1, <1>2 DEF RemoversLate

LEMMA NoOverlapInvariant ==
  ASSUME OnePut, Exclusive, Fault("slow") = FALSE
  PROVE  Spec => []NoOverlap
<1>1. Init => RemoversLate
  BY PutType, RemoverType, ProcOrgType DEF Init, ClusterInit, RemoversLate
<1>2. TypeOK /\ OneFabrication /\ RemoversLate /\ [Next]_vars => RemoversLate'
  <2>. SUFFICES ASSUME TypeOK, OneFabrication, RemoversLate, [Next]_vars PROVE RemoversLate'
    OBVIOUS
  <2>1. CASE UNCHANGED vars
    BY <2>1, LateRest
  <2>2. CASE Next
    BY <2>2, LatePut, LateDel, LateRemover, LateRest, LateRestart DEF Next
  <2>. QED BY <2>1, <2>2
<1>3. RemoversLate => NoOverlap
  BY DEF RemoversLate, NoOverlap, Passed
<1>. QED BY <1>1, <1>2, <1>3, TypeCorrect, OneFabricationInvariant, PTL DEF Spec

(* With one instance in each organization a cluster comes with the request *)
(* for its instance and a remover starts only after that request is over,  *)
(* so that the broker keeps the life cycle of instances whatever the       *)
(* order of requests and removers.                                         *)
THEOREM AloneKeepsLifecycle ==
  ASSUME OnePut, Exclusive, Guarded, Fault("slow") = FALSE
  PROVE  Spec => KeepsLifecycle
BY NoOverlapInvariant, BrokerKeepsLifecycle, PTL
=============================================================================
