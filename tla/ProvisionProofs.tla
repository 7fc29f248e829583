--------------------------- MODULE ProvisionProofs ---------------------------
(***************************************************************************)
(* Provisioning: what the broker calls a success is one, of several        *)
(* deliveries of a request one succeeds, and a cluster gets its secret.    *)
(***************************************************************************)
EXTENDS DeprovisionProofs

(* What a step of provisioning request p leaves alone, other deliveries of *)
(* the same request included.                                              *)
LEMMA PutLeavesOthers ==
  ASSUME TypeOK, NEW p \in Puts,
         PutMalformed(p) \/ PutStart(p) \/ PutStep(p) \/ PutRespond(p)
  PROVE  /\ \A q \in Puts \ {p} : open'[q] = open[q] /\ wasCreated'[q] = wasCreated[q]
         /\ \A q \in Requests \ {p} : resp'[q] = resp[q]
         /\ \A q \in Procs \ {p} : pc'[q] = pc[q] /\ todo'[q] = todo[q] /\ creds'[q] = creds[q]
<1>. p \in Procs /\ p \in Requests
  BY PutType
<1>1. \A q \in Puts \ {p} : open'[q] = open[q]
  BY DEF PutMalformed, PutStart, PutStep, PutRespond, PutLookup, PutParse, PutFail, PutOk,
     brokerVars, TypeOK
<1>2. \A q \in Puts \ {p} : wasCreated'[q] = wasCreated[q]
  BY DEF PutMalformed, PutStart, PutStep, PutRespond, PutLookup, PutParse, PutFail, PutOk,
     GetOrCreateCluster, IsApiWorking, CheckQuota, PostCluster, CreateSecretForPrivateTapRepo,
     FabricateStart, FabricateService, clusterVars, TypeOK
<1>3. \A q \in Requests \ {p} : resp'[q] = resp[q]
  BY DEF PutMalformed, PutStart, PutStep, PutRespond, PutLookup, PutParse, PutFail, PutOk,
     brokerVars, TypeOK
<1>4. \A q \in Procs \ {p} : pc'[q] = pc[q]
  BY DEF PutMalformed, PutStart, PutStep, PutRespond, PutLookup, PutParse, PutFail, PutOk,
     GetOrCreateCluster, IsApiWorking, CheckQuota, PostCluster, CreateSecretForPrivateTapRepo,
     FabricateStart, FabricateService, Goto, TypeOK
<1>5. \A q \in Procs \ {p} : todo'[q] = todo[q]
  BY DEF PutMalformed, PutStart, PutStep, PutRespond, PutLookup, PutParse, PutFail, PutOk,
     FabricateStart, FabricateService, kubeVars, TypeOK
<1>6. \A q \in Procs \ {p} : creds'[q] = creds[q]
  BY DEF PutMalformed, PutStart, PutStep, PutRespond, PutLookup, PutParse, PutFail, PutOk,
     GetOrCreateCluster, IsApiWorking, CheckQuota, PostCluster, CreateSecretForPrivateTapRepo,
     FabricateStart, FabricateService, TypeOK
<1>. QED BY <1>1, <1>2, <1>3, <1>4, <1>5, <1>6

(* A provisioning request creates at most the object it is at, and only    *)
(* where no object has its name.                                           *)
LEMMA PutCreates ==
  ASSUME TypeOK, NEW p \in Puts,
         PutMalformed(p) \/ PutStart(p) \/ PutStep(p) \/ PutRespond(p)
  PROVE  \/ objs' = objs
         \/ /\ FabricateService(p)
            /\ \E b \in todo[p] : /\ b \notin objs[ProcOrg(p)]
                                  /\ objs' = [objs EXCEPT ![ProcOrg(p)] = @ \cup {b}]
BY DEF PutMalformed, PutStart, PutStep, PutRespond, PutLookup, PutParse, PutFail, PutOk,
   GetOrCreateCluster, IsApiWorking, CheckQuota, PostCluster, CreateSecretForPrivateTapRepo,
   FabricateStart, FabricateService, Store, InCluster, kubeVars

LEMMA PutGrows ==
  ASSUME TypeOK, NEW p \in Puts,
         PutMalformed(p) \/ PutStart(p) \/ PutStep(p) \/ PutRespond(p)
  PROVE  \A o \in Orgs : objs[o] \subseteq objs'[o]
<1>. ProcOrg(p) \in Orgs
  BY PutType, ProcOrgType
<1>1. CASE objs' = objs BY <1>1
<1>2. ASSUME NEW b, objs' = [objs EXCEPT ![ProcOrg(p)] = @ \cup {b}]
      PROVE  \A o \in Orgs : objs[o] \subseteq objs'[o]
  BY <1>2 DEF TypeOK
<1>. QED BY <1>1, <1>2, PutCreates

-----------------------------------------------------------------------------
(* Nothing is ever deleted *)

(* Without deletions and restarts no remover ever starts. *)
LEMMA NoRemover ==
  ASSUME TypeOK, SuccessIsBacked, Dels = {}, MaxRestarts = 0, Next
  PROVE  \/ \E p \in Puts : PutMalformed(p) \/ PutStart(p) \/ PutStep(p) \/ PutRespond(p)
         \/ \E i \in Instances : CfTimeout(i) \/ GetLastOperation(i) \/ CheckHealth(i)
         \/ EnvStep
<1>1. ~Restart
  BY DEF Restart, TypeOK
<1>2. ASSUME NEW p \in Removers, RemoverStep(p)
      PROVE  FALSE
  BY <1>2 DEF SuccessIsBacked, RemoverStep, RcServices, RcDeployments, RemoverRead, RcPurge,
     ListAllClaims, DeleteClaim, ClaimsDeleted, RcVolumes, RcDelete
<1>. QED BY <1>1, <1>2 DEF Next

LEMMA BackedPut ==
  ASSUME TypeOK, SuccessIsBacked, NEW p \in Puts,
         PutMalformed(p) \/ PutStart(p) \/ PutStep(p) \/ PutRespond(p)
  PROVE  SuccessIsBacked'
<1>. /\ p \in Procs /\ p \in Requests /\ InstOf[p] \in Instances /\ InstOf[p] \in Guids
     /\ ProcOrg(p) \in Orgs /\ ProcOrg(p) = OrgOf[InstOf[p]]
  BY PutType, GuidType, ProcOrgType, PutOrg
<1>1. \A i \in Instances : Whole(i) => Whole(i)'
  BY PutGrows, TenancyAssumption DEF Whole
<1>2. \A r \in Removers : pc'[r] = "idle"
  BY PutLeavesOthers, Disjoint, RemoverType DEF SuccessIsBacked
<1>3. ASSUME pc'[p] = "fab"
      PROVE  Blueprint[InstOf[p]] \ todo'[p] \subseteq objs'[ProcOrg(p)]
  <2>1. CASE FabricateStart(p)
    BY <1>3, <2>1 DEF FabricateStart, TypeOK, Goto
  <2>2. CASE FabricateService(p)
    BY <1>3, <2>2 DEF FabricateService, Store, InCluster, SuccessIsBacked, TypeOK, Goto
  <2>3. CASE ~FabricateStart(p) /\ ~FabricateService(p)
    <3>1. pc[p] = "fab" /\ PutRespond(p)
      BY <1>3, <2>3 DEF PutMalformed, PutStart, PutStep, PutLookup, PutParse, PutFail, PutOk,
         GetOrCreateCluster, IsApiWorking, CheckQuota, PostCluster,
         CreateSecretForPrivateTapRepo, PutRespond, Goto, TypeOK
    <3>. QED BY <3>1 DEF PutRespond, kubeVars, SuccessIsBacked
  <2>. QED BY <2>1, <2>2, <2>3
<1>4. ASSUME PutOk(p)
      PROVE  Whole(InstOf[p])
  BY <1>4 DEF PutOk, SuccessIsBacked, Whole
<1>5. ASSUME resp'[p] = "201" \/ (open'[p] /\ pc'[p] = "done" /\ resp'[p] = "none")
      PROVE  Whole(InstOf[p])
  <2>1. CASE PutOk(p) BY <1>4, <2>1
  <2>2. CASE ~PutOk(p)
    <3>. SUFFICES resp[p] = "201" \/ (open[p] /\ pc[p] = "done" /\ resp[p] = "none")
      BY DEF SuccessIsBacked
    <3>1. CASE PutRespond(p) BY <1>5, <3>1 DEF PutRespond, TypeOK
    <3>2. CASE PutFail(p) BY <1>5, <3>2 DEF PutFail, TypeOK
    <3>3. CASE PutMalformed(p) \/ PutStart(p) BY <1>5, <3>3 DEF PutMalformed, PutStart, Goto, TypeOK
    <3>4. CASE PutLookup(p) BY <1>5, <3>4 DEF PutLookup, Goto, TypeOK
    <3>5. CASE PutStep(p) /\ ~PutFail(p) /\ ~PutLookup(p)
      BY <1>5, <2>2, <3>5 DEF PutStep, PutParse, GetOrCreateCluster, IsApiWorking, CheckQuota,
         PostCluster, CreateSecretForPrivateTapRepo, FabricateStart, FabricateService,
         brokerVars, Goto, TypeOK
    <3>. QED BY <3>1, <3>2, <3>3, <3>4, <3>5
  <2>. QED BY <2>1, <2>2
<1>6. ASSUME NEW i \in Instances, state_map'[i] = "KUBERNETES_OK"
      PROVE  Whole(i)
  <2>1. CASE PutOk(p)
    BY <1>4, <1>6, <2>1, GuidType DEF PutOk, ReportProgress, SuccessIsBacked, TypeOK
  <2>2. CASE ~PutOk(p)
    <3>1. state_map'[i] = state_map[i] \/ state_map'[i] \in {"IN_PROGRESS", "FAILED"}
      BY <2>2, GuidType DEF PutMalformed, PutStart, PutStep, PutRespond, PutLookup, PutParse,
         PutFail, FabricateStart, FabricateService, ReportProgress, stateVars, TypeOK
    <3>. QED BY <1>6, <3>1 DEF SuccessIsBacked
  <2>. QED BY <2>1, <2>2
<1>7. ASSUME NEW i \in Instances, cf'[i] = "ready"
      PROVE  Whole(i)
  <2>1. CASE cf[i] = "ready" BY <2>1 DEF SuccessIsBacked
  <2>2. CASE cf[i] # "ready"
    <3>1. i = InstOf[p] /\ PutRespond(p) /\ resp'[p] = "201"
      <4>1. CASE PutRespond(p)
        BY <1>7, <2>2, <4>1 DEF PutRespond, CfAfterPut, TypeOK
      <4>2. CASE ~PutRespond(p)
        BY <1>7, <2>2, <4>2 DEF PutMalformed, PutStart, PutStep, PutLookup, PutParse, PutFail,
           PutOk, CfAfterPut, brokerVars, TypeOK
      <4>. QED BY <4>1, <4>2
    <3>. QED BY <1>5, <3>1
  <2>. QED BY <2>1, <2>2
<1>8. ASSUME NEW i \in Instances, pc'[i] = "pollHealth"
      PROVE  Whole(i)
  <2>1. i # p /\ i \in Procs
    BY ProcessesDistinct DEF Procs, Requests
  <2>. QED BY <1>8, <2>1, PutLeavesOthers DEF SuccessIsBacked
<1>9. ASSUME NEW q \in Puts \ {p}
      PROVE  /\ pc'[q] = "fab" => Blueprint[InstOf[q]] \ todo'[q] \subseteq objs'[OrgOf[InstOf[q]]]
             /\ \/ resp'[q] = "201"
                \/ open'[q] /\ pc'[q] = "done" /\ resp'[q] = "none"
                => Whole(InstOf[q])'
  <2>1. q \in Procs /\ q \in Requests /\ InstOf[q] \in Instances /\ OrgOf[InstOf[q]] \in Orgs
    BY PutType, TenancyAssumption
  <2>2. /\ open'[q] = open[q] /\ resp'[q] = resp[q] /\ pc'[q] = pc[q] /\ todo'[q] = todo[q]
        /\ objs[OrgOf[InstOf[q]]] \subseteq objs'[OrgOf[InstOf[q]]]
    BY <2>1, PutLeavesOthers, PutGrows
  <2>. QED BY <1>1, <2>1, <2>2 DEF SuccessIsBacked
<1>. QED BY <1>1, <1>2, <1>3, <1>5, <1>6, <1>7, <1>8, <1>9 DEF SuccessIsBacked

LEMMA BackedRest ==
  ASSUME TypeOK, SuccessIsBacked,
         \/ \E i \in Instances : CfTimeout(i) \/ GetLastOperation(i) \/ CheckHealth(i)
         \/ EnvStep
  PROVE  SuccessIsBacked'
<1>1. ASSUME NEW i \in Instances, CfTimeout(i) \/ GetLastOperation(i) \/ CheckHealth(i)
      PROVE  SuccessIsBacked'
  <2>. i \in Procs
    BY DEF Procs
  <2>1. UNCHANGED <<objs, todo, state_map, open, resp>>
    BY <1>1 DEF CfTimeout, GetLastOperation, CheckHealth, kubeVars, stateVars
  <2>2. \A q \in Procs \ {i} : pc'[q] = pc[q]
    BY <1>1 DEF CfTimeout, GetLastOperation, CheckHealth, Goto, TypeOK
  <2>3. \A j \in Instances : pc'[j] = "pollHealth" \/ cf'[j] = "ready" => Whole(j)
    <3>1. CASE CfTimeout(i) BY <3>1 DEF CfTimeout, SuccessIsBacked, TypeOK
    <3>2. CASE GetLastOperation(i)
      BY <3>2 DEF GetLastOperation, ReadProgress, SuccessIsBacked, Goto, TypeOK, Procs
    <3>3. CASE CheckHealth(i) BY <3>3 DEF CheckHealth, SuccessIsBacked, Goto, TypeOK, Procs
    <3>. QED BY <1>1, <3>1, <3>2, <3>3
  <2>4. \A r \in Removers : r # i /\ r \in Procs
    BY Disjoint, RemoverType
  <2>5. \A q \in Puts : q # i /\ q \in Procs
    BY PutType, ProcessesDistinct DEF Requests
  <2>. QED BY <2>1, <2>2, <2>3, <2>4, <2>5 DEF SuccessIsBacked, Whole
<1>2. CASE EnvStep
  BY <1>2 DEF EnvStep, ClusterReady, BindVolume, ReclaimVolume, GarbageCollect, Age, brokerVars, kubeVars,
     stateVars, SuccessIsBacked, Whole
<1>. QED BY <1>1, <1>2

LEMMA BackedInvariant ==
  ASSUME Dels = {}, MaxRestarts = 0
  PROVE  Spec => []SuccessIsBacked
<1>1. Init => SuccessIsBacked
  BY PutType, RemoverType, GuidType DEF Init, StateInit, SuccessIsBacked, Procs
<1>2. TypeOK /\ SuccessIsBacked /\ [Next]_vars => SuccessIsBacked'
  <2>. SUFFICES ASSUME TypeOK, SuccessIsBacked, [Next]_vars PROVE SuccessIsBacked'
    OBVIOUS
  <2>1. CASE UNCHANGED vars
    BY <2>1 DEF SuccessIsBacked, Whole, vars, stateVars, kubeVars, brokerVars
  <2>2. CASE Next
    BY <2>2, NoRemover, BackedPut, BackedRest
  <2>. QED BY <2>1, <2>2
<1>. QED BY <1>1, <1>2, TypeCorrect, PTL DEF Spec

(* Where nothing is ever deleted, an instance that Cloud Foundry was told  *)
(* is ready has every object of its blueprint: with any number of tenants  *)
(* and of deliveries of a request, synchronous or not, and with every      *)
(* failure, overdue request and overdue record.                            *)
THEOREM ReadyIsComplete ==
  ASSUME Dels = {}, MaxRestarts = 0
  PROVE  Spec => []SuccessIsComplete
<1>1. SuccessIsBacked => SuccessIsComplete
  BY DEF SuccessIsBacked, SuccessIsComplete, Whole
<1>. QED BY <1>1, BackedInvariant, PTL

-----------------------------------------------------------------------------
(* Deliveries of one request *)

LEMMA MakersPut ==
  ASSUME TypeOK, SuccessIsBacked, MakersDiffer, NEW p \in Puts,
         PutMalformed(p) \/ PutStart(p) \/ PutStep(p) \/ PutRespond(p)
  PROVE  MakersDiffer'
<1>. /\ p \in Procs /\ p \in Requests /\ InstOf[p] \in Instances
     /\ ProcOrg(p) \in Orgs /\ ProcOrg(p) = OrgOf[InstOf[p]]
  BY PutType, ProcOrgType, PutOrg
<1>1. resp[p] = "201" => pc[p] = "done"
  BY DEF MakersDiffer
<1>2. ASSUME resp'[p] = "201"
      PROVE  pc'[p] = "done"
  <2>1. CASE PutRespond(p) BY <1>1, <1>2, <2>1 DEF PutRespond, TypeOK
  <2>2. CASE PutMalformed(p) \/ PutStart(p)
    BY <1>1, <1>2, <2>2 DEF PutMalformed, PutStart, MayPut, Goto, TypeOK
  <2>3. CASE PutLookup(p) \/ PutFail(p) \/ PutOk(p)
    BY <1>1, <1>2, <2>3 DEF PutLookup, PutFail, PutOk, brokerVars, Goto, TypeOK
  <2>4. CASE UNCHANGED brokerVars /\ pc[p] \in PutLabels
    BY <1>1, <1>2, <2>4 DEF brokerVars, PutLabels
  <2>. QED BY <2>1, <2>2, <2>3, <2>4 DEF PutStep, PutParse, GetOrCreateCluster, IsApiWorking,
           CheckQuota, PostCluster, CreateSecretForPrivateTapRepo, FabricateStart,
           FabricateService, PutLabels
<1>3. \A q \in Puts \ {p} :
        /\ Making(q)' <=> Making(q)
        /\ MadeBy(q)' = MadeBy(q)
        /\ pc'[q] = pc[q] /\ resp'[q] = resp[q]
  BY PutLeavesOthers, PutType DEF Making, MadeBy
<1>4. ASSUME NEW q \in Puts, Making(q)
      PROVE  MadeBy(q) \subseteq objs[OrgOf[InstOf[q]]]
  BY <1>4 DEF Making, MadeBy, SuccessIsBacked, MakersDiffer, Whole
<1>5. ASSUME Making(p)'
      PROVE  \/ MadeBy(p)' = {}
             \/ /\ Making(p)
                /\ \A c \in MadeBy(p)' : c \in MadeBy(p) \/ c \notin objs[ProcOrg(p)]
  <2>1. CASE FabricateStart(p) /\ UNCHANGED brokerVars
    BY <1>1, <1>5, <2>1 DEF FabricateStart, Making, MadeBy, Goto, TypeOK, brokerVars
  <2>2. CASE FabricateService(p) /\ UNCHANGED brokerVars
    <3>1. pc[p] = "fab" /\ pc'[p] = "fab"
      BY <1>1, <1>5, <2>2 DEF FabricateService, Making, Goto, TypeOK, brokerVars
    <3>2. PICK b \in todo[p] : b \notin objs[ProcOrg(p)] /\ todo' = [todo EXCEPT ![p] = @ \ {b}]
      BY <2>2, <3>1 DEF FabricateService, Store, InCluster, Goto, TypeOK
    <3>. QED BY <3>1, <3>2 DEF Making, MadeBy, TypeOK
  <2>3. CASE PutOk(p)
    BY <2>3 DEF PutOk, Making, MadeBy, kubeVars, Goto, TypeOK
  <2>4. CASE PutRespond(p)
    BY <1>5, <2>4 DEF PutRespond, Making, MadeBy, kubeVars, TypeOK
  <2>5. CASE PutFail(p)
    BY <1>1, <1>5, <2>5 DEF PutFail, Making, Goto, TypeOK
  <2>6. CASE PutMalformed(p) \/ PutStart(p)
    BY <1>1, <1>5, <2>6 DEF PutMalformed, PutStart, Making, Goto, TypeOK, MayPut
  <2>7. CASE PutLookup(p)
    BY <1>1, <1>5, <2>7 DEF PutLookup, Making, Goto, TypeOK
  <2>8. CASE PutParse(p)
    BY <1>1, <1>5, <2>8 DEF PutParse, Making, Goto, TypeOK, brokerVars
  <2>9. CASE /\ UNCHANGED <<stateVars, kubeVars, brokerVars>>
             /\ GetOrCreateCluster(p) \/ IsApiWorking(p) \/ CheckQuota(p) \/ PostCluster(p)
                  \/ CreateSecretForPrivateTapRepo(p)
    BY <1>1, <1>5, <2>9 DEF GetOrCreateCluster, IsApiWorking, CheckQuota, PostCluster,
       CreateSecretForPrivateTapRepo, Making, Goto, TypeOK, brokerVars
  <2>. QED BY <2>1, <2>2, <2>3, <2>4, <2>5, <2>6, <2>7, <2>8, <2>9 DEF PutStep
<1>6. ASSUME NEW q \in Puts \ {p}, InstOf[q] = InstOf[p], Making(p)', Making(q)'
      PROVE  MadeBy(p)' \cap MadeBy(q)' = {}
  <2>1. Making(q) /\ MadeBy(q)' = MadeBy(q) /\ MadeBy(q) \subseteq objs[ProcOrg(p)]
    BY <1>3, <1>4, <1>6
  <2>2. Making(p) => MadeBy(p) \cap MadeBy(q) = {}
    BY <1>6, <2>1 DEF MakersDiffer
  <2>. QED BY <1>5, <1>6, <2>1, <2>2
<1>7. ASSUME NEW q \in Puts, NEW r \in Puts, q # r, InstOf[q] = InstOf[r], Making(q)', Making(r)'
      PROVE  MadeBy(q)' \cap MadeBy(r)' = {}
  <2>1. CASE q = p BY <1>6, <1>7, <2>1
  <2>2. CASE r = p BY <1>6, <1>7, <2>2
  <2>3. CASE q # p /\ r # p BY <1>3, <1>7, <2>3 DEF MakersDiffer
  <2>. QED BY <2>1, <2>2, <2>3
<1>. QED BY <1>2, <1>3, <1>7 DEF MakersDiffer

(* Where nothing is ever deleted, of all deliveries of one provisioning    *)
(* request at most one is answered with 201.  A plan has objects; that is  *)
(* the only way the broker can tell the deliveries apart.                  *)
THEOREM ProvisionedOnce ==
  ASSUME Dels = {}, MaxRestarts = 0, \A i \in Instances : Blueprint[i] # {}
  PROVE  Spec => []OneProvisioner
<1>1. Init => MakersDiffer
  BY PutType DEF Init, MakersDiffer, Making
<1>2. TypeOK /\ SuccessIsBacked /\ MakersDiffer /\ [Next]_vars => MakersDiffer'
  <2>. SUFFICES ASSUME TypeOK, SuccessIsBacked, MakersDiffer, [Next]_vars PROVE MakersDiffer'
    OBVIOUS
  <2>1. CASE UNCHANGED vars
    BY <2>1 DEF MakersDiffer, Making, MadeBy, vars, kubeVars, brokerVars
  <2>2. ASSUME NEW i \in Instances, CfTimeout(i) \/ GetLastOperation(i) \/ CheckHealth(i)
        PROVE  MakersDiffer'
    <3>1. UNCHANGED <<todo, open, resp>>
      BY <2>2 DEF CfTimeout, GetLastOperation, CheckHealth, kubeVars
    <3>2. \A q \in Puts : q # i /\ q \in Procs
      BY PutType, ProcessesDistinct DEF Requests
    <3>3. \A q \in Puts : pc'[q] = pc[q]
      BY <2>2, <3>2 DEF CfTimeout, GetLastOperation, CheckHealth, Goto, TypeOK
    <3>. QED BY <3>1, <3>3 DEF MakersDiffer, Making, MadeBy
  <2>3. CASE EnvStep
    BY <2>3 DEF EnvStep, ClusterReady, BindVolume, ReclaimVolume, GarbageCollect, Age, brokerVars, kubeVars,
       MakersDiffer, Making, MadeBy
  <2>. QED BY <2>1, <2>2, <2>3, NoRemover, MakersPut
<1>3. MakersDiffer => OneProvisioner
  BY PutType DEF MakersDiffer, OneProvisioner, Making, MadeBy
<1>. QED BY <1>1, <1>2, <1>3, BackedInvariant, TypeCorrect, PTL DEF Spec

-----------------------------------------------------------------------------
(* The secret for the private image repository *)

(* The registered cluster and its secret change only by these steps. *)
LEMMA ClusterChanges ==
  ASSUME TypeOK, Fault("demiurge") = FALSE, MaxRestarts = 0, Next
  PROVE  \/ UNCHANGED <<cluster, gen, repo, wasCreated>>
         \/ \E p \in Puts : PostCluster(p) \/ CreateSecretForPrivateTapRepo(p)
         \/ \E p \in Removers : RcDelete(p)
         \/ \E o \in Orgs : ClusterReady(o)
<1>1. ASSUME NEW p \in Puts, PutMalformed(p) \/ PutStart(p) \/ PutStep(p) \/ PutRespond(p)
      PROVE  \/ UNCHANGED <<cluster, gen, repo, wasCreated>>
             \/ PostCluster(p) \/ CreateSecretForPrivateTapRepo(p)
  BY <1>1 DEF PutMalformed, PutStart, PutStep, PutRespond, PutLookup, PutParse, PutFail, PutOk,
     GetOrCreateCluster, IsApiWorking, CheckQuota, FabricateStart, FabricateService, clusterVars
<1>2. ASSUME NEW i \in Instances, CfTimeout(i) \/ GetLastOperation(i) \/ CheckHealth(i)
      PROVE  UNCHANGED <<cluster, gen, repo, wasCreated>>
  BY <1>2 DEF CfTimeout, GetLastOperation, CheckHealth, clusterVars
<1>3. ASSUME NEW p \in Dels, DelStart(p) \/ DelStep(p)
      PROVE  UNCHANGED <<cluster, gen, repo, wasCreated>>
  BY <1>3 DEF DelStart, DelStep, DelLookup, DelGetCluster, DelObjects, ListByServiceId,
     DeleteByName, DeleteCallFails, DelDone, clusterVars
<1>4. ASSUME NEW p \in Removers, RemoverStep(p)
      PROVE  UNCHANGED <<cluster, gen, repo, wasCreated>> \/ RcDelete(p)
  BY <1>4 DEF RemoverStep, RcServices, RcDeployments, RemoverRead, RcPurge, ListAllClaims,
     DeleteClaim, ClaimsDeleted, RcVolumes, clusterVars
<1>5. CASE EnvStep
  BY <1>5 DEF EnvStep, BindVolume, ReclaimVolume, GarbageCollect, clusterVars
<1>6. ~Restart
  BY DEF Restart, TypeOK
<1>. QED BY <1>1, <1>2, <1>3, <1>4, <1>5, <1>6 DEF Next

(* No step but its own moves a provisioning request. *)
LEMMA PutMovesItself ==
  ASSUME TypeOK, MaxRestarts = 0, Next, NEW p \in Puts, ~PutStep(p), pc[p] # "idle"
  PROVE  pc'[p] = pc[p] /\ creds'[p] = creds[p]
<1>. p \in Procs
  BY PutType
<1>1. ASSUME NEW q \in Puts, PutMalformed(q) \/ PutStart(q) \/ PutStep(q) \/ PutRespond(q)
      PROVE  pc'[p] = pc[p] /\ creds'[p] = creds[p]
  <2>1. CASE q # p BY <1>1, <2>1, PutLeavesOthers
  <2>2. CASE q = p BY <1>1, <2>2 DEF PutMalformed, PutStart, MayPut, PutRespond
  <2>. QED BY <2>1, <2>2
<1>2. ASSUME NEW i \in Instances, CfTimeout(i) \/ GetLastOperation(i) \/ CheckHealth(i)
      PROVE  pc'[p] = pc[p] /\ creds'[p] = creds[p]
  <2>. p # i
    BY ProcessesDistinct DEF Requests
  <2>. QED BY <1>2 DEF CfTimeout, GetLastOperation, CheckHealth, Goto, TypeOK
<1>3. ASSUME NEW d \in Dels, DelStart(d) \/ DelStep(d)
      PROVE  pc'[p] = pc[p] /\ creds'[p] = creds[p]
  <2>. p # d
    BY ProcessesDistinct
  <2>. QED BY <1>3 DEF DelStart, DelStep, DelLookup, DelGetCluster, DelObjects, ListByServiceId,
           DeleteByName, DeleteCallFails, DelDone, NextKind, Goto, TypeOK
<1>4. ASSUME NEW r \in Removers, RemoverStep(r)
      PROVE  pc'[p] = pc[p] /\ creds'[p] = creds[p]
  <2>. p # r
    BY Disjoint
  <2>. QED BY <1>4 DEF RemoverStep, RcServices, RcDeployments, RemoverRead, RcPurge, ListAllClaims,
           DeleteClaim, ClaimsDeleted, RcVolumes, RcDelete, Goto, TypeOK
<1>5. CASE EnvStep
  BY <1>5 DEF EnvStep, ClusterReady, BindVolume, ReclaimVolume, GarbageCollect, Age
<1>6. ~Restart
  BY DEF Restart, TypeOK
<1>. QED BY <1>1, <1>2, <1>3, <1>4, <1>5, <1>6 DEF Next

LEMMA SecretStays ==
  ASSUME TypeOK, Fault("demiurge") = FALSE, Fault("kube") = FALSE, MaxRestarts = 0, Next,
         NEW o \in Orgs, NEW p \in Puts, SecretOnItsWay(o, p),
         cluster[o] # "absent", cluster'[o] # "absent", ~repo'[o]
  PROVE  SecretOnItsWay(o, p)'
<1>. p \in Procs /\ ProcOrg(p) = o
  BY PutType DEF SecretOnItsWay
<1>1. gen'[o] = gen[o] /\ (cluster[o] = "ready" => cluster'[o] = "ready")
  <2>1. ASSUME NEW q \in Puts, PostCluster(q)
        PROVE  gen'[o] = gen[o] /\ cluster'[o] = cluster[o]
    BY <2>1, PutType, ProcOrgType DEF PostCluster, Register, clusterVars, TypeOK
  <2>2. ASSUME NEW q \in Puts, CreateSecretForPrivateTapRepo(q)
        PROVE  gen' = gen /\ cluster' = cluster
    BY <2>2 DEF CreateSecretForPrivateTapRepo
  <2>3. ASSUME NEW r \in Removers, RcDelete(r)
        PROVE  gen' = gen /\ cluster'[o] = cluster[o]
    BY <2>3, RemoverType, ProcOrgType DEF RcDelete, Unregister, TypeOK
  <2>4. ASSUME NEW c \in Orgs, ClusterReady(c)
        PROVE  gen' = gen /\ (cluster[o] = "ready" => cluster'[o] = "ready")
    BY <2>4 DEF ClusterReady, TypeOK
  <2>. QED BY <2>1, <2>2, <2>3, <2>4, ClusterChanges
<1>2. wasCreated'[p]
  <2>1. wasCreated[p]
    BY DEF SecretOnItsWay
  <2>. QED BY <2>1, ClusterChanges DEF PostCluster, CreateSecretForPrivateTapRepo, RcDelete,
           ClusterReady, clusterVars, TypeOK
<1>3. CASE ~PutStep(p)
  BY <1>1, <1>2, <1>3, PutMovesItself DEF SecretOnItsWay
<1>4. CASE PutStep(p)
  <2>1. CASE pc[p] = "goc"
    <3>1. GetOrCreateCluster(p)
      BY <1>4, <2>1 DEF PutStep, PutLookup, PutParse, PutFail, PutOk, IsApiWorking, CheckQuota,
         PostCluster, CreateSecretForPrivateTapRepo, FabricateStart, FabricateService
    <3>2. cluster[o] \in {"creating", "ready"}
      BY DEF TypeOK
    <3>. QED BY <1>2, <3>1, <3>2 DEF GetOrCreateCluster, GetCluster, SecretOnItsWay, clusterVars,
             Goto, TypeOK
  <2>2. CASE pc[p] = "gocApi"
    <3>1. IsApiWorking(p) /\ Reachable(p) /\ wasCreated[p]
      BY <1>4, <2>2 DEF PutStep, PutLookup, PutParse, PutFail, PutOk, GetOrCreateCluster,
         CheckQuota, PostCluster, CreateSecretForPrivateTapRepo, FabricateStart,
         FabricateService, SecretOnItsWay, Reachable
    <3>. QED BY <1>2, <3>1 DEF IsApiWorking, SecretOnItsWay, clusterVars, Goto, TypeOK, Reachable
  <2>3. CASE pc[p] = "gocSecret"
    <3>1. CreateSecretForPrivateTapRepo(p) /\ Reachable(p)
      BY <1>4, <2>3 DEF PutStep, PutLookup, PutParse, PutFail, PutOk, GetOrCreateCluster,
         CheckQuota, PostCluster, IsApiWorking, FabricateStart, FabricateService,
         SecretOnItsWay, Reachable
    <3>2. repo'[o]
      BY <3>1 DEF CreateSecretForPrivateTapRepo, TypeOK
    <3>. QED BY <3>2
  <2>. QED BY <2>1, <2>2, <2>3 DEF SecretOnItsWay
<1>. QED BY <1>3, <1>4

LEMMA SecretBegins ==
  ASSUME TypeOK, Fault("demiurge") = FALSE, MaxRestarts = 0, Next,
         NEW o \in Orgs, cluster[o] = "absent", cluster'[o] # "absent"
  PROVE  \E p \in Puts : SecretOnItsWay(o, p)'
<1>1. PICK p \in Puts : PostCluster(p) /\ Register(ProcOrg(p)) /\ ProcOrg(p) = o
  <2>1. ASSUME NEW q \in Puts, PostCluster(q)
        PROVE  Register(ProcOrg(q)) /\ ProcOrg(q) = o
    BY <2>1, PutType, ProcOrgType DEF PostCluster, Register, clusterVars, TypeOK
  <2>2. ASSUME NEW q \in Puts, CreateSecretForPrivateTapRepo(q)
        PROVE  FALSE
    BY <2>2 DEF CreateSecretForPrivateTapRepo
  <2>3. ASSUME NEW r \in Removers, RcDelete(r)
        PROVE  FALSE
    BY <2>3, RemoverType, ProcOrgType DEF RcDelete, Unregister, TypeOK
  <2>4. ASSUME NEW c \in Orgs, ClusterReady(c)
        PROVE  FALSE
    BY <2>4 DEF ClusterReady, TypeOK
  <2>. QED BY <2>1, <2>2, <2>3, <2>4, ClusterChanges
<1>2. p \in Procs
  BY PutType
<1>3. wasCreated'[p] /\ pc'[p] = "goc"
  BY <1>1, <1>2 DEF PostCluster, Register, Goto, TypeOK
<1>. QED BY <1>1, <1>3 DEF SecretOnItsWay

(* Without failures of Demiurge and of the Kubernetes API and without      *)
(* restarts, a cluster that lacks the secret for the private image         *)
(* repository has a request that is on its way to create it, however the   *)
(* requests for the organization and the removers of its clusters          *)
(* interleave.                                                             *)
THEOREM ClusterGetsSecret ==
  ASSUME Fault("demiurge") = FALSE, Fault("kube") = FALSE, MaxRestarts = 0
  PROVE  Spec => []RepoSecretHasOwner
<1>1. Init => RepoSecretOnItsWay
  BY DEF Init, ClusterInit, RepoSecretOnItsWay
<1>2. TypeOK /\ RepoSecretOnItsWay /\ [Next]_vars => RepoSecretOnItsWay'
  <2>. SUFFICES ASSUME TypeOK, RepoSecretOnItsWay, [Next]_vars PROVE RepoSecretOnItsWay'
    OBVIOUS
  <2>1. CASE UNCHANGED vars
    BY <2>1 DEF RepoSecretOnItsWay, SecretOnItsWay, vars, clusterVars
  <2>2. CASE Next
    <3>. SUFFICES ASSUME NEW o \in Orgs, cluster'[o] # "absent", ~repo'[o]
                  PROVE  \E p \in Puts : SecretOnItsWay(o, p)'
      BY DEF RepoSecretOnItsWay
    <3>1. CASE cluster[o] = "absent"
      BY <2>2, <3>1, SecretBegins
    <3>2. CASE cluster[o] # "absent"
      <4>1. ~repo[o]
        BY <2>2, <3>2, ClusterChanges, PutType, ProcOrgType DEF PostCluster, Register,
           CreateSecretForPrivateTapRepo, RcDelete, ClusterReady, clusterVars, TypeOK
      <4>2. PICK p \in Puts : SecretOnItsWay(o, p)
        BY <3>2, <4>1 DEF RepoSecretOnItsWay
      <4>. QED BY <2>2, <3>2, <4>2, SecretStays
    <3>. QED BY <3>1, <3>2
  <2>. QED BY <2>1, <2>2
<1>3. RepoSecretOnItsWay => RepoSecretHasOwner
  BY DEF RepoSecretOnItsWay, SecretOnItsWay, RepoSecretHasOwner
<1>. QED BY <1>1, <1>2, <1>3, TypeCorrect, PTL DEF Spec
=============================================================================
