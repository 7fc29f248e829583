------------------------------ MODULE TapBroker ------------------------------
(***************************************************************************)
(* app/tap: the service broker.  Cloud Foundry provisions, polls and       *)
(* deprovisions service instances; the broker creates their objects in     *)
(* the cluster of their organization, and removes a cluster that is no     *)
(* longer used.  Cloud Foundry is external: cf is its view of an instance. *)
(*                                                                         *)
(* The broker is a set of goroutines over shared maps and a remote API.    *)
(* Nothing but state_map is locked, and no goroutine knows of another.     *)
(***************************************************************************)
EXTENDS K8Fabricator

VARIABLES
  cf,        \* what Cloud Foundry believes of an instance
  resp,      \* the status code a request's handler has written
  open,      \* the handler of a provisioning request has not returned yet
  restarts   \* how often the broker was restarted

brokerVars == <<cf, resp, open, restarts>>

vars == <<pc, creds, stateVars, clusterVars, kubeVars, brokerVars>>

CfStates == {"none", "creating", "polling", "ready", "failed", "deleting", "deleted"}

Statuses == {"none", "200", "201", "202", "410", "500"}

Init ==
  /\ pc = [p \in Procs |-> "idle"]
  /\ creds = [p \in Procs |-> 0]
  /\ StateInit
  /\ ClusterInit
  /\ KubeInit
  /\ cf = [i \in Instances |-> "none"]
  /\ resp = [p \in Requests |-> "none"]
  /\ open = [p \in Puts |-> FALSE]
  /\ restarts = 0

-----------------------------------------------------------------------------
(* ServiceInstancesPut *)

(* Cloud Foundry takes the answer to a provisioning request; the answer to *)
(* a duplicate, or one that comes after it gave up, is dropped.            *)
CfAfterPut(i, status) ==
  IF cf[i] # "creating" THEN cf
  ELSE [cf EXCEPT ![i] = IF status = "201" THEN "ready"
                         ELSE IF status = "202" THEN "polling" ELSE "failed"]

(* Cloud Foundry requests an instance; the request may be duplicated. *)
MayPut(p) == pc[p] = "idle" /\ cf[InstOf[p]] \in {"none", "creating", "polling"}

(* The body of the request does not parse. *)
PutMalformed(p) ==
  /\ MayPut(p)
  /\ Fault("input")
  /\ ReportProgress(UnparsedGuid, "FAILED")
  /\ resp' = [resp EXCEPT ![p] = "500"]
  /\ cf' = [cf EXCEPT ![InstOf[p]] = IF @ \in {"none", "creating"} THEN "failed" ELSE @]
  /\ Goto(p, "done")
  /\ UNCHANGED <<creds, clusterVars, kubeVars, open, restarts>>

PutStart(p) ==
  /\ MayPut(p)
  /\ ReportProgress(InstOf[p], "IN_PROGRESS")
  /\ cf' = [cf EXCEPT ![InstOf[p]] = IF @ = "none" THEN "creating" ELSE @]
  /\ open' = [open EXCEPT ![p] = TRUE]
  /\ Goto(p, "putLookup")
  /\ UNCHANGED <<creds, clusterVars, kubeVars, resp, restarts>>

(* The outcomes of WhatToCreateByServiceAndPlanId: the service and the     *)
(* plan are in the catalog, or one of them is not.                         *)
WhatToCreate == {"found"} \cup (IF Fault("input") THEN {"error"} ELSE {})

(* The catalog is asked for the service and the plan.  Once they are found *)
(* the fabrication function starts.                                        *)
PutLookup(p) ==
  /\ pc[p] = "putLookup"
  /\ \/ /\ "found" \in WhatToCreate
        /\ ReportProgress(InstOf[p], "IN_PROGRESS")
        /\ Goto(p, "putParse")
        /\ UNCHANGED <<resp, open, cf>>
     \/ /\ "error" \in WhatToCreate
        /\ ReportProgress(InstOf[p], "FAILED")
        /\ resp' = [resp EXCEPT ![p] = "500"]
        /\ open' = [open EXCEPT ![p] = FALSE]
        /\ cf' = CfAfterPut(InstOf[p], "500")
        /\ Goto(p, "done")
  /\ UNCHANGED <<creds, clusterVars, kubeVars, restarts>>

(* The outcomes of GetParsedKubernetesComponentByServiceAndPlan: every     *)
(* file of the plan is read, its parameters are filled in and it is        *)
(* parsed, or one of these fails.                                          *)
GetParsedKubernetesComponent == {"parsed"} \cup (IF Fault("input") THEN {"error"} ELSE {})

(* The fabrication function reads the blueprint of the plan. *)
PutParse(p) ==
  /\ pc[p] = "putParse"
  /\ ReportProgress(InstOf[p], "IN_PROGRESS")
  /\ \/ "parsed" \in GetParsedKubernetesComponent /\ Goto(p, "goc")
     \/ "error" \in GetParsedKubernetesComponent /\ Goto(p, "putFail")
  /\ UNCHANGED <<creds, clusterVars, kubeVars, brokerVars>>

(* The fabrication function reports an error.  The first header that is    *)
(* written to a response stays; a response that is closed is not changed.  *)
PutFail(p) ==
  /\ pc[p] = "putFail"
  /\ ReportProgress(InstOf[p], "FAILED")
  /\ resp' = [resp EXCEPT ![p] = IF open[p] /\ @ = "none" THEN "500" ELSE @]
  /\ Goto(p, "done")
  /\ UNCHANGED <<creds, clusterVars, kubeVars, cf, open, restarts>>

(* Mutant of PutOk: an API error ends the creation without an error. *)
PutOkEarly(p) ==
  /\ pc[p] = "fab"
  /\ ReportProgress(InstOf[p], "KUBERNETES_OK")
  /\ Goto(p, "done")
  /\ UNCHANGED <<creds, clusterVars, kubeVars, brokerVars>>

(* Every object of the blueprint is created. *)
PutOk(p) ==
  /\ pc[p] = "fab"
  /\ todo[p] = {}
  /\ ReportProgress(InstOf[p], "KUBERNETES_OK")
  /\ Goto(p, "done")
  /\ UNCHANGED <<creds, clusterVars, kubeVars, brokerVars>>

(* Mutant of PutRespond: the answer overwrites an earlier one. *)
PutRespondLastWins(p) ==
  LET status == IF Async THEN "202" ELSE "201" IN
  /\ open[p]
  /\ IF Async THEN pc[p] # "putLookup" ELSE pc[p] = "done"
  /\ resp' = [resp EXCEPT ![p] = status]
  /\ open' = [open EXCEPT ![p] = FALSE]
  /\ cf' = CfAfterPut(InstOf[p], status)
  /\ UNCHANGED <<pc, creds, stateVars, clusterVars, kubeVars, restarts>>

(* The handler answers and returns: with 202 as soon as the fabrication    *)
(* function was started as a goroutine, with 201 after it ran.             *)
PutRespond(p) ==
  LET status == IF resp[p] # "none" THEN resp[p] ELSE IF Async THEN "202" ELSE "201" IN
  /\ open[p]
  /\ IF Async THEN pc[p] # "putLookup" ELSE pc[p] = "done"
  /\ resp' = [resp EXCEPT ![p] = status]
  /\ open' = [open EXCEPT ![p] = FALSE]
  /\ cf' = CfAfterPut(InstOf[p], status)
  /\ UNCHANGED <<pc, creds, stateVars, clusterVars, kubeVars, restarts>>

(* Cloud Foundry gives up on a request that is not answered in time. *)
CfTimeout(i) ==
  /\ Fault("slow")
  /\ cf[i] = "creating"
  /\ cf' = [cf EXCEPT ![i] = "failed"]
  /\ UNCHANGED <<pc, creds, stateVars, clusterVars, kubeVars, resp, open, restarts>>

-----------------------------------------------------------------------------
(* ServiceInstancesGetLastOperation *)

(* Cloud Foundry polls and the record of the instance is read.  A failed,  *)
(* an overdue and a missing record all fail the operation; an operation in *)
(* progress is polled again.                                               *)
GetLastOperation(i) ==
  /\ cf[i] = "polling"
  /\ pc[i] = "idle"
  /\ \/ /\ ~HasProgressRecords(i) \/ ReadProgress(i) \in {"failed", "too long"}
        /\ cf' = [cf EXCEPT ![i] = "failed"]
        /\ UNCHANGED pc
     \/ /\ HasProgressRecords(i) /\ ReadProgress(i) = "created"
        /\ Goto(i, "pollHealth")
        /\ UNCHANGED cf
  /\ UNCHANGED <<creds, stateVars, clusterVars, kubeVars, resp, open, restarts>>

(* The cluster is fetched and the pods of the instance are examined; their *)
(* health is up to Kubernetes.                                             *)
CheckHealth(i) ==
  /\ pc[i] = "pollHealth"
  /\ \/ /\ "200" \in GetCluster(OrgOf[i])
        /\ cf' = [cf EXCEPT ![i] = "ready"]
     \/ UNCHANGED cf
  /\ Goto(i, "idle")
  /\ UNCHANGED <<creds, stateVars, clusterVars, kubeVars, resp, open, restarts>>

-----------------------------------------------------------------------------
(* ServiceInstancesDelete *)

(* The handler writes its answer and Cloud Foundry takes it. *)
DelAnswer(p, status) ==
  /\ resp' = [resp EXCEPT ![p] = status]
  /\ cf' = [cf EXCEPT ![InstOf[p]] = IF status = "500" THEN "failed" ELSE "deleted"]
  /\ UNCHANGED <<open, restarts>>

(* Cloud Foundry deletes an instance that has no operation in progress,    *)
(* also one whose creation failed.                                         *)
DelStart(p) ==
  /\ pc[p] = "idle"
  /\ cf[InstOf[p]] \in {"ready", "failed"}
  /\ cf' = [cf EXCEPT ![InstOf[p]] = "deleting"]
  /\ Goto(p, "delLookup")
  /\ UNCHANGED <<creds, stateVars, clusterVars, kubeVars, resp, open, restarts>>

(* The organization of the instance is looked up in Cloud Foundry. *)
DelLookup(p) ==
  /\ pc[p] = "delLookup"
  /\ \/ Goto(p, "delGet") /\ UNCHANGED brokerVars
     \/ Fault("cf") /\ Goto(p, "done") /\ DelAnswer(p, "500")
  /\ UNCHANGED <<creds, stateVars, clusterVars, kubeVars>>

(* Whatever GetCluster answers but 200, the instance is said to be gone. *)
DelGetCluster(p) ==
  /\ pc[p] = "delGet"
  /\ \E status \in GetCluster(ProcOrg(p)) :
       \/ /\ status = "200"
          /\ creds' = [creds EXCEPT ![p] = gen[ProcOrg(p)]]
          /\ Goto(p, "delList")
          /\ UNCHANGED brokerVars
       \/ /\ status = "garbled"
          /\ Goto(p, "done") /\ DelAnswer(p, "500")
          /\ UNCHANGED creds
       \/ /\ status \notin {"200", "garbled"}
          /\ Goto(p, "done") /\ DelAnswer(p, "410")
          /\ UNCHANGED creds
  /\ UNCHANGED <<stateVars, clusterVars, kubeVars>>

DelObjects(p) ==
  \/ (ListByServiceId(p) \/ DeleteByName(p)) /\ UNCHANGED brokerVars
  \/ DeleteCallFails(p) /\ DelAnswer(p, "500")

(* The instance is deleted: removeCluster starts and the handler answers. *)
DelDone(p) ==
  /\ pc[p] = "delDone"
  /\ DelAnswer(p, "200")
  /\ Goto(p, "rcServices")
  /\ UNCHANGED <<creds, stateVars, clusterVars, kubeVars>>

-----------------------------------------------------------------------------
(* removeCluster, started by a deletion or by the start of the broker *)

(* A remover reads something of the cluster and goes on or gives up. *)
RemoverRead(p, from, clear, to) ==
  /\ pc[p] = from
  /\ \/ Reachable(p) /\ clear /\ Goto(p, to)
     \/ (~Reachable(p) \/ ~clear \/ Fault("kube")) /\ Goto(p, "rcStopped")
  /\ UNCHANGED <<creds, stateVars, clusterVars, kubeVars, brokerVars>>

(* If there are services the list of deployments is still read, but        *)
(* whatever it holds the remover stops.                                    *)
RcServices(p) ==
  RemoverRead(p, "rcServices", OfKind(ProcOrg(p), "service") = {}, "rcDeployments")

(* Mutant of RcDeployments: the deployments are not looked at. *)
RcDeploymentsIgnored(p) == RemoverRead(p, "rcDeployments", TRUE, "rcPurgeList")

RcDeployments(p) ==
  RemoverRead(p, "rcDeployments", OfKind(ProcOrg(p), "deployment") = {}, "rcPurgeList")

RcPurge(p) ==
  \/ (ListAllClaims(p) \/ DeleteClaim(p) \/ ClaimsDeleted(p)) /\ UNCHANGED brokerVars
  \/ /\ pc[p] = "rcPurgeList"
     /\ ~Reachable(p) \/ Fault("kube")
     /\ Goto(p, "rcStopped")
     /\ UNCHANGED <<creds, stateVars, clusterVars, kubeVars, brokerVars>>

(* Mutant of RcVolumes: a remover that finds volumes gives up. *)
RcVolumesOnce(p) ==
  RemoverRead(p, "rcVolumes", pvs[ProcOrg(p)] = {}, "rcDelete")

(* While there are volumes the remover sleeps and starts over. *)
RcVolumes(p) ==
  /\ pc[p] = "rcVolumes"
  /\ \/ /\ Reachable(p) /\ pvs[ProcOrg(p)] = {}
        /\ Goto(p, "rcDelete")
        /\ UNCHANGED touched
     \/ /\ Reachable(p) /\ pvs[ProcOrg(p)] # {}
        /\ Goto(p, "rcServices")
        /\ touched' = touched \ {p}
     \/ /\ ~Reachable(p) \/ Fault("kube")
        /\ Goto(p, "rcStopped")
        /\ UNCHANGED touched
  /\ UNCHANGED <<creds, stateVars, clusterVars, objs, terminating, pvs, todo, stage, brokerVars>>

(* Demiurge removes the organization's cluster with all that is in it. *)
Unregister(o) ==
  /\ cluster' = [cluster EXCEPT ![o] = "absent"]
  /\ objs' = [objs EXCEPT ![o] = {}]
  /\ terminating' = [terminating EXCEPT ![o] = {}]
  /\ pvs' = [pvs EXCEPT ![o] = {}]

(* DeleteCluster names the organization, not the cluster that was          *)
(* examined.  Any answer of Demiurge counts as success, only a request     *)
(* without an answer is an error, whether or not Demiurge saw it.          *)
RcDelete(p) ==
  /\ pc[p] = "rcDelete"
  /\ \/ Unregister(ProcOrg(p)) /\ Goto(p, "rcRemoved")
     \/ /\ Fault("demiurge")
        /\ UNCHANGED <<cluster, objs, terminating, pvs>>
        /\ Goto(p, "rcRemoved")
     \/ /\ Fault("demiurge")
        /\ Unregister(ProcOrg(p)) \/ UNCHANGED <<cluster, objs, terminating, pvs>>
        /\ Goto(p, "rcStopped")
  /\ UNCHANGED <<creds, stateVars, gen, repo, wasCreated, todo, stage, touched, brokerVars>>

-----------------------------------------------------------------------------
(* The broker stops and starts again.  All goroutines and state_map are    *)
(* lost, pending requests fail; removeNotUsedClusters starts a remover for *)
(* every cluster that Demiurge lists.                                      *)
Restart ==
  LET listed == {o \in Orgs : cluster[o] # "absent"} IN
  /\ restarts < MaxRestarts
  /\ restarts' = restarts + 1
  /\ \E started \in {listed} \cup (IF Fault("demiurge") THEN {{}} ELSE {}) :
       /\ pc' = [p \in Procs |->
                   IF p \in Orgs THEN IF p \in started THEN "rcServices" ELSE "idle"
                   ELSE IF p \in Instances THEN "idle"
                   ELSE IF pc[p] \in {"idle"} \cup FinalLabels THEN pc[p] ELSE "killed"]
       /\ creds' = [p \in Procs |->
                      IF p \in started /\ cluster[p] = "ready" THEN gen[p] ELSE 0]
  /\ StateReset
  /\ wasCreated' = [p \in Puts |-> FALSE]
  /\ todo' = [p \in Procs |-> {}]
  /\ stage' = [p \in Dels |-> 1]
  /\ touched' = {}
  /\ resp' = [p \in Requests |-> IF p \in Puts /\ open[p] THEN "none" ELSE resp[p]]
  /\ open' = [p \in Puts |-> FALSE]
  /\ cf' = [i \in Instances |-> IF cf[i] \in {"creating", "deleting"} THEN "failed" ELSE cf[i]]
  /\ UNCHANGED <<cluster, gen, repo, objs, terminating, pvs>>

-----------------------------------------------------------------------------
(* The steps of a provisioning request that the broker takes by itself. *)
PutStep(p) ==
  \/ PutLookup(p) \/ PutParse(p) \/ PutFail(p) \/ PutOk(p)
  \/ (GetOrCreateCluster(p) \/ IsApiWorking(p) \/ CheckQuota(p) \/ PostCluster(p)
        \/ CreateSecretForPrivateTapRepo(p)) /\ UNCHANGED <<stateVars, kubeVars, brokerVars>>
  \/ (FabricateStart(p) \/ FabricateService(p)) /\ UNCHANGED brokerVars

DelStep(p) == DelLookup(p) \/ DelGetCluster(p) \/ DelObjects(p) \/ DelDone(p)

RemoverStep(p) ==
  RcServices(p) \/ RcDeployments(p) \/ RcPurge(p) \/ RcVolumes(p) \/ RcDelete(p)

(* The environment: Demiurge, the controllers of the clusters, time. *)
EnvStep ==
  \/ \E o \in Orgs : ClusterReady(o) /\ UNCHANGED <<stateVars, kubeVars, brokerVars>>
  \/ \E o \in Orgs : (BindVolume(o) \/ ReclaimVolume(o) \/ GarbageCollect(o)) /\ UNCHANGED brokerVars
  \/ \E g \in Guids : Age(g) /\ UNCHANGED <<pc, creds, clusterVars, kubeVars, brokerVars>>

Next ==
  \/ \E p \in Puts : PutMalformed(p) \/ PutStart(p) \/ PutStep(p) \/ PutRespond(p)
  \/ \E i \in Instances : CfTimeout(i) \/ GetLastOperation(i) \/ CheckHealth(i)
  \/ \E p \in Dels : DelStart(p) \/ DelStep(p)
  \/ \E p \in Removers : RemoverStep(p)
  \/ EnvStep
  \/ Restart

Spec == Init /\ [][Next]_vars

(* Goroutines keep running, Demiurge finishes the clusters it creates, and *)
(* the controllers of a cluster reclaim volumes and collect what is marked *)
(* for deletion.                                                           *)
Fairness ==
  /\ \A p \in Puts : WF_vars(PutStep(p)) /\ WF_vars(PutRespond(p))
  /\ \A p \in Dels : WF_vars(DelStep(p))
  /\ \A p \in Removers : WF_vars(RemoverStep(p))
  /\ \A o \in Orgs :
       /\ WF_vars(ClusterReady(o) /\ UNCHANGED <<stateVars, kubeVars, brokerVars>>)
       /\ WF_vars(ReclaimVolume(o) /\ UNCHANGED brokerVars)
       /\ WF_vars(GarbageCollect(o) /\ UNCHANGED brokerVars)

FairSpec == Spec /\ Fairness
=============================================================================
