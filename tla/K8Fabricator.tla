---------------------------- MODULE K8Fabricator ----------------------------
(***************************************************************************)
(* k8s/k8sfabricator.go: what the broker does inside a cluster.  Every     *)
(* call of the Kubernetes API is a step of its own; a call fails when the  *)
(* credentials no longer open the organization's cluster and, when         *)
(* Fault("kube") is on, at any time.  The API server, its garbage          *)
(* collector and the controller that binds and reclaims volumes are        *)
(* external.                                                               *)
(***************************************************************************)
EXTENDS ClusterConnector, Sequences

VARIABLES
  objs,         \* the broker's objects in the organization's cluster
  terminating,  \* those that are marked for deletion and still there
  pvs,          \* the claims whose volume exists in the cluster
  todo,         \* the objects a goroutine has still to create or to delete
  stage,        \* which kind DeleteAllByServiceId is at, an index of DeleteOrder
  touched       \* history: removers overtaken by a creation they can no longer see

kubeVars == <<objs, terminating, pvs, todo, stage, touched>>

KubeInit ==
  /\ objs = [o \in Orgs |-> {}]
  /\ terminating = [o \in Orgs |-> {}]
  /\ pvs = [o \in Orgs |-> {}]
  /\ todo = [p \in Procs |-> {}]
  /\ stage = [p \in Dels |-> 1]
  /\ touched = {}

(* The names that are taken in a cluster. *)
InCluster(o) == objs[o] \cup terminating[o]

(* The objects of one kind in a cluster: what a List call returns, also of *)
(* the objects that are marked for deletion.                               *)
OfKind(o, k) == {b \in InCluster(o) : b.kind = k}

(* The labels at which a remover has already looked for objects of kind k. *)
Passed(k) ==
  IF k = "service"
  THEN {"rcDeployments", "rcPurgeList", "rcPurge", "rcPurgeErr", "rcVolumes", "rcDelete"}
  ELSE IF k = "deployment"
  THEN {"rcPurgeList", "rcPurge", "rcPurgeErr", "rcVolumes", "rcDelete"}
  ELSE IF k = "pvc"
  THEN {"rcPurge", "rcPurgeErr", "rcVolumes", "rcDelete"}
  ELSE {}

(* Mutant of Store: the object is applied, not created. *)
StoreOrReplace(o, b) ==
  /\ objs' = [objs EXCEPT ![o] = @ \cup {b}]
  /\ UNCHANGED touched

(* The API server stores a new object; its names are unique. *)
Store(o, b) ==
  /\ b \notin InCluster(o)
  /\ objs' = [objs EXCEPT ![o] = @ \cup {b}]
  /\ touched' = touched \cup {r \in Removers : ProcOrg(r) = o /\ pc[r] \in Passed(b.kind)}

(* FabricateService up to its first creation: a client for the cluster and *)
(* the user's extra parameters, which may be malformed.                    *)
FabricateStart(p) ==
  /\ pc[p] = "fabStart"
  /\ \/ /\ todo' = [todo EXCEPT ![p] = Blueprint[InstOf[p]]]
        /\ ReportProgress(InstOf[p], "IN_PROGRESS")
        /\ Goto(p, "fab")
     \/ /\ Fault("input")
        /\ Goto(p, "putFail")
        /\ UNCHANGED <<todo, stateVars>>
  /\ UNCHANGED <<creds, clusterVars, objs, terminating, pvs, stage, touched>>

(* The object FabricateService creates next: kind by kind, and each kind   *)
(* in the order of the blueprint.                                          *)
IsNext(b, S) ==
  /\ b \in S
  /\ \A c \in S : \/ CreateRank[b.kind] < CreateRank[c.kind]
                  \/ CreateRank[b.kind] = CreateRank[c.kind] /\ b.idx <= c.idx

(* One creation.  It fails on an existing name, on an unreachable cluster, *)
(* or because the answer to it was lost after it took effect.              *)
FabricateService(p) ==
  LET o == ProcOrg(p) IN
  /\ pc[p] = "fab"
  /\ \E b \in todo[p] :
       /\ IsNext(b, todo[p])
       /\ \/ /\ Reachable(p)
             /\ Store(o, b)
             /\ todo' = [todo EXCEPT ![p] = @ \ {b}]
             /\ ReportProgress(InstOf[p], "IN_PROGRESS")
             /\ UNCHANGED pc
          \/ /\ \/ ~Reachable(p) /\ UNCHANGED <<objs, touched>>
                \/ b \in InCluster(o) /\ UNCHANGED <<objs, touched>>
                \/ Fault("kube") /\ UNCHANGED <<objs, touched>>
                \/ Fault("kube") /\ Reachable(p) /\ Store(o, b)
             /\ ReportProgress(InstOf[p], "FAILED")
             /\ Goto(p, "putFail")
             /\ UNCHANGED todo
  /\ UNCHANGED <<creds, clusterVars, terminating, pvs, stage>>

(* Mutant of NextKind: the sweep does not end. *)
NextKindForever(p) ==
  stage' = [stage EXCEPT ![p] = @ + 1] /\ Goto(p, "delList")

(* The kind DeleteAllByServiceId is at is done: go on with the next one. *)
NextKind(p) ==
  IF stage[p] < Len(DeleteOrder)
  THEN stage' = [stage EXCEPT ![p] = @ + 1] /\ Goto(p, "delList")
  ELSE UNCHANGED stage /\ Goto(p, "delDone")

(* Mutant of FindByServiceId: all that is managed by TAP is listed. *)
FindManagedByTap(p, k) == OfKind(ProcOrg(p), k)

(* The objects of a kind with the label of the instance. *)
FindByServiceId(p, k) == {b \in OfKind(ProcOrg(p), k) : b.inst = InstOf[p]}

(* DeleteAllByServiceId, the List call for one kind; an empty list is done. *)
ListByServiceId(p) ==
  LET found == FindByServiceId(p, DeleteOrder[stage[p]]) IN
  /\ pc[p] = "delList"
  /\ Reachable(p)
  /\ todo' = [todo EXCEPT ![p] = found]
  /\ IF found = {} THEN NextKind(p) ELSE Goto(p, "delItem") /\ UNCHANGED stage
  /\ UNCHANGED <<creds, stateVars, clusterVars, objs, terminating, pvs, touched>>

(* The kinds that are deleted with DeletePropagationForeground. *)
Foreground == {"statefulset", "deployment"}

(* The API server deletes an object: at once, or in the foreground, where  *)
(* it is only marked and stays until all that it owns is gone.  A second   *)
(* deletion of such an object changes nothing.                             *)
Discard(o, b) ==
  /\ objs' = [objs EXCEPT ![o] = @ \ {b}]
  /\ terminating' = [terminating EXCEPT
       ![o] = @ \cup {c \in objs[o] : c = b /\ c.kind \in Foreground}]

(* DeleteAllByServiceId, the deletion of one listed object. *)
DeleteByName(p) ==
  LET o == ProcOrg(p) IN
  /\ pc[p] = "delItem"
  /\ Reachable(p)
  /\ \E b \in todo[p] \cap InCluster(o) :
       /\ Discard(o, b)
       /\ todo' = [todo EXCEPT ![p] = @ \ {b}]
       /\ IF todo[p] = {b} THEN NextKind(p) ELSE UNCHANGED <<pc, stage>>
  /\ UNCHANGED <<creds, stateVars, clusterVars, pvs, touched>>

(* A call of DeleteAllByServiceId fails: the listed object is gone, the    *)
(* cluster is unreachable, or the API server fails, before or after it     *)
(* did the work.  The function returns; what is left, is left.             *)
DeleteCallFails(p) ==
  LET o == ProcOrg(p) IN
  /\ pc[p] \in {"delList", "delItem"}
  /\ \/ /\ \/ ~Reachable(p)
           \/ Fault("kube")
           \/ pc[p] = "delItem" /\ \E b \in todo[p] : b \notin InCluster(o)
        /\ UNCHANGED <<objs, terminating>>
     \/ /\ pc[p] = "delItem" /\ Fault("kube") /\ Reachable(p)
        /\ \E b \in todo[p] : Discard(o, b)
  /\ todo' = [todo EXCEPT ![p] = {}]
  /\ Goto(p, "done")
  /\ UNCHANGED <<creds, stateVars, clusterVars, pvs, stage, touched>>

(* DeleteAllPersistentVolumeClaims: every claim in the namespace, whoever  *)
(* owns it, is listed ...                                                  *)
ListAllClaims(p) ==
  /\ pc[p] = "rcPurgeList"
  /\ Reachable(p)
  /\ todo' = [todo EXCEPT ![p] = OfKind(ProcOrg(p), "pvc")]
  /\ Goto(p, "rcPurge")
  /\ UNCHANGED <<creds, stateVars, clusterVars, objs, terminating, pvs, stage, touched>>

(* ... and deleted; an error is remembered and the loop goes on ... *)
DeleteClaim(p) ==
  LET o == ProcOrg(p) IN
  /\ pc[p] \in {"rcPurge", "rcPurgeErr"}
  /\ \E b \in todo[p] :
       /\ todo' = [todo EXCEPT ![p] = @ \ {b}]
       /\ \/ /\ Reachable(p) /\ b \in objs[o]
             /\ objs' = [objs EXCEPT ![o] = @ \ {b}]
             /\ UNCHANGED pc
          \/ /\ ~Reachable(p) \/ b \notin objs[o] \/ Fault("kube")
             /\ Goto(p, "rcPurgeErr")
             /\ UNCHANGED objs
          \/ /\ Fault("kube") /\ Reachable(p)
             /\ objs' = [objs EXCEPT ![o] = @ \ {b}]
             /\ Goto(p, "rcPurgeErr")
  /\ UNCHANGED <<creds, stateVars, clusterVars, terminating, pvs, stage, touched>>

(* ... until the list is done: without any error the remover goes on. *)
ClaimsDeleted(p) ==
  /\ pc[p] \in {"rcPurge", "rcPurgeErr"}
  /\ todo[p] = {}
  /\ Goto(p, IF pc[p] = "rcPurge" THEN "rcVolumes" ELSE "rcStopped")
  /\ UNCHANGED <<creds, stateVars, clusterVars, kubeVars>>

(* The volume controller provides a volume for a claim ... *)
BindVolume(o) ==
  /\ cluster[o] = "ready"
  /\ \E b \in OfKind(o, "pvc") \ pvs[o] : pvs' = [pvs EXCEPT ![o] = @ \cup {b}]
  /\ UNCHANGED <<pc, creds, stateVars, clusterVars, objs, terminating, todo, stage, touched>>

(* ... and removes it some time after the claim is gone. *)
ReclaimVolume(o) ==
  /\ \E b \in pvs[o] \ objs[o] : pvs' = [pvs EXCEPT ![o] = @ \ {b}]
  /\ UNCHANGED <<pc, creds, stateVars, clusterVars, objs, terminating, todo, stage, touched>>

(* The pods of an object that is marked for deletion are gone, and so is   *)
(* the object.                                                             *)
GarbageCollect(o) ==
  /\ \E b \in terminating[o] : terminating' = [terminating EXCEPT ![o] = @ \ {b}]
  /\ UNCHANGED <<pc, creds, stateVars, clusterVars, objs, pvs, todo, stage, touched>>
=============================================================================
