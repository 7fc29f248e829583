--------------------------- MODULE TapBrokerProps ---------------------------
(***************************************************************************)
(* What the TAP broker promises, over the specification in TapBroker.      *)
(***************************************************************************)
EXTENDS TapBroker

AllObjs == UNION {Blueprint[i] : i \in Instances}

(* The objects that stay for a while after they are deleted. *)
Terminable == {b \in AllObjs : b.kind \in Foreground}

(* The objects of instance i that exist and are not marked for deletion. *)
ObjsOf(i) == {b \in objs[OrgOf[i]] : b.inst = i}

(* Type correctness of the whole state. *)
TypeOK ==
  /\ pc \in [Procs -> Labels]
  /\ creds \in [Procs -> Nat]
  /\ state_map \in [Guids -> ProgressStates]
  /\ stale \in [Guids -> BOOLEAN]
  /\ cluster \in [Orgs -> {"absent", "creating", "ready"}]
  /\ gen \in [Orgs -> Nat]
  /\ repo \in [Orgs -> BOOLEAN]
  /\ wasCreated \in [Puts -> BOOLEAN]
  /\ objs \in [Orgs -> SUBSET AllObjs]
  /\ terminating \in [Orgs -> SUBSET Terminable]
  /\ pvs \in [Orgs -> SUBSET AllObjs]
  /\ todo \in [Procs -> SUBSET AllObjs]
  /\ stage \in [Dels -> 1..Len(DeleteOrder)]
  /\ touched \in SUBSET Removers
  /\ cf \in [Instances -> CfStates]
  /\ resp \in [Requests -> Statuses]
  /\ open \in [Puts -> BOOLEAN]
  /\ restarts \in Nat

(* Where nothing is ever deleted, or nothing is created in a cluster that  *)
(* a remover is taking down, an instance that Cloud Foundry was told is    *)
(* ready (201, or a successful last_operation) has every object of its     *)
(* blueprint, whatever creations failed and however requests interleave.   *)
SuccessIsComplete ==
  \A i \in Instances : cf[i] = "ready" => Blueprint[i] \subseteq objs[OrgOf[i]]

(* Of several deliveries of one provisioning request at most one creates   *)
(* the instance: the others run into the names it has taken and fail, so   *)
(* at most one of them is answered with 201.                               *)
OneProvisioner ==
  \A p, q \in Puts : p # q /\ InstOf[p] = InstOf[q] => ~(resp[p] = "201" /\ resp[q] = "201")

(* Every object of the instance's blueprint exists. *)
Whole(i) == Blueprint[i] \subseteq objs[OrgOf[i]]

(* What makes it inductive: no goroutine removes anything; a fabrication   *)
(* has made what is no longer on its list; and all that the broker says of *)
(* success (the record, a health check in flight, a handler that is about  *)
(* to answer 201, the answer, Cloud Foundry's view) is of an instance that *)
(* is whole.                                                               *)
SuccessIsBacked ==
  /\ \A r \in Removers : pc[r] = "idle"
  /\ \A p \in Puts :
       /\ pc[p] = "fab" => Blueprint[InstOf[p]] \ todo[p] \subseteq objs[OrgOf[InstOf[p]]]
       /\ \/ resp[p] = "201"
          \/ open[p] /\ pc[p] = "done" /\ resp[p] = "none"
          => Whole(InstOf[p])
  /\ \A i \in Instances :
       state_map[i] = "KUBERNETES_OK" \/ pc[i] = "pollHealth" \/ cf[i] = "ready" => Whole(i)

(* A delivery of a request that may be, or was, answered with 201, and the *)
(* objects it has created.                                                 *)
Making(p) ==
  pc[p] = "fab" \/ resp[p] = "201" \/ (open[p] /\ pc[p] = "done" /\ resp[p] = "none")

MadeBy(p) == IF pc[p] = "fab" THEN Blueprint[InstOf[p]] \ todo[p] ELSE Blueprint[InstOf[p]]

(* What makes OneProvisioner inductive: no object is created by two        *)
(* deliveries of one request.                                              *)
MakersDiffer ==
  /\ \A p \in Puts : resp[p] = "201" => pc[p] = "done"
  /\ \A p, q \in Puts :
       p # q /\ InstOf[p] = InstOf[q] /\ Making(p) /\ Making(q) => MadeBy(p) \cap MadeBy(q) = {}

(* Once Cloud Foundry takes an instance for failed, or deletes it, no      *)
(* fabrication function is still creating its objects.                     *)
FailedMeansStopped ==
  \A p \in Puts :
    cf[InstOf[p]] \in {"failed", "deleting", "deleted"} =>
      pc[p] \in {"idle", "putFail"} \cup FinalLabels

(* The labels at which a fabrication function may still create objects. *)
Fabricating == PutLabels \ {"putFail"}

(* Each instance is requested once. *)
OnePut == \A p, q \in Puts : InstOf[p] = InstOf[q] => p = q

(* Cloud Foundry has no provisioning of the instance in progress any more. *)
Settled == {"ready", "failed", "deleting", "deleted"}

(* What makes it inductive: while a request fabricates, Cloud Foundry      *)
(* waits or polls and the record says so; a health check in flight is of   *)
(* an instance whose fabrication is over; a header that is written before  *)
(* the handler returns is that of a failed fabrication; deletions only     *)
(* start on settled instances; and no record is overdue.                   *)
OneFabrication ==
  /\ \A p \in Puts :
       /\ pc[p] \in {"idle", "done", "killed"} \cup PutLabels
       /\ pc[p] = "idle" => cf[InstOf[p]] = "none" /\ resp[p] = "none" /\ ~open[p]
       /\ pc[p] \in Fabricating => /\ cf[InstOf[p]] \in {"creating", "polling"}
                                   /\ state_map[InstOf[p]] = "IN_PROGRESS"
       /\ open[p] /\ resp[p] # "none" => pc[p] = "done"
       /\ pc[InstOf[p]] = "pollHealth" => pc[p] \notin Fabricating
  /\ \A p \in Dels : pc[p] # "idle" => cf[InstOf[p]] \in Settled
  /\ \A i \in Instances : pc[i] = "pollHealth" => cf[i] = "polling"
  /\ \A g \in Guids : ~stale[g]

(* An instance whose deletion was answered with 200 has left no object     *)
(* behind that is not marked for deletion, and none appears later.         *)
DeletedMeansGone ==
  \A p \in Dels : resp[p] = "200" => ObjsOf(InstOf[p]) = {}

(* What makes it inductive: a deletion that has come to a stage has left   *)
(* no object of the kinds before it, and has listed what is left of the    *)
(* kind it is at.                                                          *)
Swept ==
  /\ \A p \in Puts : todo[p] \subseteq Blueprint[InstOf[p]]
  /\ \A p \in Dels :
       /\ resp[p] = "200" => pc[p] # "idle"
       /\ pc[p] \in {"idle", "delLookup", "delGet"} => stage[p] = 1
       /\ \A b \in ObjsOf(InstOf[p]) :
            /\ resp[p] # "200" /\ pc[p] # "delDone"
            /\ pc[p] \in {"delList", "delItem"} =>
                 \A s \in 1..Len(DeleteOrder) : b.kind = DeleteOrder[s] =>
                   stage[p] <= s /\ (pc[p] = "delItem" /\ stage[p] = s => b \in todo[p])

(* No instance in the cluster is in use: there is no service and no        *)
(* deployment, also none that is being deleted.                            *)
NotInUse(o) == OfKind(o, "service") \cup OfKind(o, "deployment") = {}

(* An object disappears only by a deletion of its own instance, with its   *)
(* whole cluster, or as a claim that a purge has listed.  While a purge    *)
(* takes claims, of whichever instance, the cluster is not in use, unless  *)
(* a service or a deployment was created after the remover had looked for  *)
(* it.  (To the code an instance is in use once it has one of these; a     *)
(* creation that has only made its claims loses them.)                     *)
OnlyOwnerDeletes ==
  \A o \in Orgs : \A b \in objs[o] \ objs'[o] :
    \/ \E p \in Dels : InstOf[p] = b.inst /\ pc[p] = "delItem" /\ b \in todo[p]
    \/ /\ b.kind = "pvc"
       /\ \E r \in Removers :
            /\ ProcOrg(r) = o /\ pc[r] \in {"rcPurge", "rcPurgeErr"} /\ b \in todo[r]
            /\ r \in touched \/ NotInUse(o)
    \/ cluster'[o] = "absent"

Isolation == [][OnlyOwnerDeletes]_vars

(* What makes it so: a deletion works on a list of objects of its own      *)
(* instance, a remover on a list of claims.                                *)
OwnLists ==
  \A p \in Removers : \A b \in todo[p] :
    /\ pc[p] = "delItem" => p \in Dels /\ b.inst = InstOf[p]
    /\ pc[p] \in {"rcPurge", "rcPurgeErr"} => b.kind = "pvc"

(* When a remover is about to delete the cluster of an organization, the   *)
(* cluster has no service, deployment, claim or volume in it, except for   *)
(* those a provisioning request created after the remover had looked for   *)
(* objects of that kind.                                                   *)
RemovalJustified ==
  \A p \in Removers : pc[p] = "rcDelete" /\ p \notin touched =>
    /\ \A b \in InCluster(ProcOrg(p)) : b.kind \notin {"service", "deployment", "pvc"}
    /\ pvs[ProcOrg(p)] = {}

(* What makes it inductive: an object of a kind that a remover has looked  *)
(* for is gone, unless it is a claim the remover has still to purge or the *)
(* purge has failed; and volumes do not come back without claims.          *)
Cleared ==
  \A p \in Removers : p \notin touched =>
    /\ \A b \in InCluster(ProcOrg(p)) : pc[p] \in Passed(b.kind) =>
         b.kind = "pvc" /\ (pc[p] = "rcPurgeErr" \/ (pc[p] = "rcPurge" /\ b \in todo[p]))
    /\ pc[p] = "rcDelete" => pvs[ProcOrg(p)] = {}

(* As long as a cluster lacks the secret for the private image repository, *)
(* the request that created the cluster is still on its way to create it.  *)
RepoSecretHasOwner ==
  \A o \in Orgs : cluster[o] # "absent" /\ ~repo[o] =>
    \E p \in Puts : ProcOrg(p) = o /\ wasCreated[p] /\ pc[p] \in {"goc", "gocApi", "gocSecret"}

(* What makes it inductive: that request either has still to fetch the     *)
(* cluster or holds the credentials of this very cluster.                  *)
SecretOnItsWay(o, p) ==
  /\ ProcOrg(p) = o /\ wasCreated[p]
  /\ \/ pc[p] = "goc"
     \/ pc[p] \in {"gocApi", "gocSecret"} /\ cluster[o] = "ready" /\ creds[p] = gen[o]

RepoSecretOnItsWay ==
  \A o \in Orgs : cluster[o] # "absent" /\ ~repo[o] => \E p \in Puts : SecretOnItsWay(o, p)

(* Every provisioning request that was accepted is answered, and its       *)
(* fabrication function comes to an end.                                   *)
PutTerminates == \A p \in Puts : open[p] ~> (~open[p] /\ pc[p] = "done")

(* All instances of an organization are deleted for good. *)
Unused(o) ==
  /\ \A i \in Instances : OrgOf[i] = o => cf[i] = "deleted"
  /\ \A p \in Puts : ProcOrg(p) = o => pc[p] \in FinalLabels

(* The objects of an instance are collected before its remover has slept   *)
(* for WAIT_BEFORE_REMOVE_CLUSTER_SEC and looks for them.                  *)
WaitSuffices ==
  \A d \in Dels : pc[d] \in (RemoverLabels \ {"rcServices"}) \cup {"rcStopped", "rcRemoved"} =>
    \A b \in terminating[ProcOrg(d)] : b.inst # InstOf[d]

(* Once all instances of an organization are deleted for good, its cluster *)
(* is eventually removed, provided that removers wait long enough: one     *)
(* that meets a deployment which is still being deleted stops for good.    *)
ClusterEventuallyRemoved ==
  []WaitSuffices => \A o \in Orgs : Unused(o) ~> cluster[o] = "absent"

-----------------------------------------------------------------------------
(* A statement of the repository about the program that the code does not  *)
(* keep.                                                                   *)

(* A cluster is removed when "There is no more Services and                *)
(* PersistentVolumes for the org": an instance that Cloud Foundry was told *)
(* is ready keeps its cluster.                                             *)
ReadyKeepsCluster ==
  \A i \in Instances : cf[i] = "ready" => cluster[OrgOf[i]] # "absent"
=============================================================================
