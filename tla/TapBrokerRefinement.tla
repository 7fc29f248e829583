------------------------- MODULE TapBrokerRefinement -------------------------
(***************************************************************************)
(* The TAP broker implements the life of its instances: TapBroker refines  *)
(* InstanceLifecycle.                                                      *)
(***************************************************************************)
EXTENDS TapBrokerProps

(* A poll is still a creation to the user.  A deletion that was answered   *)
(* with 200 is told from one that was answered with 410.                   *)
LifeOf(i) ==
  IF cf[i] = "polling" THEN "creating"
  ELSE IF cf[i] = "deleted" /\ ~\E p \in Dels : InstOf[p] = i /\ resp[p] = "200" THEN "gone"
  ELSE cf[i]

Lifecycle ==
  INSTANCE InstanceLifecycle
    WITH life <- [i \in Instances |-> LifeOf(i)],
         present <- [i \in Instances |-> ObjsOf(i)]

(* Where each instance is requested once, nobody gives up early and        *)
(* nothing is created in a cluster that a remover is taking down, the      *)
(* handlers and goroutines of the broker together keep the life cycle of   *)
(* every instance, with failing calls and with restarts: complete when     *)
(* ready, then untouched until it is deleted, and nothing of it after.     *)
KeepsLifecycle == Lifecycle!LifeSpec

-----------------------------------------------------------------------------
(* When it does so: nothing is created in an organization while a remover  *)
(* of its cluster is past its first check ...                              *)
NoOverlap ==
  \A r \in Removers : \A p \in Puts :
    ProcOrg(r) = ProcOrg(p) /\ pc[r] \in Passed("service") => pc[p] # "fab"

(* ... and there is in each plan something that keeps a remover away.      *)
Guarded == \A i \in Instances : \E b \in Blueprint[i] : b.kind \in {"service", "deployment"}

(* The broker has told, or is going to tell, that the instance is created. *)
Claimed(i) ==
  \/ cf[i] = "ready" \/ pc[i] = "pollHealth"
  \/ state_map[i] = "KUBERNETES_OK" /\ cf[i] \in {"creating", "polling"}

(* What makes it so.  What is no longer on the list of a fabrication       *)
(* exists; as long as a request is not answered Cloud Foundry waits, and   *)
(* without an error that is for an instance that was created.              *)
RequestsLive ==
  \A p \in Puts :
    /\ pc[p] = "fab" => Blueprint[InstOf[p]] \ todo[p] \subseteq objs[ProcOrg(p)]
    /\ open[p] => cf[InstOf[p]] = "creating" /\ resp[p] \in {"none", "500"}
    /\ open[p] /\ pc[p] = "done" /\ resp[p] = "none" => state_map[InstOf[p]] = "KUBERNETES_OK"

(* One deletion of an instance is handled at a time, while Cloud Foundry   *)
(* waits for it, and the one that is answered with 200 is the last.        *)
DeletionsLive ==
  \A d \in Dels :
    /\ pc[d] \in DelLabels =>
         /\ cf[InstOf[d]] = "deleting"
         /\ \A e \in Dels : InstOf[e] = InstOf[d] /\ pc[e] \in DelLabels => e = d
    /\ resp[d] = "200" => cf[InstOf[d]] = "deleted"

(* An instance that is claimed to be created is whole, and a remover in    *)
(* its cluster has not got past the object that stops it.                  *)
ClaimsHold ==
  \A i \in Instances : Claimed(i) =>
    /\ Whole(i)
    /\ \A r \in Removers : ProcOrg(r) = OrgOf[i] =>
         /\ pc[r] \notin Passed("deployment")
         /\ pc[r] = "rcDeployments" => \A b \in Blueprint[i] : b.kind # "service"

LifeInv ==
  /\ RequestsLive /\ DeletionsLive /\ ClaimsHold
  /\ \A i \in Instances : cf[i] = "none" => ObjsOf(i) = {}

(* One instance in each organization. *)
Exclusive == \A i, j \in Instances : OrgOf[i] = OrgOf[j] => i = j

(* Then a cluster comes with the request for its instance, and a remover   *)
(* starts only after that request is over: nothing overlaps.               *)
RemoversLate ==
  \A p \in Puts :
    /\ pc[p] = "idle" => cluster[ProcOrg(p)] = "absent"
    /\ \A r \in Removers :
         ProcOrg(r) = ProcOrg(p) /\ pc[r] # "idle" => pc[p] \in {"putFail", "done", "killed"}
=============================================================================
