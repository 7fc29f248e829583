-------------------------- MODULE InstanceLifecycle --------------------------
(***************************************************************************)
(* What the TAP broker promises of a service instance, whatever requests,  *)
(* goroutines and clusters it takes: the life of an instance as Cloud      *)
(* Foundry sees it, and the Kubernetes objects it has at each moment.      *)
(* Objects are only created while the instance is being created; it is     *)
(* ready only with all of its objects and keeps them until it is deleted;  *)
(* once deleted it has none, and never again.  A failure may leave objects *)
(* behind, and so does an instance that is answered to be gone.            *)
(***************************************************************************)
EXTENDS FiniteSets

CONSTANTS
  Instances,  \* service instances
  Blueprint   \* the objects of an instance

VARIABLES
  life,    \* what Cloud Foundry has been told of an instance
  present  \* the objects it has

lifecycleVars == <<life, present>>

LifeInit ==
  /\ life = [i \in Instances |-> "none"]
  /\ present = [i \in Instances |-> {}]

Becomes(i, from, to) == life[i] \in from /\ life'[i] = to

Keeps(i) == present'[i] = present[i]

Request(i) == Becomes(i, {"none"}, "creating") /\ Keeps(i)

Create(i) ==
  /\ Becomes(i, {"creating"}, "creating")
  /\ \E b \in Blueprint[i] \ present[i] : present'[i] = present[i] \cup {b}

Finish(i) ==
  /\ Becomes(i, {"creating"}, "ready")
  /\ present[i] = Blueprint[i] /\ Keeps(i)

Delete(i) == Becomes(i, {"ready", "failed"}, "deleting") /\ Keeps(i)

(* A request is refused, or an operation fails and is left half done; its  *)
(* last call may have taken effect.                                        *)
Fail(i) ==
  \/ Becomes(i, {"none", "creating"}, "failed") /\ Keeps(i)
  \/ Becomes(i, {"deleting"}, "failed") /\ present'[i] \subseteq present[i]

(* Objects are removed: by a deletion, or with an unused cluster. *)
Remove(i) ==
  /\ life[i] \in {"creating", "failed", "deleting", "gone"} /\ life'[i] = life[i]
  /\ present'[i] \subseteq present[i]

Deleted(i) ==
  /\ Becomes(i, {"deleting"}, "deleted")
  /\ present[i] = {} /\ Keeps(i)

(* The instance is answered to be gone: nobody will delete what is left. *)
Gone(i) == Becomes(i, {"deleting"}, "gone") /\ Keeps(i)

LifeStep(i) ==
  \/ Request(i) \/ Create(i) \/ Finish(i) \/ Delete(i) \/ Fail(i) \/ Remove(i)
  \/ Deleted(i) \/ Gone(i)
  \/ life'[i] = life[i] /\ Keeps(i)

(* A cluster that is removed takes the objects of several instances with   *)
(* it: every instance takes a step of its own, or none.                    *)
LifeNext == \A i \in Instances : LifeStep(i)

LifeSpec == LifeInit /\ [][LifeNext]_lifecycleVars
=============================================================================
