----------------------------- MODULE BrokerBase -----------------------------
(***************************************************************************)
(* What every part of the TAP broker shares: the tenants, the requests     *)
(* that reach the broker, the Kubernetes objects a service plan consists   *)
(* of, and the goroutines that work on them.                               *)
(*                                                                         *)
(* A goroutine is a process: one per provisioning request (Puts, the       *)
(* handler and the fabrication function it starts), one per deprovisioning *)
(* request (Dels, the handler and then the removeCluster goroutine it      *)
(* starts), one per organization (Orgs, the removeCluster goroutine that   *)
(* the start of the broker launches for that organization's cluster) and   *)
(* one per instance (Instances, the last_operation poll in flight).        *)
(***************************************************************************)
EXTENDS Naturals, FiniteSets

CONSTANTS
  Instances,    \* Cloud Foundry service instances (instance_id)
  Orgs,         \* Cloud Foundry organizations; each has at most one cluster
  OrgOf,        \* the organization of an instance, as Cloud Foundry reports it
  Puts, Dels,   \* provisioning and deprovisioning requests
  InstOf,       \* the instance a request is about
  Blueprint,    \* the Kubernetes objects of an instance's plan
  Async,        \* ACCEPT_INCOMPLETE: provisioning runs in a goroutine
  Faults,       \* which parts of the environment may misbehave
  OrgQuota,     \* MAX_ORG_QUOTA
  MaxRestarts   \* bound on the restarts of the broker

Kinds == {"secret", "pvc", "statefulset", "deployment", "service", "account"}

(* The order in which FabricateService creates the objects of a component. *)
CreateRank ==
  [secret |-> 1, pvc |-> 2, statefulset |-> 3, deployment |-> 4, service |-> 5, account |-> 6]

(* Mutant of DeleteOrder: the secrets are forgotten. *)
DeleteOrderWithoutSecrets == <<"account", "service", "statefulset", "deployment", "pvc">>

(* The order in which DeleteAllByServiceId sweeps the kinds of objects. *)
DeleteOrder ==
  <<"account", "service", "statefulset", "deployment", "secret", "pvc">>

(* An object is identified by its kind and its name.  The name starts with *)
(* a prefix of the instance's id, and the templates of a plan tell the     *)
(* objects of one kind apart (idx); the label service_id is the whole id.  *)
Obj == [inst : Instances, kind : Kinds, idx : Nat]

Requests == Puts \cup Dels

Removers == Dels \cup Orgs

Procs == Puts \cup Dels \cup Orgs \cup Instances

ASSUME ProcessesDistinct ==
  /\ Puts \cap Dels = {}
  /\ Requests \cap Orgs = {}
  /\ Requests \cap Instances = {}
  /\ Orgs \cap Instances = {}

ASSUME TenancyAssumption ==
  /\ OrgOf \in [Instances -> Orgs]
  /\ InstOf \in [Requests -> Instances]

ASSUME BlueprintAssumption ==
  /\ Blueprint \in [Instances -> SUBSET Obj]
  /\ \A i \in Instances : \A b \in Blueprint[i] : b.inst = i

ASSUME BoundsAssumption ==
  /\ Async \in BOOLEAN
  /\ Faults \subseteq {"input", "kube", "demiurge", "cf", "slow"}
  /\ OrgQuota \in Nat
  /\ MaxRestarts \in Nat

VARIABLES
  pc,     \* where each goroutine is
  creds   \* the cluster incarnation whose credentials a goroutine holds; 0: none

ProcOrg(p) ==
  IF p \in Orgs THEN p
  ELSE IF p \in Instances THEN OrgOf[p] ELSE OrgOf[InstOf[p]]

Goto(p, label) == pc' = [pc EXCEPT ![p] = label]

Fault(f) == f \in Faults

PutLabels ==
  {"putLookup", "putParse", "goc", "gocApi", "gocQuota", "gocPost", "gocSecret",
   "fabStart", "fab", "putFail"}

DelLabels == {"delLookup", "delGet", "delList", "delItem", "delDone"}

RemoverLabels ==
  {"rcServices", "rcDeployments", "rcPurgeList", "rcPurge", "rcPurgeErr",
   "rcVolumes", "rcDelete"}

(* A goroutine at one of these labels runs no more. *)
FinalLabels == {"done", "rcStopped", "rcRemoved", "killed"}

Labels ==
  {"idle", "pollHealth"} \cup PutLabels \cup DelLabels \cup RemoverLabels \cup FinalLabels
=============================================================================
