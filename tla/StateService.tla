---------------------------- MODULE StateService ----------------------------
(***************************************************************************)
(* state/state.go: the in-memory record of how far the provisioning of an  *)
(* instance got, a map from guid to the last reported event.  All the      *)
(* IN_PROGRESS_* names but the last one are read alike and are one value   *)
(* here; "KUBERNETES_OK" is IN_PROGRESS_KUBERNETES_OK and "NONE" means     *)
(* that the map has no entry.  The time stamp of an event matters only     *)
(* for whether it is more than 20 minutes old (stale).                     *)
(***************************************************************************)
EXTENDS BrokerBase

VARIABLES
  state_map,  \* the last state reported for a guid
  stale       \* whether that report is more than 20 minutes old

stateVars == <<state_map, stale>>

(* The guid under which a request that cannot be parsed is reported. *)
UnparsedGuid == "1"

(* Cloud Foundry's guids are UUIDs. *)
ASSUME GuidAssumption == UnparsedGuid \notin Instances

Guids == Instances \cup {UnparsedGuid}

ProgressStates == {"NONE", "IN_PROGRESS", "KUBERNETES_OK", "FAILED"}

(* A new process starts with an empty map. *)
StateInit ==
  /\ state_map = [g \in Guids |-> "NONE"]
  /\ stale = [g \in Guids |-> FALSE]

StateReset ==
  /\ state_map' = [g \in Guids |-> "NONE"]
  /\ stale' = [g \in Guids |-> FALSE]

ReportProgress(g, s) ==
  /\ state_map' = [state_map EXCEPT ![g] = s]
  /\ stale' = [stale EXCEPT ![g] = FALSE]

HasProgressRecords(g) == state_map[g] # "NONE"

(* Mutant of ReadProgress: what is not finished counts as failed. *)
ReadProgressImpatient(g) == IF state_map[g] = "KUBERNETES_OK" THEN "created" ELSE "failed"

(* What ReadProgress returns, as GetLastOperation reads it: the failure of *)
(* the operation, its age, and only then its success.                      *)
ReadProgress(g) ==
  IF state_map[g] = "FAILED" THEN "failed"
  ELSE IF stale[g] THEN "too long"
  ELSE IF state_map[g] = "KUBERNETES_OK" THEN "created"
  ELSE "in progress"

(* Time passes: 20 minutes without a new report. *)
Age(g) ==
  /\ Fault("slow")
  /\ state_map[g] \in {"IN_PROGRESS", "KUBERNETES_OK"}
  /\ ~stale[g]
  /\ stale' = [stale EXCEPT ![g] = TRUE]
  /\ UNCHANGED state_map
=============================================================================
