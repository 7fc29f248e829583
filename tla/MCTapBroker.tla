---------------------------- MODULE MCTapBroker ----------------------------
(***************************************************************************)
(* Small instances of the TAP broker for TLC.                              *)
(***************************************************************************)
EXTENDS TapBrokerRefinement

O(i, k) == [inst |-> i, kind |-> k, idx |-> 0]

(* One instance. *)
I1 == {"i1"}
I1Org == [i \in I1 |-> "o1"]
I1Plan == [i \in I1 |-> {O(i, "pvc"), O(i, "deployment"), O(i, "service")}]
I1PutDel == [r \in {"p1", "d1"} |-> "i1"]
I1PutDel2 == [r \in {"p1", "d1", "d2"} |-> "i1"]
I1Put2 == [r \in {"p1", "p2"} |-> "i1"]

(* All six kinds, one of them twice. *)
I1FullPlan ==
  [i \in I1 |-> {O(i, k) : k \in Kinds} \cup {[inst |-> i, kind |-> "secret", idx |-> 1]}]

(* Two instances in one organization, or in two. *)
I2 == {"i1", "i2"}
I2OneOrg == [i \in I2 |-> "o1"]
I2TwoOrgs == [i \in I2 |-> IF i = "i1" THEN "o1" ELSE "o2"]
I2Plan == [i \in I2 |-> IF i = "i1" THEN {O(i, "pvc"), O(i, "deployment"), O(i, "service")}
                        ELSE {O(i, "statefulset"), O(i, "service")}]
I2Put == [r \in {"p1", "p2"} |-> IF r = "p1" THEN "i1" ELSE "i2"]
I2PutDel == [r \in {"p1", "p2", "d1", "d2"} |-> IF r \in {"p1", "d1"} THEN "i1" ELSE "i2"]
I2PutDel1 == [r \in {"p1", "p2", "d1"} |-> IF r \in {"p1", "d1"} THEN "i1" ELSE "i2"]
=============================================================================
