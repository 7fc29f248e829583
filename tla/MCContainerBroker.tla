-------------------------- MODULE MCContainerBroker --------------------------
(***************************************************************************)
(* Small instances of the container broker for TLC.                        *)
(***************************************************************************)
EXTENDS ContainerBroker

(* One instance: a job on its creation, one on its binding, and the same   *)
(* one on its deletion.                                                    *)
HooksU1 ==
  [u \in {"u1"} |->
     [op \in Ops |-> IF op = "create" THEN {"j1"}
                     ELSE IF op \in {"bind", "delete"} THEN {"j2"} ELSE {}]]

OpsU1 == [c \in {"c1", "c2", "c3"} |->
            IF c = "c1" THEN "create" ELSE IF c = "c2" THEN "bind" ELSE "delete"]

AllU1 == [c \in {"c1", "c2", "c3"} |-> "u1"]
=============================================================================
