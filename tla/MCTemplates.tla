----------------------------- MODULE MCTemplates -----------------------------
(***************************************************************************)
(* Small instances of the template repository for TLC.                     *)
(***************************************************************************)
EXTENDS TemplateRepository

About(c1, c2, d1, g1, l1) ==
  [r \in {"c1", "c2", "d1", "g1", "l1"} |->
     CASE r = "c1" -> c1 [] r = "c2" -> c2 [] r = "d1" -> d1 [] r = "g1" -> g1 [] r = "l1" -> l1]

(* Three requests at a time: two creations of one template or of two, its  *)
(* removal, and readers of one template or of all.                         *)
ThreeRequests ==
  {About("t1", "t1", None, None, "all"), About("t1", "t2", None, None, "all"),
   About("t1", "t2", "t1", None, None), About("t1", "t1", "t1", None, None),
   About("t1", None, "t1", "t1", None), About("t1", None, "t1", None, "all"),
   About("t1", None, None, "t1", "all")}

Bodies == [c \in {"c1", "c2"} |-> IF c = "c1" THEN {"statefulset", "service", "job"} ELSE {"service"}]
=============================================================================
