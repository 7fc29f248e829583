------------------------------ MODULE MCCatalog ------------------------------
(***************************************************************************)
(* Small instances of the catalog for TLC.                                 *)
(***************************************************************************)
EXTENDS Catalog

OneOffering == <<"nginx">>

Naming(c1, c2, d1, d2) ==
  [r \in {"c1", "c2", "d1", "d2"} |->
     CASE r = "c1" -> c1 [] r = "c2" -> c2 [] r = "d1" -> d1 [] r = "d2" -> d2]

(* A new service that is removed twice, or removed beside the builtin one, *)
(* or that asks for the builtin one's name.                                *)
Removals ==
  {Naming("app1", NotSent, "app1", "app1"),
   Naming("app1", NotSent, "app1", "nginx"),
   Naming("nginx", NotSent, "app1", "nginx")}

(* Two new services, each of which makes the array with the one before it  *)
(* grow, without a removal or beside that of the second.                   *)
Growth == {Naming("app1", "app2", d, NotSent) : d \in {NotSent, "app2"}}

Updates == Removals \cup Growth

WantC1 == [l \in {"l1"} |-> "c1"]
=============================================================================
