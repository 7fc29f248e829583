------------------------------ MODULE MCAccess ------------------------------
(***************************************************************************)
(* Small instances of bindings, visibility and secrets for TLC.            *)
(***************************************************************************)
EXTENDS ServiceAccess

Port(target, name, node, named, udp) ==
  [target |-> target, name |-> name, node |-> node, named |-> named, udp |-> udp]

Service(name, list) == [name |-> name, ports |-> list]

Val(v) == [val |-> v, ref |-> Nobody, nosource |-> FALSE]
Ref(n) == [val |-> <<>>, ref |-> n, nosource |-> FALSE]
Nothing == [val |-> <<>>, ref |-> Nobody, nosource |-> TRUE]

(* Variables of a data base. *)
DB == <<"D", "B">>
DBNAME == <<"D", "B", "N">>
USER == <<"U">>

P80 == <<"8", "0">>
P8080 == <<"8", "0", "8", "0">>

(* One service with one port: placeholders that occur twice. *)
Simple(name, secret) ==
  [displayName |-> <<"offering">>,
   mapping |-> <<Token("name", <<>>), Token("env", USER), Token("hostname", <<>>),
                 Token("port", P80), Token("hostname", <<>>), Token("port", P80),
                 Token("env", DB), Text(<<"/">>, <<>>), Token("env", USER)>>,
   uri |-> <<>>,
   replica |-> <<>>,
   services |-> <<Service(name, <<Port(P80, <<>>, <<"31080">>, FALSE, FALSE)>>)>>,
   deployments |-> <<DB :> Val(<<"db">>) @@ USER :> Ref(secret)>>,
   sets |-> <<>>]

(* Its ports have names; two of them are in the mapping, the long one      *)
(* first.                                                                  *)
TwoPorts(name, secret) ==
  [Simple(name, secret) EXCEPT
     !.mapping = <<Token("port", P8080), Token("port", P80), Token("env", USER)>>,
     !.services = <<Service(name, <<Port(P80, <<"web">>, <<"31080">>, FALSE, FALSE),
                                    Port(P8080, <<"admin">>, <<"31081">>, FALSE, FALSE)>>)>>]

(* One of them is a UDP port. *)
WithUdp(name, secret) ==
  [Simple(name, secret) EXCEPT
     !.services = <<Service(name, <<Port(P8080, <<"dns">>, <<"31082">>, FALSE, TRUE),
                                    Port(P80, <<"web">>, <<"31080">>, FALSE, FALSE)>>)>>]

(* A target port that is a name. *)
NamedPort(name, secret) ==
  [Simple(name, secret) EXCEPT
     !.services = <<Service(name, <<Port(P80, <<>>, <<"31080">>, TRUE, FALSE)>>)>>]

(* A variable without a value. *)
NoSource(name, secret) ==
  [Simple(name, secret) EXCEPT !.deployments = <<USER :> Nothing>>]

(* One service for each node, and a deployment beside the stateful sets. *)
Clustered(name, secret) ==
  [displayName |-> <<"offering">>,
   mapping |-> <<Token("uri", <<>>), Token("nodes", <<>>), Token("env", USER), Token("name", <<>>)>>,
   uri |-> <<Token("env", USER), Token("hostport", P80), Token("env", DB)>>,
   replica |-> <<Token("nodeName", <<>>), Token("hostname", <<>>), Token("port", P80), Token("port", P8080)>>,
   services |-> [n \in 1..2 |->
     Service(IF n = 1 THEN name ELSE Append(name, "2"),
             <<Port(P80, <<"web">>, IF n = 1 THEN <<"31080">> ELSE <<"32080">>, FALSE, FALSE),
               Port(P8080, <<"admin">>, IF n = 1 THEN <<"31081">> ELSE <<"32081">>, FALSE, FALSE)>>)],
   deployments |-> <<DB :> Val(<<"db">>)>>,
   sets |-> <<USER :> Ref(secret), USER :> Ref(secret)>>]

(* The variable of a data base, and after it one whose name is longer. *)
LongerName(name, secret) ==
  [Simple(name, secret) EXCEPT
     !.mapping = <<Token("env", DB), Token("hostname", <<>>), Token("port", P80), Token("env", DBNAME)>>,
     !.deployments = <<DB :> Val(<<"db">>) @@ DBNAME :> Val(<<"dbname">>)>>]

Both(one, two) == [i \in {"i1", "i2"} |-> IF i = "i1" THEN one ELSE two]

About(b1, v1, v2, w1, s1) ==
  [r \in {"b1", "v1", "v2", "w1", "s1"} |->
     CASE r = "b1" -> b1 [] r = "v1" -> v1 [] r = "v2" -> v2 [] r = "w1" -> w1 [] r = "s1" -> s1]

With(abouts, ones, twos) ==
  {[about |-> a, plan |-> Both(one, two)] : a \in abouts, one \in ones, two \in twos}

Other == Simple(<<"b">>, "s2")

(* The name of its service contains that of the first instance. *)
OtherLonger == Simple(<<"b", "a">>, "s2")

(* A binding of an instance while its secret is changed ... *)
BindCases ==
  With({About("i1", Nobody, Nobody, Nobody, "i1")},
       {Simple(<<"a">>, "s1"), TwoPorts(<<"a">>, "s1"), WithUdp(<<"a">>, "s1"),
        NamedPort(<<"a">>, "s1"), NoSource(<<"a">>, "s1"), Clustered(<<"a">>, "s1")},
       {Other})

(* ... and requests about the visibility of one instance, or of two, with  *)
(* a view.                                                                 *)
VisibilityCases ==
  With({About(Nobody, "i1", "i1", "i1", Nobody)},
       {TwoPorts(<<"a">>, "s1"), WithUdp(<<"a">>, "s1")}, {Other})
  \cup With({About(Nobody, "i1", "i2", Everybody, Nobody)}, {Simple(<<"a">>, "s1")}, {OtherLonger})
  \cup With({About(Nobody, "i1", Nobody, "i1", Nobody)}, {Clustered(<<"a">>, "s1")}, {Other})

AllCases == BindCases \cup VisibilityCases

LongerNameCase ==
  With({About("i1", Nobody, Nobody, Nobody, Nobody)}, {LongerName(<<"a">>, "s1")}, {Other})

AllSecrets == Both("s1" :> <<"secret1">>, "s2" :> <<"secret2">>)

Visibilities == [v \in {"v1", "v2"} |-> IF v = "v1" THEN "public" ELSE "private"]
=============================================================================
