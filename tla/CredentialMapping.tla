-------------------------- MODULE CredentialMapping --------------------------
(***************************************************************************)
(* app/tap/credential_parser.go: how the credentials of a binding are made *)
(* from the mapping of a plan, the services and the environment of its     *)
(* pods.                                                                   *)
(*                                                                         *)
(* A mapping is a sequence of tokens: fixed text, and placeholders such as *)
(* $hostname, $port_<key> and $env_<key>.  A key is a sequence of          *)
(* characters, because the code replaces placeholders as substrings: the   *)
(* replacement of $env_DB also hits the first letters of $env_DBNAME and   *)
(* leaves NAME behind.  Names, values and the texts that come out are      *)
(* sequences as well.                                                      *)
(***************************************************************************)
EXTENDS Naturals, SequencesExt

(* Placeholders, and what is left in their place: a value and the rest of  *)
(* the key.                                                                *)
Token(kind, key) == [kind |-> kind, key |-> key, val |-> <<>>]
Text(val, rest) == [kind |-> "text", key |-> rest, val |-> val]

(* Errors instead of a text and of a port. *)
Error == <<Token("error", <<>>)>>
NoPort == <<"error">>

Digits == {"0", "1", "2", "3", "4", "5", "6", "7", "8", "9"}

(* strings.Replace(template, "$<kind><key>", val, -1) *)
Replace(template, kind, key, val) ==
  [i \in DOMAIN template |->
     LET t == template[i] IN
     IF t.kind = kind /\ IsPrefix(key, t.key)
     THEN Text(val, SubSeq(t.key, Len(key) + 1, Len(t.key)))
     ELSE t]

(* A placeholder is replaced by a text that has placeholders of its own. *)
Splice(template, kind, text) ==
  FlattenSeq([i \in DOMAIN template |->
                IF template[i].kind = kind THEN text ELSE <<template[i]>>])

(* The keys of the placeholders of a kind, in the order of the text.       *)
(* $hostname:$port_<key> is one token in the template of a uri.            *)
Keys(template, kinds) ==
  LET of == SelectSeq(template, LAMBDA t : t.kind \in kinds)
  IN [i \in DOMAIN of |-> of[i].key]

splitPortsFromTemplate(template) == Keys(template, {"port", "hostport"})

(* The first port that is named, which is an error, or has this number. *)
PortIndex(ports, key) == SelectInSeq(ports, LAMBDA p : p.named \/ p.target = key)

(* The port of the first placeholder of the whole template that matches.   *)
getPort(template, ports) ==
  LET keys == splitPortsFromTemplate(template)
      first == SelectInSeq(keys, LAMBDA k : PortIndex(ports, k) # 0)
  IN IF first = 0 THEN <<>>
     ELSE LET p == ports[PortIndex(ports, keys[first])]
          IN IF p.named THEN NoPort ELSE p.node

(* Mutant of parsePorts: the ports are looked up before any is replaced. *)
parsePortsAtOnce(template, svc) ==
  FoldLeft(LAMBDA acc, key :
             LET port == getPort(template, svc.ports)
             IN IF acc = Error \/ port = NoPort THEN Error ELSE Replace(acc, "port", key, port),
           template, splitPortsFromTemplate(template))

parsePorts(template, svc) ==
  FoldLeft(LAMBDA acc, key :
             LET port == getPort(acc, svc.ports)
             IN IF acc = Error \/ port = NoPort THEN Error ELSE Replace(acc, "port", key, port),
           template, splitPortsFromTemplate(template))

(* Only the first service counts. *)
parseSvcCredsForSimplePlan(template, svcs) ==
  IF svcs = <<>> THEN template
  ELSE parsePorts(Replace(template, "hostname", <<>>, svcs[1].host), svcs[1])

(* Every service fills in the template of a node; the nodes replace $nodes. *)
parseSvcCredsForClusteredPlan(replica, mapping, svcs) ==
  LET node(s) == parsePorts(Replace(Replace(replica, "hostname", <<>>, s.host),
                                    "nodeName", <<>>, s.name), s)
      nodes == [i \in DOMAIN svcs |-> node(svcs[i])]
  IN IF \E i \in DOMAIN nodes : nodes[i] = Error THEN Error
     ELSE Splice(mapping, "nodes", FlattenSeq(nodes))

(* The hosts of all services replace $hostname:$port_<key> in the template *)
(* of the uri, and that replaces $uri.                                     *)
parseUriClusteredPlan(uri, mapping, svcs) ==
  LET port == [i \in DOMAIN svcs |-> getPort(uri, svcs[i].ports)]
      hosts == FlattenSeq([i \in DOMAIN svcs |->
                             <<Text(svcs[i].host, <<>>), Text(port[i], <<>>)>>])
  IN IF \E i \in DOMAIN svcs : port[i] = NoPort THEN Error
     ELSE Splice(mapping, "uri", Splice(uri, "hostport", hosts))

(* appendMaps over all containers: a later one wins. *)
AllEnv(pods) == FoldLeft(LAMBDA acc, envs : envs @@ acc, <<>>, pods)

(* The part of a key that the pattern [A-Za-z\-_]+ matches. *)
EnvKey(key) ==
  LET digit == SelectInSeq(key, LAMBDA c : c \in Digits)
  IN IF digit = 0 THEN key ELSE SubSeq(key, 1, digit - 1)

ValueOf(env, key) == IF key \in DOMAIN env THEN env[key] ELSE <<>>

parseEnvs(template, pods) ==
  LET found == [i \in DOMAIN Keys(template, {"env"}) |-> EnvKey(Keys(template, {"env"})[i])]
      list == SelectSeq(found, LAMBDA k : k # <<>>)
      env == AllEnv(pods)
  IN FoldLeft(LAMBDA acc, k : Replace(acc, "env", k, ValueOf(env, k)), template, list)

ParseCredentialMappingAdvanced(name, svcs, pods, plan) ==
  LET clustered == parseUriClusteredPlan(plan.uri, plan.mapping, svcs)
      mapped ==
        IF plan.uri # <<>> \/ plan.replica # <<>>
        THEN IF clustered = Error THEN Error
             ELSE parseSvcCredsForClusteredPlan(plan.replica, clustered, svcs)
        ELSE parseSvcCredsForSimplePlan(plan.mapping, svcs)
  IN IF mapped = Error THEN Error
     ELSE parseEnvs(Replace(mapped, "name", <<>>, name), pods)

-----------------------------------------------------------------------------
(* The reference: every placeholder stands for itself. *)

PortOf(ports, key) ==
  LET i == SelectInSeq(ports, LAMBDA p : p.target = key) IN IF i = 0 THEN <<>> ELSE ports[i].node

Documented(t, svc, env, name) ==
  CASE t.kind = "hostname" -> Text(svc.host, <<>>)
    [] t.kind = "nodeName" -> Text(svc.name, <<>>)
    [] t.kind = "port" -> Text(PortOf(svc.ports, t.key), <<>>)
    [] t.kind = "env" -> Text(ValueOf(env, t.key), <<>>)
    [] t.kind = "name" -> Text(name, <<>>)
    [] OTHER -> t

DocumentedText(template, svc, env, name) ==
  [i \in DOMAIN template |-> Documented(template[i], svc, env, name)]

DocumentedUri(uri, svcs) ==
  FlattenSeq([i \in DOMAIN uri |->
    IF uri[i].kind = "hostport"
    THEN FlattenSeq([j \in DOMAIN svcs |-> <<Text(svcs[j].host, <<>>),
                                             Text(PortOf(svcs[j].ports, uri[i].key), <<>>)>>])
    ELSE <<uri[i]>>])

DocumentedMapping(name, svcs, pods, plan) ==
  LET env == AllEnv(pods)
      nodes == FlattenSeq([j \in DOMAIN svcs |-> DocumentedText(plan.replica, svcs[j], env, name)])
      whole == Splice(Splice(plan.mapping, "uri", DocumentedUri(plan.uri, svcs)), "nodes", nodes)
  IN DocumentedText(whole, svcs[1], env, name)

(* No placeholder is cut by an earlier one that is a prefix of it, and the *)
(* pattern matches it as a whole.                                          *)
NoneCut(keys) ==
  \A i \in DOMAIN keys : \A j \in (i + 1)..Len(keys) : ~IsStrictPrefix(keys[i], keys[j])

(* A port that the service does not expose comes after those it exposes. *)
ExposedFirst(keys, ports) ==
  \A i \in DOMAIN keys : \A j \in (i + 1)..Len(keys) :
    PortOf(ports, keys[j]) # <<>> => PortOf(ports, keys[i]) # <<>>

(* A clustered plan names hosts and ports only in its templates, and its   *)
(* uri one port.                                                           *)
ClusteredTemplates(plan) ==
  plan.uri # <<>> \/ plan.replica # <<>> =>
    /\ Keys(plan.mapping, {"hostname", "port", "hostport"}) = <<>>
    /\ Keys(plan.uri, {"hostname", "port"}) = <<>>
    /\ \A i, j \in DOMAIN Keys(plan.uri, {"hostport"}) :
         Keys(plan.uri, {"hostport"})[i] = Keys(plan.uri, {"hostport"})[j]

WellFormed(svcs, plan) ==
  LET envs == Keys(plan.mapping \o plan.uri \o plan.replica, {"env"}) IN
  /\ NoneCut(envs) /\ \A i \in DOMAIN envs : EnvKey(envs[i]) = envs[i]
  /\ ClusteredTemplates(plan)
  /\ \A t \in {plan.mapping, plan.replica} :
       /\ NoneCut(splitPortsFromTemplate(t))
       /\ \A j \in DOMAIN svcs : /\ ExposedFirst(splitPortsFromTemplate(t), svcs[j].ports)
                                 /\ \A p \in DOMAIN svcs[j].ports : ~svcs[j].ports[p].named
=============================================================================
