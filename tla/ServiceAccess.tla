---------------------------- MODULE ServiceAccess ----------------------------
(***************************************************************************)
(* How the instances in the cluster of an organization are used: bindings, *)
(* the visibility of services in Consul and the secrets, all in            *)
(* app/tap/broker_api.go, with the parts of k8s/k8sfabricator.go and       *)
(* consul/consul_service.go they call.                                     *)
(*                                                                         *)
(* A handler makes one call to Kubernetes or Consul after the other while  *)
(* other requests, and the deprovisioning of the instance, go on.  The     *)
(* calls are external; each may fail.                                      *)
(***************************************************************************)
EXTENDS CredentialMapping, FiniteSets, TLC

CONSTANTS
  Instances,    \* the instances in the cluster
  Binds,        \* PUT .../service_bindings requests
  Shows,        \* requests to set the visibility of an instance
  Views,        \* GetService and GetServices requests
  SecretCalls,  \* requests to create, update or delete a secret
  Cases,        \* which requests come, about which instances with which plans
  Names,        \* the names of secrets
  Secrets,      \* the secrets of an instance: names with a value
  Public,       \* the visibility a request asks for
  MayFail       \* whether the calls of the handlers may fail

Requests == Binds \cup Shows \cup Views \cup SecretCalls

Nobody == "nobody"

(* GetServices is about all instances. *)
Everybody == "everybody"

ASSUME RequestsDistinct ==
  /\ Binds \cap (Shows \cup Views \cup SecretCalls) = {}
  /\ Shows \cap (Views \cup SecretCalls) = {} /\ Views \cap SecretCalls = {}
  /\ Instances \cap {Nobody, Everybody} = {}

ASSUME AccessAssumption ==
  /\ \A c \in Cases :
       /\ c.about \in [Requests -> Instances \cup {Nobody, Everybody}]
       /\ \A r \in Requests \ Views : c.about[r] # Everybody
       /\ DOMAIN c.plan = Instances
  /\ DOMAIN Secrets = Instances /\ \A i \in Instances : DOMAIN Secrets[i] \subseteq Names
  /\ Public \in [Shows -> {"public", "private"}]
  /\ MayFail \in BOOLEAN

Elements(list) == {list[j] : j \in DOMAIN list}

IsList(list) == list \in Seq(Elements(list))

(* The environment of a container has values and references to secrets. *)
ASSUME WorkloadsAssumption ==
  \A c \in Cases : \A i \in Instances :
    /\ IsList(c.plan[i].deployments) /\ IsList(c.plan[i].sets)
    /\ \A env \in Elements(c.plan[i].deployments) \cup Elements(c.plan[i].sets) :
         \A k \in DOMAIN env : env[k].ref \in Names \cup {Nobody}

(* Kubernetes has no service without ports, and allocates a port of the    *)
(* nodes to one of them.                                                   *)
ASSUME ServicesAssumption ==
  \A c \in Cases : \A i \in Instances :
    LET svcs == c.plan[i].services IN
    /\ IsList(svcs)
    /\ \A j \in DOMAIN svcs :
         /\ IsList(svcs[j].name)
         /\ IsList(svcs[j].ports) /\ svcs[j].ports # <<>>
         /\ \A k \in DOMAIN svcs[j].ports : IsList(svcs[j].ports[k].name)
    /\ \A j, l \in DOMAIN svcs : j # l =>
         \A p \in Elements(svcs[j].ports), q \in Elements(svcs[l].ports) :
           <<p.node, p.udp>> # <<q.node, q.udp>>

VARIABLES
  instOf,   \* the instance a request is about; Nobody: it is not made
  plan,     \* the plan of each instance
  at,       \* where a request is
  answer,   \* the status it was answered with
  gone,     \* how many services and workloads of an instance were deprovisioned
  secrets,  \* the secrets: their instance and their value
  tags,     \* the tags of the entries in Consul, one for each port
  pods,     \* the deployments and stateful sets a binding has listed
  envs,     \* the environments of their containers
  result,   \* the credentials a binding was answered with
  ports,    \* the updates of entries in Consul that a request has still to do
  copy,     \* what it has read of the next one
  report,   \* the flags in the answer to a view, for each service
  had,      \* history: the values the secrets had while a binding was made
  mixed,    \* history: visibility requests that overlapped with another
  wish,     \* history: the visibility last set, if it is known
  expect    \* history: the visibility that held all the time of a view

vars == <<instOf, plan, at, answer, gone, secrets, tags, pods, envs, result, ports, copy,
          report, had, mixed, wish, expect>>

bindVars == <<pods, envs, result, had>>
showVars == <<ports, copy, mixed, wish>>
viewVars == <<report, expect>>

(* What is left of a list of which n are removed from the front. *)
Left(list, n) == IF n > 0 THEN SubSeq(list, n + 1, Len(list)) ELSE list

(* DeleteAllByServiceId removes the services, the stateful sets, the       *)
(* deployments and then the secrets.                                       *)
ServicesOf(i) == Left(plan[i].services, gone[i])

StatefulSetsOf(i) == Left(plan[i].sets, gone[i] - Len(plan[i].services))

DeploymentsOf(i) ==
  Left(plan[i].deployments, gone[i] - Len(plan[i].services) - Len(plan[i].sets))

(* The places in the plan of the services that exist. *)
Existing(i) == {j \in DOMAIN plan[i].services : j > gone[i]}

(* Consul knows a port under the name of its service, with the name of the *)
(* port if the service has several.                                        *)
getConsulServiceName(p, s) ==
  s.name \o (IF Len(s.ports) > 1 /\ p.name # <<>> THEN <<"-">> \o p.name ELSE <<>>)

Entry(i, s, p) ==
  [inst |-> i, name |-> getConsulServiceName(p, s), node |-> p.node, udp |-> p.udp]

EntryAt(i, j, k) == Entry(i, plan[i].services[j], plan[i].services[j].ports[k])

PortsAt(i, j) == DOMAIN plan[i].services[j].ports

EntriesOf(i, j) == {EntryAt(i, j, k) : k \in PortsAt(i, j)}

AllEntries == UNION {UNION {EntriesOf(i, j) : j \in DOMAIN plan[i].services} : i \in Instances}

(* The tag that makes a service public; another one is not the broker's. *)
PublicTag == "Public"

Init ==
  /\ \E c \in Cases : instOf = c.about /\ plan = c.plan
  /\ at = [p \in Requests |-> "idle"]
  /\ answer = [p \in Requests |-> "none"]
  /\ gone = [i \in Instances |-> 0]
  /\ secrets = [n \in UNION {DOMAIN Secrets[i] : i \in Instances} |->
                  LET i == CHOOSE i \in Instances : n \in DOMAIN Secrets[i]
                  IN [inst |-> i, val |-> Secrets[i][n]]]
  /\ tags = [e \in AllEntries |-> {"tcp"}]
  /\ pods = [b \in Binds |-> <<>>]
  /\ envs = [b \in Binds |-> <<>>]
  /\ result = [b \in Binds |-> <<>>]
  /\ ports = [v \in Shows |-> {}]
  /\ copy = [v \in Shows |-> {}]
  /\ report = [w \in Views |-> <<>>]
  /\ had = [b \in Binds |-> {}]
  /\ mixed = {}
  /\ wish = [i \in Instances |-> "unknown"]
  /\ expect = [w \in Views |-> wish]

Jump(p, label) == at' = [at EXCEPT ![p] = label]

Respond(p, status) ==
  /\ answer' = [answer EXCEPT ![p] = status]
  /\ Jump(p, "done")

InFlight(p) == at[p] \notin {"idle", "done"}

(* A call fails and the handler answers. *)
Fails(p) == MayFail /\ Respond(p, "500")

-----------------------------------------------------------------------------
(* ServiceBindingsPut *)

(* The values of an instance's secrets; what is absent, or labelled        *)
(* otherwise, is empty.                                                    *)
ValuesFor(i, secs) ==
  {<<n, IF n \in DOMAIN secs /\ secs[n].inst = i THEN secs[n].val ELSE <<>> >> : n \in Names}

(* The ids, the catalog, Cloud Foundry and the cluster are asked. *)
BindStart(b) ==
  /\ at[b] = "idle" /\ instOf[b] # Nobody
  /\ \/ Jump(b, "deployments") /\ UNCHANGED answer
     \/ Fails(b)
  /\ had' = [had EXCEPT ![b] = ValuesFor(instOf[b], secrets)]
  /\ UNCHANGED <<pods, envs, result>>

(* The workloads of one kind that carry the label of the instance. *)
Workloads(i, kind) == IF kind = "deployment" THEN DeploymentsOf(i) ELSE StatefulSetsOf(i)

(* Mutant of ListWorkloads: the label that selects is managed_by. *)
ListWorkloadsOfAll(b, from, kind, to) ==
  /\ at[b] = from
  /\ \/ /\ pods' = [pods EXCEPT ![b] =
                      @ \o FlattenSeq(SetToSeq({Workloads(i, kind) : i \in Instances}))]
        /\ Jump(b, to) /\ UNCHANGED answer
     \/ Fails(b) /\ UNCHANGED pods
  /\ UNCHANGED <<envs, result, had>>

ListWorkloads(b, from, kind, to) ==
  /\ at[b] = from
  /\ \/ /\ pods' = [pods EXCEPT ![b] = @ \o Workloads(instOf[b], kind)]
        /\ Jump(b, to) /\ UNCHANGED answer
     \/ Fails(b) /\ UNCHANGED pods
  /\ UNCHANGED <<envs, result, had>>

(* The value of a reference among the secrets with the instance's label. *)
findSecretValue(i, ref) ==
  IF ref \in DOMAIN secrets /\ secrets[ref].inst = i THEN secrets[ref].val ELSE <<>>

(* The environment of a container: a value, or a reference to a secret. *)
EnvOf(i, container) ==
  [k \in DOMAIN container |->
     IF container[k].val = <<>> /\ container[k].ref # Nobody
     THEN findSecretValue(i, container[k].ref) ELSE container[k].val]

(* A variable without a value or a source is dereferenced: the handler is  *)
(* left and answered with 500.                                             *)
NilDereference(list) ==
  \E j \in DOMAIN list : \E k \in DOMAIN list[j] : list[j][k].val = <<>> /\ list[j][k].nosource

(* The secrets are listed and the environments put together. *)
GetAllPodsEnvs(b) ==
  /\ at[b] = "secrets"
  /\ IF pods[b] = <<>> \/ NilDereference(pods[b])
     THEN Respond(b, "500") /\ UNCHANGED envs
     ELSE \/ /\ envs' = [envs EXCEPT ![b] =
                           [j \in DOMAIN pods[b] |-> EnvOf(instOf[b], pods[b][j])]]
             /\ Jump(b, "services") /\ UNCHANGED answer
          \/ Fails(b) /\ UNCHANGED envs
  /\ UNCHANGED <<pods, result, had>>

(* The name in Consul of the first TCP port. *)
HostOf(s) ==
  LET tcp == SelectSeq(s.ports, LAMBDA p : ~p.udp)
  IN IF tcp = <<>> THEN <<>> ELSE getConsulServiceName(tcp[1], s)

getServiceCredentials(svcs) ==
  [j \in DOMAIN svcs |->
     [name |-> svcs[j].name, host |-> HostOf(svcs[j]), ports |-> svcs[j].ports]]

(* The services are listed, the blueprint is read and the mapping filled. *)
Bind(b) ==
  LET i == instOf[b]
      svcs == getServiceCredentials(ServicesOf(i))
      mapped == ParseCredentialMappingAdvanced(plan[i].displayName, svcs, envs[b], plan[i])
  IN
  /\ at[b] = "services"
  /\ IF svcs = <<>> \/ mapped = Error
     THEN Respond(b, "500") /\ UNCHANGED result
     ELSE \/ Respond(b, "201") /\ result' = [result EXCEPT ![b] = mapped]
          \/ Fails(b) /\ UNCHANGED result
  /\ UNCHANGED <<pods, envs, had>>

BindStep(b) ==
  /\ \/ ListWorkloads(b, "deployments", "deployment", "sets")
     \/ ListWorkloads(b, "sets", "statefulset", "secrets")
     \/ GetAllPodsEnvs(b) \/ Bind(b)
  /\ UNCHANGED <<instOf, plan, gone, secrets, tags, showVars, viewVars>>

-----------------------------------------------------------------------------
(* SetServiceVisibility and UpdateServiceTag *)

(* The request is parsed and the cluster fetched.  What was known of the   *)
(* visibility of the instance is known no more.                            *)
ShowStart(v) ==
  LET others == {u \in Shows \ {v} : InFlight(u) /\ instOf[u] = instOf[v]} IN
  /\ at[v] = "idle" /\ instOf[v] # Nobody
  /\ \/ /\ Jump(v, "list")
        /\ UNCHANGED answer
        /\ mixed' = IF others = {} THEN mixed ELSE mixed \cup others \cup {v}
        /\ wish' = [wish EXCEPT ![instOf[v]] = "unknown"]
        /\ expect' = [w \in Views |-> [expect[w] EXCEPT ![instOf[v]] =
                                          IF InFlight(w) THEN "unknown" ELSE @]]
     \/ Fails(v) /\ UNCHANGED <<mixed, wish, expect>>
  /\ UNCHANGED <<ports, copy, report>>

(* consulData is not emptied between two services: the update for a        *)
(* service repeats those of the services before it.  An update is told by  *)
(* the service that is handled, the service it is about and its TCP port.  *)
Updates(i) ==
  {u \in Existing(i) \X Existing(i) \X UNION {PortsAt(i, j) : j \in Existing(i)} :
     /\ u[2] <= u[1]
     /\ u[3] \in PortsAt(i, u[2])
     /\ ~plan[i].services[u[2]].ports[u[3]].udp}

Precedes(u, w) ==
  \/ u[1] < w[1]
  \/ u[1] = w[1] /\ u[2] < w[2]
  \/ u[1] = w[1] /\ u[2] = w[2] /\ u[3] <= w[3]

(* The update that is next, and the entry that it is about. *)
NextUpdates(v) == {u \in ports[v] : \A w \in ports[v] : Precedes(u, w)}

Target(v, u) == EntryAt(instOf[v], u[2], u[3])

ShowList(v) ==
  /\ at[v] = "list"
  /\ \/ /\ ports' = [ports EXCEPT ![v] = Updates(instOf[v])]
        /\ Jump(v, "read") /\ UNCHANGED answer
     \/ Fails(v) /\ UNCHANGED ports
  /\ UNCHANGED <<tags, copy, mixed, wish>>

(* The services are read from Consul and the one to update is looked for. *)
ReadTags(v) ==
  /\ at[v] = "read"
  /\ \E u \in NextUpdates(v) :
       IF Target(v, u) \notin DOMAIN tags
       THEN Respond(v, "500") /\ UNCHANGED copy
       ELSE \/ /\ copy' = [copy EXCEPT ![v] = tags[Target(v, u)]]
               /\ Jump(v, "register") /\ UNCHANGED answer
            \/ Fails(v) /\ UNCHANGED copy
  /\ UNCHANGED <<tags, ports, mixed, wish>>

(* Mutant of NewTags: the public tag is added but never taken away. *)
NewTagsOnlyAdds(old, visibility) ==
  old \cup (IF visibility = "public" THEN {PublicTag} ELSE {})

(* The public tag is taken away, and added if the service is to be public. *)
NewTags(old, visibility) ==
  (old \ {PublicTag}) \cup (IF visibility = "public" THEN {PublicTag} ELSE {})

(* A function with the value of one argument set. *)
Put(f, x, y) == [z \in DOMAIN f \cup {x} |-> IF z = x THEN y ELSE f[z]]

(* It is registered anew, also if it was deregistered since. *)
RegisterTags(v) ==
  /\ at[v] = "register"
  /\ \/ /\ \E u \in NextUpdates(v) :
             /\ tags' = Put(tags, Target(v, u), NewTags(copy[v], Public[v]))
             /\ ports' = [ports EXCEPT ![v] = @ \ {u}]
        /\ Jump(v, "read") /\ UNCHANGED answer
     \/ Fails(v) /\ UNCHANGED <<tags, ports>>
  /\ UNCHANGED <<copy, mixed, wish>>

ShowEnd(v) ==
  /\ at[v] = "read" /\ ports[v] = {}
  /\ Respond(v, "202")
  /\ wish' = [wish EXCEPT ![instOf[v]] = IF v \in mixed THEN "unknown" ELSE Public[v]]
  /\ UNCHANGED <<tags, ports, copy, mixed>>

ShowStep(v) ==
  /\ ShowList(v) \/ ReadTags(v) \/ RegisterTags(v) \/ ShowEnd(v)
  /\ UNCHANGED <<instOf, plan, gone, secrets, bindVars, viewVars>>

-----------------------------------------------------------------------------
(* GetService and GetServices *)

(* The cluster is fetched ... *)
ViewStart(w) ==
  /\ at[w] = "idle" /\ instOf[w] # Nobody
  /\ \/ Jump(w, "tags") /\ UNCHANGED answer /\ expect' = [expect EXCEPT ![w] = wish]
     \/ Fails(w) /\ UNCHANGED expect
  /\ UNCHANGED report

(* The services of the instance, or of all instances. *)
Viewed(w) ==
  {s \in Instances \X UNION {Existing(i) : i \in Instances} :
     /\ instOf[w] \in {s[1], Everybody}
     /\ s[2] \in Existing(s[1])}

(* ... and the services are listed. *)
ViewList(w) ==
  /\ at[w] = "tags"
  /\ \/ /\ report' = [report EXCEPT ![w] = [s \in Viewed(w) |-> "none"]]
        /\ Jump(w, "report") /\ UNCHANGED answer
     \/ Fails(w) /\ UNCHANGED report
  /\ UNCHANGED expect

isPublicTagIncluded(t) == IF PublicTag \in t THEN "public" ELSE "private"

HasSubstring(text, sub) ==
  \E j \in 1..(Len(text) + 1 - Len(sub)) : SubSeq(text, j, j + Len(sub) - 1) = sub

(* Any entry of Consul whose name contains that of the service counts, and *)
(* no entry at all is private.                                             *)
Matching(name) == {e \in DOMAIN tags : HasSubstring(e.name, name)}

(* Mutant of readTapPublic: the name has to be the same. *)
readTapPublicExact(name) ==
  LET same == {e \in DOMAIN tags : e.name = name}
  IN IF same = {} THEN {"private"} ELSE {isPublicTagIncluded(tags[e]) : e \in same}

readTapPublic(name) ==
  IF Matching(name) = {} THEN {"private"}
  ELSE {isPublicTagIncluded(tags[e]) : e \in Matching(name)}

(* createServiceInfoList: a flag for each service, from what Consul says. *)
createServiceInfoList(list) ==
  {flags \in [list -> {"public", "private"}] :
     \A s \in list : flags[s] \in readTapPublic(plan[s[1]].services[s[2]].name)}

(* The list of Consul is read.  If that fails the status is 500, but the   *)
(* handler goes on with an empty list and writes that all are private.     *)
ViewReport(w) ==
  LET list == DOMAIN report[w] IN
  /\ at[w] = "report"
  /\ \/ /\ \E flags \in createServiceInfoList(list) : report' = [report EXCEPT ![w] = flags]
        /\ Respond(w, "202")
     \/ /\ Fails(w)
        /\ report' = [report EXCEPT ![w] = [s \in list |-> "private"]]
  /\ UNCHANGED expect

ViewStep(w) ==
  /\ ViewList(w) \/ ViewReport(w)
  /\ UNCHANGED <<instOf, plan, gone, secrets, tags, bindVars, showVars>>

-----------------------------------------------------------------------------
(* CreateSecret, UpdateSecret, DeleteSecret, and deprovisioning *)

(* A new state of the secrets is seen by the bindings in flight. *)
Observe ==
  had' = [b \in Binds |->
            IF InFlight(b) THEN had[b] \cup ValuesFor(instOf[b], secrets') ELSE had[b]]

(* The body of a request has a new value, and the label of the instance or *)
(* none.                                                                   *)
NewSecrets(i) == [inst : {i, Nobody}, val : {<<"new">>}]

CreateSecret(n, i) ==
  /\ n \notin DOMAIN secrets
  /\ \E new \in NewSecrets(i) : secrets' = Put(secrets, n, new)

UpdateSecret(n, i) ==
  /\ n \in DOMAIN secrets
  /\ \E new \in NewSecrets(i) : secrets' = [secrets EXCEPT ![n] = new]

DeleteSecret(n) ==
  /\ n \in DOMAIN secrets
  /\ secrets' = [m \in DOMAIN secrets \ {n} |-> secrets[m]]

(* The cluster is fetched and Kubernetes called; an error is answered. *)
SecretCall(s) ==
  LET i == instOf[s] IN
  /\ at[s] = "idle" /\ i # Nobody
  /\ \/ /\ \E n \in DOMAIN Secrets[i] : CreateSecret(n, i) \/ UpdateSecret(n, i) \/ DeleteSecret(n)
        /\ Respond(s, "200")
     \/ Respond(s, "500") /\ UNCHANGED secrets
  /\ Observe
  /\ UNCHANGED <<instOf, plan, gone, tags, pods, envs, result, showVars, viewVars>>

Objects(i) == Len(plan[i].services) + Len(plan[i].sets) + Len(plan[i].deployments)

(* DeleteAllByServiceId removes the next object of the instance. *)
Deprovision(i) ==
  /\ \/ /\ gone[i] < Objects(i)
        /\ gone' = [gone EXCEPT ![i] = @ + 1]
        /\ UNCHANGED secrets
     \/ /\ gone[i] = Objects(i)
        /\ \E n \in DOMAIN secrets : secrets[n].inst = i /\ DeleteSecret(n)
        /\ UNCHANGED gone
  /\ Observe
  /\ UNCHANGED <<instOf, plan, at, answer, tags, pods, envs, result, showVars, viewVars>>

(* What registers services in Consul takes one away that is gone. *)
Deregister(i) ==
  \E j \in DOMAIN plan[i].services :
    /\ j <= gone[i]
    /\ EntriesOf(i, j) \cap DOMAIN tags # {}
    /\ tags' = [e \in DOMAIN tags \ EntriesOf(i, j) |-> tags[e]]
    /\ UNCHANGED <<instOf, plan, at, answer, gone, secrets, bindVars, showVars, viewVars>>

Start(p) ==
  /\ \/ p \in Binds /\ BindStart(p) /\ UNCHANGED <<showVars, viewVars>>
     \/ p \in Shows /\ ShowStart(p) /\ UNCHANGED bindVars
     \/ p \in Views /\ ViewStart(p) /\ UNCHANGED <<bindVars, showVars>>
  /\ UNCHANGED <<instOf, plan, gone, secrets, tags>>

Next ==
  \/ \E p \in Binds \cup Shows \cup Views : Start(p)
  \/ \E b \in Binds : BindStep(b)
  \/ \E v \in Shows : ShowStep(v)
  \/ \E w \in Views : ViewStep(w)
  \/ \E s \in SecretCalls : SecretCall(s)
  \/ \E i \in Instances : Deprovision(i) \/ Deregister(i)

Spec == Init /\ [][Next]_vars

-----------------------------------------------------------------------------
(* The variables a container of the instance has in its plan. *)
OwnEnvs(i) == Elements(plan[i].deployments) \cup Elements(plan[i].sets)

(* Each variable of the containers a binding is made of has the value in   *)
(* the plan of the instance, or one that its secret had meanwhile.         *)
MadeOfOwn(b) ==
  /\ envs[b] # <<>>
  /\ \A j \in DOMAIN envs[b] : \E own \in OwnEnvs(instOf[b]) :
       /\ DOMAIN own = DOMAIN envs[b][j]
       /\ \A k \in DOMAIN own :
            IF own[k].val # <<>> \/ own[k].ref = Nobody THEN envs[b][j][k] = own[k].val
            ELSE <<own[k].ref, envs[b][j][k]>> \in had[b]

(* A binding that is answered with 201 is made of the environment of its   *)
(* own instance, however secrets change and objects disappear between the  *)
(* calls that ServiceBindingsPut makes.                                    *)
BindingIsOwn == \A b \in Binds : answer[b] = "201" => MadeOfOwn(b)

(* The credentials that the documentation promises for a binding, if a     *)
(* number of services was already removed.                                 *)
Documentation(b, removed) ==
  LET p == plan[instOf[b]]
  IN DocumentedMapping(p.displayName, getServiceCredentials(Left(p.services, removed)), envs[b], p)

Remaining(b) == {n \in 0..gone[instOf[b]] : n < Len(plan[instOf[b]].services)}

(* The credentials of a binding are what the documentation says of the     *)
(* placeholders, for the services that exist, if no placeholder is a       *)
(* prefix of a later one, none has a digit and the exposed ports come      *)
(* first.                                                                  *)
MappingCorrect ==
  \A b \in Binds :
    answer[b] = "201" /\ WellFormed(plan[instOf[b]].services, plan[instOf[b]]) =>
      \E removed \in Remaining(b) : result[b] = Documentation(b, removed)

TcpEntries(i, j) == {e \in EntriesOf(i, j) : ~e.udp}

TagsFor(visibility) == {"tcp"} \cup (IF visibility = "public" THEN {PublicTag} ELSE {})

(* After a visibility request that no other one overlapped was answered    *)
(* with 202, and until the next one, every TCP port of the services of the *)
(* instance has in Consul the visibility that was asked for, and its other *)
(* tags.                                                                   *)
VisibilityApplied ==
  \A i \in Instances : wish[i] # "unknown" =>
    \A j \in Existing(i) : \A e \in TcpEntries(i, j) :
      e \in DOMAIN tags /\ tags[e] = TagsFor(wish[i])

(* The service exists, and the entries whose name contains that of the     *)
(* service are TCP ports of services of its instance that exist.           *)
Unmistakable(s) ==
  /\ s[2] \in Existing(s[1])
  /\ \A e \in AllEntries :
       HasSubstring(e.name, plan[s[1]].services[s[2]].name) =>
         \E j \in Existing(s[1]) : e \in TcpEntries(s[1], j)

(* A view that starts then reports it for every service that cannot be     *)
(* mistaken for another one.                                               *)
VisibilityReported ==
  \A w \in Views : answer[w] = "202" =>
    \A s \in DOMAIN report[w] :
      Unmistakable(s) /\ expect[w][s[1]] # "unknown" => report[w][s] = expect[w][s[1]]

-----------------------------------------------------------------------------
(* "Values prefixed with $env_<somename> are replaced with environment     *)
(* variables values named <somename>", "Values prefixed with $port_<int>   *)
(* are replaced with exposed container ports <int>".                       *)
MappingAsDocumented ==
  \A b \in Binds :
    answer[b] = "201" => \E removed \in Remaining(b) : result[b] = Documentation(b, removed)
=============================================================================
