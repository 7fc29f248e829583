---------------------------- MODULE AccessProofs ----------------------------
(***************************************************************************)
(* Bindings, visibility requests and views do what they promise, for any   *)
(* number of instances, requests, services, ports and workloads.           *)
(***************************************************************************)
EXTENDS ServiceAccess, SequenceTheorems, TLAPS

BindLabels == {"idle", "deployments", "sets", "secrets", "services", "done"}
ShowLabels == {"idle", "list", "read", "register", "done"}
ViewLabels == {"idle", "tags", "report", "done"}

AccessTyped ==
  /\ \E c \in Cases : instOf = c.about /\ plan = c.plan
  /\ at \in [Requests -> BindLabels \cup ShowLabels \cup ViewLabels]
  /\ answer \in [Requests -> {"none", "200", "201", "202", "500"}]
  /\ gone \in [Instances -> Nat]
  /\ DOMAIN pods = Binds /\ DOMAIN envs = Binds /\ DOMAIN had = Binds
  /\ DOMAIN ports = Shows /\ DOMAIN copy = Shows
  /\ DOMAIN report = Views
  /\ wish \in [Instances -> {"unknown", "public", "private"}]
  /\ expect \in [Views -> [Instances -> {"unknown", "public", "private"}]]

(* Which labels a request comes to; only one that is made leaves the first *)
(* and only one at the last has an answer.                                 *)
AccessRoles ==
  /\ \A b \in Binds : at[b] \in BindLabels
  /\ \A v \in Shows : at[v] \in ShowLabels
  /\ \A w \in Views : at[w] \in ViewLabels
  /\ \A r \in Requests :
       /\ at[r] # "idle" => instOf[r] # Nobody
       /\ answer[r] # "none" => at[r] = "done"

AccessInv == AccessTyped /\ AccessRoles

(* What makes BindingIsOwn inductive: the workloads listed are those of    *)
(* the instance, and the values its secrets have now are among those they  *)
(* had since the request came.                                             *)
BindOwn(b) ==
  /\ IF at[b] = "idle" THEN pods[b] = <<>> ELSE pods[b] \in Seq(OwnEnvs(instOf[b]))
  /\ InFlight(b) => ValuesFor(instOf[b], secrets) \subseteq had[b]
  /\ at[b] = "services" \/ answer[b] = "201" => MadeOfOwn(b)

(* What the broker relies on in Consul: it has entries for the ports of    *)
(* the services, for all of a service that exists, and nobody changes      *)
(* their tags but for the public one.                                      *)
ConsulKept ==
  /\ DOMAIN tags \subseteq AllEntries
  /\ \A e \in DOMAIN tags : tags[e] \ {PublicTag} = {"tcp"}
  /\ \A i \in Instances : \A j \in Existing(i) : EntriesOf(i, j) \subseteq DOMAIN tags

Updating(v) == at[v] \in {"read", "register"}

Tcp(i, j) == {k \in PortsAt(i, j) : ~plan[i].services[j].ports[k].udp}

(* What makes VisibilityApplied inductive: a port of a service that exists *)
(* is still to be updated or has the tags that were asked for, unless      *)
(* another request overlaps ...                                            *)
ShowAt(v) ==
  /\ Updating(v) => \A u \in ports[v] : u[2] \in DOMAIN plan[instOf[v]].services
                                        /\ u[3] \in PortsAt(instOf[v], u[2])
  /\ at[v] = "register" => copy[v] \ {PublicTag} = {"tcp"}
  /\ Updating(v) /\ v \notin mixed =>
       \A j \in Existing(instOf[v]) : \A k \in Tcp(instOf[v], j) :
         \/ \E u \in ports[v] : u[2] = j /\ u[3] = k
         \/ tags[EntryAt(instOf[v], j, k)] = TagsFor(Public[v])

(* ... and overlapping requests know of each other.                        *)
OverlapSeen ==
  \A u, v \in Shows :
    u # v /\ InFlight(u) /\ InFlight(v) /\ instOf[u] = instOf[v] => u \in mixed

WishHolds(i) ==
  wish[i] # "unknown" =>
    /\ \A v \in Shows : instOf[v] = i => ~InFlight(v)
    /\ \A j \in Existing(i) : \A k \in Tcp(i, j) : tags[EntryAt(i, j, k)] = TagsFor(wish[i])

ShowInv ==
  /\ ConsulKept /\ OverlapSeen
  /\ \A v \in Shows : ShowAt(v)
  /\ \A i \in Instances : WishHolds(i)

(* What makes VisibilityReported inductive: the visibility that a view     *)
(* expects is the one that was set last.                                   *)
ViewAt(w) ==
  /\ InFlight(w) => \A i \in Instances : expect[w][i] \in {"unknown", wish[i]}
  /\ \A s \in DOMAIN report[w] : s[1] \in Instances /\ s[2] \in DOMAIN plan[s[1]].services
  /\ answer[w] = "202" =>
       \A s \in DOMAIN report[w] :
         Unmistakable(s) /\ expect[w][s[1]] # "unknown" => report[w][s] = expect[w][s[1]]
-----------------------------------------------------------------------------
(* The requests and the plans *)

LEMMA RequestKinds ==
  /\ \A b \in Binds : b \in Requests /\ b \notin Shows /\ b \notin Views /\ b \notin SecretCalls
  /\ \A v \in Shows : v \in Requests /\ v \notin Binds /\ v \notin Views /\ v \notin SecretCalls
  /\ \A w \in Views : w \in Requests /\ w \notin Binds /\ w \notin Shows /\ w \notin SecretCalls
  /\ \A s \in SecretCalls : s \in Requests /\ s \notin Binds /\ s \notin Shows /\ s \notin Views
BY RequestsDistinct DEF Requests

LEMMA AboutType ==
  ASSUME AccessInv
  PROVE  /\ \A r \in Requests : instOf[r] \in Instances \cup {Nobody, Everybody}
         /\ \A r \in Requests \ Views : instOf[r] \in Instances \cup {Nobody}
         /\ \A r \in Requests \ Views : at[r] # "idle" => instOf[r] \in Instances
BY AccessAssumption DEF AccessInv, AccessTyped, AccessRoles

LEMMA PlanType ==
  ASSUME AccessInv, NEW i \in Instances
  PROVE  /\ IsList(plan[i].deployments) /\ IsList(plan[i].sets) /\ IsList(plan[i].services)
         /\ \A env \in OwnEnvs(i) : \A k \in DOMAIN env : env[k].ref \in Names \cup {Nobody}
BY WorkloadsAssumption, ServicesAssumption DEF AccessInv, AccessTyped, OwnEnvs

LEMMA ServiceType ==
  ASSUME AccessInv, NEW i \in Instances, NEW j \in DOMAIN plan[i].services
  PROVE  /\ IsList(plan[i].services[j].name)
         /\ IsList(plan[i].services[j].ports) /\ plan[i].services[j].ports # <<>>
         /\ \A k \in PortsAt(i, j) : IsList(plan[i].services[j].ports[k].name)
BY ServicesAssumption DEF AccessInv, AccessTyped, PortsAt

(* A port of the nodes is that of one service. *)
LEMMA NodePorts ==
  ASSUME AccessInv, NEW i \in Instances,
         NEW j \in DOMAIN plan[i].services, NEW k \in PortsAt(i, j),
         NEW l \in DOMAIN plan[i].services, NEW m \in PortsAt(i, l), j # l
  PROVE  EntryAt(i, j, k) # EntryAt(i, l, m)
<1>1. PICK c \in Cases : plan = c.plan
  BY DEF AccessInv, AccessTyped
<1>. DEFINE p == plan[i].services[j].ports[k]
            q == plan[i].services[l].ports[m]
<1>2. p \in Elements(plan[i].services[j].ports) /\ q \in Elements(plan[i].services[l].ports)
  BY DEF Elements, PortsAt
<1>3. <<p.node, p.udp>> # <<q.node, q.udp>>
  BY <1>1, <1>2, ServicesAssumption
<1>4. EntryAt(i, j, k).node = p.node /\ EntryAt(i, j, k).udp = p.udp
  BY DEF EntryAt, Entry
<1>5. EntryAt(i, l, m).node = q.node /\ EntryAt(i, l, m).udp = q.udp
  BY DEF EntryAt, Entry
<1>. QED BY <1>3, <1>4, <1>5

LEMMA EntryParts ==
  ASSUME NEW i, NEW j, NEW k
  PROVE  /\ EntryAt(i, j, k).inst = i
         /\ EntryAt(i, j, k).udp = plan[i].services[j].ports[k].udp
         /\ EntryAt(i, j, k).name
              = getConsulServiceName(plan[i].services[j].ports[k], plan[i].services[j])
BY DEF EntryAt, Entry

LEMMA AccessInit == Init => AccessInv
<1>. SUFFICES ASSUME Init PROVE AccessInv
  OBVIOUS
<1>1. /\ at \in [Requests -> BindLabels \cup ShowLabels \cup ViewLabels]
      /\ answer \in [Requests -> {"none", "200", "201", "202", "500"}]
      /\ \A r \in Requests : at[r] = "idle" /\ answer[r] = "none"
  BY DEF Init, BindLabels
<1>2. /\ \E c \in Cases : instOf = c.about /\ plan = c.plan
      /\ gone \in [Instances -> Nat]
      /\ DOMAIN pods = Binds /\ DOMAIN envs = Binds /\ DOMAIN had = Binds
      /\ DOMAIN ports = Shows /\ DOMAIN copy = Shows
      /\ DOMAIN report = Views
  BY DEF Init
<1>3. /\ wish \in [Instances -> {"unknown", "public", "private"}]
      /\ expect \in [Views -> [Instances -> {"unknown", "public", "private"}]]
  BY DEF Init
<1>. QED BY <1>1, <1>2, <1>3, RequestKinds
         DEF AccessInv, AccessTyped, AccessRoles, BindLabels, ShowLabels, ViewLabels

Answers == {"none", "200", "201", "202", "500"}

(* A request goes on, or is answered. *)
Goes(p, labels) ==
  /\ at[p] # "done" /\ instOf[p] # Nobody /\ UNCHANGED instOf
  /\ \/ \E l \in labels : Jump(p, l) /\ UNCHANGED answer
     \/ \E st \in Answers : Respond(p, st)

LEMMA RolesStep ==
  ASSUME AccessInv, NEW p \in Requests, NEW labels,
         p \in Binds => labels \subseteq BindLabels,
         p \in Shows => labels \subseteq ShowLabels,
         p \in Views => labels \subseteq ViewLabels,
         p \in SecretCalls => labels = {},
         Goes(p, labels)
  PROVE  /\ at' \in [Requests -> BindLabels \cup ShowLabels \cup ViewLabels]
         /\ answer' \in [Requests -> Answers]
         /\ AccessRoles'
         /\ \A q \in Requests \ {p} : at'[q] = at[q] /\ answer'[q] = answer[q]
<1>1. /\ at \in [Requests -> BindLabels \cup ShowLabels \cup ViewLabels]
      /\ answer \in [Requests -> Answers]
      /\ AccessRoles
  BY DEF AccessInv, AccessTyped, Answers
<1>2. "done" \in BindLabels \cap ShowLabels \cap ViewLabels
  BY DEF BindLabels, ShowLabels, ViewLabels
<1>3. CASE \E l \in labels : Jump(p, l) /\ UNCHANGED answer
  <2>1. PICK l \in labels : at' = [at EXCEPT ![p] = l] /\ answer' = answer
    BY <1>3 DEF Jump
  <2>2. l \in BindLabels \cup ShowLabels \cup ViewLabels
    BY <2>1 DEF Requests
  <2>3. answer[p] = "none"
    BY <1>1 DEF Goes, AccessRoles
  <2>4. at'[p] = l /\ \A q \in Requests \ {p} : at'[q] = at[q]
    BY <1>1, <2>1
  <2>. QED BY <1>1, <2>1, <2>2, <2>3, <2>4, RequestKinds DEF AccessRoles, Goes
<1>4. CASE \E st \in Answers : Respond(p, st)
  <2>1. PICK st \in Answers : at' = [at EXCEPT ![p] = "done"] /\ answer' = [answer EXCEPT ![p] = st]
    BY <1>4 DEF Jump, Respond
  <2>2. at'[p] = "done" /\ \A q \in Requests \ {p} : at'[q] = at[q] /\ answer'[q] = answer[q]
    BY <1>1, <2>1
  <2>. QED BY <1>1, <1>2, <2>1, <2>2, RequestKinds DEF AccessRoles, Goes
<1>. QED BY <1>3, <1>4 DEF Goes

LEMMA BindGoes ==
  ASSUME AccessInv, NEW b \in Binds, Start(b) \/ BindStep(b)
  PROVE  /\ Goes(b, BindLabels)
         /\ UNCHANGED <<instOf, plan, gone, secrets, tags, showVars, viewVars>>
         /\ DOMAIN pods' = Binds /\ DOMAIN envs' = Binds /\ DOMAIN had' = Binds
         /\ \A c \in Binds \ {b} : pods'[c] = pods[c] /\ envs'[c] = envs[c] /\ had'[c] = had[c]
<1>. USE DEF AccessInv, AccessTyped
<1>. b \notin Shows /\ b \notin Views /\ b \in Requests
  BY RequestKinds
<1>1. CASE Start(b)
  <2>1. BindStart(b) /\ UNCHANGED <<instOf, plan, gone, secrets, tags, showVars, viewVars>>
    BY <1>1 DEF Start
  <2>2. Goes(b, BindLabels)
    BY <2>1 DEF Goes, BindStart, Fails, Answers, BindLabels
  <2>. QED BY <2>1, <2>2 DEF BindStart
<1>2. CASE BindStep(b)
  <2>0. at[b] # "idle" => instOf[b] # Nobody
    BY DEF AccessRoles
  <2>1. UNCHANGED <<instOf, plan, gone, secrets, tags, showVars, viewVars>>
    BY <1>2 DEF BindStep
  <2>2. CASE ListWorkloads(b, "deployments", "deployment", "sets")
    BY <2>0, <2>1, <2>2 DEF Goes, ListWorkloads, Fails, Answers, BindLabels
  <2>3. CASE ListWorkloads(b, "sets", "statefulset", "secrets")
    BY <2>0, <2>1, <2>3 DEF Goes, ListWorkloads, Fails, Answers, BindLabels
  <2>4. CASE GetAllPodsEnvs(b)
    BY <2>0, <2>1, <2>4 DEF Goes, GetAllPodsEnvs, Fails, Answers, BindLabels
  <2>5. CASE Bind(b)
    BY <2>0, <2>1, <2>5 DEF Goes, Bind, Fails, Answers, BindLabels
  <2>. QED BY <1>2, <2>2, <2>3, <2>4, <2>5 DEF BindStep
<1>. QED BY <1>1, <1>2

LEMMA ShowGoes ==
  ASSUME AccessInv, NEW v \in Shows, Start(v) \/ ShowStep(v)
  PROVE  /\ Goes(v, ShowLabels)
         /\ UNCHANGED <<instOf, plan, gone, secrets, bindVars, report>>
         /\ DOMAIN ports' = Shows /\ DOMAIN copy' = Shows
         /\ \A u \in Shows \ {v} : ports'[u] = ports[u] /\ copy'[u] = copy[u]
<1>. USE DEF AccessInv, AccessTyped
<1>. v \notin Binds /\ v \notin Views /\ v \in Requests
  BY RequestKinds
<1>1. CASE Start(v)
  <2>1. ShowStart(v) /\ UNCHANGED <<instOf, plan, gone, secrets, tags, bindVars>>
    BY <1>1 DEF Start
  <2>2. Goes(v, ShowLabels)
    BY <2>1 DEF Goes, ShowStart, Fails, Answers, ShowLabels
  <2>. QED BY <2>1, <2>2 DEF ShowStart
<1>2. CASE ShowStep(v)
  <2>0. at[v] # "idle" => instOf[v] # Nobody
    BY DEF AccessRoles
  <2>1. UNCHANGED <<instOf, plan, gone, secrets, bindVars, viewVars>>
    BY <1>2 DEF ShowStep
  <2>2. CASE ShowList(v)
    BY <2>0, <2>1, <2>2 DEF Goes, ShowList, Fails, Answers, ShowLabels, viewVars
  <2>3. CASE ReadTags(v)
    BY <2>0, <2>1, <2>3 DEF Goes, ReadTags, Fails, Answers, ShowLabels, viewVars
  <2>4. CASE RegisterTags(v)
    BY <2>0, <2>1, <2>4 DEF Goes, RegisterTags, Fails, Answers, ShowLabels, viewVars
  <2>5. CASE ShowEnd(v)
    BY <2>0, <2>1, <2>5 DEF Goes, ShowEnd, Fails, Answers, ShowLabels, viewVars
  <2>. QED BY <1>2, <2>2, <2>3, <2>4, <2>5 DEF ShowStep
<1>. QED BY <1>1, <1>2

LEMMA ViewGoes ==
  ASSUME AccessInv, NEW w \in Views, Start(w) \/ ViewStep(w)
  PROVE  /\ Goes(w, ViewLabels)
         /\ UNCHANGED <<instOf, plan, gone, secrets, tags, bindVars, showVars>>
         /\ DOMAIN report' = Views
         /\ \A x \in Views \ {w} : report'[x] = report[x] /\ expect'[x] = expect[x]
<1>. USE DEF AccessInv, AccessTyped
<1>. w \notin Binds /\ w \notin Shows /\ w \in Requests
  BY RequestKinds
<1>1. CASE Start(w)
  <2>1. ViewStart(w) /\ UNCHANGED <<instOf, plan, gone, secrets, tags, bindVars, showVars>>
    BY <1>1 DEF Start
  <2>2. Goes(w, ViewLabels)
    BY <2>1 DEF Goes, ViewStart, Fails, Answers, ViewLabels
  <2>. QED BY <2>1, <2>2 DEF ViewStart
<1>2. CASE ViewStep(w)
  <2>0. at[w] # "idle" => instOf[w] # Nobody
    BY DEF AccessRoles
  <2>1. UNCHANGED <<instOf, plan, gone, secrets, tags, bindVars, showVars>>
    BY <1>2 DEF ViewStep
  <2>2. CASE ViewList(w)
    BY <2>0, <2>1, <2>2 DEF Goes, ViewList, Fails, Answers, ViewLabels
  <2>3. CASE ViewReport(w)
    BY <2>0, <2>1, <2>3 DEF Goes, ViewReport, Fails, Answers, ViewLabels
  <2>. QED BY <1>2, <2>2, <2>3 DEF ViewStep
<1>. QED BY <1>1, <1>2

LEMMA SecretGoes ==
  ASSUME AccessInv, NEW s \in SecretCalls, SecretCall(s)
  PROVE  /\ Goes(s, {})
         /\ UNCHANGED <<instOf, plan, gone, tags, pods, envs, result, showVars, viewVars>>
         /\ Observe
<1>. s \in Requests
  BY RequestKinds
<1>1. instOf[s] # Nobody /\ at[s] = "idle" /\ \E st \in Answers : Respond(s, st)
  BY DEF SecretCall, Answers
<1>. QED BY <1>1 DEF SecretCall, Goes

(* Deprovisioning and Consul: no request goes on. *)
LEMMA OthersGo ==
  ASSUME AccessInv, NEW i \in Instances, Deprovision(i) \/ Deregister(i)
  PROVE  /\ UNCHANGED <<instOf, plan, at, answer, pods, envs, result, showVars, viewVars>>
         /\ gone' \in [Instances -> Nat]
         /\ \A j \in Instances : gone[j] <= gone'[j]
         /\ UNCHANGED <<secrets, had>> \/ Observe
<1>1. gone \in [Instances -> Nat]
  BY DEF AccessInv, AccessTyped
<1>2. CASE Deprovision(i)
  <2>1. gone' = gone \/ gone' = [gone EXCEPT ![i] = @ + 1]
    BY <1>2 DEF Deprovision
  <2>2. gone' \in [Instances -> Nat] /\ \A j \in Instances : gone[j] <= gone'[j]
    BY <1>1, <2>1
  <2>. QED BY <1>2, <2>2 DEF Deprovision
<1>3. CASE Deregister(i)
  <2>1. UNCHANGED <<instOf, plan, at, answer, gone, secrets, bindVars, showVars, viewVars>>
    BY <1>3 DEF Deregister
  <2>. QED BY <1>1, <2>1 DEF bindVars
<1>. QED BY <1>2, <1>3

LEMMA WishType ==
  ASSUME AccessInv, NEW v \in Shows, Start(v) \/ ShowStep(v)
  PROVE  /\ wish' \in [Instances -> {"unknown", "public", "private"}]
         /\ expect' \in [Views -> [Instances -> {"unknown", "public", "private"}]]
<1>1. /\ wish \in [Instances -> {"unknown", "public", "private"}]
      /\ expect \in [Views -> [Instances -> {"unknown", "public", "private"}]]
  BY DEF AccessInv, AccessTyped
<1>. v \notin Binds /\ v \notin Views
  BY RequestKinds
<1>2. CASE Start(v)
  <2>1. ShowStart(v)
    BY <1>2 DEF Start
  <2>2. \/ wish' = wish /\ expect' = expect
        \/ /\ wish' = [wish EXCEPT ![instOf[v]] = "unknown"]
           /\ expect' = [w \in Views |-> [expect[w] EXCEPT ![instOf[v]] =
                                             IF InFlight(w) THEN "unknown" ELSE @]]
    BY <2>1 DEF ShowStart
  <2>. QED BY <1>1, <2>2
<1>3. CASE ShowStep(v)
  <2>1. expect' = expect
    BY <1>3 DEF ShowStep, viewVars
  <2>2. wish' = wish \/ \E x \in {"unknown", "public", "private"} : wish' = [wish EXCEPT ![instOf[v]] = x]
    BY <1>3, AccessAssumption DEF ShowStep, ShowList, ReadTags, RegisterTags, ShowEnd
  <2>. QED BY <1>1, <2>1, <2>2
<1>. QED BY <1>2, <1>3

LEMMA ExpectType ==
  ASSUME AccessInv, NEW w \in Views, Start(w) \/ ViewStep(w)
  PROVE  expect' \in [Views -> [Instances -> {"unknown", "public", "private"}]]
<1>1. /\ wish \in [Instances -> {"unknown", "public", "private"}]
      /\ expect \in [Views -> [Instances -> {"unknown", "public", "private"}]]
  BY DEF AccessInv, AccessTyped
<1>2. expect' = expect \/ expect' = [expect EXCEPT ![w] = wish]
  BY RequestKinds DEF Start, ViewStart, ViewStep, ViewList, ViewReport
<1>. QED BY <1>1, <1>2

LEMMA AccessStep == AccessInv /\ [Next]_vars => AccessInv'
<1>. SUFFICES ASSUME AccessInv, [Next]_vars PROVE AccessInv'
  OBVIOUS
<1>0. /\ AccessTyped /\ AccessRoles
      /\ answer \in [Requests -> Answers]
  BY DEF AccessInv, AccessTyped, Answers
<1>1. ASSUME NEW b \in Binds, Start(b) \/ BindStep(b) PROVE AccessInv'
  BY <1>0, <1>1, BindGoes, RolesStep, RequestKinds
     DEF AccessInv, AccessTyped, Answers, showVars, viewVars
<1>2. ASSUME NEW v \in Shows, Start(v) \/ ShowStep(v) PROVE AccessInv'
  BY <1>0, <1>2, ShowGoes, WishType, RolesStep, RequestKinds
     DEF AccessInv, AccessTyped, Answers, bindVars
<1>3. ASSUME NEW w \in Views, Start(w) \/ ViewStep(w) PROVE AccessInv'
  BY <1>0, <1>3, ViewGoes, ExpectType, RolesStep, RequestKinds
     DEF AccessInv, AccessTyped, Answers, bindVars, showVars
<1>4. ASSUME NEW s \in SecretCalls, SecretCall(s) PROVE AccessInv'
  BY <1>0, <1>4, SecretGoes, RolesStep, RequestKinds
     DEF AccessInv, AccessTyped, Answers, showVars, viewVars, Observe
<1>5. ASSUME NEW i \in Instances, Deprovision(i) \/ Deregister(i) PROVE AccessInv'
  <2>1. DOMAIN had' = Binds
    BY <1>0, <1>5, OthersGo DEF AccessTyped, Observe
  <2>2. UNCHANGED <<instOf, plan, at, answer, pods, envs, ports, copy, report, wish, expect>>
    BY <1>5, OthersGo DEF showVars, viewVars
  <2>. QED BY <1>0, <1>5, <2>1, <2>2, OthersGo DEF AccessInv, AccessTyped, AccessRoles
<1>6. CASE UNCHANGED vars
  BY <1>0, <1>6 DEF AccessInv, AccessTyped, AccessRoles, vars
<1>7. CASE Next
  BY <1>1, <1>2, <1>3, <1>4, <1>5, <1>7 DEF Next
<1>. QED BY <1>6, <1>7

-----------------------------------------------------------------------------
(* Bindings *)

LEMMA LeftType ==
  ASSUME NEW S, NEW list \in Seq(S), NEW n \in Int
  PROVE  Left(list, n) \in Seq(S)
<1>1. Len(list) \in Nat /\ \A j \in 1..Len(list) : list[j] \in S
  BY LenProperties, ElementOfSeq
<1>2. CASE n > 0
  <2>1. \A j \in (n + 1)..Len(list) : list[j] \in S
    BY <1>1, <1>2
  <2>. QED BY <1>1, <1>2, <2>1, SubSeqProperties DEF Left
<1>. QED BY <1>2 DEF Left

(* The workloads that are listed for an instance are its own. *)
LEMMA WorkloadsType ==
  ASSUME AccessInv, NEW i \in Instances, NEW kind
  PROVE  Workloads(i, kind) \in Seq(OwnEnvs(i))
<1>1. /\ plan[i].deployments \in Seq(Elements(plan[i].deployments))
      /\ plan[i].sets \in Seq(Elements(plan[i].sets))
      /\ plan[i].services \in Seq(Elements(plan[i].services))
  BY PlanType DEF IsList
<1>2. plan[i].deployments \in Seq(OwnEnvs(i)) /\ plan[i].sets \in Seq(OwnEnvs(i))
  BY <1>1, SeqMonotonic DEF OwnEnvs
<1>3. gone[i] \in Nat
  BY DEF AccessInv, AccessTyped
<1>4. Len(plan[i].services) \in Nat /\ Len(plan[i].sets) \in Nat
  BY <1>1, LenProperties
<1>5. DeploymentsOf(i) \in Seq(OwnEnvs(i))
  <2>1. gone[i] - Len(plan[i].services) - Len(plan[i].sets) \in Int
    BY <1>3, <1>4
  <2>. QED BY <1>2, <2>1, LeftType DEF DeploymentsOf
<1>6. StatefulSetsOf(i) \in Seq(OwnEnvs(i))
  <2>1. gone[i] - Len(plan[i].services) \in Int
    BY <1>3, <1>4
  <2>. QED BY <1>2, <2>1, LeftType DEF StatefulSetsOf
<1>. QED BY <1>5, <1>6 DEF Workloads

(* What a binding reads of a secret is among the values of the secrets. *)
LEMMA ValueFound ==
  ASSUME NEW i, NEW n \in Names
  PROVE  <<n, findSecretValue(i, n)>> \in ValuesFor(i, secrets)
BY DEF findSecretValue, ValuesFor

(* The environments that GetAllPodsEnvs puts together are the instance's. *)
LEMMA EnvsAreOwn ==
  ASSUME AccessInv, NEW b \in Binds, BindOwn(b), at[b] = "secrets", pods[b] # <<>>,
         envs' = [envs EXCEPT ![b] = [j \in DOMAIN pods[b] |-> EnvOf(instOf[b], pods[b][j])]],
         UNCHANGED <<instOf, plan, had>>
  PROVE  MadeOfOwn(b)'
<1>. DEFINE i == instOf[b]
<1>1. i \in Instances /\ b \in Requests
  BY AboutType, RequestKinds
<1>2. pods[b] \in Seq(OwnEnvs(i)) /\ ValuesFor(i, secrets) \subseteq had[b]
  BY DEF BindOwn, InFlight
<1>3. envs'[b] = [j \in DOMAIN pods[b] |-> EnvOf(i, pods[b][j])]
  BY DEF AccessInv, AccessTyped
<1>4. DOMAIN pods[b] = 1..Len(pods[b]) /\ Len(pods[b]) \in Nat \ {0}
  BY <1>2, LenProperties, EmptySeq
<1>5. envs'[b] # <<>>
  <2>1. 1 \in DOMAIN envs'[b]
    BY <1>3, <1>4
  <2>2. DOMAIN <<>> = {}
    OBVIOUS
  <2>. QED BY <2>1, <2>2
<1>6. ASSUME NEW j \in DOMAIN envs'[b]
      PROVE  \E own \in OwnEnvs(i) :
               /\ DOMAIN own = DOMAIN envs'[b][j]
               /\ \A k \in DOMAIN own :
                    IF own[k].val # <<>> \/ own[k].ref = Nobody THEN envs'[b][j][k] = own[k].val
                    ELSE <<own[k].ref, envs'[b][j][k]>> \in had[b]
  <2>1. j \in 1..Len(pods[b]) /\ envs'[b][j] = EnvOf(i, pods[b][j])
    BY <1>3, <1>4, <1>6
  <2>. DEFINE own == pods[b][j]
  <2>2. own \in OwnEnvs(i)
    BY <1>2, <2>1, ElementOfSeq
  <2>3. DOMAIN own = DOMAIN envs'[b][j]
    BY <2>1 DEF EnvOf
  <2>4. ASSUME NEW k \in DOMAIN own
        PROVE  IF own[k].val # <<>> \/ own[k].ref = Nobody THEN envs'[b][j][k] = own[k].val
               ELSE <<own[k].ref, envs'[b][j][k]>> \in had[b]
    <3>1. own[k].ref \in Names \cup {Nobody}
      BY <1>1, <2>2, <2>4, PlanType
    <3>2. envs'[b][j][k] = IF own[k].val = <<>> /\ own[k].ref # Nobody
                           THEN findSecretValue(i, own[k].ref) ELSE own[k].val
      BY <2>1, <2>4 DEF EnvOf
    <3>. QED BY <1>2, <3>1, <3>2, ValueFound
  <2>. QED BY <2>2, <2>3, <2>4
<1>7. OwnEnvs(instOf[b])' = OwnEnvs(i) /\ had'[b] = had[b]
  BY DEF OwnEnvs
<1>. HIDE DEF i
<1>8. MadeOfOwn(b)' <=>
        /\ envs'[b] # <<>>
        /\ \A j \in DOMAIN envs'[b] : \E own \in OwnEnvs(i) :
             /\ DOMAIN own = DOMAIN envs'[b][j]
             /\ \A k \in DOMAIN own :
                  IF own[k].val # <<>> \/ own[k].ref = Nobody THEN envs'[b][j][k] = own[k].val
                  ELSE <<own[k].ref, envs'[b][j][k]>> \in had[b]
  BY <1>7 DEF MadeOfOwn
<1>. QED BY <1>5, <1>6, <1>8

(* What a binding was made of stays its own. *)
LEMMA OwnStays ==
  ASSUME NEW b \in Binds, UNCHANGED <<instOf, plan>>, envs'[b] = envs[b], had[b] \subseteq had'[b]
  PROVE  /\ OwnEnvs(instOf[b])' = OwnEnvs(instOf[b])
         /\ MadeOfOwn(b) => MadeOfOwn(b)'
<1>1. OwnEnvs(instOf[b])' = OwnEnvs(instOf[b])
  BY DEF OwnEnvs
<1>. QED BY <1>1 DEF MadeOfOwn

LEMMA BindKeeps ==
  ASSUME AccessInv, NEW b \in Binds, BindOwn(b), UNCHANGED <<instOf, plan>>,
         at'[b] = at[b], answer'[b] = answer[b], pods'[b] = pods[b], envs'[b] = envs[b],
         had[b] \subseteq had'[b],
         InFlight(b) => ValuesFor(instOf[b], secrets') \subseteq had'[b]
  PROVE  BindOwn(b)'
<1>1. InFlight(b)' <=> InFlight(b)
  BY DEF InFlight
<1>2. ValuesFor(instOf[b], secrets)' = ValuesFor(instOf[b], secrets')
  BY DEF ValuesFor
<1>. QED BY <1>1, <1>2, OwnStays DEF BindOwn

LEMMA BindObserves ==
  ASSUME AccessInv, NEW b \in Binds, BindOwn(b), UNCHANGED <<instOf, plan>>,
         at'[b] = at[b], answer'[b] = answer[b], pods'[b] = pods[b], envs'[b] = envs[b],
         UNCHANGED <<secrets, had>> \/ Observe
  PROVE  BindOwn(b)'
<1>1. CASE UNCHANGED <<secrets, had>>
  BY <1>1, BindKeeps DEF BindOwn
<1>2. CASE Observe
  <2>1. had'[b] = IF InFlight(b) THEN had[b] \cup ValuesFor(instOf[b], secrets') ELSE had[b]
    BY <1>2 DEF Observe
  <2>. QED BY <2>1, BindKeeps
<1>. QED BY <1>1, <1>2

LEMMA BindMakesOwn ==
  ASSUME AccessInv, NEW b \in Binds, BindOwn(b), Start(b) \/ BindStep(b)
  PROVE  BindOwn(b)'
<1>. b \in Requests /\ b \notin Shows /\ b \notin Views
  BY RequestKinds
<1>0. /\ b \in DOMAIN at /\ b \in DOMAIN answer /\ b \in DOMAIN pods /\ b \in DOMAIN had
      /\ UNCHANGED <<instOf, plan, secrets>>
  BY BindGoes DEF AccessInv, AccessTyped
<1>00. ValuesFor(instOf[b], secrets)' = ValuesFor(instOf[b], secrets)
  BY <1>0 DEF ValuesFor
<1>01. at[b] # "done" => answer[b] = "none"
  BY DEF AccessInv, AccessRoles
<1>1. CASE Start(b)
  <2>1. BindStart(b)
    BY <1>1 DEF Start
  <2>2. /\ had'[b] = ValuesFor(instOf[b], secrets) /\ pods' = pods /\ pods[b] = <<>>
        /\ at'[b] \in {"deployments", "done"}
        /\ answer'[b] \in {"none", "500"}
    BY <1>0, <1>01, <2>1 DEF BindStart, Jump, Fails, Respond, BindOwn
  <2>. QED BY <1>0, <1>00, <2>2, EmptySeq DEF BindOwn, InFlight
<1>2. CASE BindStep(b) /\ ~GetAllPodsEnvs(b) /\ ~Bind(b)
  <2>1. PICK kind, from, to : ListWorkloads(b, from, kind, to) /\ from \in {"deployments", "sets"}
                              /\ to \in {"sets", "secrets"}
    BY <1>2 DEF BindStep
  <2>2. /\ envs' = envs /\ had' = had /\ InFlight(b)
        /\ at'[b] \in {"sets", "secrets", "done"} /\ answer'[b] \in {"none", "500"}
        /\ pods'[b] \in {pods[b], pods[b] \o Workloads(instOf[b], kind)}
    BY <1>0, <1>01, <2>1 DEF ListWorkloads, Jump, Fails, Respond, InFlight
  <2>3. instOf[b] \in Instances /\ pods[b] \in Seq(OwnEnvs(instOf[b]))
    BY <2>2, AboutType DEF InFlight, BindOwn
  <2>4. pods'[b] \in Seq(OwnEnvs(instOf[b]))
    <3>1. Workloads(instOf[b], kind) \in Seq(OwnEnvs(instOf[b]))
      BY <2>3, WorkloadsType
    <3>. QED BY <2>2, <2>3, <3>1, ConcatProperties
  <2>5. OwnEnvs(instOf[b])' = OwnEnvs(instOf[b])
    BY <1>0 DEF OwnEnvs
  <2>. QED BY <1>0, <1>00, <2>2, <2>4, <2>5 DEF BindOwn, InFlight
<1>3. CASE GetAllPodsEnvs(b)
  <2>1. /\ pods' = pods /\ had' = had /\ at[b] = "secrets" /\ InFlight(b)
        /\ at'[b] \in {"services", "done"} /\ answer'[b] \in {"none", "500"}
    BY <1>0, <1>01, <1>3 DEF GetAllPodsEnvs, Jump, Fails, Respond, InFlight
  <2>2. at'[b] = "services" => MadeOfOwn(b)'
    <3>. HAVE at'[b] = "services"
    <3>1. /\ pods[b] # <<>>
          /\ envs' = [envs EXCEPT ![b] = [j \in DOMAIN pods[b] |-> EnvOf(instOf[b], pods[b][j])]]
      BY <1>0, <1>3 DEF GetAllPodsEnvs, Jump, Fails, Respond
    <3>. QED BY <1>0, <2>1, <3>1, EnvsAreOwn
  <2>3. OwnEnvs(instOf[b])' = OwnEnvs(instOf[b])
    BY <1>0 DEF OwnEnvs
  <2>. QED BY <1>0, <1>00, <2>1, <2>2, <2>3 DEF BindOwn, InFlight
<1>4. CASE Bind(b)
  <2>1. /\ pods' = pods /\ envs' = envs /\ had' = had /\ at[b] = "services" /\ InFlight(b)
        /\ at'[b] = "done"
    BY <1>0, <1>4 DEF Bind, Jump, Fails, Respond, InFlight
  <2>2. MadeOfOwn(b)'
    BY <1>0, <2>1, OwnStays DEF BindOwn
  <2>3. OwnEnvs(instOf[b])' = OwnEnvs(instOf[b])
    BY <1>0 DEF OwnEnvs
  <2>. QED BY <1>0, <2>1, <2>2, <2>3 DEF BindOwn, InFlight
<1>. QED BY <1>1, <1>2, <1>3, <1>4

LEMMA BindOwnStep ==
  ASSUME AccessInv, \A b \in Binds : BindOwn(b), [Next]_vars
  PROVE  (\A b \in Binds : BindOwn(b))'
<1>. SUFFICES ASSUME NEW b \in Binds PROVE BindOwn(b)'
  OBVIOUS
<1>. b \in Requests /\ b \notin Shows /\ b \notin Views /\ b \notin SecretCalls
  BY RequestKinds
<1>. BindOwn(b)
  OBVIOUS
<1>1. ASSUME NEW c \in Binds, Start(c) \/ BindStep(c) PROVE BindOwn(b)'
  <2>1. CASE c = b
    BY <1>1, <2>1, BindMakesOwn
  <2>2. CASE c # b
    <3>1. at'[b] = at[b] /\ answer'[b] = answer[b]
      BY <1>1, <2>2, BindGoes, RolesStep, RequestKinds
    <3>2. UNCHANGED <<instOf, plan, secrets>> /\ pods'[b] = pods[b] /\ envs'[b] = envs[b]
          /\ had'[b] = had[b]
      BY <1>1, <2>2, BindGoes
    <3>. QED BY <3>1, <3>2, BindKeeps DEF BindOwn
  <2>. QED BY <2>1, <2>2
<1>2. ASSUME NEW v \in Shows, Start(v) \/ ShowStep(v) PROVE BindOwn(b)'
  <2>1. at'[b] = at[b] /\ answer'[b] = answer[b]
    BY <1>2, ShowGoes, RolesStep, RequestKinds
  <2>. QED BY <1>2, <2>1, ShowGoes, BindObserves DEF bindVars
<1>3. ASSUME NEW w \in Views, Start(w) \/ ViewStep(w) PROVE BindOwn(b)'
  <2>1. at'[b] = at[b] /\ answer'[b] = answer[b]
    BY <1>3, ViewGoes, RolesStep, RequestKinds
  <2>. QED BY <1>3, <2>1, ViewGoes, BindObserves DEF bindVars
<1>4. ASSUME NEW s \in SecretCalls, SecretCall(s) PROVE BindOwn(b)'
  <2>1. at'[b] = at[b] /\ answer'[b] = answer[b]
    BY <1>4, SecretGoes, RolesStep, RequestKinds
  <2>. QED BY <1>4, <2>1, SecretGoes, BindObserves
<1>5. ASSUME NEW i \in Instances, Deprovision(i) \/ Deregister(i) PROVE BindOwn(b)'
  BY <1>5, OthersGo, BindObserves
<1>6. CASE UNCHANGED vars
  BY <1>6, BindObserves DEF vars
<1>. QED BY <1>1, <1>2, <1>3, <1>4, <1>5, <1>6 DEF Next

(* Whatever happens to secrets and objects between the calls that          *)
(* ServiceBindingsPut makes, the credentials of a binding that is answered *)
(* with 201 come from the environment of its own instance, with the values *)
(* in its plan or values its secrets had meanwhile: for any number of      *)
(* instances, workloads, secrets and requests.                             *)
THEOREM BindingsAreOwn == Spec => []BindingIsOwn
<1>1. ASSUME Init PROVE \A b \in Binds : BindOwn(b)
  <2>. SUFFICES ASSUME NEW b \in Binds PROVE BindOwn(b)
    OBVIOUS
  <2>1. at[b] = "idle" /\ answer[b] = "none" /\ pods[b] = <<>>
    BY <1>1, RequestKinds DEF Init
  <2>. QED BY <2>1 DEF BindOwn, InFlight
<1>2. ASSUME \A b \in Binds : BindOwn(b) PROVE BindingIsOwn
  BY <1>2 DEF BindOwn, BindingIsOwn
<1>. QED BY <1>1, <1>2, AccessInit, AccessStep, BindOwnStep, PTL DEF Spec

-----------------------------------------------------------------------------
(* Visibility *)

LEMMA SamePlaces ==
  ASSUME UNCHANGED plan
  PROVE  /\ \A i, j, k : EntryAt(i, j, k)' = EntryAt(i, j, k)
         /\ \A i, j : PortsAt(i, j)' = PortsAt(i, j) /\ Tcp(i, j)' = Tcp(i, j)
         /\ \A i, j : EntriesOf(i, j)' = EntriesOf(i, j) /\ TcpEntries(i, j)' = TcpEntries(i, j)
         /\ AllEntries' = AllEntries
<1>1. \A i, j, k : EntryAt(i, j, k)' = EntryAt(i, j, k)
  BY DEF EntryAt, Entry
<1>2. \A i, j : PortsAt(i, j)' = PortsAt(i, j) /\ Tcp(i, j)' = Tcp(i, j)
  BY DEF PortsAt, Tcp
<1>3. \A i, j : EntriesOf(i, j)' = EntriesOf(i, j)
  BY <1>1, <1>2 DEF EntriesOf
<1>4. \A i, j : TcpEntries(i, j)' = TcpEntries(i, j)
  BY <1>3 DEF TcpEntries
<1>5. AllEntries' = AllEntries
  BY <1>3 DEF AllEntries
<1>. QED BY <1>1, <1>2, <1>3, <1>4, <1>5

LEMMA FewerServices ==
  ASSUME AccessInv, UNCHANGED plan, gone' \in [Instances -> Nat],
         \A i \in Instances : gone[i] <= gone'[i]
  PROVE  \A i \in Instances : Existing(i)' \subseteq Existing(i)
<1>. SUFFICES ASSUME NEW i \in Instances, NEW j \in Existing(i)' PROVE j \in Existing(i)
  OBVIOUS
<1>1. j \in DOMAIN plan[i].services /\ j > gone'[i]
  BY DEF Existing
<1>2. j \in Nat
  <2>1. plan[i].services \in Seq(Elements(plan[i].services))
    BY PlanType DEF IsList
  <2>. QED BY <1>1, <2>1, LenProperties
<1>3. gone[i] \in Nat /\ gone'[i] \in Nat /\ gone[i] <= gone'[i]
  BY DEF AccessInv, AccessTyped
<1>. QED BY <1>1, <1>2, <1>3 DEF Existing

(* A TCP port of a service that exists has an entry in Consul. *)
LEMMA TcpEntryKept ==
  ASSUME ConsulKept, NEW i \in Instances, NEW j \in Existing(i), NEW k \in Tcp(i, j)
  PROVE  /\ EntryAt(i, j, k) \in DOMAIN tags
         /\ EntryAt(i, j, k) \in TcpEntries(i, j)
<1>1. k \in PortsAt(i, j) /\ ~plan[i].services[j].ports[k].udp
  BY DEF Tcp
<1>2. EntryAt(i, j, k) \in EntriesOf(i, j) /\ ~EntryAt(i, j, k).udp
  BY <1>1, EntryParts DEF EntriesOf
<1>. QED BY <1>2 DEF ConsulKept, TcpEntries

LEMMA TcpEntriesAre ==
  ASSUME NEW i, NEW j, NEW e \in TcpEntries(i, j)
  PROVE  \E k \in Tcp(i, j) : e = EntryAt(i, j, k)
<1>1. PICK k \in PortsAt(i, j) : e = EntryAt(i, j, k)
  BY DEF TcpEntries, EntriesOf
<1>2. ~e.udp
  BY DEF TcpEntries
<1>. QED BY <1>1, <1>2, EntryParts DEF Tcp

(* The tags of the services of an instance are as before. *)
TagsKept(i) ==
  \A j \in Existing(i)' : \A k \in Tcp(i, j) : tags'[EntryAt(i, j, k)] = tags[EntryAt(i, j, k)]

Shrinking ==
  /\ UNCHANGED <<instOf, plan>>
  /\ \A i \in Instances : Existing(i)' \subseteq Existing(i)

LEMMA ShowKeeps ==
  ASSUME AccessInv, NEW v \in Shows, ShowAt(v), Shrinking,
         at'[v] = at[v], ports'[v] = ports[v], copy'[v] = copy[v], mixed \subseteq mixed',
         Updating(v) /\ v \notin mixed' => TagsKept(instOf[v])
  PROVE  ShowAt(v)'
<1>1. Updating(v)' <=> Updating(v)
  BY DEF Updating
<1>2. Updating(v) => instOf[v] \in Instances
  BY AboutType, RequestKinds DEF Updating
<1>3. UNCHANGED <<instOf, plan>> /\ \A i \in Instances : Existing(i)' \subseteq Existing(i)
  BY DEF Shrinking
<1>4. Updating(v)' => (\A u \in ports[v] : u[2] \in DOMAIN plan[instOf[v]].services
                                           /\ u[3] \in PortsAt(instOf[v], u[2]))'
  BY <1>1, <1>3, SamePlaces DEF ShowAt
<1>5. ASSUME Updating(v)', v \notin mixed', NEW j \in Existing(instOf[v])', NEW k \in Tcp(instOf[v], j)
      PROVE  \/ \E u \in ports'[v] : u[2] = j /\ u[3] = k
             \/ tags'[EntryAt(instOf[v], j, k)] = TagsFor(Public[v])
  <2>1. Updating(v) /\ v \notin mixed /\ instOf[v] \in Instances
    BY <1>1, <1>2, <1>5
  <2>2. j \in Existing(instOf[v])
    BY <1>3, <1>5, <2>1
  <2>3. tags'[EntryAt(instOf[v], j, k)] = tags[EntryAt(instOf[v], j, k)]
    BY <1>5, <2>1 DEF TagsKept
  <2>. QED BY <1>5, <2>1, <2>2, <2>3 DEF ShowAt
<1>6. Updating(v)' /\ v \notin mixed' =>
        (\A j \in Existing(instOf[v]) : \A k \in Tcp(instOf[v], j) :
           \/ \E u \in ports[v] : u[2] = j /\ u[3] = k
           \/ tags[EntryAt(instOf[v], j, k)] = TagsFor(Public[v]))'
  <2>1. TagsFor(Public[v])' = TagsFor(Public[v])
    BY DEF TagsFor, PublicTag
  <2>. QED BY <1>3, <1>5, <2>1, SamePlaces
<1>7. at'[v] = "register" => copy'[v] \ {PublicTag} = {"tcp"}
  BY DEF ShowAt
<1>. QED BY <1>4, <1>6, <1>7 DEF ShowAt

LEMMA WishKeeps ==
  ASSUME AccessInv, NEW i \in Instances, WishHolds(i), Shrinking, wish'[i] = wish[i],
         wish[i] # "unknown" =>
           /\ TagsKept(i)
           /\ \A v \in Shows : instOf[v] = i /\ InFlight(v)' => InFlight(v)
  PROVE  WishHolds(i)'
<1>. SUFFICES ASSUME wish'[i] # "unknown"
              PROVE  /\ \A v \in Shows : instOf'[v] = i => ~InFlight(v)'
                     /\ \A j \in Existing(i)' : \A k \in Tcp(i, j)' :
                          tags'[EntryAt(i, j, k)'] = TagsFor(wish'[i])
  BY DEF WishHolds, TagsFor
<1>1. UNCHANGED <<instOf, plan>> /\ Existing(i)' \subseteq Existing(i)
  BY DEF Shrinking
<1>2. \A v \in Shows : instOf'[v] = i => ~InFlight(v)'
  BY <1>1 DEF WishHolds
<1>3. ASSUME NEW j \in Existing(i)', NEW k \in Tcp(i, j)
      PROVE  tags'[EntryAt(i, j, k)] = TagsFor(wish'[i])
  BY <1>1, <1>3 DEF WishHolds, TagsKept
<1>. QED BY <1>1, <1>2, <1>3, SamePlaces

(* Steps that leave Consul and the visibility requests alone; instances    *)
(* may lose services.                                                      *)
LEMMA ShowQuiet ==
  ASSUME AccessInv, ShowInv, Shrinking, UNCHANGED tags,
         \A v \in Shows : at'[v] = at[v], UNCHANGED showVars
  PROVE  ShowInv'
<1>1. UNCHANGED <<instOf, plan, ports, copy, mixed, wish>>
  BY DEF Shrinking, showVars
<1>2. ConsulKept'
  <2>1. \A i \in Instances : Existing(i)' \subseteq Existing(i)
    BY DEF Shrinking
  <2>. QED BY <1>1, <2>1, SamePlaces DEF ShowInv, ConsulKept
<1>3. \A v \in Shows : InFlight(v)' <=> InFlight(v)
  BY DEF InFlight
<1>4. OverlapSeen'
  BY <1>1, <1>3 DEF ShowInv, OverlapSeen
<1>5. \A i \in Instances : TagsKept(i)
  BY DEF TagsKept
<1>6. ASSUME NEW v \in Shows PROVE ShowAt(v)'
  <2>1. Updating(v) => instOf[v] \in Instances
    BY AboutType, RequestKinds DEF Updating
  <2>. QED BY <1>1, <1>5, <2>1, ShowKeeps DEF ShowInv
<1>7. \A i \in Instances : WishHolds(i)'
  BY <1>1, <1>3, <1>5, WishKeeps DEF ShowInv
<1>. QED BY <1>2, <1>4, <1>6, <1>7 DEF ShowInv

LEMMA ShowDeregister ==
  ASSUME AccessInv, ShowInv, NEW i \in Instances, Deregister(i)
  PROVE  ShowInv'
<1>1. PICK j \in DOMAIN plan[i].services :
        j <= gone[i] /\ tags' = [e \in DOMAIN tags \ EntriesOf(i, j) |-> tags[e]]
  BY DEF Deregister
<1>2. UNCHANGED <<instOf, plan, at, gone, ports, copy, mixed, wish>>
  BY DEF Deregister, showVars
<1>3. \A m \in Instances : Existing(m)' = Existing(m)
  BY <1>2 DEF Existing
<1>4. ASSUME NEW m \in Instances, NEW l \in Existing(m), NEW k \in PortsAt(m, l)
      PROVE  EntryAt(m, l, k) \notin EntriesOf(i, j)
  <2>. SUFFICES ASSUME NEW n \in PortsAt(i, j), EntryAt(m, l, k) = EntryAt(i, j, n) PROVE FALSE
    BY DEF EntriesOf
  <2>1. m = i
    BY EntryParts
  <2>2. l \in DOMAIN plan[m].services /\ l > gone[m]
    BY <1>4 DEF Existing
  <2>3. l # j
    <3>1. plan[i].services \in Seq(Elements(plan[i].services))
      BY PlanType DEF IsList
    <3>2. j \in Nat /\ gone[i] \in Nat
      BY <3>1, LenProperties DEF AccessInv, AccessTyped
    <3>. QED BY <1>1, <2>1, <2>2, <3>2
  <2>. QED BY <1>4, <2>1, <2>2, <2>3, NodePorts
<1>5. ASSUME NEW m \in Instances, NEW l \in Existing(m), NEW k \in PortsAt(m, l)
      PROVE  EntryAt(m, l, k) \in DOMAIN tags' /\ tags'[EntryAt(m, l, k)] = tags[EntryAt(m, l, k)]
  <2>1. EntryAt(m, l, k) \in DOMAIN tags
    BY <1>5 DEF ShowInv, ConsulKept, EntriesOf
  <2>. QED BY <1>1, <1>4, <1>5, <2>1
<1>6. ConsulKept'
  <2>1. \A m \in Instances : \A l \in Existing(m) : EntriesOf(m, l) \subseteq DOMAIN tags'
    BY <1>5 DEF EntriesOf
  <2>2. DOMAIN tags' \subseteq DOMAIN tags /\ \A e \in DOMAIN tags' : tags'[e] = tags[e]
    BY <1>1
  <2>. QED BY <1>2, <1>3, <2>1, <2>2, SamePlaces DEF ShowInv, ConsulKept
<1>7. \A m \in Instances : TagsKept(m)
  BY <1>3, <1>5 DEF TagsKept, Tcp
<1>8. Shrinking
  BY <1>2, <1>3 DEF Shrinking
<1>9. \A v \in Shows : InFlight(v)' <=> InFlight(v)
  BY <1>2 DEF InFlight
<1>10. OverlapSeen'
  BY <1>2, <1>9 DEF ShowInv, OverlapSeen
<1>11. ASSUME NEW v \in Shows PROVE ShowAt(v)'
  <2>1. Updating(v) => instOf[v] \in Instances
    BY AboutType, RequestKinds DEF Updating
  <2>. QED BY <1>2, <1>7, <1>8, <2>1, ShowKeeps DEF ShowInv
<1>12. \A m \in Instances : WishHolds(m)'
  BY <1>2, <1>7, <1>8, <1>9, WishKeeps DEF ShowInv
<1>. QED BY <1>6, <1>10, <1>11, <1>12 DEF ShowInv

(* What a step of one visibility request leaves of the others. *)
LEMMA ShowOthers ==
  ASSUME AccessInv, NEW v \in Shows, Start(v) \/ ShowStep(v)
  PROVE  /\ Shrinking
         /\ \A i : Existing(i)' = Existing(i)
         /\ \A u \in Shows \ {v} : /\ at'[u] = at[u] /\ ports'[u] = ports[u] /\ copy'[u] = copy[u]
                                   /\ InFlight(u)' <=> InFlight(u)
         /\ mixed \subseteq mixed'
<1>1. UNCHANGED <<instOf, plan, gone>>
  BY ShowGoes
<1>2. \A i : Existing(i)' = Existing(i)
  BY <1>1 DEF Existing
<1>3. \A u \in Shows \ {v} : at'[u] = at[u] /\ ports'[u] = ports[u] /\ copy'[u] = copy[u]
  BY ShowGoes, RolesStep, RequestKinds
<1>4. \A u \in Shows \ {v} : InFlight(u)' <=> InFlight(u)
  BY <1>3 DEF InFlight
<1>5. mixed \subseteq mixed'
  BY RequestKinds DEF Start, ShowStart, ShowStep, ShowList, ReadTags, RegisterTags, ShowEnd
<1>. QED BY <1>1, <1>2, <1>3, <1>4, <1>5 DEF Shrinking

(* Such a step, if the request is not new, does not change what overlaps.  *)
LEMMA OverlapKept ==
  ASSUME AccessInv, OverlapSeen, NEW v \in Shows, ShowStep(v)
  PROVE  OverlapSeen'
<1>1. InFlight(v)
  BY DEF ShowStep, ShowList, ReadTags, RegisterTags, ShowEnd, InFlight
<1>2. instOf' = instOf
  BY ShowOthers DEF Shrinking
<1>. QED BY <1>1, <1>2, ShowOthers DEF OverlapSeen

LEMMA ConsulSame ==
  ASSUME ConsulKept, UNCHANGED <<plan, tags>>, \A i : Existing(i)' = Existing(i)
  PROVE  ConsulKept' /\ \A i \in Instances : TagsKept(i)
BY SamePlaces DEF ConsulKept, TagsKept

(* SetServiceVisibility begins. *)
LEMMA ShowBegins ==
  ASSUME AccessInv, ShowInv, NEW v \in Shows, Start(v)
  PROVE  ShowInv'
<1>. v \in Requests /\ v \notin Binds /\ v \notin Views
  BY RequestKinds
<1>1. ShowStart(v) /\ UNCHANGED <<instOf, plan, tags>>
  BY DEF Start
<1>2. /\ v \in DOMAIN at /\ instOf[v] \in Instances
      /\ wish \in [Instances -> {"unknown", "public", "private"}]
  BY <1>1, AboutType DEF AccessInv, AccessTyped, ShowStart
<1>3. at'[v] \in {"list", "done"}
  BY <1>1, <1>2 DEF ShowStart, Jump, Fails, Respond
<1>4. ConsulKept' /\ \A i \in Instances : TagsKept(i)
  BY <1>1, ShowOthers, ConsulSame DEF ShowInv
<1>5. ASSUME NEW u \in Shows PROVE ShowAt(u)'
  <2>1. CASE u = v
    <3>1. at'[u] # "register" /\ ~Updating(u)'
      BY <1>3, <2>1 DEF Updating
    <3>. QED BY <3>1 DEF ShowAt
  <2>2. CASE u # v
    <3>1. Updating(u) => instOf[u] \in Instances
      BY AboutType, RequestKinds DEF Updating
    <3>. QED BY <1>4, <2>2, <3>1, ShowOthers, ShowKeeps DEF ShowInv
  <2>. QED BY <2>1, <2>2
<1>6. CASE at'[v] = "done"
  <2>1. wish' = wish /\ mixed' = mixed
    BY <1>1, <1>2, <1>6 DEF ShowStart, Jump, Fails, Respond
  <2>2. ~InFlight(v)'
    BY <1>6 DEF InFlight
  <2>3. OverlapSeen'
    BY <1>1, <2>1, <2>2, ShowOthers DEF ShowInv, OverlapSeen
  <2>4. \A i \in Instances : WishHolds(i)'
    BY <1>4, <2>1, <2>2, ShowOthers, WishKeeps DEF ShowInv
  <2>. QED BY <1>4, <1>5, <2>3, <2>4 DEF ShowInv
<1>7. CASE at'[v] = "list"
  <2>. DEFINE others == {u \in Shows \ {v} : InFlight(u) /\ instOf[u] = instOf[v]}
  <2>1. /\ mixed' = IF others = {} THEN mixed ELSE mixed \cup others \cup {v}
        /\ wish' = [wish EXCEPT ![instOf[v]] = "unknown"]
    BY <1>1, <1>2, <1>7 DEF ShowStart, Jump, Fails, Respond
  <2>2. OverlapSeen'
    <3>. SUFFICES ASSUME NEW u \in Shows, NEW x \in Shows, u # x, InFlight(u)', InFlight(x)',
                         instOf[u] = instOf[x]
                  PROVE  u \in mixed'
      BY <1>1 DEF OverlapSeen
    <3>1. CASE u # v /\ x # v
      BY <3>1, ShowOthers DEF ShowInv, OverlapSeen
    <3>2. CASE u = v
      <4>1. x \in others
        BY <3>2, ShowOthers
      <4>. QED BY <2>1, <3>2, <4>1
    <3>3. CASE x = v
      <4>1. u \in others
        BY <3>3, ShowOthers
      <4>. QED BY <2>1, <4>1
    <3>. QED BY <3>1, <3>2, <3>3
  <2>3. ASSUME NEW i \in Instances PROVE WishHolds(i)'
    <3>1. CASE i = instOf[v]
      BY <1>2, <2>1, <3>1 DEF WishHolds
    <3>2. CASE i # instOf[v]
      <4>1. wish'[i] = wish[i]
        BY <1>2, <2>1, <3>2
      <4>2. \A u \in Shows : instOf[u] = i /\ InFlight(u)' => InFlight(u)
        BY <3>2, ShowOthers
      <4>. QED BY <1>4, <4>1, <4>2, ShowOthers, WishKeeps DEF ShowInv
    <3>. QED BY <3>1, <3>2
  <2>. QED BY <1>4, <1>5, <2>2, <2>3 DEF ShowInv
<1>. QED BY <1>3, <1>6, <1>7

LEMMA ShowInFlight ==
  ASSUME AccessInv, NEW v \in Shows, ShowStep(v)
  PROVE  /\ InFlight(v) /\ v \in Requests /\ v \in DOMAIN at /\ instOf[v] \in Instances
         /\ UNCHANGED <<instOf, plan, gone>>
<1>1. InFlight(v)
  BY DEF ShowStep, ShowList, ReadTags, RegisterTags, ShowEnd, InFlight
<1>2. v \in Requests \ Views /\ v \in DOMAIN at
  BY RequestKinds DEF AccessInv, AccessTyped
<1>. QED BY <1>1, <1>2, AboutType DEF InFlight, ShowStep

(* An answered request has nothing to do. *)
LEMMA ShowStopped ==
  ASSUME NEW v \in Shows, at'[v] = "done"
  PROVE  ShowAt(v)'
<1>1. at'[v] # "register" /\ ~Updating(v)'
  BY DEF Updating
<1>. QED BY <1>1 DEF ShowAt

(* A step of a request that does not write to Consul. *)
LEMMA ShowGoesOn ==
  ASSUME AccessInv, ShowInv, NEW v \in Shows, ShowStep(v), UNCHANGED <<tags, wish>>, ShowAt(v)'
  PROVE  ShowInv'
<1>1. ConsulKept' /\ \A i \in Instances : TagsKept(i)
  BY ShowOthers, ShowInFlight, ConsulSame DEF ShowInv
<1>2. OverlapSeen'
  BY OverlapKept DEF ShowInv
<1>3. ASSUME NEW u \in Shows PROVE ShowAt(u)'
  <2>1. CASE u = v
    BY <2>1
  <2>2. CASE u # v
    <3>1. Updating(u) => instOf[u] \in Instances
      BY AboutType, RequestKinds DEF Updating
    <3>. QED BY <1>1, <2>2, <3>1, ShowOthers, ShowKeeps DEF ShowInv
  <2>. QED BY <2>1, <2>2
<1>4. ASSUME NEW i \in Instances PROVE WishHolds(i)'
  <2>1. \A u \in Shows : instOf[u] = i /\ InFlight(u)' => InFlight(u)
    BY ShowInFlight, ShowOthers
  <2>. QED BY <1>1, <2>1, ShowOthers, WishKeeps DEF ShowInv
<1>. QED BY <1>1, <1>2, <1>3, <1>4 DEF ShowInv

(* All the TCP ports of the services that exist are to be updated.         *)
LEMMA UpdatesComplete ==
  ASSUME AccessInv, NEW i \in Instances, NEW j \in Existing(i), NEW k \in Tcp(i, j)
  PROVE  <<j, j, k>> \in Updates(i)
<1>1. j \in Int
  <2>1. plan[i].services \in Seq(Elements(plan[i].services))
    BY PlanType DEF IsList
  <2>. QED BY <2>1, LenProperties DEF Existing
<1>2. k \in PortsAt(i, j) /\ ~plan[i].services[j].ports[k].udp
  BY DEF Tcp
<1>3. k \in UNION {PortsAt(i, l) : l \in Existing(i)}
  BY <1>2
<1>4. j <= j
  BY <1>1
<1>. QED BY <1>2, <1>3, <1>4 DEF Updates

LEMMA UpdatesType ==
  ASSUME NEW i \in Instances, NEW u \in Updates(i)
  PROVE  u[2] \in DOMAIN plan[i].services /\ u[3] \in PortsAt(i, u[2])
BY DEF Updates, Existing

LEMMA ShowLists ==
  ASSUME AccessInv, ShowInv, NEW v \in Shows, ShowStep(v), ShowList(v)
  PROVE  ShowInv'
<1>1. UNCHANGED <<tags, wish>>
  BY DEF ShowList
<1>2. CASE at' = [at EXCEPT ![v] = "done"]
  BY <1>1, <1>2, ShowInFlight, ShowStopped, ShowGoesOn
<1>3. CASE at' = [at EXCEPT ![v] = "read"] /\ ports' = [ports EXCEPT ![v] = Updates(instOf[v])]
  <2>1. at'[v] = "read" /\ ports'[v] = Updates(instOf[v])
    BY <1>3, ShowInFlight DEF AccessInv, AccessTyped
  <2>2. UNCHANGED <<instOf, plan>> /\ instOf[v] \in Instances
    BY ShowInFlight
  <2>3. (\A u \in ports[v] : u[2] \in DOMAIN plan[instOf[v]].services
                             /\ u[3] \in PortsAt(instOf[v], u[2]))'
    <3>1. ASSUME NEW u \in ports'[v]
          PROVE  u[2] \in DOMAIN plan[instOf[v]].services /\ u[3] \in PortsAt(instOf[v], u[2])
      BY <2>1, <2>2, UpdatesType
    <3>. QED BY <2>2, <3>1, SamePlaces
  <2>4. (\A j \in Existing(instOf[v]) : \A k \in Tcp(instOf[v], j) :
           \/ \E u \in ports[v] : u[2] = j /\ u[3] = k
           \/ tags[EntryAt(instOf[v], j, k)] = TagsFor(Public[v]))'
    <3>1. ASSUME NEW j \in Existing(instOf[v]), NEW k \in Tcp(instOf[v], j)
          PROVE  \E u \in ports'[v] : u[2] = j /\ u[3] = k
      <4>1. <<j, j, k>> \in ports'[v]
        BY <2>1, <2>2, UpdatesComplete
      <4>. QED BY <4>1
    <3>. QED BY <2>2, <3>1, SamePlaces, ShowOthers
  <2>5. ShowAt(v)'
    BY <2>1, <2>3, <2>4 DEF ShowAt
  <2>. QED BY <1>1, <2>5, ShowGoesOn
<1>. QED BY <1>2, <1>3 DEF ShowList, Jump, Fails, Respond

LEMMA ShowReads ==
  ASSUME AccessInv, ShowInv, NEW v \in Shows, ShowStep(v), ReadTags(v)
  PROVE  ShowInv'
<1>1. UNCHANGED <<tags, ports, wish, mixed>> /\ at[v] = "read"
  BY DEF ReadTags
<1>2. CASE at' = [at EXCEPT ![v] = "done"]
  BY <1>1, <1>2, ShowInFlight, ShowStopped, ShowGoesOn
<1>3. ASSUME NEW e \in DOMAIN tags, at' = [at EXCEPT ![v] = "register"],
             copy' = [copy EXCEPT ![v] = tags[e]]
      PROVE  ShowInv'
  <2>1. at'[v] = "register" /\ copy'[v] = tags[e]
    BY <1>3, ShowInFlight DEF AccessInv, AccessTyped
  <2>2. tags[e] \ {PublicTag} = {"tcp"}
    BY <1>3 DEF ShowInv, ConsulKept
  <2>3. Updating(v)
    BY <1>1 DEF Updating
  <2>4. UNCHANGED <<instOf, plan>> /\ \A i : Existing(i)' = Existing(i)
    BY ShowInFlight, ShowOthers
  <2>5. (\A u \in ports[v] : u[2] \in DOMAIN plan[instOf[v]].services
                             /\ u[3] \in PortsAt(instOf[v], u[2]))'
    BY <1>1, <2>3, <2>4, SamePlaces DEF ShowInv, ShowAt
  <2>6. v \notin mixed' =>
         (\A j \in Existing(instOf[v]) : \A k \in Tcp(instOf[v], j) :
           \/ \E u \in ports[v] : u[2] = j /\ u[3] = k
           \/ tags[EntryAt(instOf[v], j, k)] = TagsFor(Public[v]))'
    BY <1>1, <2>3, <2>4, SamePlaces DEF ShowInv, ShowAt, TagsFor
  <2>7. ShowAt(v)'
    BY <2>1, <2>2, <2>5, <2>6 DEF ShowAt, PublicTag
  <2>. QED BY <1>1, <2>7, ShowGoesOn
<1>4. \/ at' = [at EXCEPT ![v] = "done"]
      \/ \E e \in DOMAIN tags : /\ at' = [at EXCEPT ![v] = "register"]
                                /\ copy' = [copy EXCEPT ![v] = tags[e]]
  BY DEF ReadTags, Jump, Fails, Respond
<1>. QED BY <1>2, <1>3, <1>4

LEMMA NewTagsAre ==
  ASSUME NEW old, NEW visibility, old \ {PublicTag} = {"tcp"}
  PROVE  /\ NewTags(old, visibility) = TagsFor(visibility)
         /\ TagsFor(visibility) \ {PublicTag} = {"tcp"}
BY DEF NewTags, TagsFor, PublicTag

(* An entry is written: the other services, and the other requests that    *)
(* nobody overlaps, are not concerned.                                     *)
LEMMA ShowRegisters ==
  ASSUME AccessInv, ShowInv, NEW v \in Shows, ShowStep(v), RegisterTags(v)
  PROVE  ShowInv'
<1>0. UNCHANGED <<instOf, plan>> /\ instOf[v] \in Instances /\ InFlight(v) /\ v \in DOMAIN at
  BY ShowInFlight
<1>1. at[v] = "register" /\ UNCHANGED <<copy, mixed, wish>>
  BY DEF RegisterTags
<1>2. CASE at' = [at EXCEPT ![v] = "done"] /\ UNCHANGED <<tags, ports>>
  BY <1>1, <1>2, ShowInFlight, ShowStopped, ShowGoesOn
<1>3. ASSUME NEW u \in NextUpdates(v), at' = [at EXCEPT ![v] = "read"],
             tags' = Put(tags, Target(v, u), NewTags(copy[v], Public[v])),
             ports' = [ports EXCEPT ![v] = @ \ {u}]
      PROVE  ShowInv'
  <2>. DEFINE i == instOf[v]
              t == EntryAt(i, u[2], u[3])
  <2>1. Updating(v) /\ u \in ports[v] /\ i \in Instances
    BY <1>0, <1>1 DEF Updating, NextUpdates
  <2>2. u[2] \in DOMAIN plan[i].services /\ u[3] \in PortsAt(i, u[2])
    BY <2>1 DEF ShowInv, ShowAt
  <2>3. t \in AllEntries
    <3>1. t \in EntriesOf(i, u[2])
      BY <2>2 DEF EntriesOf
    <3>. QED BY <2>1, <2>2, <3>1 DEF AllEntries
  <2>4. copy[v] \ {PublicTag} = {"tcp"}
    BY <1>1 DEF ShowInv, ShowAt
  <2>5. /\ DOMAIN tags' = DOMAIN tags \cup {t}
        /\ tags'[t] = TagsFor(Public[v])
        /\ \A e \in DOMAIN tags : e # t => tags'[e] = tags[e]
    BY <1>3, <2>4, NewTagsAre DEF Put, Target
  <2>6. TagsFor(Public[v]) \ {PublicTag} = {"tcp"}
    BY <2>4, NewTagsAre
  <2>7. t.inst = i
    BY EntryParts
  <2>8. at'[v] = "read" /\ ports'[v] = ports[v] \ {u}
    BY <1>0, <1>3 DEF AccessInv, AccessTyped
  <2>9. \A m : Existing(m)' = Existing(m)
    BY ShowOthers
  <2>. HIDE DEF t
  <2>10. ConsulKept'
    <3>1. DOMAIN tags' \subseteq AllEntries'
      BY <1>0, <2>3, <2>5, SamePlaces DEF ShowInv, ConsulKept
    <3>2. \A e \in DOMAIN tags' : tags'[e] \ {PublicTag} = {"tcp"}
      BY <2>5, <2>6 DEF ShowInv, ConsulKept
    <3>3. \A m \in Instances : \A j \in Existing(m)' : EntriesOf(m, j)' \subseteq DOMAIN tags'
      BY <1>0, <2>5, <2>9, SamePlaces DEF ShowInv, ConsulKept
    <3>. QED BY <3>1, <3>2, <3>3 DEF ConsulKept, PublicTag
  <2>11. OverlapSeen'
    BY OverlapKept DEF ShowInv
  <2>12. ASSUME NEW m \in Instances, m # i PROVE TagsKept(m)
    <3>. SUFFICES ASSUME NEW j \in Existing(m), NEW k \in Tcp(m, j)
                  PROVE  tags'[EntryAt(m, j, k)] = tags[EntryAt(m, j, k)]
      BY <2>9 DEF TagsKept
    <3>1. EntryAt(m, j, k) \in DOMAIN tags
      BY <2>12, TcpEntryKept DEF ShowInv
    <3>2. EntryAt(m, j, k) # t
      BY <2>7, <2>12, EntryParts
    <3>. QED BY <2>5, <3>1, <3>2
  <2>13. ASSUME NEW x \in Shows, x # v PROVE ShowAt(x)'
    <3>1. ASSUME Updating(x), x \notin mixed' PROVE TagsKept(instOf[x])
      <4>1. InFlight(x) /\ instOf[x] \in Instances
        BY <3>1, AboutType, RequestKinds DEF Updating, InFlight
      <4>2. instOf[x] # i
        BY <1>0, <1>1, <2>13, <3>1, <4>1 DEF ShowInv, OverlapSeen
      <4>. QED BY <2>12, <4>1, <4>2
    <3>. QED BY <2>13, <3>1, ShowOthers, ShowKeeps DEF ShowInv
  <2>14. ShowAt(v)'
    <3>1. (\A x \in ports[v] : x[2] \in DOMAIN plan[instOf[v]].services
                               /\ x[3] \in PortsAt(instOf[v], x[2]))'
      BY <1>0, <2>1, <2>8, SamePlaces DEF ShowInv, ShowAt
    <3>2. ASSUME v \notin mixed, NEW j \in Existing(i), NEW k \in Tcp(i, j)
          PROVE  \/ \E x \in ports'[v] : x[2] = j /\ x[3] = k
                 \/ tags'[EntryAt(i, j, k)] = TagsFor(Public[v])
      <4>1. CASE EntryAt(i, j, k) = t
        BY <2>5, <4>1
      <4>2. CASE EntryAt(i, j, k) # t
        <5>1. EntryAt(i, j, k) \in DOMAIN tags
          BY <2>1, <3>2, TcpEntryKept DEF ShowInv
        <5>2. ~(u[2] = j /\ u[3] = k)
          BY <4>2 DEF t
        <5>3. \/ \E x \in ports[v] : x[2] = j /\ x[3] = k
              \/ tags[EntryAt(i, j, k)] = TagsFor(Public[v])
          BY <2>1, <3>2 DEF ShowInv, ShowAt
        <5>. QED BY <2>5, <2>8, <4>2, <5>1, <5>2, <5>3
      <4>. QED BY <4>1, <4>2
    <3>3. v \notin mixed' =>
           (\A j \in Existing(instOf[v]) : \A k \in Tcp(instOf[v], j) :
             \/ \E x \in ports[v] : x[2] = j /\ x[3] = k
             \/ tags[EntryAt(instOf[v], j, k)] = TagsFor(Public[v]))'
      <4>1. TagsFor(Public[v])' = TagsFor(Public[v])
        BY DEF TagsFor, PublicTag
      <4>. QED BY <1>0, <1>1, <2>9, <3>2, <4>1, SamePlaces
    <3>. QED BY <2>8, <3>1, <3>3 DEF ShowAt
  <2>15. ASSUME NEW m \in Instances PROVE WishHolds(m)'
    <3>1. CASE m = i
      <4>1. wish[m] = "unknown"
        BY <1>0, <2>15, <3>1 DEF ShowInv, WishHolds
      <4>. QED BY <1>1, <4>1 DEF WishHolds
    <3>2. CASE m # i
      <4>1. \A x \in Shows : instOf[x] = m /\ InFlight(x)' => InFlight(x)
        BY <3>2, ShowOthers
      <4>. QED BY <1>1, <2>12, <3>2, <4>1, ShowOthers, WishKeeps DEF ShowInv
    <3>. QED BY <3>1, <3>2
  <2>. QED BY <2>10, <2>11, <2>13, <2>14, <2>15 DEF ShowInv
<1>4. \/ at' = [at EXCEPT ![v] = "done"] /\ UNCHANGED <<tags, ports>>
      \/ \E u \in NextUpdates(v) :
           /\ at' = [at EXCEPT ![v] = "read"]
           /\ tags' = Put(tags, Target(v, u), NewTags(copy[v], Public[v]))
           /\ ports' = [ports EXCEPT ![v] = @ \ {u}]
  BY DEF RegisterTags, Jump, Fails, Respond
<1>. QED BY <1>2, <1>3, <1>4

(* The request is answered: if nobody overlapped it, all is as it asked.   *)
LEMMA ShowEnds ==
  ASSUME AccessInv, ShowInv, NEW v \in Shows, ShowStep(v), ShowEnd(v)
  PROVE  ShowInv'
<1>. DEFINE i == instOf[v]
<1>0. UNCHANGED <<instOf, plan>> /\ i \in Instances /\ InFlight(v) /\ v \in DOMAIN at
  BY ShowInFlight
<1>1. /\ at[v] = "read" /\ ports[v] = {} /\ UNCHANGED <<tags, mixed>>
      /\ at' = [at EXCEPT ![v] = "done"]
      /\ wish' = [wish EXCEPT ![i] = IF v \in mixed THEN "unknown" ELSE Public[v]]
  BY DEF ShowEnd, Respond, Jump
<1>2. wish'[i] = (IF v \in mixed THEN "unknown" ELSE Public[v])
      /\ \A m \in Instances \ {i} : wish'[m] = wish[m]
  BY <1>0, <1>1 DEF AccessInv, AccessTyped
<1>3. ConsulKept' /\ \A m \in Instances : TagsKept(m)
  BY <1>0, <1>1, ShowOthers, ConsulSame DEF ShowInv
<1>4. OverlapSeen'
  BY OverlapKept DEF ShowInv
<1>5. at'[v] = "done"
  BY <1>0, <1>1
<1>6. ASSUME NEW x \in Shows PROVE ShowAt(x)'
  <2>1. CASE x = v
    BY <1>5, <2>1, ShowStopped
  <2>2. CASE x # v
    <3>1. Updating(x) => instOf[x] \in Instances
      BY AboutType, RequestKinds DEF Updating
    <3>. QED BY <1>3, <2>2, <3>1, ShowOthers, ShowKeeps DEF ShowInv
  <2>. QED BY <2>1, <2>2
<1>7. ASSUME NEW m \in Instances, m # i PROVE WishHolds(m)'
  <2>1. \A x \in Shows : instOf[x] = m /\ InFlight(x)' => InFlight(x)
    BY <1>7, ShowOthers
  <2>. QED BY <1>2, <1>3, <1>7, <2>1, ShowOthers, WishKeeps DEF ShowInv
<1>8. WishHolds(i)'
  <2>1. CASE v \in mixed
    BY <1>2, <2>1, <1>0 DEF WishHolds
  <2>2. CASE v \notin mixed
    <3>1. wish'[i] = Public[v]
      BY <1>2, <2>2
    <3>2. ASSUME NEW x \in Shows, instOf[x] = i PROVE ~InFlight(x)'
      <4>1. CASE x = v
        BY <1>5, <4>1 DEF InFlight
      <4>2. CASE x # v
        <5>1. ~InFlight(x)
          BY <1>0, <2>2, <3>2, <4>2 DEF ShowInv, OverlapSeen
        <5>. QED BY <4>2, <5>1, ShowOthers
      <4>. QED BY <4>1, <4>2
    <3>3. ASSUME NEW j \in Existing(i), NEW k \in Tcp(i, j)
          PROVE  tags'[EntryAt(i, j, k)] = TagsFor(wish'[i])
      <4>1. Updating(v)
        BY <1>1 DEF Updating
      <4>2. tags[EntryAt(i, j, k)] = TagsFor(Public[v])
        BY <1>1, <2>2, <3>3, <4>1 DEF ShowInv, ShowAt
      <4>. QED BY <1>1, <3>1, <4>2
    <3>4. (\A x \in Shows : instOf[x] = i => ~InFlight(x))'
      BY <1>0, <3>2
    <3>5. (\A j \in Existing(i) : \A k \in Tcp(i, j) :
             tags[EntryAt(i, j, k)] = TagsFor(wish[i]))'
      <4>1. TagsFor(wish[i])' = TagsFor(wish'[i])
        BY <1>0 DEF TagsFor, PublicTag
      <4>2. Existing(i)' = Existing(i)
        BY ShowInFlight DEF Existing
      <4>. QED BY <1>0, <3>3, <4>1, <4>2, SamePlaces DEF Existing
    <3>. QED BY <3>4, <3>5 DEF WishHolds
  <2>. QED BY <2>1, <2>2
<1>9. \A m \in Instances : WishHolds(m)'
  BY <1>0, <1>7, <1>8
<1>. QED BY <1>3, <1>4, <1>6, <1>9 DEF ShowInv

LEMMA ShowInvStep ==
  ASSUME AccessInv, ShowInv, [Next]_vars
  PROVE  ShowInv'
<1>1. ASSUME NEW b \in Binds, Start(b) \/ BindStep(b) PROVE ShowInv'
  <2>1. UNCHANGED <<instOf, plan, gone, tags, showVars>>
    BY <1>1, BindGoes
  <2>2. Shrinking
    BY <2>1 DEF Shrinking, Existing
  <2>3. \A v \in Shows : at'[v] = at[v]
    BY <1>1, BindGoes, RolesStep, RequestKinds
  <2>. QED BY <2>1, <2>2, <2>3, ShowQuiet
<1>2. ASSUME NEW v \in Shows, ShowStep(v) PROVE ShowInv'
  BY <1>2, ShowLists, ShowReads, ShowRegisters, ShowEnds DEF ShowStep
<1>3. ASSUME NEW w \in Views, Start(w) \/ ViewStep(w) PROVE ShowInv'
  <2>1. UNCHANGED <<instOf, plan, gone, tags, showVars>>
    BY <1>3, ViewGoes
  <2>2. Shrinking
    BY <2>1 DEF Shrinking, Existing
  <2>3. \A v \in Shows : at'[v] = at[v]
    BY <1>3, ViewGoes, RolesStep, RequestKinds
  <2>. QED BY <2>1, <2>2, <2>3, ShowQuiet
<1>4. ASSUME NEW s \in SecretCalls, SecretCall(s) PROVE ShowInv'
  <2>1. UNCHANGED <<instOf, plan, gone, tags, showVars>>
    BY <1>4, SecretGoes
  <2>2. Shrinking
    BY <2>1 DEF Shrinking, Existing
  <2>3. \A v \in Shows : at'[v] = at[v]
    BY <1>4, SecretGoes, RolesStep, RequestKinds
  <2>. QED BY <2>1, <2>2, <2>3, ShowQuiet
<1>5. ASSUME NEW i \in Instances, Deprovision(i) PROVE ShowInv'
  <2>1. UNCHANGED <<instOf, plan, at, showVars>> /\ UNCHANGED tags
    BY <1>5 DEF Deprovision
  <2>2. Shrinking
    BY <1>5, <2>1, OthersGo, FewerServices DEF Shrinking
  <2>. QED BY <2>1, <2>2, ShowQuiet
<1>6. CASE UNCHANGED vars
  <2>1. UNCHANGED <<instOf, plan, gone, at, tags, showVars>>
    BY <1>6 DEF vars, showVars
  <2>2. Shrinking
    BY <2>1 DEF Shrinking, Existing
  <2>. QED BY <2>1, <2>2, ShowQuiet
<1>. QED BY <1>1, <1>2, <1>3, <1>4, <1>5, <1>6, ShowBegins, ShowDeregister DEF Next

LEMMA ShowInvInit == Init => ShowInv
<1>. SUFFICES ASSUME Init PROVE ShowInv
  OBVIOUS
<1>1. tags = [e \in AllEntries |-> {"tcp"}]
  BY DEF Init
<1>2. \A i \in Instances : wish[i] = "unknown"
  BY DEF Init
<1>3. \A v \in Shows : at[v] = "idle"
  BY RequestKinds DEF Init
<1>4. ConsulKept
  <2>1. {"tcp"} \ {PublicTag} = {"tcp"}
    BY DEF PublicTag
  <2>2. \A i \in Instances : \A j \in Existing(i) : EntriesOf(i, j) \subseteq AllEntries
    BY DEF Existing, AllEntries
  <2>. QED BY <1>1, <2>1, <2>2 DEF ConsulKept
<1>5. OverlapSeen
  BY <1>3 DEF OverlapSeen, InFlight
<1>6. \A v \in Shows : ShowAt(v)
  BY <1>3 DEF ShowAt, Updating
<1>7. \A i \in Instances : WishHolds(i)
  BY <1>2 DEF WishHolds
<1>. QED BY <1>4, <1>5, <1>6, <1>7 DEF ShowInv

LEMMA WishIsApplied == ShowInv => VisibilityApplied
<1>. SUFFICES ASSUME ShowInv, NEW i \in Instances, wish[i] # "unknown",
                     NEW j \in Existing(i), NEW e \in TcpEntries(i, j)
              PROVE  e \in DOMAIN tags /\ tags[e] = TagsFor(wish[i])
  BY DEF VisibilityApplied
<1>1. PICK k \in Tcp(i, j) : e = EntryAt(i, j, k)
  BY TcpEntriesAre
<1>2. e \in DOMAIN tags
  BY <1>1, TcpEntryKept DEF ShowInv
<1>. QED BY <1>1, <1>2 DEF ShowInv, WishHolds

(* After a visibility request that no other one of the same instance       *)
(* overlapped was answered with 202, every TCP port of the services of the *)
(* instance that exist keeps the visibility that was asked for and its     *)
(* other tags until the next request, whatever requests about other        *)
(* instances, deprovisionings and deregistrations come between the reads   *)
(* and the writes of UpdateServiceTag.                                     *)
THEOREM VisibilityIsApplied == Spec => []VisibilityApplied
<1>1. Init => AccessInv /\ ShowInv
  BY AccessInit, ShowInvInit
<1>2. AccessInv /\ ShowInv /\ [Next]_vars => AccessInv' /\ ShowInv'
  BY AccessStep, ShowInvStep
<1>3. ShowInv => VisibilityApplied
  BY WishIsApplied
<1>. QED BY <1>1, <1>2, <1>3, PTL DEF Spec

-----------------------------------------------------------------------------
(* Views *)

(* The name of an entry in Consul begins with that of its service. *)
LEMMA BeginIsFound ==
  ASSUME NEW S, NEW sub \in Seq(S), NEW more \in Seq(S)
  PROVE  HasSubstring(sub \o more, sub)
<1>1. Len(sub) \in Nat /\ Len(more) \in Nat /\ Len(sub \o more) = Len(sub) + Len(more)
  BY LenProperties, ConcatProperties
<1>2. SubSeq(sub \o more, 1, Len(sub)) = sub
  <2>1. CASE Len(sub) = 0
    <3>1. sub = <<>>
      BY <2>1, EmptySeq
    <3>2. SubSeq(sub \o more, 1, 0) = <<>>
      BY SubSeqEmpty
    <3>. QED BY <2>1, <3>1, <3>2
  <2>2. CASE Len(sub) # 0
    <3>1. 1 \in 1..Len(sub) /\ Len(sub) \in 1..Len(sub)
      BY <1>1, <2>2
    <3>2. SubSeq(sub \o more, 1, Len(sub)) = SubSeq(sub, 1, Len(sub))
      BY <3>1, SubSeqOfConcat1
    <3>. QED BY <3>2, SubSeqFull
  <2>. QED BY <2>1, <2>2
<1>3. 1 \in 1..(Len(sub \o more) + 1 - Len(sub)) /\ 1 + Len(sub) - 1 = Len(sub)
  BY <1>1
<1>4. SubSeq(sub \o more, 1, 1 + Len(sub) - 1) = sub
  BY <1>2, <1>3
<1>. QED BY <1>3, <1>4 DEF HasSubstring

LEMMA ServiceIsFound ==
  ASSUME AccessInv, ConsulKept, NEW i \in Instances, NEW j \in Existing(i)
  PROVE  Matching(plan[i].services[j].name) # {}
<1>. DEFINE s == plan[i].services[j]
            p == s.ports[1]
            more == IF Len(s.ports) > 1 /\ p.name # <<>> THEN <<"-">> \o p.name ELSE <<>>
            S == Elements(s.name) \cup Elements(p.name) \cup {"-"}
<1>1. j \in DOMAIN plan[i].services
  BY DEF Existing
<1>2. s.ports \in Seq(Elements(s.ports)) /\ s.ports # <<>>
  BY <1>1, ServiceType DEF IsList
<1>3. 1 \in PortsAt(i, j)
  <2>1. Len(s.ports) \in Nat \ {0}
    BY <1>2, EmptySeq
  <2>2. DOMAIN s.ports = 1..Len(s.ports)
    BY <1>2, LenProperties
  <2>. QED BY <2>1, <2>2 DEF PortsAt
<1>4. EntryAt(i, j, 1) \in DOMAIN tags
  BY <1>3 DEF ConsulKept, EntriesOf
<1>5. EntryAt(i, j, 1).name = s.name \o more
  <2>1. EntryAt(i, j, 1).name = getConsulServiceName(p, s)
    BY EntryParts
  <2>. QED BY <2>1 DEF getConsulServiceName
<1>6. s.name \in Seq(S) /\ p.name \in Seq(S)
  <2>1. s.name \in Seq(Elements(s.name)) /\ p.name \in Seq(Elements(p.name))
    BY <1>1, <1>3, ServiceType DEF IsList
  <2>2. Elements(s.name) \subseteq S /\ Elements(p.name) \subseteq S
    OBVIOUS
  <2>. HIDE DEF S
  <2>. QED BY <2>1, <2>2, SeqMonotonic
<1>7. more \in Seq(S)
  <2>1. <<"-">> \in Seq(S)
    OBVIOUS
  <2>2. <<"-">> \o p.name \in Seq(S)
    <3>. HIDE DEF S
    <3>. QED BY <1>6, <2>1, ConcatProperties
  <2>3. <<>> \in Seq(S)
    OBVIOUS
  <2>. QED BY <2>2, <2>3
<1>8. HasSubstring(s.name \o more, s.name)
  <2>. HIDE DEF S, more
  <2>. QED BY <1>6, <1>7, BeginIsFound
<1>. QED BY <1>4, <1>5, <1>8 DEF Matching

(* A service of an instance of known visibility, that cannot be mistaken   *)
(* for another one, is reported with it.                                   *)
LEMMA FlagIsWish ==
  ASSUME AccessInv, ShowInv, NEW s, s[1] \in Instances, Unmistakable(s), wish[s[1]] # "unknown",
         NEW flag \in readTapPublic(plan[s[1]].services[s[2]].name)
  PROVE  flag = wish[s[1]]
<1>. DEFINE name == plan[s[1]].services[s[2]].name
<1>1. s[2] \in Existing(s[1])
  BY DEF Unmistakable
<1>2. Matching(name) # {}
  BY <1>1, ServiceIsFound DEF ShowInv
<1>3. PICK e \in Matching(name) : flag = isPublicTagIncluded(tags[e])
  BY <1>2 DEF readTapPublic
<1>4. e \in DOMAIN tags /\ e \in AllEntries /\ HasSubstring(e.name, name)
  BY <1>3 DEF Matching, ShowInv, ConsulKept
<1>5. PICK j \in Existing(s[1]) : e \in TcpEntries(s[1], j)
  BY <1>4 DEF Unmistakable
<1>6. tags[e] = TagsFor(wish[s[1]])
  BY <1>5, WishIsApplied DEF VisibilityApplied
<1>7. wish[s[1]] \in {"public", "private"}
  BY DEF AccessInv, AccessTyped
<1>. QED BY <1>3, <1>6, <1>7 DEF isPublicTagIncluded, TagsFor, PublicTag

LEMMA StillUnmistakable ==
  ASSUME Shrinking, NEW s, s[1] \in Instances, Unmistakable(s)'
  PROVE  Unmistakable(s)
<1>1. UNCHANGED plan /\ Existing(s[1])' \subseteq Existing(s[1])
  BY DEF Shrinking
<1>. QED BY <1>1, SamePlaces DEF Unmistakable, HasSubstring

(* Steps of others: what is known of the visibility may only be lost. *)
LEMMA ViewKeeps ==
  ASSUME AccessInv, NEW w \in Views, ViewAt(w), Shrinking,
         at'[w] = at[w], answer'[w] = answer[w], report'[w] = report[w],
         InFlight(w) => \A i \in Instances : expect'[w][i] \in {"unknown", wish'[i]},
         ~InFlight(w) => expect'[w] = expect[w]
  PROVE  ViewAt(w)'
<1>1. InFlight(w)' <=> InFlight(w)
  BY DEF InFlight
<1>2. \A s \in DOMAIN report'[w] : s[1] \in Instances /\ s[2] \in DOMAIN plan'[s[1]].services
  BY DEF ViewAt, Shrinking
<1>3. ASSUME answer'[w] = "202", NEW s \in DOMAIN report'[w],
             Unmistakable(s)', expect'[w][s[1]] # "unknown"
      PROVE  report'[w][s] = expect'[w][s[1]]
  <2>1. ~InFlight(w)
    BY <1>3, RequestKinds DEF InFlight, AccessInv, AccessRoles
  <2>2. Unmistakable(s)
    BY <1>2, <1>3, StillUnmistakable
  <2>. QED BY <1>3, <2>1, <2>2 DEF ViewAt
<1>4. (answer[w] = "202" =>
        \A s \in DOMAIN report[w] :
          Unmistakable(s) /\ expect[w][s[1]] # "unknown" => report[w][s] = expect[w][s[1]])'
  BY <1>3
<1>. QED BY <1>1, <1>2, <1>4 DEF ViewAt

(* The steps of the view itself. *)
LEMMA ViewOwn ==
  ASSUME AccessInv, ShowInv, NEW w \in Views, ViewAt(w), Start(w) \/ ViewStep(w)
  PROVE  ViewAt(w)'
<1>0. /\ w \in Requests /\ w \notin Binds /\ w \notin Shows
      /\ w \in DOMAIN at /\ w \in DOMAIN report /\ w \in DOMAIN expect
      /\ answer \in [Requests -> Answers]
  BY RequestKinds DEF AccessInv, AccessTyped, Answers
<1>1. UNCHANGED <<instOf, plan, gone, tags, wish>>
  BY ViewGoes DEF showVars
<1>2. at[w] # "done" /\ answer[w] = "none"
  BY <1>0, ViewGoes DEF Goes, AccessInv, AccessRoles
<1>3. \A s \in DOMAIN report[w] : s[1] \in Instances /\ s[2] \in DOMAIN plan[s[1]].services
  BY DEF ViewAt
<1>4. CASE Start(w) /\ at' = [at EXCEPT ![w] = "tags"]
  <2>1. /\ answer' = answer /\ report' = report /\ expect' = [expect EXCEPT ![w] = wish]
    BY <1>0, <1>4 DEF Start, ViewStart, Fails, Respond, Jump
  <2>2. expect'[w] = wish /\ answer'[w] = "none"
    BY <1>0, <1>2, <2>1
  <2>. QED BY <1>1, <1>3, <2>1, <2>2 DEF ViewAt
<1>5. CASE ViewList(w) /\ at' = [at EXCEPT ![w] = "report"]
  <2>1. /\ answer' = answer /\ expect' = expect
        /\ report' = [report EXCEPT ![w] = [s \in Viewed(w) |-> "none"]]
    BY <1>0, <1>5 DEF ViewList, Fails, Respond, Jump
  <2>2. DOMAIN report'[w] = Viewed(w) /\ answer'[w] = "none"
    BY <1>0, <1>2, <2>1
  <2>3. \A s \in Viewed(w) : s[1] \in Instances /\ s[2] \in DOMAIN plan[s[1]].services
    BY DEF Viewed, Existing
  <2>4. InFlight(w)
    BY <1>5 DEF ViewList, InFlight
  <2>. QED BY <1>1, <2>1, <2>2, <2>3, <2>4 DEF ViewAt
<1>6. CASE ViewReport(w) /\ answer' = [answer EXCEPT ![w] = "202"]
  <2>1. PICK flags \in createServiceInfoList(DOMAIN report[w]) :
          /\ at' = [at EXCEPT ![w] = "done"] /\ expect' = expect
          /\ report' = [report EXCEPT ![w] = flags]
    BY <1>0, <1>6 DEF ViewReport, Fails, Respond, Jump
  <2>2. at'[w] = "done" /\ report'[w] = flags
    BY <1>0, <2>1
  <2>3. /\ DOMAIN flags = DOMAIN report[w]
        /\ \A s \in DOMAIN flags : flags[s] \in readTapPublic(plan[s[1]].services[s[2]].name)
    BY <2>1 DEF createServiceInfoList
  <2>4. ~InFlight(w)'
    BY <2>2 DEF InFlight
  <2>5. ASSUME NEW s \in DOMAIN flags, Unmistakable(s), expect[w][s[1]] # "unknown"
        PROVE  flags[s] = expect[w][s[1]]
    <3>1. s[1] \in Instances /\ InFlight(w)
      BY <1>3, <1>6, <2>3, <2>5 DEF ViewReport, InFlight
    <3>2. expect[w][s[1]] = wish[s[1]] /\ wish[s[1]] # "unknown"
      BY <2>5, <3>1 DEF ViewAt
    <3>. QED BY <2>3, <2>5, <3>1, <3>2, FlagIsWish
  <2>6. Shrinking
    BY <1>1 DEF Shrinking, Existing
  <2>7. ASSUME NEW s \in DOMAIN report'[w], Unmistakable(s)', expect'[w][s[1]] # "unknown"
        PROVE  report'[w][s] = expect'[w][s[1]]
    <3>1. Unmistakable(s)
      BY <1>3, <2>2, <2>3, <2>6, <2>7, StillUnmistakable
    <3>. QED BY <2>1, <2>2, <2>5, <2>7, <3>1
  <2>8. (\A s \in DOMAIN report[w] :
           Unmistakable(s) /\ expect[w][s[1]] # "unknown" => report[w][s] = expect[w][s[1]])'
    BY <2>7
  <2>9. (\A s \in DOMAIN report[w] : s[1] \in Instances /\ s[2] \in DOMAIN plan[s[1]].services)'
    BY <1>1, <1>3, <2>2, <2>3
  <2>. QED BY <2>4, <2>8, <2>9 DEF ViewAt
<1>7. CASE answer' = [answer EXCEPT ![w] = "500"] /\ at' = [at EXCEPT ![w] = "done"]
  <2>1. ~InFlight(w)' /\ answer'[w] = "500"
    BY <1>0, <1>7 DEF InFlight
  <2>2. report'[w] = report[w] \/ DOMAIN report'[w] = DOMAIN report[w] \/ DOMAIN report'[w] = Viewed(w)
    BY <1>0 DEF Start, ViewStart, ViewStep, ViewList, ViewReport, createServiceInfoList
  <2>3. \A s \in Viewed(w) : s[1] \in Instances /\ s[2] \in DOMAIN plan[s[1]].services
    BY DEF Viewed, Existing
  <2>. QED BY <1>1, <1>3, <2>1, <2>2, <2>3 DEF ViewAt
<1>8. \/ Start(w) /\ at' = [at EXCEPT ![w] = "tags"]
      \/ ViewList(w) /\ at' = [at EXCEPT ![w] = "report"]
      \/ ViewReport(w) /\ answer' = [answer EXCEPT ![w] = "202"]
      \/ answer' = [answer EXCEPT ![w] = "500"] /\ at' = [at EXCEPT ![w] = "done"]
  <2>1. CASE Start(w)
    BY <1>0, <2>1 DEF Start, ViewStart, Fails, Respond, Jump
  <2>2. CASE ViewStep(w)
    BY <2>2 DEF ViewStep, ViewList, ViewReport, Fails, Respond, Jump
  <2>. QED BY <2>1, <2>2
<1>. QED BY <1>4, <1>5, <1>6, <1>7, <1>8

(* The steps of visibility requests: a new one ends what a view may rely   *)
(* on, and what the last one sets was not known before.                    *)
LEMMA ViewAndShow ==
  ASSUME AccessInv, ShowInv, NEW w \in Views, ViewAt(w), NEW v \in Shows, Start(v) \/ ShowStep(v)
  PROVE  ViewAt(w)'
<1>0. /\ wish \in [Instances -> {"unknown", "public", "private"}]
      /\ expect \in [Views -> [Instances -> {"unknown", "public", "private"}]]
      /\ v \notin Binds /\ v \notin Views
  BY RequestKinds DEF AccessInv, AccessTyped
<1>1. at'[w] = at[w] /\ answer'[w] = answer[w] /\ report'[w] = report[w]
  BY ShowGoes, RolesStep, RequestKinds
<1>2. Shrinking
  BY ShowOthers
<1>3. CASE wish' = wish /\ expect' = expect
  BY <1>1, <1>2, <1>3, ViewKeeps DEF ViewAt
<1>4. CASE Start(v) /\ wish' = [wish EXCEPT ![instOf[v]] = "unknown"]
           /\ expect' = [x \in Views |-> [expect[x] EXCEPT ![instOf[v]] =
                                             IF InFlight(x) THEN "unknown" ELSE @]]
  <2>1. instOf[v] \in Instances
    BY <1>0, <1>4, AboutType, RequestKinds DEF Start, ShowStart
  <2>2. \A i \in Instances : wish'[i] = IF i = instOf[v] THEN "unknown" ELSE wish[i]
    BY <1>0, <1>4
  <2>3. expect'[w] = [expect[w] EXCEPT ![instOf[v]] = IF InFlight(w) THEN "unknown" ELSE @]
    BY <1>4
  <2>4. expect[w] \in [Instances -> {"unknown", "public", "private"}]
    BY <1>0
  <2>5. ~InFlight(w) => expect'[w] = expect[w]
    BY <2>3, <2>4
  <2>6. InFlight(w) => \A i \in Instances : expect'[w][i] \in {"unknown", wish'[i]}
    BY <2>1, <2>2, <2>3, <2>4 DEF ViewAt
  <2>. QED BY <1>1, <1>2, <2>5, <2>6, ViewKeeps
<1>5. CASE ShowStep(v) /\ ShowEnd(v)
  <2>1. instOf[v] \in Instances /\ InFlight(v)
    BY <1>5, ShowInFlight
  <2>2. wish[instOf[v]] = "unknown"
    BY <2>1 DEF ShowInv, WishHolds
  <2>3. \A i \in Instances : i # instOf[v] => wish'[i] = wish[i]
    BY <1>0, <1>5 DEF ShowEnd
  <2>4. expect' = expect
    BY <1>5 DEF ShowStep, viewVars
  <2>5. InFlight(w) => \A i \in Instances : expect'[w][i] \in {"unknown", wish'[i]}
    BY <2>2, <2>3, <2>4 DEF ViewAt
  <2>. QED BY <1>1, <1>2, <2>4, <2>5, ViewKeeps
<1>6. CASE Start(v)
  <2>1. ShowStart(v)
    BY <1>0, <1>6 DEF Start
  <2>. QED BY <1>3, <1>4, <1>6, <2>1 DEF ShowStart
<1>7. CASE ShowStep(v)
  BY <1>3, <1>5, <1>7 DEF ShowStep, ShowList, ReadTags, RegisterTags, viewVars
<1>. QED BY <1>6, <1>7

LEMMA ViewStays ==
  ASSUME AccessInv, NEW w \in Views, ViewAt(w), Shrinking,
         at'[w] = at[w], answer'[w] = answer[w], report'[w] = report[w], expect'[w] = expect[w],
         UNCHANGED wish
  PROVE  ViewAt(w)'
BY ViewKeeps DEF ViewAt

LEMMA ViewAtStep ==
  ASSUME AccessInv, ShowInv, [Next]_vars, NEW w \in Views, ViewAt(w)
  PROVE  ViewAt(w)'
<1>1. ASSUME NEW b \in Binds, Start(b) \/ BindStep(b) PROVE ViewAt(w)'
  <2>1. UNCHANGED <<instOf, plan, gone, wish, report, expect>>
    BY <1>1, BindGoes DEF showVars, viewVars
  <2>2. Shrinking
    BY <2>1 DEF Shrinking, Existing
  <2>3. at'[w] = at[w] /\ answer'[w] = answer[w]
    BY <1>1, BindGoes, RolesStep, RequestKinds
  <2>. QED BY <2>1, <2>2, <2>3, ViewStays
<1>2. ASSUME NEW x \in Views, Start(x) \/ ViewStep(x) PROVE ViewAt(w)'
  <2>1. CASE x = w
    BY <1>2, <2>1, ViewOwn
  <2>2. CASE x # w
    <3>1. UNCHANGED <<instOf, plan, gone, wish>>
      BY <1>2, ViewGoes DEF showVars
    <3>2. Shrinking
      BY <3>1 DEF Shrinking, Existing
    <3>3. at'[w] = at[w] /\ answer'[w] = answer[w] /\ report'[w] = report[w] /\ expect'[w] = expect[w]
      BY <1>2, <2>2, ViewGoes, RolesStep, RequestKinds
    <3>. QED BY <3>1, <3>2, <3>3, ViewStays
  <2>. QED BY <2>1, <2>2
<1>3. ASSUME NEW s \in SecretCalls, SecretCall(s) PROVE ViewAt(w)'
  <2>1. UNCHANGED <<instOf, plan, gone, wish, report, expect>>
    BY <1>3, SecretGoes DEF showVars, viewVars
  <2>2. Shrinking
    BY <2>1 DEF Shrinking, Existing
  <2>3. at'[w] = at[w] /\ answer'[w] = answer[w]
    BY <1>3, SecretGoes, RolesStep, RequestKinds
  <2>. QED BY <2>1, <2>2, <2>3, ViewStays
<1>4. ASSUME NEW i \in Instances, Deprovision(i) \/ Deregister(i) PROVE ViewAt(w)'
  <2>1. UNCHANGED <<instOf, plan, at, answer, wish, report, expect>>
    BY <1>4, OthersGo DEF showVars, viewVars
  <2>2. Shrinking
    BY <1>4, <2>1, OthersGo, FewerServices DEF Shrinking
  <2>. QED BY <2>1, <2>2, ViewStays
<1>5. CASE UNCHANGED vars
  <2>1. UNCHANGED <<instOf, plan, gone, at, answer, wish, report, expect>>
    BY <1>5 DEF vars
  <2>2. Shrinking
    BY <2>1 DEF Shrinking, Existing
  <2>. QED BY <2>1, <2>2, ViewStays
<1>. QED BY <1>1, <1>2, <1>3, <1>4, <1>5, ViewAndShow DEF Next

(* A view that begins when the visibility of an instance is known, and     *)
(* during which no visibility request about it comes, reports it for every *)
(* service that exists and cannot be mistaken for another one: that        *)
(* readTapPublic looks for a part of the name, and the broker lists the    *)
(* services and reads Consul in two calls, does no harm to the others.     *)
THEOREM VisibilityIsReported == Spec => []VisibilityReported
<1>. DEFINE ViewInv == \A w \in Views : ViewAt(w)
<1>1. Init => AccessInv /\ ShowInv /\ ViewInv
  <2>. SUFFICES ASSUME Init, NEW w \in Views PROVE ViewAt(w)
    BY AccessInit, ShowInvInit
  <2>1. at[w] = "idle" /\ answer[w] = "none" /\ report[w] = <<>>
    BY RequestKinds DEF Init
  <2>2. DOMAIN report[w] = {}
    BY <2>1
  <2>. QED BY <2>1, <2>2 DEF ViewAt, InFlight
<1>2. AccessInv /\ ShowInv /\ ViewInv /\ [Next]_vars => AccessInv' /\ ShowInv' /\ ViewInv'
  BY AccessStep, ShowInvStep, ViewAtStep
<1>3. ViewInv => VisibilityReported
  BY DEF ViewAt, VisibilityReported
<1>. HIDE DEF ViewInv
<1>. QED BY <1>1, <1>2, <1>3, PTL DEF Spec

-----------------------------------------------------------------------------
(* The credentials of a binding *)

(* What credential_parser.go makes for a binding, if a number of services  *)
(* was already removed.                                                    *)
Parsed(b, removed) ==
  LET p == plan[instOf[b]]
  IN ParseCredentialMappingAdvanced(p.displayName, getServiceCredentials(Left(p.services, removed)),
                                    envs[b], p)

(* A binding that is answered with 201 has the credentials that the parser *)
(* makes of the environment it has read and the services that existed at   *)
(* one moment, of which there was one.                                     *)
CredentialsParsed ==
  \A b \in Binds : answer[b] = "201" =>
    \E removed \in Remaining(b) : result[b] = Parsed(b, removed) /\ result[b] # Error

LEMMA ServicesLeft ==
  ASSUME NEW S, NEW list \in Seq(S), NEW n \in Nat, getServiceCredentials(Left(list, n)) # <<>>
  PROVE  n < Len(list)
<1>. SUFFICES ASSUME n >= Len(list) PROVE FALSE
  BY LenProperties
<1>1. Len(list) \in Nat
  BY LenProperties
<1>2. Left(list, n) = <<>>
  <2>1. CASE n > 0
    <3>1. SubSeq(list, n + 1, Len(list)) = <<>>
      BY <1>1, SubSeqEmpty
    <3>. QED BY <2>1, <3>1 DEF Left
  <2>2. CASE n = 0
    <3>1. Len(list) = 0
      BY <1>1, <2>2
    <3>. QED BY <2>2, <3>1, EmptySeq DEF Left
  <2>. QED BY <2>1, <2>2
<1>3. getServiceCredentials(<<>>) = <<>>
  BY DEF getServiceCredentials
<1>. QED BY <1>2, <1>3

LEMMA ParsedStays ==
  ASSUME AccessInv, NEW b \in Binds, UNCHANGED <<instOf, plan>>, gone' \in [Instances -> Nat],
         \A i \in Instances : gone[i] <= gone'[i],
         answer'[b] = answer[b], result'[b] = result[b], envs'[b] = envs[b],
         answer[b] = "201" =>
           \E removed \in Remaining(b) : result[b] = Parsed(b, removed) /\ result[b] # Error
  PROVE  answer'[b] = "201" =>
           (\E removed \in Remaining(b) : result[b] = Parsed(b, removed) /\ result[b] # Error)'
<1>. SUFFICES ASSUME answer[b] = "201"
              PROVE  \E removed \in Remaining(b)' : result'[b] = Parsed(b, removed)' /\ result'[b] # Error
  OBVIOUS
<1>1. PICK removed \in Remaining(b) : result[b] = Parsed(b, removed) /\ result[b] # Error
  OBVIOUS
<1>2. instOf[b] \in Instances
  BY AboutType, RequestKinds DEF AccessInv, AccessRoles
<1>3. gone[instOf[b]] \in Nat /\ gone'[instOf[b]] \in Nat /\ gone[instOf[b]] <= gone'[instOf[b]]
  BY <1>2 DEF AccessInv, AccessTyped
<1>4. removed \in Remaining(b)'
  BY <1>1, <1>3 DEF Remaining
<1>5. Parsed(b, removed)' = Parsed(b, removed)
  BY DEF Parsed
<1>. QED BY <1>1, <1>4, <1>5

LEMMA BindParses ==
  ASSUME AccessInv, NEW b \in Binds, Start(b) \/ BindStep(b), DOMAIN result = Binds
  PROVE  /\ DOMAIN result' = Binds
         /\ \A c \in Binds \ {b} : result'[c] = result[c]
         /\ answer'[b] = "201" =>
              (\E removed \in Remaining(b) : result[b] = Parsed(b, removed) /\ result[b] # Error)'
<1>0. /\ b \in Requests /\ b \notin Shows /\ b \notin Views /\ answer \in [Requests -> Answers]
  BY RequestKinds DEF AccessInv, AccessTyped, Answers
<1>1. at[b] # "done" /\ answer[b] = "none"
  BY <1>0, BindGoes DEF Goes, AccessInv, AccessRoles
<1>2. DOMAIN result' = Binds /\ \A c \in Binds \ {b} : result'[c] = result[c]
  BY <1>0 DEF Start, BindStart, BindStep, ListWorkloads, GetAllPodsEnvs, Bind
<1>3. ASSUME answer'[b] = "201"
      PROVE  \E removed \in Remaining(b)' : result'[b] = Parsed(b, removed)' /\ result'[b] # Error
  <2>1. BindStep(b) /\ Bind(b)
    BY <1>0, <1>1, <1>3 DEF Start, BindStart, BindStep, ListWorkloads, GetAllPodsEnvs, Fails, Respond
  <2>. DEFINE i == instOf[b]
              svcs == getServiceCredentials(ServicesOf(i))
              mapped == ParseCredentialMappingAdvanced(plan[i].displayName, svcs, envs[b], plan[i])
  <2>2. UNCHANGED <<instOf, plan, gone, envs>> /\ at[b] = "services"
    BY <2>1 DEF BindStep, Bind
  <2>3. svcs # <<>> /\ mapped # Error /\ result' = [result EXCEPT ![b] = mapped]
    BY <1>0, <1>1, <1>3, <2>1 DEF Bind, Fails, Respond
  <2>4. result'[b] = mapped
    BY <2>3
  <2>5. i \in Instances
    BY <1>0, <2>2, AboutType, RequestKinds
  <2>6. gone[i] \in Nat /\ plan[i].services \in Seq(Elements(plan[i].services))
    BY <2>5, PlanType DEF IsList, AccessInv, AccessTyped
  <2>7. gone[i] < Len(plan[i].services)
    BY <2>3, <2>6, ServicesLeft DEF ServicesOf
  <2>8. gone[i] \in Remaining(b)'
    BY <2>2, <2>6, <2>7 DEF Remaining
  <2>9. ASSUME NEW n, n = gone[i] PROVE Parsed(b, n)' = mapped
    BY <2>2, <2>9 DEF Parsed, ServicesOf
  <2>. QED BY <2>3, <2>4, <2>8, <2>9
<1>. QED BY <1>2, <1>3

LEMMA CredentialsStep ==
  ASSUME AccessInv, DOMAIN result = Binds, CredentialsParsed, [Next]_vars
  PROVE  DOMAIN result' = Binds /\ CredentialsParsed'
<1>0. gone \in [Instances -> Nat] /\ \A i \in Instances : gone[i] <= gone[i]
  BY DEF AccessInv, AccessTyped
<1>1. ASSUME NEW c \in Binds, Start(c) \/ BindStep(c)
      PROVE  DOMAIN result' = Binds /\ CredentialsParsed'
  <2>1. DOMAIN result' = Binds
    BY <1>1, BindParses
  <2>2. ASSUME NEW b \in Binds
        PROVE  answer'[b] = "201" =>
                 (\E removed \in Remaining(b) : result[b] = Parsed(b, removed) /\ result[b] # Error)'
    <3>1. CASE b = c
      BY <1>1, <3>1, BindParses
    <3>2. CASE b # c
      <4>1. answer'[b] = answer[b] /\ envs'[b] = envs[b] /\ result'[b] = result[b]
        BY <1>1, <3>2, BindGoes, BindParses, RolesStep, RequestKinds
      <4>2. UNCHANGED <<instOf, plan, gone>>
        BY <1>1, BindGoes
      <4>. QED BY <1>0, <4>1, <4>2, ParsedStays DEF CredentialsParsed
    <3>. QED BY <3>1, <3>2
  <2>. QED BY <2>1, <2>2 DEF CredentialsParsed
<1>2. ASSUME UNCHANGED <<instOf, plan, envs, result>>, gone' \in [Instances -> Nat],
             \A i \in Instances : gone[i] <= gone'[i], \A b \in Binds : answer'[b] = answer[b]
      PROVE  DOMAIN result' = Binds /\ CredentialsParsed'
  BY <1>2, ParsedStays DEF CredentialsParsed
<1>3. ASSUME NEW v \in Shows, Start(v) \/ ShowStep(v)
      PROVE  DOMAIN result' = Binds /\ CredentialsParsed'
  <2>1. \A b \in Binds : answer'[b] = answer[b]
    BY <1>3, ShowGoes, RolesStep, RequestKinds
  <2>2. UNCHANGED <<instOf, plan, gone, envs, result>>
    BY <1>3, ShowGoes DEF bindVars
  <2>. QED BY <1>0, <1>2, <2>1, <2>2
<1>4. ASSUME NEW w \in Views, Start(w) \/ ViewStep(w)
      PROVE  DOMAIN result' = Binds /\ CredentialsParsed'
  <2>1. \A b \in Binds : answer'[b] = answer[b]
    BY <1>4, ViewGoes, RolesStep, RequestKinds
  <2>2. UNCHANGED <<instOf, plan, gone, envs, result>>
    BY <1>4, ViewGoes DEF bindVars
  <2>. QED BY <1>0, <1>2, <2>1, <2>2
<1>5. ASSUME NEW s \in SecretCalls, SecretCall(s)
      PROVE  DOMAIN result' = Binds /\ CredentialsParsed'
  <2>1. \A b \in Binds : answer'[b] = answer[b]
    BY <1>5, SecretGoes, RolesStep, RequestKinds
  <2>2. UNCHANGED <<instOf, plan, gone, envs, result>>
    BY <1>5, SecretGoes
  <2>. QED BY <1>0, <1>2, <2>1, <2>2
<1>6. ASSUME NEW i \in Instances, Deprovision(i) \/ Deregister(i)
      PROVE  DOMAIN result' = Binds /\ CredentialsParsed'
  BY <1>2, <1>6, OthersGo
<1>7. CASE UNCHANGED vars
  BY <1>0, <1>2, <1>7 DEF vars
<1>. QED BY <1>1, <1>3, <1>4, <1>5, <1>6, <1>7 DEF Next

(* Whatever else happens, the credentials that ServiceBindingsPut answers  *)
(* with 201 are what ParseCredentialMappingAdvanced makes of the variables *)
(* read and of the services of the instance as they were at one moment,    *)
(* when it had at least one: the interleaving half of MappingCorrect.      *)
THEOREM CredentialsAreParsed == Spec => []CredentialsParsed
<1>. DEFINE Results == DOMAIN result = Binds
<1>1. Init => AccessInv /\ Results /\ CredentialsParsed
  <2>1. Init => DOMAIN result = Binds /\ \A b \in Binds : answer[b] = "none"
    BY RequestKinds DEF Init
  <2>. QED BY <2>1, AccessInit DEF CredentialsParsed
<1>2. AccessInv /\ Results /\ CredentialsParsed /\ [Next]_vars
        => AccessInv' /\ Results' /\ CredentialsParsed'
  BY AccessStep, CredentialsStep
<1>. HIDE DEF Results
<1>. QED BY <1>1, <1>2, PTL DEF Spec

(* What is left of MappingCorrect is a fact about the parser alone, which  *)
(* folds over the placeholders and stays with TLC: that it makes what the  *)
(* documentation says of a well-formed mapping.                            *)
LEMMA MappingReduced ==
  ASSUME CredentialsParsed,
         \A b \in Binds : \A removed \in Remaining(b) :
           WellFormed(plan[instOf[b]].services, plan[instOf[b]]) /\ Parsed(b, removed) # Error =>
             Parsed(b, removed) = Documentation(b, removed)
  PROVE  MappingCorrect
BY DEF CredentialsParsed, MappingCorrect
=============================================================================
