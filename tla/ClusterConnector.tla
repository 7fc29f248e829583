-------------------------- MODULE ClusterConnector --------------------------
(***************************************************************************)
(* k8s/k8screator_rest_api_impl.go: the connector to Demiurge, the service *)
(* that keeps one Kubernetes cluster per organization.  Demiurge itself is *)
(* external: it answers GET /clusters/:org with 404 (no cluster), 204 (the *)
(* cluster is being created) or 200 and the cluster's credentials.         *)
(*                                                                         *)
(* gen counts the clusters an organization had: the credentials of a       *)
(* removed cluster do not open its successor.                              *)
(***************************************************************************)
EXTENDS StateService

VARIABLES
  cluster,     \* "absent", "creating" or "ready"
  gen,         \* number of the organization's cluster
  repo,        \* the cluster has the secret private-tap-repo-secret
  wasCreated   \* local variable of GetOrCreateCluster

clusterVars == <<cluster, gen, repo, wasCreated>>

ClusterInit ==
  /\ cluster = [o \in Orgs |-> "absent"]
  /\ gen = [o \in Orgs |-> 0]
  /\ repo = [o \in Orgs |-> FALSE]
  /\ wasCreated = [p \in Puts |-> FALSE]

(* The Kubernetes API of p's organization answers p's credentials. *)
Reachable(p) == cluster[ProcOrg(p)] = "ready" /\ creds[p] = gen[ProcOrg(p)]

(* The outcomes of GetCluster: 200, 204, 404; any other status or no       *)
(* answer at all ("error"); status 200 with a body that is not JSON        *)
(* ("garbled").                                                            *)
GetCluster(o) ==
  {IF cluster[o] = "ready" THEN "200" ELSE IF cluster[o] = "creating" THEN "204" ELSE "404"}
    \cup (IF Fault("demiurge") THEN {"error"} ELSE {})
    \cup (IF Fault("demiurge") /\ cluster[o] = "ready" THEN {"garbled"} ELSE {})

(* One round of the loop of GetOrCreateCluster.  A 204, and a 200 whose    *)
(* body is garbled (the call of the API with empty credentials fails),     *)
(* sleep and read again: they change nothing and are no step here.         *)
GetOrCreateCluster(p) ==
  /\ pc[p] = "goc"
  /\ \E status \in GetCluster(ProcOrg(p)) :
       \/ /\ status = "200"
          /\ creds' = [creds EXCEPT ![p] = gen[ProcOrg(p)]]
          /\ Goto(p, "gocApi")
       \/ /\ status = "404"
          /\ Goto(p, IF wasCreated[p] THEN "putFail" ELSE "gocQuota")
          /\ UNCHANGED creds
       \/ /\ status = "error"
          /\ Goto(p, "putFail")
          /\ UNCHANGED creds
  /\ UNCHANGED clusterVars

(* Mutant of IsApiWorking: the new cluster gets no secret. *)
IsApiWorkingNoSecret(p) ==
  /\ pc[p] = "gocApi"
  /\ Goto(p, IF Reachable(p) THEN "fabStart" ELSE "goc")
  /\ UNCHANGED <<creds, clusterVars>>

(* Mutant of IsApiWorking: the probe is read the wrong way round. *)
IsApiWorkingInverted(p) ==
  /\ pc[p] = "gocApi"
  /\ Goto(p, IF Reachable(p) THEN "goc" ELSE "fabStart")
  /\ UNCHANGED <<creds, clusterVars>>

(* The probe of the API the credentials name. *)
IsApiWorking(p) ==
  /\ pc[p] = "gocApi"
  /\ \/ /\ Reachable(p)
        /\ Goto(p, IF wasCreated[p] THEN "gocSecret" ELSE "fabStart")
     \/ /\ ~Reachable(p) \/ Fault("kube")
        /\ Goto(p, "goc")
  /\ UNCHANGED <<creds, clusterVars>>

(* PostCluster, first half: the number of registered clusters is read ... *)
CheckQuota(p) ==
  /\ pc[p] = "gocQuota"
  /\ \/ /\ Cardinality({o \in Orgs : cluster[o] # "absent"}) < OrgQuota
        /\ Goto(p, "gocPost")
     \/ /\ \/ Cardinality({o \in Orgs : cluster[o] # "absent"}) >= OrgQuota
           \/ Fault("demiurge")
        /\ Goto(p, "putFail")
  /\ UNCHANGED <<creds, clusterVars>>

(* Demiurge registers a new cluster for organization o. *)
Register(o) ==
  /\ cluster[o] = "absent"
  /\ cluster' = [cluster EXCEPT ![o] = "creating"]
  /\ gen' = [gen EXCEPT ![o] = gen[o] + 1]
  /\ repo' = [repo EXCEPT ![o] = FALSE]

(* ... and second half: the cluster is requested.  A conflict (409) and a  *)
(* request without an answer fail, the latter whether or not Demiurge saw  *)
(* the request; every other status counts as created.                      *)
PostCluster(p) ==
  /\ pc[p] = "gocPost"
  /\ \/ /\ Register(ProcOrg(p))
        /\ wasCreated' = [wasCreated EXCEPT ![p] = TRUE]
        /\ Goto(p, "goc")
     \/ /\ cluster[ProcOrg(p)] # "absent"
        /\ Goto(p, "putFail")
        /\ UNCHANGED clusterVars
     \/ /\ Fault("demiurge")
        /\ Register(ProcOrg(p)) \/ UNCHANGED <<cluster, gen, repo>>
        /\ Goto(p, "putFail")
        /\ UNCHANGED wasCreated
     \/ /\ Fault("demiurge")
        /\ wasCreated' = [wasCreated EXCEPT ![p] = TRUE]
        /\ Goto(p, "goc")
        /\ UNCHANGED <<cluster, gen, repo>>
  /\ UNCHANGED creds

(* The secret for the private image repository; a failure is only logged. *)
CreateSecretForPrivateTapRepo(p) ==
  /\ pc[p] = "gocSecret"
  /\ \/ /\ Reachable(p)
        /\ repo' = [repo EXCEPT ![ProcOrg(p)] = TRUE]
     \/ /\ ~Reachable(p) \/ Fault("kube")
        /\ UNCHANGED repo
  /\ Goto(p, "fabStart")
  /\ UNCHANGED <<creds, cluster, gen, wasCreated>>

(* Demiurge finishes the creation of a cluster. *)
ClusterReady(o) ==
  /\ cluster[o] = "creating"
  /\ cluster' = [cluster EXCEPT ![o] = "ready"]
  /\ UNCHANGED <<pc, creds, gen, repo, wasCreated>>
=============================================================================
