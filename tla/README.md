# TLA+ models of kubernetes-broker

kubernetes-broker lets Cloud Foundry (CF) offer services that run on Kubernetes.
CF asks the *TAP broker* (`app/tap`) to provision, poll, bind and deprovision
service instances.  The broker keeps one Kubernetes cluster per CF organization,
which it obtains from *Demiurge* through a REST connector, and creates the
Kubernetes objects of a service plan in it.  Two further programs share the
packages: the *container broker* (`app/container_broker`) for one fixed cluster,
with job hooks, and the *template repository* (`app/template_repository`).

This directory holds models of these programs in TLA+, TLC configurations that
check them on small instances, and TLAPS proofs for every instance.

## Inventory

| part | state | operations | hard behaviour | what makes it correct |
|---|---|---|---|---|
| TAP broker, `app/tap/broker_api.go`, `main.go` | goroutines of requests, of `removeCluster` and of asynchronous provisioning | `ServiceInstancesPut`, `...GetLastOperation`, `...Delete`, `removeCluster`, `removeNotUsedClusters` | goroutines share nothing but a map and remote services; partial failure; duplicates; restarts; an overdue operation that goes on | what is reported ready is complete; what is reported deleted is gone; a cluster is removed only when unused, and eventually; tenants are isolated |
| progress records, `state/state.go` | `state_map`, in memory | `ReportProgress`, `HasProgressRecords`, `ReadProgress` | several writers per record, lost on restart | a poll never takes an unfinished or failed operation for a success |
| cluster connector, `k8s/k8screator_rest_api_impl.go` | none of its own; the clusters are Demiurge's | `GetOrCreateCluster`, `GetCluster`, `PostCluster`, `DeleteCluster`, quota, repository secret | check-then-act against a remote service, endless polling | quota, one cluster per organization, the secret is created |
| fabricator, `k8s/k8sfabricator.go` | the objects in the clusters | `FabricateService`, `DeleteAllByServiceId`, `DeleteAllPersistentVolumeClaims`, lists, jobs | one call per object, any of which fails, or fails after it took effect | no deletion of foreign objects, no object left behind |
| catalog, `catalog/servicescatalog.go`, `dynamic_catalog.go` | a Go slice of offerings, a map of blueprints | searches, `RegisterOfferingInCatalog`, `UnregisterOfferingFromCatalog` and their handlers | readers without the mutex, in-place removal, growth of the backing array | listed offerings are found and have a blueprint, names are unique, no update is lost |
| container broker, `app/container_broker` | jobs and ConfigMaps in the cluster, `working`, `waitGroup` | create, delete, bind, unbind, `ProcessJobsResult`, `terminationObserver` | a background collector against running jobs, a signal at any time | no output is lost, ended jobs are collected, the process stops cleanly |
| blueprints, `catalog/kubernetes_service_blueprint.go` | files | parse, read, save, fill in parameters | naming | what is read is what was saved |
| template repository, `catalog/template.go`, `app/template_repository` | files of custom templates, the map `TEMPLATES` | add, remove, load, look up, list | a map that is emptied and refilled under readers, overlapping loads, files saved one by one, kills | a template that is served is whole, none is lost, deleted ones are gone, the process comes up again |
| bindings and secrets, `broker_api.go`, `credential_parser.go` | secrets in the cluster | `ServiceBindingsPut`, secret handlers, the mapping of environment and ports to credentials | separate lists while secrets change and objects disappear; replacement as substrings | credentials are the instance's own and those the mapping describes |
| visibility, `consul/consul_service.go`, `broker_api.go` | tags in Consul | `SetServiceVisibility`, `UpdateServiceTag`, `GetService`, `GetServices` | several ports, read and write in two calls, a service that disappears | what was set is in Consul and is reported |
| authentication, HTTP client, logger, static connectors | none | | pure I/O | not modelled |

`PROJECT.json` lists the hazards at their lines with the properties that watch them.

## Modules

The TAP broker is one specification, split by component; each module EXTENDS
the one before it.

* `BrokerBase`: organizations, instances, requests, object kinds, the goroutines
  (`Procs`) and their program counter `pc`; `creds` is the `creds` value that a
  goroutine holds.  A provisioning request is one process (handler and
  fabrication function never do the same step twice), a deprovisioning request is
  the handler and then its `go removeCluster`; an organization stands for the
  remover that `removeNotUsedClusters` starts for its cluster, an instance for the
  `last_operation` poll in flight.
* `StateService`: `state_map`.  The names of intermediate states are one value,
  the time stamp is reduced to "older than 20 minutes" (`stale`).
* `ClusterConnector`: the connector and Demiurge's clusters.  `gen` numbers the
  clusters of an organization, so that stale credentials can be told.
* `K8Fabricator`: objects, claims' volumes, creation and deletion.  `todo` is the
  rest of the list a goroutine works on.  The code deletes stateful sets and
  deployments with `DeletePropagationForeground`: such an object moves from `objs` to
  `terminating`, where it is still listed and keeps its name, until `GarbageCollect`
  (external) takes it away; objects of the other kinds go at once.  `touched` is a history variable: the
  removers behind whose back an object was created.
* `TapBroker`: the handlers, removers and the restart; `cf` is CF's view of an
  instance, `resp` the status a handler wrote, `open` that it has not returned.
* `TapBrokerProps`: the properties; `MCTapBroker`: the instances for TLC.
* `InstanceLifecycle`: the abstract specification.  An instance is requested,
  creating, ready, failed, deleting, deleted or "gone" (answered with 410), and has
  a set of objects.  Objects are created only while it is creating, it is ready
  only with all of them and keeps them, a deleted one has none and never gets any.
  `TapBrokerRefinement` maps the broker to it: `life` is CF's view, `present` the
  objects in the cluster that are not marked for deletion.
* `TapBrokerProofs`, `DeprovisionProofs`, `ProvisionProofs`, `LifecycleProofs`: the
  theorems about them, each module on top of the one before it.
* `Catalog`, `MCCatalog`: offerings, on the level of slice headers and arrays.
  A reader copies the header in two steps (array, length) and reads entries one
  by one; a removal shifts entries in place.  Reading beyond an array and reading
  the blueprint map during a write may end the process (`crashed`): those are
  data races, and both outcomes are allowed.  An entry is read as a whole,
  and the shift of a removal is one step.
  `CatalogProofs` has the theorems.
* `ContainerBroker`, `MCContainerBroker`: handlers, job processor and observer;
  `ContainerBrokerProofs`: the theorems.
* `TemplateRepository`, `MCTemplates`: the handlers, the directory of custom
  templates and the map.  A file is created (`Torn`) and then written; its content
  is the request that wrote it; the files of one kind count as one.  A load
  replaces the map, lists the directories and reads them one by one (`loadMake` to
  `loadScan`); `logger.Fatal` ends the process (`Die`), `logger.Panic` the request.
  `maker` and `complete` tell whether the load that made the present map has come
  to its end.  The templates of the image never change and are left out.
  `TemplateProofs` has the theorems.
* `CredentialMapping`: `credential_parser.go` as operators on sequences of tokens
  (text and placeholders); keys are sequences of characters, because the
  code replaces substrings.  The reference is `DocumentedMapping`, the README's words:
  every placeholder stands for its own value.
* `ServiceAccess`, `MCAccess`: bindings, secrets, visibility and views, one step per
  call of Kubernetes or Consul, while `DeleteAllByServiceId` removes one object after
  the other (`gone` counts them; its own failures are the subject of `TapBroker`) and
  whatever keeps Consul up to date deregisters the removed ports.  A `Case` says which
  requests come and what the plans are.  The deployments and stateful sets of a plan are
  lists of environments of containers.  `ports` is what a visibility request has still to
  do: a set of triples (the service the loop is at, the service and the port to update),
  done in the order of the loops, in which `consulData` grows and repeats the earlier
  services.  `report` has a flag for each service of a view.
  `AccessProofs` has the theorems.

Every call of a remote service is a step.  With the fault classes in `Faults` it
may fail: `"input"` (malformed requests, unknown plans, bad blueprints),
`"kube"` (Kubernetes calls fail, before or after taking effect), `"demiurge"`,
`"cf"` (calls of Cloud Foundry), and `"slow"` (records become older than 20 minutes, CF gives up on a
request).  Waiting and polling loops whose round changes nothing are no steps.

## Runs

All properties are in the module of the run; `PROJECT.json` has a mutant of the
code for each property of a passing run, which TLC must find.

| run | instance | shows |
|---|---|---|
| `Provision` | 2 organizations, 2 instances, a quota of 1 cluster, asynchronous, all faults, `slow` | `SuccessIsComplete` |
| `Duplicate` | 1 instance with all six kinds, request delivered twice, synchronous, all faults, `slow` | `OneProvisioner`, `SuccessIsComplete` |
| `Delete` | 1 instance, all kinds, two deletions, all faults but `slow`, a restart | `TypeOK`, `DeletedMeansGone`, `FailedMeansStopped`, `RemovalJustified`, and the refinement `KeepsLifecycle` |
| `Tenants` | 2 instances in 1 organization created and deleted, working services, deployments that take any time to disappear, fairness | `RemovalJustified`, `RepoSecretHasOwner`, `Isolation`, `PutTerminates`, `ClusterEventuallyRemoved` |
| `Offerings` | 1 creation and 2 deletions, or 2 creations and at most 1 deletion; 1 lookup of the first new service, 1 builtin offering in a full array, failing templates and CF calls, fairness | `NoLostOffering`, `BlueprintsMatchList`, `ListedIsFound`, `SearchInBounds`, `Answered` |
| `Jobs` | 1 instance with 2 job hooks created, bound and deleted, 1 failing Kubernetes call, a signal, fairness | `OutputKept`, `ExitIsClean`, `SignalEnds`, `EndedIsCollected` |
| `Templates` | three requests at a time out of 2 creations (of one id or two), a deletion, a reader and a listing; failing file operations, 1 kill at any point, fairness | `ServedIsWhole`, `NoLostTemplate`, `UnlistedOnceDeleted`, `ConflictSeen`, `Recovers` |
| `Access` | 2 instances; a binding with a change of its secret for 6 plans; 2 visibility requests and a view for 4 plans; failing calls, deprovisioning at any point | `BindingIsOwn`, `MappingCorrect`, `VisibilityApplied`, `VisibilityReported` |

The names in the requests of `Offerings` vary (`NotSent` stands for a request that
does not come): the new service is removed twice, or beside the builtin offering, or asks
for the builtin offering's name (`Removals`); or a second one is created and removed again
(`Growth`).  There the service that is looked for is listed, the array with it is full and the
second creation replaces it, before, between or after the two halves of the header
that the lookup copies.
`ListedIsFound` leaves out the offerings that a removal shifted during the search,
which are missed indeed; it says that nothing else hides one: growth of the array,
a header copied in two halves, concurrent creations.  `SearchInBounds` says when a
search can leave its array at all (and end the process): only with an array that was
outgrown and the length of a later one.

`Isolation` lets an object disappear by a deletion of its own instance, with the whole
cluster, or as a claim that a purge has listed.  While a purge takes claims the cluster
must have no service and no deployment, also none that is being deleted, unless one was
created after the remover had looked (`touched`).  That is the code's notion of a cluster
in use: a creation that has only made its claims so far does lose them to a purge.

`DeletedMeansGone` and the abstract life take an object that Kubernetes was told to
delete for gone; `RemovalJustified` and `Isolation`, and every list the code reads,
count the terminating ones.  `ClusterEventuallyRemoved` depends on it: `removeCluster`
looks for deployments once and stops for good when it meets one, and the deployments its own
request deleted are listed until their pods are gone.  Its premise `WaitSuffices` is
that those are gone when the wait before the first check
(`WAIT_BEFORE_REMOVE_CLUSTER_SEC`, 3600 s in `manifest.yml`, 600 s in `start_tap.sh`) is
over; deployments of other instances may be terminating at any time.  Without the premise TLC finds a
cluster that stays for ever.

`KeepsLifecycle` takes the failures and the restart of `Delete` together: whatever
the handlers, goroutines and removers do is a step of the abstract life or
invisible to it.  It needs that each instance is requested once and that nothing is
"slow" (run `Late`), and that nothing is created in a cluster that a remover is
taking down (run `RemovalRace`); `Delete`, with its one instance, is such a case.

The plans of `Access` are a simple one with placeholders that occur twice, one with
two named ports of which one number begins with the other, one with a UDP port, one
with a named target port, one with a variable without a source, and a clustered one
with two nodes.  `MappingCorrect` is about mappings in which no placeholder begins with
an earlier one, none has a digit in its name and the exposed ports come first
(`WellFormed`); the run `Mapping` shows what happens otherwise.  `VisibilityApplied`
is about requests that no other request for the same instance overlaps, and
`VisibilityReported` about services that exist and whose name, which the code looks for
as a part of the names of all entries, occurs in no entry but those of TCP ports of
services of the same instance that exist (`Unmistakable`): where the code's premises fail its answers are in the model and unconstrained.

Deadlock is not checked: in every instance the requests are finitely many, and
when all are served the system rests.  Bounds: the sets of requests bound the
number of operations, `MaxRestarts` the restarts, `MaxFailures` the failing
Kubernetes calls of the container broker, `MaxCrashes` the kills of the template
repository (which its own `logger.Fatal` and map races end as often as they like).  Two requests are enough for
the races, which are all between two goroutines (two provisionings, a
provisioning and a remover, a search and a removal); two deletions of one
instance are the retry; one restart separates two lives of the process, whose
memory starts empty again.

### Statements of the repository that do not hold

Each of these runs checks one statement and TLC finds a behaviour of the code
that breaks it (`findings` quotes the lines).

* `RemovalRace`: an instance created between the checks of a remover and its
  `DeleteCluster` is reported ready and loses its cluster.
* `Late`: an overdue provisioning goes on after its instance was deleted.
* `JobEarly`: a job that has not started yet is taken for ended and deleted.
* `Mapping`: `$env_POSTGRES_DB` is also replaced where it is the beginning of
  `$env_POSTGRES_DBNAME`.

More behaviours of the code are in the models and have no run of their own:

* two first instances of an organization both request its cluster and one fails
  on the conflict; two organizations pass the quota check together and exceed it;
* a remover that meets a deployment which is still being deleted stops, and the unused
  cluster stays until the next deletion or restart;
* a restart loses the record of an operation in progress;
* any failure of `GetCluster` is read as "Cluster not exist!", and a deletion answers
  410 while the objects exist; a `DeleteCluster` refused by Demiurge counts as done;
* two creations of one service name both pass the check outside the lock; a search
  misses a listed offering while a removal shifts the list;
* a template is missed, or its id accepted a second time, while the map is being
  filled; a creation with the id of one that failed writes into the directory that was
  left, and what is served mixes the two; a load that began before a deletion brings the template back; a plan that
  was being written when the process was killed keeps it from starting; one template
  without a `k8s` directory fails the listing of all; stateful sets are not saved;
* a binding gets an empty value for a secret that was deleted meanwhile, and fails
  for a plan with a variable that has no source;
* overlapping visibility requests leave some ports public and some private; a view
  answers 500 and writes that all services are private when Consul cannot be read,
  and takes the flag of another service whose name contains the name it looks for.

## Fairness

`TapBroker!Fairness` is weak fairness of each goroutine (the Go scheduler runs
runnable goroutines), of Demiurge's completion of a cluster, of the garbage collector that
removes what was deleted in the foreground and of the reclaiming of volumes (otherwise the loops of `GetOrCreateCluster` and `removeCluster` wait
for ever, by design), and it is used without faults: under failures the code
gives up, which is an end, but a remover that gives up leaves the cluster to the
next deletion or restart.  `Catalog` and `ContainerBroker` assume weak fairness
of the handlers, of the job processor and observer, and of Kubernetes running its
jobs; `EndedIsCollected` needs that Kubernetes calls do not fail for ever, which
`MaxFailures` says.  `TemplateRepository` assumes that Kubernetes starts the process
again and that its `main` runs on, nothing of the requests.  Nothing is assumed of the arrival of requests and signals.

## Proofs

The constants are arbitrary: any finite or infinite sets of organizations,
instances and requests, any blueprints, any faults, up to the named assumptions
of `BrokerBase` and `StateService` (processes are distinct, the functions have
their types, the objects of a blueprint carry its instance, a guid is not "1").

* `TapBrokerProofs!TypeCorrect`: `Spec => []TypeOK`.
* `TapBrokerProofs!RemovalIsJustified`: `Spec => []RemovalJustified`.  The property
  speaks only of the last moment before `DeleteCluster`; `Cleared` says what a
  remover knows after each of its checks: what it has looked for is gone, except
  claims that it still has on its purge list or whose purge failed, unless
  `touched` says that something was created since.  Volumes cannot reappear
  without a claim.
* `TapBrokerProofs!TenantIsolation`: `Spec => Isolation`, an action property, from
  `OwnLists` (the list a deletion works on holds objects of its own instance,
  the purge list holds claims) and `Cleared`: a remover at its purge that nobody
  overtook has found no service and no deployment, and none has come since.
* `DeprovisionProofs!FabricationStops`: `FailedMeansStopped`, where each instance is
  requested once (`OnePut`) and nothing is slow; run `Late` shows what happens
  otherwise.  `OneFabrication` ties together the goroutine,
  the record and CF's view: while objects are created CF waits or polls and the
  record says "in progress".
* `DeprovisionProofs!DeletionIsComplete`: `DeletedMeansGone` under the same
  assumptions, from `OneFabrication` and `Swept`: a deletion at a stage has left
  no object of the kinds before it and has listed what is left of its kind, and
  no fabrication adds any.

* `ProvisionProofs!ReadyIsComplete`: `SuccessIsComplete`, where nothing is deleted and
  the process is not restarted (`Dels = {}`, `MaxRestarts = 0`: then there are no
  removers), with every fault, duplicate and overdue request.  `SuccessIsBacked` follows
  the claim from the list a fabrication works off to the record, to the handler that is
  about to answer, to the poll in flight and to CF.
* `ProvisionProofs!ProvisionedOnce`: `OneProvisioner` where moreover no blueprint is
  empty.  `MakersDiffer`: no object was created by two deliveries of one request,
  so two of them cannot both have made all objects of a plan that has any.
* `ProvisionProofs!ClusterGetsSecret`: `RepoSecretHasOwner`, where calls to Demiurge and
  Kubernetes succeed and the process is not restarted (see Limits), with deletions
  and removers.  `RepoSecretOnItsWay` adds that the request in question holds the
  credentials of this very cluster, not of an earlier one.
* `LifecycleProofs!BrokerKeepsLifecycle`: the refinement,
  `Spec /\ []NoOverlap => KeepsLifecycle`: every step of the broker is, for every instance,
  a step of its abstract life or leaves that life alone, with any number of instances in
  an organization.  `NoOverlap` says that no request creates objects in an organization
  while a remover of its cluster is past its first check; run `RemovalRace` is what
  happens otherwise; where the other assumptions hold, no other interleaving breaks the
  life cycle.  Those are `OnePut` and nothing slow (run `Late` shows why), and `Guarded`, a service or a
  deployment in every plan: a remover looks for nothing else before it purges claims and
  deletes the cluster, so an instance that has neither is not seen.  Faults other than
  `"slow"`, deletions and restarts are unrestricted.  Besides `OneFabrication`, `Swept`
  and `OwnLists` the argument needs `LifeInv`: what is off the list of a fabrication
  exists, and a request without an error is answered for an instance that was created
  (`RequestsLive`); one deletion is handled at a time and the one answered with 200 is the
  last (`DeletionsLive`); an instance that the broker claims to have created is whole and
  no remover has got past the object that stops it (`ClaimsHold`).
* `LifecycleProofs!ReadyStaysComplete`: `SuccessIsComplete` under the same assumptions,
  this time with deletions and restarts; it follows from `ClaimsHold`.
* `LifecycleProofs!AloneKeepsLifecycle`: with one instance in each organization
  (`Exclusive`) `NoOverlap` need not be assumed: `RemoversLate`, a cluster comes with the
  request for its instance and a remover starts only after that request is over, is
  invariant and implies it.  So the premise of the refinement can be met, and `Delete`
  meets it.
* `CatalogProofs!SliceInvariant`: `SearchInBounds`, and that the slice is well formed, the
  basis of the other three: the header's length is within its array, slots within that
  length and all slots of outgrown arrays are filled, and only the holder of
  `catalog_mutex` writes.  A search may still run beyond an outgrown array; that is the
  crash that `Catalog` allows.
* `CatalogProofs!NothingLost`: `NoLostOffering`, from `Kept`: an offering nobody asked to
  remove is among those that stay once the removal under way is done.
* `CatalogProofs!EveryOfferingHasBlueprint`: `BlueprintsMatchList`, from `MatchInv`: list and
  map differ at most by the offering the holder of the lock is working on.
* `CatalogProofs!LookupFindsListed`: `ListedIsFound`, from `StillAhead`: what a search has to
  find is at or after its position in whatever array it has got hold of.
* `ContainerBrokerProofs!OutputIsKept`: `OutputKept`, from `JobInv`: output that is not
  saved is that of a job that is still there, and what the processor has listed as
  ended does not run again.
* `ContainerBrokerProofs!ExitsCleanly`: `ExitIsClean`, from `Counted`: `waitGroup` counts the
  processor from its start to its end.
* `TemplateProofs!NoTemplateLost`, `ConflictIsSeen`, `DeletedIsUnlisted`, `WholeIsServed`: the
  four safety properties of the template repository, for any requests, kinds of
  objects, failed saves and kills.  `RepoInv` says which requests come to which
  labels; `OnDisk` that the plan of a template is on the disk before the load that its
  creation ends with; `MapCovers` that the load that made the map has yet to read, or has
  put into the map, what was created; `CleanIsGone` that a template removed alone is in no
  list a load still works on; `WholeInv` that the plan of a template, which is
  saved last and without which it is not loaded, implies its other files, on the disk
  and in whatever part of it a request has read.

The assumptions of these modules are on the constants only: the sets of requests are
disjoint and have none of the special values (`RequestsDistinct` in `Catalog` and
`TemplateRepository`), the offerings of the image are a sequence that is not empty and
the counts are natural numbers (`CatalogBounds`), requests have names and bodies
(`RepositoryBounds`).

* `AccessProofs!BindingsAreOwn`: `BindingIsOwn`, for any workloads, secrets and requests.
  `BindOwn`: the workloads a binding has listed so far are its instance's, and `had` has
  the values that the secrets have now, so that it has the ones `GetAllPodsEnvs` reads
  later; only then the environments are those the property asks for.
* `AccessProofs!VisibilityIsApplied`: `VisibilityApplied`, for any services, ports and
  overlapping requests.  It speaks of the moment after the answer; `ShowInv` of the way
  there.  `ShowAt`: a TCP port of a service that exists is still to be updated or has the
  tags asked for, unless another request overlaps; `OverlapSeen`: then it is known to
  (`mixed`); `ConsulKept`: a service that exists has all its entries, and nobody
  touches tags other than the public one, also not a registration of tags that were read before a
  deregistration; `WishHolds`: as long as the visibility is known no request about the
  instance is under way.
* `AccessProofs!VisibilityIsReported`: `VisibilityReported`, from these and `ViewAt`: what a
  view expects is the visibility that is set, or unknown since a request came.
  That a service is found in Consul at all rests on the name of an entry beginning with
  that of its service and on every service having a port.
* `AccessProofs!CredentialsAreParsed`: `CredentialsParsed`, the credentials of a binding are
  the parser's output for the variables read and the services that existed at one
  moment.  `MappingReduced` says what of `MappingCorrect` is left: that the parser's output for
  a well-formed mapping is the documented one, a fact about operators without any steps.

`ServiceAccess` assumes of its constants that requests of different kinds are different
(`RequestsDistinct`) and have their types (`AccessAssumption`), that environments have
values or references to secrets (`WorkloadsAssumption`), and what Kubernetes guarantees of
services (`ServicesAssumption`): each has a port, and no two of them the same port of the
nodes.

Only model-checked:

* the liveness properties (`PutTerminates`, `ClusterEventuallyRemoved`, `Answered`,
  `SignalEnds`, `EndedIsCollected`, `Recovers`): fairness is out of reach of the prover;
* `MappingCorrect`, as far as it is about the parser: the credentials are computed by folds
  over the tokens of a mapping, and what a fold computes for every input needs an
  induction over data;
* the four runs that show a violation.

## Limits

* A restart between the creation of a cluster and that of its repository secret
  leaves a cluster without the secret, which no later request creates: `Tenants`
  checks `RepoSecretHasOwner` without restarts.
* Object names keep 15 characters of an instance's id; instances whose ids begin
  alike would collide.  The model takes names of different instances as different.
* Bodies of messages, descriptions and logs are left out.
* The output of a job is known by the name of the job, like its ConfigMap: that of a second
  run is dropped by the code when the first ConfigMap is there, and `OutputKept` does not
  tell the two apart.
* `ServedIsWhole` is about ids that one request creates.
* Secrets created by hand through the REST interface are in `ServiceAccess` and not in
  the clusters of `TapBroker`.
* `ServiceAccess` has one value per secret, where Kubernetes has one per key.

## Not modelled

* `adjust_params` (the substitution of parameters, random passwords and encodings in
  the templates): formatting of text, on which no state depends.
* The static and local cluster connectors: fixed credentials, no state.
* Authentication, the HTTP clients, logging: libraries and I/O.  A call succeeds,
  fails, or fails after it took effect in the modules that make it.
* `GetQuota`, `GetClusterWorkers`, the states of pods, the listing of the catalog and of a
  secret: they read and format.  `ServiceBindingsDelete` only answers.

## Plan

Done: the TAP broker and the abstract life of its instances, the catalog, the
container broker, the template repository, bindings, secrets and visibility, and the
theorems above.  Every safety property of the passing runs but the parser part of
`MappingCorrect` is a theorem.  Next:

1. The hazards that `PROJECT.json` lists without a property, as far as the repository
   comes to say what is to happen: a refused `DeleteCluster`, the quota checked in
   one call and used in another, a service that Cloud Foundry cannot be told of.
