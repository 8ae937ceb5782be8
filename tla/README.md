# TLA+ models of the Cluster API provider for CloudStack

CAPC (cluster-api-provider-cloudstack) is a set of Kubernetes controllers that
turn Cluster API objects into CloudStack resources: virtual machines, isolated
networks, public addresses, load balancer rules, affinity groups and CKS
entries. Its difficulty is not in any single function. Each controller runs
short passes over copies of objects that other controllers are changing, calls
an external service that may fail after doing what was asked, and may be
restarted between any two calls. The models here describe those passes call by
call and check what holds whatever is overtaken, lost or repeated.

## Inventory

| component | state it keeps | operations | talks to |
|---|---|---|---|
| CloudStackMachine controller (`controllers/cloudstackmachine_controller.go`, `pkg/cloud/instance.go`) | finalizer, `Spec.InstanceID`, placement, `Status.Ready`; the VM, its load balancer assignment, its state checker object | `Reconcile`, `ReconcileDelete`, update predicate | API server, CloudStack, CAPI Machine |
| CKS machine controller (`controllers/cks_machine_controller.go`) | its finalizer on the same CloudStackMachine; the VM's membership in the CKS entry | `Reconcile`, `ReconcileDelete` | API server, CloudStack |
| CloudStackIsolatedNetwork controller (`controllers/cloudstackisolatednetwork_controller.go`, `pkg/cloud/isolated_network.go`, `pkg/cloud/vpc.go`, `pkg/cloud/tags.go`) | finalizer, network and VPC id, `Status.PublicIPID`, `Ready`; networks, VPCs, addresses, tags, rules; the endpoint of the CloudStackCluster | `Reconcile`, `ReconcileDelete` | API server, CloudStack, CloudStackCluster |
| CloudStackCluster controller (`controllers/cloudstackcluster_controller.go`) | finalizer, `Ready`, its failure domain objects | `Reconcile`, `ReconcileDelete`, update predicate | API server |
| CloudStackFailureDomain controller (`controllers/cloudstackfailuredomain_controller.go`) | finalizer, resolved zone, `Ready`, the isolated network object it generates | `Reconcile`, `ReconcileDelete`, draining | API server, CloudStack, CAPI machine owners |
| CKS cluster controller (`controllers/cks_cluster_controller.go`, `pkg/cloud/cks_cluster.go`) | its finalizer on the CloudStackCluster, `Status.CloudStackClusterID`; the CKS entry | `Reconcile`, `ReconcileDelete` | API server, CloudStack |
| Base reconciler (`controllers/utils/base_reconciler.go`) | copies of one pass, the patch helper | stage runner, gates, owned objects, deferred patch | all controllers |
| Webhooks (`api/v1beta3/*_webhook.go`) | none | validation of new objects and of updates | API server |
| Conversions (`api/v1beta1`, `api/v1beta2`) | an annotation with the fields a version lacks | `ConvertTo`, `ConvertFrom` of seven kinds | API server; the v1beta1 cluster conversion also CloudStack, a secret and CloudStackZone objects |
| CloudStackAffinityGroup controller (`controllers/cloudstackaffinitygroup_controller.go`, `pkg/cloud/affinity_groups.go`) | finalizer, group id, `Ready`; the group in CloudStack | `Reconcile`, `ReconcileDelete` | API server, CloudStack, failure domain |
| CloudStack client (`pkg/cloud/client.go`, `pkg/cloud/user_credentials.go`) | process-wide cache of clients; keys, config and user of each | `NewClientFromConf`, `NewClientInDomainAndAccount` | CloudStack; every pass, through `AsFailureDomainUser` |
| State checker controller, metrics, `main.go` | see `PROJECT.json` | | |

What makes them hard:

* **Copies.** A pass works on what an informer cache held when it started, and
  writes back a merge patch that is not tied to the version it read. Two
  controllers share the CloudStackMachine, and two share the CloudStackCluster;
  each replaces the finalizer list as a whole.
* **Two worlds.** A CloudStack call may fail and have taken effect, and what it
  returned is lost when the patch that should record it fails or the manager
  restarts.
* **Being woken.** Update predicates drop most changes. An object whose last
  pass did not ask to be queued again may never be looked at again.
* **Order of teardown.** Cluster, failure domain and network objects wait for
  each other through finalizers, and are looked up in caches, by labels and by
  hashes of names that may already be gone.
* **Sharing.** Networks and addresses may be used by several clusters; tags are
  read in one call and acted on in another. Clients are shared by all passes
  with the same secret, and written to outside the cache's lock.
* **Several forms of one object.** Three API versions are served; every write
  through an old one is two conversions around an edit, and what that version
  lacks lives in an annotation meanwhile. What the webhook is asked about, what
  is stored and what is read back are converted separately.
* **Other people's counts.** A failure domain is drained on the strength of
  replica counts that another controller keeps, and of a cached list of
  machines.

What makes the components correct: never two VMs for a machine; no live VM
without an object that will destroy it; no VM destroyed for an object nobody
deletes; a controller that rests has finished; a Ready network serves the
endpoint of its cluster; a resource in use by another cluster stays; objects go
away from the bottom up; a pass acts in the account of its failure domain; a
drain takes one machine at a time; a write through an old API version keeps
what it does not know; provisioning, draining and deletion come to an end.

`PROJECT.json` lists the hazards at the lines where they bite, with the
properties that cover them.

## Modules

| module | what it is |
|---|---|
| `MachineLifecycle` | one CloudStackMachine, machine controller and CKS machine controller |
| `MachineContract` | what CAPC promises of one machine and its VM, without controllers |
| `MachineRefinement` | the mapping under which `MachineLifecycle` implements `MachineContract` |
| `IsolatedNetwork` | isolated networks, VPCs, addresses and tags of the clusters that name one network |
| `ClusterLifecycle` | one cluster: CloudStackCluster, failure domains, isolated network objects, CAPI Cluster, garbage collector, CKS cluster controller |
| `FailureDomainDrain` | a failure domain taken out of the spec: failure domain, machine and affinity group controllers, and the manager that replaces machines |
| `ClientCache` | the clients concurrent passes act with, and the cache of them |
| `ApiVersions` | one object written through three API versions: conversions and admission webhooks |
| `MachineLifecycleProofs`, `MachineGuardProofs` | theorems about `MachineLifecycle` |
| `MachineRefinementProofs` | the theorem that `MachineLifecycle` implements `MachineContract` |
| `IsolatedNetworkProofs` | theorems about `IsolatedNetwork` |
| `ClusterLifecycleProofs` | theorems about `ClusterLifecycle` |
| `FailureDomainDrainProofs` | theorems about `FailureDomainDrain` |
| `ClientCacheProofs` | theorems about `ClientCache` |
| `ApiVersionsProofs` | theorems about `ApiVersions` |
| `MC...` | symmetry sets and constant functions for model checking |

Definitions introduced as "Variation of ..." or "Mutant" are the wrong versions of the definition
that follows them. They are not part of the specifications; replacing the real
definition by its variation makes the property named in `PROJECT.json` fail.

### MachineLifecycle

State. `stream` is the sequence of versions of the object from the one in the
informer cache (`cache`) to the stored one (`api`). `queue[c]`, `pc[c]`,
`base[c]`, `loc[c]` and `retry[c]` are the work queue and the running pass of
controller `c` ("M" or "K"): the copy it read, its working copy, and whether it
will be queued again. `vm`, `lb`, `cks` are CloudStack's; `checkers` the state
checker objects; `admitted`, `bootstrap`, `listed`, `doomed` the surroundings.

Actions. One action is one call to the outside with the local code up to the
next call: `Start` (GetReconciliationSubject, SetupPatcher), `MGates`,
`MFailureDomainCheck`, `MGetVM` / `MDeploy` / `MResolve`
(GetOrCreateVMInstance), `MFound` (the stages after it, up to the next call),
`MDeleteCapi`, `MAddToLB`, `MStateChecker`, `MFindVM` / `MDestroy` / `MConfirm`
(ReconcileDelete), `KGates`, `KAddVM`, `KRemoveVM`, `PatchSpec` and
`PatchStatus` (the deferred patch, two requests). Around them `WatchEvent` with
the update predicate `Triggers`, `Resync`, `Crash`, the CAPI machine controller
(`CapiDeletesInfra`), deletion in the foreground (`ForegroundDeletion`,
`ForegroundDone`), users (`DeleteRequested`, `Suspend`, `FailureDomainDelisted`) and CloudStack (`VMProgress`, `VMDisturbed`).

Left out: fields no decision depends on; the resolution of offerings, templates
and limits, which is a deployment that is refused (`MRefused`); the affinity
group, which is part of `bootstrap` and `placed` here and a subject of
`FailureDomainDrain`.

### MachineContract and MachineRefinement

The contract knows the object (`phase`: present, deleting or gone), whether it
carries the machine finalizer (`guarded`) and the life of each VM. It allows one
VM per machine (a second one only after a loss out of band), destroying only in
a deletion, adding the finalizer only before one, and lets a guarded object go
only when no VM is live. `MachineRefinement` reads these off the stored object
and CloudStack's VMs; caches, queues, passes and patches have no image, so each
of their steps must be a stutter or one of the contract's actions.

### IsolatedNetwork

State. Per cluster the stored and the cached isolated network object and
endpoint host, and the running pass with its copies; `net`, `vpc` and `ip` are
CloudStack's networks, VPCs and addresses with their tags and rules. `layout` is
what the specs and the network offering ask for: a plain network, one in a VPC,
or a routed one.

Actions follow GetOrCreateIsolatedNetwork and DisposeIsoNetResources call by
call: `ResolveNetwork`, `CreateNetwork`, `TagCreated`, `TagNetwork`,
`GetPublicIP`, `AssociatePublicIPAddress`, `TagIP`, `TagIPCreated`,
`GetOrCreateLoadBalancerRule`, `OpenFirewallRules`, `PatchCluster`; `UntagIP`,
`CheckIP`, `UntagIPCreated`, `DisassociatePublicIPAddress`, `UntagNetwork`,
`CheckNetwork`, `DeleteNetwork`; `Patch` is the deferred patch. With a VPC
come `ResolveVPC`, `CreateVPC`, `TagVPCCreated` and `TagVPC` before and around
the network's calls, and `UntagVPC`, `CheckVPC` and `DeleteVPC` after them. A
routed network gets neither address nor rule (`Endpoint`).
`EndpointAdmitted` is the webhook rule on the endpoint. CloudStack refuses to
associate an allocated address, and an association, the creation of the load
balancer rule, the patch of the CloudStackCluster or a removal that fails may
have taken effect.

Left out: source NAT addresses; the protocols of firewall rules; the endpoint
of a routed network, which the user gives.

### ClusterLifecycle

State. `capi` is the CAPI Cluster, `obj` and `seen` the stored and the cached
objects, `orphans` those whose owner is gone, `queued` the cluster's work
queue, `pc`, `read` and `diff` the running passes (`diff[w]` is the merge patch
a pass will send), `net` and `cks` what is left in CloudStack. `netOf` is the
network each failure domain names: one of its own, or one that several share, of
which there is then one object, owned by the failure domain that came first.

Actions: `CreateFailureDomains`, `RemoveAndVerify`, `DeleteFailureDomains`
(cluster controller); `GetOrCreateCksCluster`, `DeleteCksCluster`;
`ReconcileDomain`, `DeleteOwnedObjects`, `CheckOwnedObjectsDeleted` (failure
domain controller); `ProvisionNetwork`, `DisposeNetwork`; `Patch`; `Watch`
(with the update predicate `Triggers`), `WatchCapi`, `GarbageCollect`,
`CapiGone`, `DeleteRequested`, `EditSpec` (with the webhook rule
`UpdateAdmitted`), `Crash`.

Here a pass is one action up to the point where it acts on a second read,
because the objects it writes are told apart only by finalizers, readiness and
existence. When CloudStack does not know the id of a CKS entry (the only way
one is looked up for deletion), `DeleteCksCluster` may keep the id and ends
with success. What a network does in CloudStack is the subject of
`IsolatedNetwork`. Machines are left out: the failure domains are empty when
they are deleted; `FailureDomainDrain` is about those that are not.

### FailureDomainDrain

State. `spec` and `specSeen` are the stored and the cached list of failure
domains, `mach` the machines (CAPI Machine, failure domain given by CAPI, stored
failure domain, VM), `seen` the cached labels by which
GetAllMachinesInFailureDomain finds them, `placing` the deployments under way.
`dom`, `pc`, `first` are the failure domain objects and their deletion passes;
`group`, `csGroup` the affinity groups on both sides; `status` the replica
counts of the manager, `control` whether it is a control plane, for which CAPI
chooses failure domains, or a machine set, whose machines CAPC places at random.

Actions: `GetAllMachines` (the stages of ReconcileDelete that read), `ClearMachines`,
`DeleteOwnedObjects`, `CheckOwnedObjectsDeleted`, `RemoveFinalizer` (the
deferred patch, after the check); `ReconcileGroup`,
`DeleteAffinityGroup`; `PlaceMachine` (SetFailureDomainOnCSMachine,
DeleteMachineIfFailuredomainNotExist, ConsiderAffinity), `DeployMachine`,
`DestroyMachine`; `EditSpec` with the webhook's rule,
`RemoveExtraneousFailureDomain`; around them the manager, the watches, the
cluster's Ready condition and restarts.

Two assumptions are about time. The manager's own view of its machines is
current, and it leaves out machines that are being deleted. And it makes a pass
within the requeue time (`RequeueTimeout`, five seconds) after a machine was
deleted. Nothing in the code orders the two. Without the second, `OneAtATime`
fails: the next pass may find another machine first in the cache and counts that
do not know of the deletion yet. `CanBeRemoved` looks at the number of ready
machines only when the status has one, as the code does.

Left out: machines without affinity or with `AffinityGroupRef` set by the user;
several managers; the time a VM takes, which is the subject of
`MachineLifecycle`.

### ClientCache

State. `heap` is the memory with its clients; each has the keys it signs with
(`cs`, fixed), its `config` and its `user` with the limits read from
CloudStack. `cache` and `age` are the cache, `pc`, `want`, `base`, `found`,
`user` the passes on their way through AsFailureDomainUser, `limit` what
CloudStack grants each account.

Actions: `NewClientFromK8sSecret`, `GetUserWithKeys`, `SetAPIKey`,
`SetSecretKey`, `SetUser`, `NewClientInAccount`, `EndPass`, `Tick`,
`ChangeLimit`. NewClientFromConf runs under the cache's lock and is one step;
the three assignments of NewClientInDomainAndAccount do not, and are three.

Left out: several secrets and projects, which are part of every cache key;
domains, which are part of the account; torn writes of a single field.

### ApiVersions

State. `stored` is the object in storage and the version it is stored in, `kind`
its kind, `last` the last accepted request; `global` and `zoneObj` are what the
v1beta1 cluster conversion asks Kubernetes for. An object is its plain fields
and, for clusters and failure domains, the failure domains in its spec.

`Schema` says which fields each version's types have, `Carried` which of them
the conversions between a version and the hub carry: those both have. Fields
that only v1beta1 has are in the schema and carried by none. `Saving` says which
conversions save the hub object in an annotation, `Restored` what is taken from there again.
`ConvertFrom` and `ConvertTo` give the set of possible results: none when the
conversion fails, two when a zone lookup may fail or not. `ValidateCreate` and
`ValidateUpdate` are the webhooks. The actions are `Create(v)` and `Write(v)`, a
request through version `v` with all its conversions, and `ChangeGlobal`. An
initial object is absent or one that an earlier release stored.

The API server (atomic update, order of conversions and admission) is external,
modelled from the CRD and webhook manifests under `config/`. Fields that all
conversions and all webhooks treat alike are one field.

## Runs

Passing:

| run | instance | what it shows |
|---|---|---|
| `machine_safety` | machine controller alone, two VM ids, up to two disturbances of any kind, up to three versions behind | `AtMostOneVM`, `SettledIsComplete`, `DestroyOnlyWhenDeleting` |
| `machine_with_cks` | both controllers, two VM ids, fair, one failing call or restart, one version behind | `TypeOK`, `FinalizerHasInstance`, `GuardedUntilDestroyed`, `ImplementsContract`; `DeletionCompletes`, `ProvisioningEnds`, `ReadyIsBalanced`, `ErrorIsReplaced` |
| `network_lifecycle` | one cluster, plain, VPC or routed; two network and two VPC ids, one of each possibly there before, two addresses, fair, one disturbance | `TypeOK`, `ReadyIsServed`, `UndisturbedDisposal`, `ProvidedKept`; `DeletionCompletes`, `ProvisioningEnds`, `EndpointRecorded` |
| `cluster_safety` | two failure domains with own networks or a shared one, one change of the spec, one disturbance | `TypeOK`, `ClusterOutlivesDomains`, `DomainOutlivesNetworks`, `SharedNetworkKept` |
| `cluster_liveness` | one failure domain, CKS, fair, one disturbance | `TeardownCompletes`, `SetupCompletes`, `NetworksDisposed`, `ClusterOutlivesDomains` (with both controllers on one finalizer list) |
| `clients` | two passes, a secret whose failure domains name one account or none, fair | `TypeOK`, `CacheKeyed`, `RightAccount`; `LimitsRefreshed` |
| `drain` | two failure domains, one of them going, two replicas and a name to spare, control plane or machine set, fair, one disturbance | `TypeOK`, `OneAtATime`; `DrainCompletes` |
| `versions` | an object of any of the seven kinds, up to two failure domains in two zones, both given by name in v1beta1, writes through every version in any order, zone lookups that may fail | `TypeOK`, `ReadYourWrites`, `Readable`, `UpdatesAdmitted`, `OldWritesKeepNew`, `NamesStable`, `EndpointFixed` |

Violated, each a disagreement of the code with its own comments or tests
(`PROJECT.json`, findings):

| run | what happens |
|---|---|
| `v_orphan_vm` | a machine deleted during its first deployment has no finalizer yet, goes away, and its VM stays |
| `v_ip_released_in_use` | two clusters pick one free address; the one that did not get it releases it later |
| `v_early_deletion_stuck` | a cluster deleted before it is ready leaves a failure domain and a network that wait for ever |
| `v_wrong_account` | two failure domains with one secret name different accounts, and one pass acts in the account of the other |

### Further disagreements

These show with other constants; no run is kept for them.

* `CksKeepsMachineFinalizer` (both controllers, one failing call): the CKS
  controller's patch, computed from a copy read before the machine finalizer was
  stored, takes it off (`cks_machine_controller.go:84` says "Prevent premature
  deletion."), and the machine controller's predicate does not notice.
* `NetworkReleased` (one restart): a disposal repeated after the address was
  released takes "no match found" for success and never gets to the network,
  which stays with its cluster tag (`cloudstackisolatednetwork_controller.go:100`).
* `InstanceHasFinalizer` (machine controller, one failing call): an incomplete
  deployment stores the InstanceID and returns an error, so no finalizer is
  added (`instance.go:529`).
* `ReconciledPeriodically` (FairSpec, no disturbance): resyncs replay equal
  objects, which the update predicate drops, although `main.go:181` describes
  the sync period as the minimum interval at which objects are reconciled.
* `GuardedUntilDestroyed` with "vanish" in `Disturbances`: a VM lost out of
  band is redeployed, the patch with its id fails, and the deletion asks for the
  old id, which counts as success (`instance.go:620`).
* `EndpointTagged` (no disturbance): no address ever gets its cluster tag,
  since it is added before the tag it depends on (`isolated_network.go:87`).
* `NetworkInUseKept` (two clusters, network created by CAPC, no disturbance):
  one cluster adds its tag between the other's reading of the tags and its
  deletion of the network (`isolated_network.go:519`).
* `AddressesReleased` (one failing call): an address associated by a pass that
  then failed is forgotten, and the next pass takes another one. On a network
  that was there before, a stale pass is enough, without any disturbance.
* `AnyTeardownCompletes` with `Cks = TRUE`: the CKS controller needs a failure
  domain to delete its entry, the cluster controller may have deleted them all
  (`cks_cluster_controller.go:96`). `TeardownCompletes` is therefore about a
  cluster that only the cluster controller still holds.
* `TeardownCompletes` with two failure domains and `MaxEdits = 1`, no
  disturbance: a failure domain that is taken out of the spec during its first
  pass goes away before its finalizer is stored, and its isolated network object
  waits for it for ever.
* A shared network object belongs to the failure domain that created it; when
  that one is removed, the object goes although another failure domain names it
  (`cloudstackfailuredomain_controller.go:137`). `SharedNetworkKept` is about
  the failure domains that do not own it.
* `ClusterOutlivesDomains` with two failure domains and `MaxEdits = 3`, no
  disturbance: the spec is changed from {f1, f2} to {f2} (f1 is being deleted),
  back to {f1, f2} (f1 is still there and is not created again), then to {f1}
  (f2 is being deleted). Both go and the cache knows; f1 is created anew, which
  the cache does not know yet, and the cluster is deleted. DeleteFailureDomains
  lists nothing and the finalizer comes off while f1 exists
  (`cloudstackcluster_controller.go:143`). See the proofs for what excludes it.
* `NetworksDisposed` with `DeleteEarly = TRUE`: without the CloudStackCluster
  the tag to remove is named after an empty uid, and the network stays
  (`base_reconciler.go:200`).
* `LimitsOfAccount` (`clients`): a pass without an account shares the client of
  one with an account and checks a deployment against its limits
  (`client.go:224`).
* `NoMachineStranded` (`drain`, no disturbance): a machine placed from a stale
  copy of the spec gets its label when its deployment ends; by then the failure
  domain may have found no machines and be gone, and the machine can neither be
  reconciled nor deleted (`cloudstackfailuredomain_controller.go:150`). That
  CloudStack lets the affinity group go at that moment is an assumption.
* `NeverTwoAway` (`drain`, one restart): all machines of a delisted failure
  domain are reconciled, and each deletes itself
  (`cloudstackmachine_controller.go:211`), without the check that the drain makes
  for each.
* `GroupsDeleted` (`drain`, one failing call): the error of FetchAffinityGroup
  is dropped, and the finalizer goes while the group stays
  (`cloudstackaffinitygroup_controller.go:81`).

About VPCs (`network_lifecycle` excepts the first two):

* `Blocked`: a network that a failed pass left in a VPC CAPC created makes
  CloudStack refuse to delete the VPC, and the deletion never ends (`vpc.go:121`).
* `Mismatch`: the spec names a VPC and an existing network is in none. An
  empty `Vpcid` equals the empty VPC id, a free address counts as associated, and
  the load balancer rule fails for ever (`isolated_network.go:70`).
* A VPC whose creation succeeded and whose tagging failed is never deleted
  (`vpc.go:117`).

About versions:

* `OneDomainRemains` ("at least one failure domain has not been deleted",
  `cloudstackcluster_webhook.go:116`): any v1beta1 write, even of a label, names
  every failure domain after its zone and its secret "global"; the webhook sees
  the old object with the same new names and admits it.
* Fields that a write through an old version loses, since nothing saves them:
  `networks` of machines (v1beta1) and templates (both), `vpc` and `routingMode`
  of networks (both), `syncWithACS` and the CKS
  cluster id of clusters (both), and what v1beta3
  added to failure domains (project, gateway, netmask, offering, VPC).
  `Promised` of `ApiVersions` lists what is kept.
* Fields that only v1beta1 has are lost on every v1beta1 write, the write that
  sets them included: of machines `spec.zoneID` ("Optionally settable Zone ID to
  land the machine in.", `v1beta1/cloudstackmachine_types.go:82`),
  `spec.zoneName`, `spec.identityRef` and `status.zoneID`, of templates the same
  spec fields, of clusters `spec.identityRef` and the status fields for zones,
  domain, public IP and load balancer rule. No conversion carries them
  (`v1beta1/conversion.go:39`, `v1beta1/zz_generated.conversion.go:630`) and
  nothing saves them, so a v1beta1 client reads them back empty.
  `ReadYourWrites` states this for exactly these fields (`OnlyInV1beta1`) and
  the opposite for all others.
* ValidateUpdate compares failure domains by name only with the last of a
  duplicated name, leaves out what v1beta3 added (`FailureDomainsEqual`), and
  does not require names of the new ones, as ValidateCreate does.
* When neither CloudStack nor a CloudStackZone object knows a zone's id, its
  failure domain is stored with an empty name (`v1beta1/conversion.go:142`). Two
  such failure domains share it, and ValidateUpdate compares both with the last
  one (`cloudstackcluster_webhook.go:121`): the cluster is admitted once and every
  later write of it, a label included, is refused. `UpdatesAdmitted` excepts it
  (`ByNameTwins`). It showed in the proof: with only one zone given by name the
  run could not reach it.
* A machine with a negative disk size and no disk offering is admitted, and
  refused on every later write (`cloudstackmachine_webhook.go:87`).
* `string(port)` is a character: a change between two ports that are no code
  points (55296 to 57343), or between one of them and 65533, the replacement
  character itself, is admitted (`cloudstackcluster_webhook.go:109`).
  `NonRunes` is the set of these ports, and `EndpointFixed` is about the others.

### Bounds

* `MaxFaults` bounds disturbances (failing calls, restarts, VMs lost, stopped or
  suspended). One is enough to separate any two calls of a pass; two let a
  fault hit the repetition of a failed pass. A failing call costs a network or an
  address, so liveness of provisioning is checked with one more address than
  disturbances.
* `MaxLag` bounds how many versions the cache may be behind when a pass starts
  (the length of `stream`). Each pass writes at most two versions, so two covers
  a pass that starts between the two writes of the other controller, four a pass
  that starts before a deletion and a whole other pass became visible.
* One machine and one cluster are enough in `MachineLifecycle` and
  `ClusterLifecycle`: objects of different machines or clusters meet only in
  networks and addresses, which `IsolatedNetwork` checks with two clusters. Two
  network ids let a second network of the same name appear; two failure domains
  let one be replaced by the other.
* `MaxEdits` bounds changes of the cluster's spec.
* Two VPC ids let a second VPC of the same name appear, as two network ids do.
* `MaxDomains = 2` failure domains let one stay while the other goes. In
  `versions` a field is set or not, endpoints have a port that is a code point
  and two that are not, and the number of requests is not bounded: the state is
  the object and the last request. Both zones are given by name, so that two
  lookups can fail at once; clusters with zones of both sorts are left to the
  proofs.
* `Replicas = 2` is the least number the drain accepts, `MaxMachines` one more:
  a machine that is being deleted and its replacement exist at the same time.
* `TTL` is the time a client stays in the cache, in ticks; two ticks let a
  client be used in the middle of its time. `MaxClients` is as large as the
  number of clients two passes and the cache can hold, so it is never reached;
  `MaxChanges` bounds changes of limits.

Deadlock is not checked where the system may rest: when the object is deleted
and gone, or the failure domain drained. Passes on the client cache never end,
so `clients` checks it.

### Fairness

Weak fairness of the steps of each pass (a worker that has started a pass goes
on, and a queued object is eventually taken), of the watches (they deliver),
of the resync (the informers replay periodically), of the readiness of the
surroundings, of a VM that starts or is expunged, of the CAPI controllers'
deletion of what they own and of the garbage collector (`GarbageCollect`,
`ForegroundDone`), of the machines' manager and of the passing of time
(`Tick`). Neither users nor
disturbances are fair. No fairness is assumed of a particular outcome of a call:
failures are bounded by `MaxFaults`, not excluded.

## Proofs

`MachineLifecycle` is proved for every set of VM ids, with or without the CKS
controller, for every choice and number of disturbances and every lag. The
assumptions are those of the module: no VM id is the empty InstanceID, the
machine controller runs, the bounds are natural numbers.

| theorem | states |
|---|---|
| `TypeCorrect` | `TypeOK` always holds |
| `OneVM` | `AtMostOneVM` always holds |
| `FinalizerInstance` | `FinalizerHasInstance` always holds |
| `DestroyDeleting` | `DestroyOnlyWhenDeleting` |
| `FinalizerGuards` | `GuardedUntilDestroyed`, if VMs are not removed out of band |
| `SettledMachine` | `SettledIsComplete` always holds, if the CKS controller does not run |
| `SettledIsServed` | with either set of controllers, `SettledIsComplete` but for the machine finalizer |

* `TypeInv` is `TypeOK` with what the steps that use an InstanceID know: it is
  there. One lemma per action.
* `SafetyInv` adds the order of versions (`VersionsInv`: deletion is final, an
  object being deleted only loses finalizers, an InstanceID is never cleared, a
  finalizer comes with one), how the copies of a pass relate to the stored
  object (`CopiesInv`: what makes merging a stale copy harmless), and what a
  pass knows where it is (`PassInv`: it deploys only when no VM is left and
  destroys only for an object being deleted). None of the three properties is
  inductive without them: a step may act on a cached version, so the invariant
  has to speak of all of them.
* `GuardInv` adds that without out-of-band removals at most one VM id is ever
  used and every copy refers to it (`IdsInv`), that its removal is known to the
  cache (`RemovedInv`), that only an object not being deleted is given a VM
  (`ProvisionInv`), and that a pass which has taken its finalizer off its copy
  leaves no live VM (`ReleaseInv`). The condition on removals is needed: see
  above for what happens without it.
* `RestInv` is the argument that a pass which failed half way is run again. The
  stored object is ahead of every version in the watch and of every copy a pass
  read (`Before`, a transitive relation: readiness and the machine finalizer are
  kept, and a stored InstanceID is replaced only when its VM is gone for good).
  So a patch computed from a stale copy still stores what the pass found: if the
  pass found the VM whose id it had read, no other id can have been stored
  since. `FoundInv`, `BalancedInv`, `CheckedInv` and `StoredInv` say what a pass
  that will not be retried has achieved at each of its calls, and `IdleInv` that
  an idle controller with an empty queue has nothing left to do. It does not
  mention the events still in the watch: completeness does not depend on one of
  them bringing the object back to the queue. The condition of `SettledMachine`
  is needed: the CKS controller stores the finalizer list as a whole, and a pass
  of it on an older copy takes the machine finalizer off for good (TLC finds the
  run with one failed call and one restart).

`MachineRefinementProofs` proves `MachineImplementsContract`, `Spec =>
ImplementsContract`, from the same assumptions.

* `MapInv` is `SafetyInv` and, unless VMs are lost out of band, `GuardInv`. The
  contract's guards are about the stored object, the actions' about copies: the
  invariant carries one to the other.
* Every action either leaves the stored object alone or leaves the VMs alone
  (`WritesAlone`, `ChangesAlone`). Writes of the object are of four sorts
  (`Kept`, `Edited`, `Requested`, `Released`), and `WriteRefines` maps each;
  `DeployRefines`, `DestroyRefines` and `ProgressRefines` map what happens to a
  VM. `ContractStep` puts them together.

`ClientCache` is proved for any number of passes, accounts and clients, from
its assumptions on constants (the owner of the secret is an account, failure
domains name accounts or none).

| theorem | states |
|---|---|
| `TypeCorrect` | `TypeOK` always holds |
| `CachedClientsKeepKeys` | `CacheKeyed` always holds |
| `RightAccountIfOne` | `RightAccount` always holds if no two failure domains with the secret name different accounts (`OneAccount`) |

* `Keyed` is `TypeOK` and `CacheKeyed`, inductive together: making a client uses
  an address nobody holds, and the sweep takes only those.
* `RightInv` adds how far each pass has got with the shared config
  (`OnItsWay`): what it has written so far is what it will read back. A write of
  another pass keeps that only because, under `OneAccount`, it writes the same.
  `v_wrong_account` shows what happens without the assumption.

`IsolatedNetwork` is proved for any number of clusters that name one network,
any sets of networks, VPCs and addresses, all layouts and any number of
disturbances.

| theorem | states |
|---|---|
| `TypeCorrect` | `TypeOK` always holds |
| `ProvidedNetworksKept` | `ProvidedKept` always holds |
| `ReadyServedWhileUndeleted` | `ReadyIsServed` holds as long as no cluster on the network is being deleted |
| `LoneClusterIsServed` | with one cluster on the network, `ReadyIsServed` always holds |
| `LoneClusterIsDisposedOf` | with one cluster on the network, and at most one network and one VPC of the name there before, `UndisturbedDisposal` |

* `TypeOK` is inductive: with the types it says which id each call of a pass
  has at hand, and the calls before it have set that id.
* `GivenInv` says that what was there before never gets CAPC's tag and that no
  pass is about to give it the tag or to delete it. The last part is needed:
  the tags are read in one step and acted on in a later one, with passes of
  other clusters in between. It is kept because only a resource that was absent
  when a pass created it is ever tagged.
* `ServeInv`: while nothing is deleted, networks, VPCs, owners of addresses and
  rules only grow (`Grows`), so what is established once stays. `Sound` ties a
  rule to a network its address belongs to, `OnItsWay` says at each call of a
  pass what it knows of its address (at the last one, that the address serves),
  `Working` that every stored endpoint serves and that Ready, in any copy, comes
  after that. A pass takes over the stored endpoint or a free address, never one
  that another pass has half set up; this is where the proof uses that a second
  association is refused. The condition is needed: `v_ip_released_in_use`.
* `DisposalInv` is `GivenInv` and, as long as nothing was disturbed and the object
  exists, `Orderly`. `World`: there is at most one network and one VPC, and an
  address belongs to one of them. `Versions`: a cached copy is an earlier version
  of the stored object, which loses neither finalizer nor ids. `Building`: until
  the disposing pass starts, nothing goes away and an object with a finalizer, a
  stale one too, names everything CAPC created; `Settled` is why: the patch that
  stores the finalizer also stores the ids, and after it no pass creates anything.
  `BuildingPass` and `DisposingPass` say what a pass knows at each call: a
  disposing pass still has before it whatever it has not deleted.
* Both conditions of `LoneClusterIsDisposedOf` are needed; TLC finds the
  counterexamples, without a failing call. With two networks of the name there
  before, no lookup by name succeeds: a second pass that starts on the object
  as it was before the first one's patch creates a second network, and the object
  keeps the id of only one. With two clusters, one may be deleted before its
  finalizer is stored; its pass goes on and tags the network, nothing removes
  that tag, and the other cluster leaves the network alone.

`ClusterLifecycle` is proved for every set of failure domains and networks, own
or shared, with or without CKS, and any number of disturbances.

| theorem | states |
|---|---|
| `TypeCorrect` | `TypeOK` always holds |
| `DomainsOutliveNetworks` | `DomainOutlivesNetworks` |
| `SharedNetworksKept` | `SharedNetworkKept` |
| `NetworksReleased` | `NetworksDisposed` |
| `AnchoredClusterOutlivesDomains` | `ClusterOutlivesDomains`, if one of the first failure domains stays in the spec |
| `ClusterOutlivesDomainsOfOneEdit` | `ClusterOutlivesDomains`, if the spec is edited at most once |

* Every step changes a stored object in one of four ways, or not at all
  (`Change`: a pass's patch, a creation, a deletion request, another write); the
  lemma `ChangeNext` is what the other proofs use of `Next`.
* `OwnedInv`: a patch that takes the last finalizer off a failure domain is on
  its way only when the domain owns no network object, and a pass on an old copy
  that was being deleted, of a failure domain that came back since, finds none.
  Without the second part such a pass could delete the network of the new
  failure domain.
* `ReleaseInv` is the same for networks: a patch that lets a network object go
  is on its way only when the network is released, and the cluster's cache does
  not lose a cluster that exists.
* `Anchor(f)`, for a failure domain f that stays in the spec, has three parts.
  Until the cache knows of the cluster's deletion nobody deletes f, and the
  cluster gets its finalizer only once f is in the cache (`Watched`); from then
  on no failure domain is created, and the cache lists f or misses nothing
  (`Closing`); so the patch that takes the finalizer off is made only when no
  failure domain is left (`Closed`), and the CKS controller's patch, which
  replaces the same list, does not take it off. `EditInv` adds that before the
  first edit every first failure domain is such an f and that the webhook leaves
  one. The conditions are needed: see the further disagreements for three edits.

`FailureDomainDrain` is proved for any number of failure domains, machines and
replicas, control plane or machine set.

| theorem | states |
|---|---|
| `TypeCorrect` | `TypeOK` always holds |
| `DrainsOneAtATime` | `OneAtATime` always holds |
| `OnlyRestartsTakeTwo` | without restarts, `NeverTwoAway` always holds, whatever calls fail |

* `DrainInv`: only one failure domain is drained (`OneDrained`); a machine that
  has its VM is neither queued nor being placed, so it does not delete itself
  (`Quiet`, which a restart breaks); and the manager's count promises no more
  machines than are at work, except between a deletion and the next count
  (`Counting`, which also says that it is at most one short: with two replicas
  it is never zero, the count that `CanBeRemoved` does not look at). The counting
  steps use the cardinality lemmas of FiniteSetTheorems.

`ApiVersions` is proved for any kinds, zones, names, field values and ports, any
number of failure domains, and any zone lookups that may fail. The assumptions
are those of the module: there are values and ports, none of them is the
unset value, and no port is the character that stands for all that are none.

| theorem | states |
|---|---|
| `TypeCorrect` | `TypeOK` always holds |
| `WritesReadBack` | `ReadYourWrites` always holds |
| `AlwaysReadable` | `Readable` always holds |
| `AlwaysUpdatable` | `UpdatesAdmitted` always holds |
| `NewFieldsKept` | `OldWritesKeepNew` |
| `EndpointStays` | `EndpointFixed` |
| `NamesKept` | `NamesStable` |

* `IInv` says which objects a version can hold (`ObjectOf`): the fields of its
  schema, failure domains in distinct zones where the version has zones, with
  distinct names except in the zones whose lookups fail (`Nameless`), and at
  least one of them in a cluster (`HasDomain`). The last is what makes a v1beta1
  form exist; it holds because creation, update and the v1beta1 conversion each
  keep one, and has to be part of the invariant since a reader converts what
  others wrote. `SizeFits` is the same for disk sizes.
* `Down` and `Up` say what one conversion makes of such an object, `RoundTrip`
  what a conversion down, an edit and a conversion up make of it: the saved
  object is restored field by field, so an edit is lost exactly if its field is
  restored, and no field is both carried and restored (`Tables`). This is the
  core of `WritesReadBack` and `NewFieldsKept`. That the fields only v1beta1 has
  read back empty is part of `WritesReadBack`: they are in no hub object.
* The conversions of the old and of the new object of one request look zones up
  independently. `Relabel` and `RelabelAdmitted` show that other answers change
  names only, and `AgreeAdmits` that an object which agrees with an admitted one
  on what the webhook compares is admitted; `AlwaysUpdatable` follows with
  `UnchangedDomains`, which needs names to be distinct. This is where the proof
  first failed, and the exception `ByNameTwins` comes from there.

Only model-checked: the liveness properties (`DeletionCompletes`,
`ProvisioningEnds`, `ReadyIsBalanced`, `ErrorIsReplaced`, `TeardownCompletes`,
`SetupCompletes`, `LimitsRefreshed`, `DrainCompletes`, `EndpointRecorded`), since the prover has no
rules for fairness.

## Not modelled

The state checker controller is not registered in `main.go`; only the creation
of its object is an action. `AssociateAffinityGroup` and its counterpart are
called by no controller. Metrics, flag parsing and the registration of
controllers in `main.go`, and the generated deep copies have no influence on
the order of events.

## Plan

1. The accounts' limits and the choice of offerings as operators checked against
   a reference definition.
2. A contract for `IsolatedNetwork` like the one for machines.
