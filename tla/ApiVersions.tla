---------------------------- MODULE ApiVersions ----------------------------
(***************************************************************************)
(* One object of the infrastructure API group as clients of three API      *)
(* versions write it. v1beta1, v1beta2 and v1beta3 are all served; v1beta3 *)
(* is the hub and the version objects are stored in, but an object that    *)
(* nobody has written since the upgrade is still stored in the version it  *)
(* was created in. The API server converts, with this repository's         *)
(* conversion webhook, what it reads from storage into the version of the  *)
(* request, what it hands to the v1beta3 admission webhooks, and what it   *)
(* stores: each is a call of its own, and the calls for a v1beta1 cluster  *)
(* ask Kubernetes and CloudStack for zone ids, so that two of them need    *)
(* not agree.                                                              *)
(*                                                                         *)
(* An object is its plain fields and the failure domains in its spec       *)
(* (several for a CloudStackCluster, one for a CloudStackFailureDomain,    *)
(* none for the others). Fields that every conversion and webhook treats   *)
(* alike are one field here. A field a version lacks is Zero in it.        *)
(*                                                                         *)
(* The API server (read, convert, admit, convert, store as one atomic      *)
(* update) is external; its order of calls is that of a CRD with           *)
(* conversion strategy Webhook and of webhooks with match policy           *)
(* Equivalent, which config/ installs.                                     *)
(***************************************************************************)
EXTENDS Naturals, Sequences, FiniteSets

CONSTANTS
    Kinds,       \* the kinds of object to look at
    Values,      \* what a field may be set to, besides Zero
    Ports,       \* control plane endpoint ports
    NonRunes,    \* the ports that string() does not tell apart: those that are no
                 \* Unicode code point, and the replacement character's own, 65533
    Zones,       \* CloudStack zones
    Names,       \* names users give failure domains
    ByName,      \* the zones that specs give by name, without an id
    Lookups,     \* whether a zone lookup in CloudStack may succeed, may fail
    MaxDomains   \* bound on the failure domains of a cluster

Zero      == ""
Versions  == {1, 2, 3}
Hub       == 3
AllKinds  == {"Machine", "Template", "Network", "Group", "Cluster", "Domain", "Checker"}

ASSUME KindAssumption ==
    /\ Kinds \subseteq AllKinds /\ MaxDomains \in Nat
    /\ NonRunes \subseteq Ports /\ ByName \subseteq Zones
    /\ Lookups \subseteq BOOLEAN /\ Lookups # {}
    /\ Values # {} /\ Ports # {}
    /\ Zero \notin Values \cup Ports \cup Zones \cup Names
    /\ "replacement" \notin Ports  \* the character that stands for no port

VARIABLES
    kind,      \* the kind of the object
    global,    \* the secret "global" exists in the object's namespace
    zoneObj,   \* the CloudStackZone objects of the v1beta1 release exist
    stored,    \* the version and the object in storage
    last       \* the last accepted request: its version, field and object

vars == <<kind, global, zoneObj, stored, last>>

----------------------------------------------------------------------------
\* The fields of each version's types. Of those with subfields, "zoneID" is the
\* spec's zoneID, zoneName and identityRef, "zoneStatus" what a v1beta1 cluster
\* has recorded of zones, domain, public IP and load balancer rule; a template's
\* "networks" also stands for the labels and annotations of its own, which only
\* the hub's schema lists.

MetaFields      == {"labels"}
Resource1       == {"offering", "disk", "size"}  \* identifiers and disk offerings
Resource2       == {"offering", "disk", "size"}
MachineSpec1    == Resource1 \cup {"affinity", "groupIDs", "zoneID"}
MachineSpec2    == Resource2 \cup {"affinity", "groupIDs", "failureDomainName", "userData"}
MachineSpec3    == MachineSpec2 \cup {"networks"}
MachineStatus1  == {"ready", "statusZoneID"}
MachineStatus2  == {"ready", "reason"}
Template1       == MachineSpec1
Template2       == MachineSpec2
Network1        == {"id", "ready"}
Network2        == {"id", "ready", "failureDomainName"}
Network3        == Network2 \cup {"vpc", "routingMode"}
Group1          == {"id", "ready"}
Group2          == {"id", "ready", "failureDomainName"}
Checker1        == {"id", "ready"}
Checker2        == {"id", "ready"}
Cluster1        == {"endpoint", "identityRef", "zoneStatus"}
Cluster2        == {"endpoint"}
Cluster3        == Cluster2 \cup {"clusterID"}
Domain2         == {"ready"}

Schema ==
    [Machine  |-> <<MachineSpec1 \cup MachineStatus1, MachineSpec2 \cup MachineStatus2,
                    MachineSpec3 \cup MachineStatus2>>,
     Template |-> <<Template1, Template2, MachineSpec3>>,
     Network  |-> <<Network1, Network2, Network3>>,
     Group    |-> <<Group1, Group2, Group2>>,
     Cluster  |-> <<Cluster1, Cluster2, Cluster3>>,
     Domain   |-> <<{}, Domain2, Domain2>>,
     Checker  |-> <<Checker1, Checker2, Checker2>>]

Has(k, v)     == MetaFields \cup Schema[k][v]
Fields(k)     == UNION {Has(k, v) : v \in Versions}
Served(k)     == IF k = "Domain" THEN {2, 3} ELSE Versions

\* The fields that the conversions between a version and the hub carry, both
\* ways: those that both have. conversion-gen=false is on fields of one only.
Carried(k, v) == Has(k, v) \cap Has(k, Hub)

\* The fields of the status subresource, whose writes no webhook is asked about.
StatusFields == {"ready", "reason", "routingMode", "clusterID", "statusZoneID", "zoneStatus"}

FieldValues(f) ==
    {Zero} \cup CASE f = "size"     -> {"negative"}
                  [] f = "affinity" -> {"pro"}
                  [] f = "endpoint" -> Ports  \* a host and this port
                  [] OTHER          -> Values

\* A failure domain in a spec. project stands for what v1beta3 added: the
\* project, and the network's gateway, netmask, offering, VPC and routing mode.
\* A v1beta1 cluster lists zones and has one account: failure domains without
\* name, secret and project.
FailureDomainSpec ==
    [name: {Zero} \cup Names \cup Zones, zone: Zones, account: {Zero} \cup Values,
     secret: {Zero, "global", "own"}, project: {Zero} \cup Values]

----------------------------------------------------------------------------
\* From the hub to a version.

\* Mutants of Saving: a version that saves nothing, one that saves too much.
SavingForgets == {<<"Machine", 1>>, <<"Template", 1>>, <<"Group", 1>>, <<"Network", 1>>}
SavingTooMuch ==
    {<<"Machine", 1>>, <<"Machine", 2>>, <<"Template", 1>>, <<"Template", 2>>, <<"Group", 1>>,
     <<"Network", 1>>}

\* The kinds and versions whose ConvertFrom saves the hub object in an
\* annotation (MarshalData).
Saving == {<<"Machine", 1>>, <<"Machine", 2>>, <<"Template", 1>>, <<"Group", 1>>, <<"Network", 1>>}

CarriedPlain(k, v, p) == [f \in Fields(k) |-> IF f \in Carried(k, v) THEN p[f] ELSE Zero]

\* A failure domain spec in v1beta2.
DomainTo2(d) == [d EXCEPT !.project = Zero]

\* The failure domains as v1beta1 zones, under the account of the first.
getZones(ds) ==
    [i \in DOMAIN ds |-> [ds[i] EXCEPT !.name = Zero, !.secret = Zero, !.project = Zero,
                                       !.account = ds[1].account]]

\* A v1beta3 cluster has no v1beta1 form without failure domains.
ConvertCluster3To1(o) ==
    IF o.domains = <<>> THEN {}
    ELSE {[plain |-> CarriedPlain("Cluster", 1, o.plain), domains |-> getZones(o.domains),
           saved |-> <<>>]}

\* The objects of version v that o, a hub object, may be converted to; none when
\* the conversion fails.
ConvertFrom(k, v, o) ==
    CASE v = Hub -> {o}
      [] v = 1 /\ k = "Cluster" -> ConvertCluster3To1(o)
      [] OTHER -> {[plain   |-> CarriedPlain(k, v, o.plain),
                    domains |-> [i \in DOMAIN o.domains |-> DomainTo2(o.domains[i])],
                    saved   |-> IF <<k, v>> \in Saving THEN o.plain ELSE <<>>]}

----------------------------------------------------------------------------
\* From a version to the hub.

\* The fields ConvertTo takes from the annotation when they are set there.
Machine1Restores  == {"failureDomainName", "userData", "reason"}
Machine2Restores  == {"networks"}
Template1Restores == {"failureDomainName", "userData"}
Template2Restores == {"failureDomainName", "userData"}
Network1Restores  == {"failureDomainName"}
Group1Restores    == {"failureDomainName"}

Restored(k, v) ==
    CASE k = "Machine"  /\ v = 1 -> Machine1Restores
      [] k = "Machine"  /\ v = 2 -> Machine2Restores
      [] k = "Template" /\ v = 1 -> Template1Restores
      [] k = "Template" /\ v = 2 -> Template2Restores
      [] k = "Network"  /\ v = 1 -> Network1Restores
      [] k = "Group"    /\ v = 1 -> Group1Restores
      [] OTHER -> {}

\* Mutant: no second source of zone ids.
NoZoneObjects(z) == Zero

\* The zone's id as the CloudStackZone object has it.
fetchZoneIDUsingK8s(z) == IF zoneObj THEN z ELSE Zero

\* What GetDefaultFailureDomainName may return for a zone; nothing is an error.
GetDefaultFailureDomainName(z) ==
    IF z \notin ByName THEN {z}
    ELSE IF ~global THEN {}
    ELSE {IF found THEN z ELSE fetchZoneIDUsingK8s(z) : found \in Lookups}

\* The failure domains a v1beta1 cluster's zones may become.
GetFailureDomains(ds) ==
    {[i \in DOMAIN ds |-> [ds[i] EXCEPT !.name = name[i], !.secret = "global"]] :
        name \in {n \in [DOMAIN ds -> Zones \cup {Zero}] :
                     \A i \in DOMAIN ds : n[i] \in GetDefaultFailureDomainName(ds[i].zone)}}

ConvertCluster1To3(o) ==
    {[plain |-> CarriedPlain("Cluster", 1, o.plain), domains |-> ds, saved |-> <<>>] :
        ds \in GetFailureDomains(o.domains)}

\* Mutant: the annotation stays in the object.
ConvertToKeepsAnnotation(k, v, o) ==
    CASE v = Hub -> {o}
      [] v = 1 /\ k = "Cluster" -> ConvertCluster1To3(o)
      [] OTHER -> {[o EXCEPT !.plain = CarriedPlain(k, v, o.plain)]}

\* The hub objects that o, an object of version v, may be converted to. The
\* annotation is dropped on the way.
ConvertTo(k, v, o) ==
    CASE v = Hub -> {o}
      [] v = 1 /\ k = "Cluster" -> ConvertCluster1To3(o)
      [] OTHER ->
           LET carried == CarriedPlain(k, v, o.plain)
           IN  {[plain   |-> [f \in Fields(k) |->
                                IF f \in Restored(k, v) /\ o.saved # <<>> /\ o.saved[f] # Zero
                                THEN o.saved[f] ELSE carried[f]],
                 domains |-> o.domains,
                 saved   |-> <<>>]}

\* The object in storage, as the hub and as a request of version v see it.
HubViews == ConvertTo(kind, stored.ver, stored.obj)
Views(v) ==
    IF v = stored.ver THEN {stored.obj}
    ELSE UNION {ConvertFrom(kind, v, o) : o \in HubViews}

----------------------------------------------------------------------------
\* Admission. Other kinds have no webhook.

\* Mutant: a new machine's disk size is not looked at.
AnyDiskSize(n) == n.plain["offering"] # Zero

MachineCreateValid(n) ==
    /\ n.plain["offering"] # Zero
    /\ n.plain["disk"] # Zero => n.plain["size"] # "negative"

MachineUpdateValid(n, o) ==
    /\ \A f \in {"offering", "disk", "affinity", "groupIDs"} : n.plain[f] = o.plain[f]
    /\ n.plain["size"] # "negative"

TemplateCreateValid(n) ==
    /\ n.plain["offering"] # Zero
    /\ n.plain["affinity"] # Zero => n.plain["groupIDs"] = Zero

TemplateUpdateValid(n, o) ==
    \A f \in {"offering", "disk", "affinity", "groupIDs"} : n.plain[f] = o.plain[f]

\* Every failure domain has a network; the other requirements are about these.
ClusterCreateValid(n) ==
    /\ n.domains # <<>>
    /\ \A i \in DOMAIN n.domains : n.domains[i].name # Zero /\ n.domains[i].secret # Zero

FailureDomainsEqual(d, e) == [d EXCEPT !.project = Zero] = [e EXCEPT !.project = Zero]

\* The new failure domain of an old one's name: the last of them, as
\* newFDsByName has it.
NewByName(ds, name) ==
    LET at == {i \in DOMAIN ds : ds[i].name = name}
    IN  {ds[i] : i \in {j \in at : \A k \in at : k <= j}}

\* Mutant: all failure domains may be replaced.
NoDomainNeedRemain(old, new) ==
    \A i \in DOMAIN old : \A d \in NewByName(new, old[i].name) : FailureDomainsEqual(d, old[i])

ValidateFailureDomainUpdates(old, new) ==
    /\ \E i \in DOMAIN old : NewByName(new, old[i].name) # {}
    /\ \A i \in DOMAIN old :
         \A d \in NewByName(new, old[i].name) : FailureDomainsEqual(d, old[i])

\* string(port) is the character with that code: the replacement character for
\* every port that is no code point, as for that character's own code.
PortString(p) == IF p \in NonRunes THEN "replacement" ELSE p

\* Mutant: only the host of the endpoint is compared.
PortMayChange(n, o) ==
    /\ ValidateFailureDomainUpdates(o.domains, n.domains)
    /\ o.plain["endpoint"] # Zero => n.plain["endpoint"] # Zero

ClusterUpdateValid(n, o) ==
    /\ ValidateFailureDomainUpdates(o.domains, n.domains)
    /\ o.plain["endpoint"] # Zero =>
         PortString(n.plain["endpoint"]) = PortString(o.plain["endpoint"])

ValidateCreate(k, n) ==
    CASE k = "Machine"  -> MachineCreateValid(n)
      [] k = "Template" -> TemplateCreateValid(n)
      [] k = "Cluster"  -> ClusterCreateValid(n)
      [] OTHER          -> TRUE

ValidateUpdate(k, n, o) ==
    CASE k = "Machine"  -> MachineUpdateValid(n, o)
      [] k = "Template" -> TemplateUpdateValid(n, o)
      [] k = "Cluster"  -> ClusterUpdateValid(n, o)
      [] OTHER          -> TRUE

----------------------------------------------------------------------------
\* Requests.

\* The failure domains a request of version v may add, as its version has them.
NewDomains(v) ==
    {d \in FailureDomainSpec :
        IF v = 1 THEN d.name = Zero /\ d.secret = Zero /\ d.project = Zero
        ELSE d.name \in Names \cup {Zero} /\ d.secret = "own" /\ (v = Hub \/ d.project = Zero)}

\* The failure domain lists a new object of kind k may have.
NewDomainLists(k, v) ==
    CASE k = "Domain"  -> {<<d>> : d \in NewDomains(v)}
      [] k = "Cluster" -> {ds \in UNION {[1..n -> NewDomains(v)] : n \in 0..MaxDomains} :
                              /\ \A i, j \in DOMAIN ds : i # j => ds[i].zone # ds[j].zone
                              /\ \A i, j \in DOMAIN ds : i # j => ds[i].name # ds[j].name \/ v = 1
                              /\ v = 1 => \A i \in DOMAIN ds : ds[i].account = ds[1].account}
      [] OTHER         -> {<<>>}

\* The plain fields with those in set given a value.
NewPlain(k, set) ==
    [f \in Fields(k) |-> IF f \in set THEN CHOOSE x \in FieldValues(f) : x # Zero ELSE Zero]

\* The objects that can be created through version v. The API server clears the
\* status of a new object.
NewObjects(k, v) ==
    {[plain |-> NewPlain(k, set), domains |-> ds, saved |-> <<>>] :
        set \in SUBSET (Schema[k][v] \ StatusFields), ds \in NewDomainLists(k, v)}

\* Another account; for v1beta1, which has one, it is all the zones'.
WithAccount(v, ds, j, a) ==
    [i \in DOMAIN ds |-> IF v = 1 \/ i = j THEN [ds[i] EXCEPT !.account = a] ELSE ds[i]]

WithProject(ds, j, a) == [ds EXCEPT ![j].project = a]

Without(ds, j) == SubSeq(ds, 1, j - 1) \o SubSeq(ds, j + 1, Len(ds))

Addable(v, ds) ==
    {d \in NewDomains(v) :
        \A i \in DOMAIN ds :
            /\ ds[i].zone # d.zone
            /\ IF v = 1 THEN ds[i].account = d.account ELSE ds[i].name # d.name}

\* The lists an edit through version v may leave.
EditedDomains(k, v, ds) ==
    {WithAccount(v, ds, j, a) : j \in DOMAIN ds, a \in {Zero} \cup Values}
    \cup (IF v # Hub THEN {}
          ELSE {WithProject(ds, j, a) : j \in DOMAIN ds, a \in {Zero} \cup Values})
    \cup (IF k # "Cluster" THEN {} ELSE {Without(ds, j) : j \in DOMAIN ds})
    \cup (IF k # "Cluster" \/ Len(ds) >= MaxDomains THEN {}
          ELSE {Append(ds, d) : d \in Addable(v, ds)})

\* The edits of an object in version v: another value of one field, or other
\* failure domains.
FieldEdit(o, f, x)  == [field |-> f, obj |-> [o EXCEPT !.plain[f] = x]]
DomainsEdit(o, ds)  == [field |-> "domains", obj |-> [o EXCEPT !.domains = ds]]
Edits(k, v, o) ==
    (UNION {{FieldEdit(o, f, x) : x \in FieldValues(f) \ {o.plain[f]}} : f \in Has(k, v)})
    \cup {DomainsEdit(o, ds) : ds \in EditedDomains(k, v, o.domains)}

NoRequest == [ver |-> 0, field |-> "", obj |-> [plain |-> <<>>, domains |-> <<>>, saved |-> <<>>]]
NoObject  == [ver |-> 0, obj |-> NoRequest.obj]

Create(v) ==
    /\ stored = NoObject
    /\ \E o \in NewObjects(kind, v) :
         /\ \E n \in ConvertTo(kind, v, o) : ValidateCreate(kind, n)
         /\ \E n \in ConvertTo(kind, v, o) : stored' = [ver |-> Hub, obj |-> n]
         /\ last' = [ver |-> v, field |-> "all", obj |-> o]
    /\ UNCHANGED <<kind, global, zoneObj>>

\* A write through version v. What is stored is read into that version and
\* edited; the webhook sees the old and the new object converted from there.
Write(v) ==
    /\ stored # NoObject
    /\ \E old \in Views(v) : \E e \in Edits(kind, v, old) :
         /\ \/ e.field \in StatusFields
            \/ \E o \in ConvertTo(kind, v, old), n \in ConvertTo(kind, v, e.obj) :
                 ValidateUpdate(kind, n, o)
         /\ \E n \in ConvertTo(kind, v, e.obj) : stored' = [ver |-> Hub, obj |-> n]
         /\ last' = [ver |-> v, field |-> e.field, obj |-> e.obj]
    /\ UNCHANGED <<kind, global, zoneObj>>

\* Somebody creates or deletes the secret "global".
ChangeGlobal ==
    /\ kind = "Cluster"
    /\ global' = ~global
    /\ UNCHANGED <<kind, zoneObj, stored, last>>

\* The objects an earlier release, whose webhooks had the same requirements, may
\* have stored in version v.
Legacy(k, v) ==
    {o \in NewObjects(k, v) :
        /\ k = "Machine" => MachineCreateValid(o)
        /\ k = "Template" => TemplateCreateValid(o)
        /\ k = "Cluster" => /\ o.domains # <<>>
                            /\ v = 2 => \A i \in DOMAIN o.domains : o.domains[i].name # Zero}

\* Either there is no object yet or one that an earlier release stored.
Init ==
    /\ kind \in Kinds /\ global \in BOOLEAN /\ zoneObj \in BOOLEAN
    /\ kind # "Cluster" => global /\ zoneObj  \* nobody else asks
    /\ stored \in {NoObject} \cup
         UNION {{[ver |-> v, obj |-> o] : o \in Legacy(kind, v)} : v \in Served(kind) \ {Hub}}
    /\ last = NoRequest

Next == ChangeGlobal \/ \E v \in Served(kind) : Create(v) \/ Write(v)
Spec == Init /\ [][Next]_vars

----------------------------------------------------------------------------
\* Properties

IsObject(o) ==
    /\ DOMAIN o.plain = Fields(kind)
    /\ \A f \in Fields(kind) : o.plain[f] \in FieldValues(f)
    /\ o.domains \in Seq(FailureDomainSpec)

\* Storage holds an object of the kind in a served version, with the fields that
\* version has and no annotation left from a conversion.
TypeOK ==
    /\ kind \in Kinds /\ global \in BOOLEAN /\ zoneObj \in BOOLEAN
    /\ stored # NoObject =>
         /\ stored.ver \in Served(kind)
         /\ IsObject(stored.obj) /\ stored.obj.saved = <<>>
         /\ \A f \in Fields(kind) \ Has(kind, stored.ver) : stored.obj.plain[f] = Zero
    /\ last # NoRequest => last.ver \in Served(kind) /\ IsObject(last.obj)

\* The hub's fields that a write through version v keeps when it does not edit
\* them: where an object is placed, how user data is passed, why a machine
\* failed, what is immutable, the endpoint; the networks of a machine through
\* v1beta2.
Promised(k, v) ==
    (Fields(k) \cap {"failureDomainName", "userData", "reason", "offering", "endpoint"})
    \cup IF k = "Machine" /\ v = 2 THEN {"networks"} ELSE {}

\* Whatever versions clients use and in whatever order, a write leaves those
\* fields of the hub alone that its version lacks and the conversions save: the
\* object is converted down, edited, converted up again, and only the annotation
\* carries them (MarshalData, UnmarshalData and what each ConvertTo restores).
OldWritesKeepNew ==
    [][stored # NoObject /\ stored' # stored =>
         \A f \in Promised(kind, last'.ver) \ {last'.field} :
            \E o \in HubViews : stored'.obj.plain[f] = o.plain[f]]_vars

\* What no later version has a place for: where a v1beta1 machine was to land and
\* with which identity, and what a v1beta1 cluster recorded of its zones.
OnlyInV1beta1 == {"zoneID", "statusZoneID", "identityRef", "zoneStatus"}

\* A client that reads back, in the version it wrote, gets what it wrote: no
\* value restored from the annotation hides an edit, and no conversion loses a
\* field or a failure domain. The exception is named: v1beta1's own fields are
\* lost on every write through v1beta1, the edit of another field of an object
\* still stored as v1beta1 included, and read back empty.
ReadYourWrites ==
    last # NoRequest =>
        \E o \in ConvertFrom(kind, last.ver, stored.obj) :
            /\ o.domains = last.obj.domains
            /\ \A f \in Has(kind, last.ver) :
                 o.plain[f] = IF f \in OnlyInV1beta1 THEN Zero ELSE last.obj.plain[f]

\* Every served version can be read, once created and after every admitted
\* update: what the webhooks let through never meets the v1beta1 conversion's
\* "not supported when < 1 failure domain". The exception is a v1beta1 cluster
\* still stored as such whose zone ids cannot be asked for without a secret.
Readable ==
    \A v \in Served(kind) :
        stored # NoObject /\ Views(v) = {} =>
            /\ stored.ver = 1 /\ kind = "Cluster" /\ ~global
            /\ \E i \in DOMAIN stored.obj.domains : stored.obj.domains[i].zone \in ByName

DomainNames(o) == [i \in DOMAIN o.domains |-> o.domains[i].name]

\* With the CloudStackZone objects of the old release in place, a failure domain
\* keeps its name through every write of v1beta2 and v1beta3 clients that is not
\* about the failure domains, a write that first moves a v1beta1 object into the
\* hub's version included: whether CloudStack answers the lookup makes no
\* difference (GetDefaultFailureDomainName).
NamesStable ==
    [][kind = "Cluster" /\ zoneObj /\ stored # NoObject /\ stored' # stored
         /\ last'.ver # 1 /\ last'.field # "domains" =>
            \A o \in HubViews : DomainNames(o) = DomainNames(stored'.obj)]_vars

\* Two failure domains of one name, both of zones given by name.
ByNameTwins(ds) ==
    \E i, j \in DOMAIN ds :
        i # j /\ ds[i].name = ds[j].name /\ {ds[i].zone, ds[j].zone} \subseteq ByName

\* What is stored can be updated: a change of metadata, such as the finalizers
\* every controller sets, is admitted through every version. Not so a machine
\* with a negative disk size and no disk offering, which only ValidateUpdate
\* refuses, a v1beta1 write of a cluster while the secret is missing, and a
\* cluster with two failure domains of one name: without the CloudStackZone
\* objects, zones whose lookup fails all get the empty name, and ValidateUpdate
\* compares both with the last of them.
UpdatesAdmitted ==
    stored # NoObject =>
        \A v \in Served(kind) : \A old \in Views(v) :
            \/ kind = "Machine" /\ old.plain["disk"] = Zero /\ old.plain["size"] = "negative"
            \/ kind = "Cluster" /\ v = 1 /\ ~global
            \/ kind = "Cluster" /\ ~zoneObj /\ ByNameTwins(old.domains)
            \/ \E o \in ConvertTo(kind, v, old),
                  n \in ConvertTo(kind, v, [old EXCEPT !.plain["labels"] = "new"]) :
                 ValidateUpdate(kind, n, o)

\* Once set, the control plane endpoint stays, through every version, if its port
\* is one that string() tells apart (ValidateUpdate compares string(port)).
EndpointFixed ==
    [][kind = "Cluster" /\ stored # NoObject /\ stored' # stored =>
         \A o \in HubViews :
            o.plain["endpoint"] \notin {Zero} \cup NonRunes =>
                stored'.obj.plain["endpoint"] = o.plain["endpoint"]]_vars

\* "at least one failure domain has not been deleted": some failure domain of the
\* cluster before an admitted update is there, by its name, after it. Not what
\* the code does: a v1beta1 write names every failure domain after its zone, and
\* the webhook sees the old object with the same new names.
OneDomainRemains ==
    [][kind = "Cluster" /\ stored # NoObject /\ stored' # stored =>
         \A o \in HubViews : \E i \in DOMAIN o.domains, j \in DOMAIN stored'.obj.domains :
            o.domains[i].name = stored'.obj.domains[j].name]_vars
============================================================================
