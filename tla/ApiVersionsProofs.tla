------------------------- MODULE ApiVersionsProofs -------------------------
(***************************************************************************)
(* The seven properties of ApiVersions, for any number of values, ports,   *)
(* zones, names and failure domains.                                       *)
(*                                                                         *)
(* IInv says of what is stored, and of what clients send, which objects    *)
(* each version can hold. Down and Up are the two conversions: what they   *)
(* keep (Agree) and what the annotation adds (RaisedPlain). RoundTrip is   *)
(* down after up. An accepted request w is a good object of its version    *)
(* (Edited, Created), the webhooks have seen to HasDomain and SizeFits,    *)
(* and storage is converted from w: that is all of the induction.          *)
(***************************************************************************)
EXTENDS ApiVersions, TLAPS

----------------------------------------------------------------------------
\* The fields each version has.

LEMMA SchemaMachine ==
    /\ Has("Machine", 1) = {"labels", "offering", "disk", "size", "affinity", "groupIDs", "ready",
                            "zoneID", "statusZoneID"}
    /\ Has("Machine", 2) = {"labels", "offering", "disk", "size", "affinity", "groupIDs", "ready",
                                "reason", "failureDomainName", "userData"}
    /\ Has("Machine", 3) = {"labels", "offering", "disk", "size", "affinity", "groupIDs", "ready",
                                "reason", "failureDomainName", "userData", "networks"}
BY DEF Has, Schema, MetaFields, Resource1, Resource2, MachineSpec1, MachineSpec2, MachineSpec3,
       MachineStatus1, MachineStatus2

LEMMA SchemaTemplate ==
    /\ Has("Template", 1) = {"labels", "offering", "disk", "size", "affinity", "groupIDs", "zoneID"}
    /\ Has("Template", 2) = {"labels", "offering", "disk", "size", "affinity", "groupIDs", 
                                "failureDomainName", "userData"}
    /\ Has("Template", 3) = {"labels", "offering", "disk", "size", "affinity", "groupIDs", 
                                 "failureDomainName", "userData", "networks"}
BY DEF Has, Schema, MetaFields, Resource1, Resource2, MachineSpec1, MachineSpec2, MachineSpec3,
       Template1, Template2

LEMMA SchemaNetwork ==
    /\ Has("Network", 1) = {"labels", "id", "ready"}
    /\ Has("Network", 2) = {"labels", "id", "ready", "failureDomainName"}
    /\ Has("Network", 3) = {"labels", "id", "ready", "failureDomainName", "vpc", "routingMode"}
BY DEF Has, Schema, MetaFields, Network1, Network2, Network3

LEMMA SchemaGroup ==
    /\ Has("Group", 1) = {"labels", "id", "ready"}
    /\ Has("Group", 2) = {"labels", "id", "ready", "failureDomainName"}
    /\ Has("Group", 3) = {"labels", "id", "ready", "failureDomainName"}
BY DEF Has, Schema, MetaFields, Group1, Group2

LEMMA SchemaCluster ==
    /\ Has("Cluster", 1) = {"labels", "endpoint", "identityRef", "zoneStatus"}
    /\ Has("Cluster", 2) = {"labels", "endpoint"}
    /\ Has("Cluster", 3) = {"labels", "endpoint", "clusterID"}
BY DEF Has, Schema, MetaFields, Cluster1, Cluster2, Cluster3

LEMMA SchemaDomain ==
    /\ Has("Domain", 1) = {"labels"}
    /\ Has("Domain", 2) = {"labels", "ready"}
    /\ Has("Domain", 3) = {"labels", "ready"}
BY DEF Has, Schema, MetaFields, Domain2

LEMMA SchemaChecker ==
    /\ Has("Checker", 1) = {"labels", "id", "ready"}
    /\ Has("Checker", 2) = {"labels", "id", "ready"}
    /\ Has("Checker", 3) = {"labels", "id", "ready"}
BY DEF Has, Schema, MetaFields, Checker1, Checker2

LEMMA AllFields ==
    ASSUME NEW k
    PROVE  Fields(k) = Has(k, 1) \cup Has(k, 2) \cup Has(k, 3)
BY DEF Fields, Versions

\* What holds of the tables for every kind in every served version.
LEMMA Tables ==
    ASSUME NEW k \in AllKinds, NEW v \in Served(k)
    PROVE  /\ Carried(k, v) \subseteq Has(k, v) /\ Has(k, v) \subseteq Fields(k)
           /\ Carried(k, v) \subseteq Has(k, Hub)
           /\ \A f \in Has(k, v) : f \in Carried(k, v) <=> f \notin OnlyInV1beta1
           /\ "labels" \in Carried(k, v) /\ "domains" \notin Fields(k)
           /\ <<k, v>> \in Saving =>
                v # Hub /\ k # "Cluster" /\ Restored(k, v) \cap Carried(k, v) = {}
           /\ Restored(k, v) \subseteq Has(k, Hub) /\ Has(k, Hub) \subseteq Fields(k)
           /\ \A f \in Promised(k, v) :
                f \in Carried(k, v) \/ (f \in Restored(k, v) /\ <<k, v>> \in Saving)
  <1> USE AllFields DEF Served, Versions, Hub, Carried, OnlyInV1beta1, Saving, Restored, Promised
  <1>1. CASE k = "Machine"
    BY <1>1, SchemaMachine DEF Machine1Restores, Machine2Restores
  <1>2. CASE k = "Template"
    BY <1>2, SchemaTemplate DEF Template1Restores, Template2Restores
  <1>3. CASE k = "Network"
    BY <1>3, SchemaNetwork DEF Network1Restores
  <1>4. CASE k = "Group"
    BY <1>4, SchemaGroup DEF Group1Restores
  <1>5. CASE k = "Cluster"
    BY <1>5, SchemaCluster
  <1>6. CASE k = "Domain"
    BY <1>6, SchemaDomain
  <1>7. CASE k = "Checker"
    BY <1>7, SchemaChecker
  <1> QED BY <1>1, <1>2, <1>3, <1>4, <1>5, <1>6, <1>7 DEF AllKinds

\* What a field may hold.
LEMMA FieldValuesOf ==
    /\ FieldValues("size") = {Zero} \cup {"negative"}
    /\ FieldValues("affinity") = {Zero} \cup {"pro"}
    /\ FieldValues("endpoint") = {Zero} \cup Ports
    /\ \A f : f \notin {"size", "affinity", "endpoint"} => FieldValues(f) = {Zero} \cup Values
  <1>1. FieldValues("size") = {Zero} \cup {"negative"}
    BY Zenon DEF FieldValues
  <1>2. FieldValues("affinity") = {Zero} \cup {"pro"}
    BY Zenon DEF FieldValues
  <1>3. FieldValues("endpoint") = {Zero} \cup Ports
    BY Zenon DEF FieldValues
  <1>4. ASSUME NEW f, f # "size", f # "affinity", f # "endpoint"
        PROVE  FieldValues(f) = {Zero} \cup Values
    BY <1>4, Zenon DEF FieldValues
  <1> QED BY <1>1, <1>2, <1>3, <1>4

LEMMA FieldValuesFacts ==
    ASSUME NEW f
    PROVE  /\ Zero \in FieldValues(f)
           /\ \E x \in FieldValues(f) : x # Zero
  <1>1. CASE f \in {"size", "affinity"}
    BY <1>1, FieldValuesOf DEF Zero
  <1>2. CASE f = "endpoint"
    BY <1>2, FieldValuesOf, KindAssumption
  <1>3. CASE f \notin {"size", "affinity", "endpoint"}
    BY <1>3, FieldValuesOf, KindAssumption
  <1> QED BY <1>1, <1>2, <1>3

----------------------------------------------------------------------------
\* The inductive invariant.

\* The plain fields of an object of kind k.
Plain(k) ==
    {p \in [Fields(k) -> UNION {FieldValues(f) : f \in Fields(k)}] :
        \A f \in Fields(k) : p[f] \in FieldValues(f)}

\* Objects, in whatever version, with or without an annotation.
Object(k) ==
    [plain: Plain(k), domains: Seq(FailureDomainSpec), saved: {<<>>} \cup Plain(k)]

\* The zones whose failure domains may have got the empty name, for want of a
\* CloudStackZone object and of an answer from CloudStack.
Nameless == IF zoneObj THEN {} ELSE ByName

\* Two failure domains of a list have different zones; and different names, unless
\* both zones are among zs, the nameless ones.
ZonesDistinct(ds) == \A i, j \in DOMAIN ds : i # j => ds[i].zone # ds[j].zone
NamesDistinct(zs, ds) ==
    \A i, j \in DOMAIN ds :
        i # j /\ ds[i].name = ds[j].name => ds[i].zone \in zs /\ ds[j].zone \in zs

\* The objects whose failure domains are zones under one account.
AsZones(k, v) == v = 1 /\ k = "Cluster"

\* The failure domains of an object of kind k in version v: a v1beta1 cluster has
\* zones under one account, only the hub has projects.
DomainsOf(k, v, zs, ds) ==
    /\ k \notin {"Cluster", "Domain"} => ds = <<>>
    /\ v # Hub => \A i \in DOMAIN ds : ds[i].project = Zero
    /\ k = "Cluster" => ZonesDistinct(ds)
    /\ k = "Cluster" /\ ~AsZones(k, v) => NamesDistinct(zs, ds)
    /\ AsZones(k, v) =>
         \A i \in DOMAIN ds :
            ds[i].name = Zero /\ ds[i].secret = Zero /\ ds[i].account = ds[1].account

\* An object of kind k as a request of version v, or storage, may hold it.
ObjectOf(k, v, zs, o) ==
    /\ o \in Object(k)
    /\ \A f \in Fields(k) \ Has(k, v) : o.plain[f] = Zero
    /\ DomainsOf(k, v, zs, o.domains)
    /\ <<k, v>> \notin Saving => o.saved = <<>>

\* What admission has seen to: a cluster has a failure domain, a machine with a
\* negative disk size no disk offering.
HasDomain(k, o) == k = "Cluster" => o.domains # <<>>
SizeFits(k, o) ==
    k = "Machine" /\ o.plain["size"] = "negative" => o.plain["disk"] = Zero

StoredInv ==
    stored # NoObject =>
        /\ stored.ver \in Served(kind)
        /\ ObjectOf(kind, stored.ver, Nameless, stored.obj) /\ stored.obj.saved = <<>>
        /\ HasDomain(kind, stored.obj) /\ SizeFits(kind, stored.obj)

LastInv ==
    last # NoRequest =>
        /\ last.ver \in Served(kind)
        /\ ObjectOf(kind, last.ver, Nameless, last.obj)
        /\ stored # NoObject

IInv ==
    /\ kind \in Kinds /\ global \in BOOLEAN /\ zoneObj \in BOOLEAN
    /\ StoredInv /\ LastInv /\ ReadYourWrites

----------------------------------------------------------------------------
\* Plain fields.

LEMMA PlainIntro ==
    ASSUME NEW k, NEW p, p = [f \in Fields(k) |-> p[f]],
           \A f \in Fields(k) : p[f] \in FieldValues(f)
    PROVE  p \in Plain(k)
  <1> DEFINE U == UNION {FieldValues(f) : f \in Fields(k)}
  <1>1. \A f \in Fields(k) : p[f] \in U
    OBVIOUS
  <1>2. p \in [Fields(k) -> U]
    <2> HIDE DEF U
    <2> QED BY <1>1
  <1> QED BY <1>2 DEF Plain

LEMMA PlainElim ==
    ASSUME NEW k, NEW p \in Plain(k)
    PROVE  /\ DOMAIN p = Fields(k) /\ p = [f \in Fields(k) |-> p[f]]
           /\ \A f \in Fields(k) : p[f] \in FieldValues(f)
BY DEF Plain

LEMMA PlainEdit ==
    ASSUME NEW k, NEW p \in Plain(k), NEW f \in Fields(k), NEW x \in FieldValues(f)
    PROVE  /\ [p EXCEPT ![f] = x] \in Plain(k)
           /\ [p EXCEPT ![f] = x][f] = x
           /\ \A g \in Fields(k) \ {f} : [p EXCEPT ![f] = x][g] = p[g]
  <1> DEFINE q == [p EXCEPT ![f] = x]
  <1>1. q = [g \in Fields(k) |-> q[g]] /\ q[f] = x /\ \A g \in Fields(k) \ {f} : q[g] = p[g]
    BY PlainElim
  <1>2. \A g \in Fields(k) : q[g] \in FieldValues(g)
    BY <1>1, PlainElim
  <1> HIDE DEF q
  <1>3. q \in Plain(k)
    BY <1>1, <1>2, PlainIntro
  <1> QED BY <1>1, <1>3 DEF q

LEMMA CarriedPlainFacts ==
    ASSUME NEW k \in AllKinds, NEW v \in Served(k), NEW p \in Plain(k)
    PROVE  /\ CarriedPlain(k, v, p) \in Plain(k)
           /\ \A f \in Carried(k, v) : CarriedPlain(k, v, p)[f] = p[f]
           /\ \A f \in Fields(k) \ Carried(k, v) : CarriedPlain(k, v, p)[f] = Zero
  <1> DEFINE q == CarriedPlain(k, v, p)
  <1>1. q = [f \in Fields(k) |-> q[f]]
    BY DEF CarriedPlain
  <1>2. /\ \A f \in Carried(k, v) : q[f] = p[f]
        /\ \A f \in Fields(k) \ Carried(k, v) : q[f] = Zero
    BY Tables DEF CarriedPlain
  <1>3. \A f \in Fields(k) : q[f] \in FieldValues(f)
    BY <1>2, PlainElim, FieldValuesFacts
  <1> HIDE DEF q
  <1>4. q \in Plain(k)
    BY <1>1, <1>3, PlainIntro
  <1> QED BY <1>2, <1>4 DEF q

----------------------------------------------------------------------------
\* Failure domain lists.

LEMMA SeqFacts ==
    ASSUME NEW S, NEW ds \in Seq(S)
    PROVE  /\ Len(ds) \in Nat /\ DOMAIN ds = 1..Len(ds)
           /\ \A i \in DOMAIN ds : ds[i] \in S
           /\ ds = <<>> <=> DOMAIN ds = {}
           /\ ds # <<>> => 1 \in DOMAIN ds
           /\ ds = [i \in DOMAIN ds |-> ds[i]]
OBVIOUS

LEMMA MappedSeq ==
    ASSUME NEW S, NEW ds \in Seq(S), NEW T, NEW f, f = [i \in DOMAIN ds |-> f[i]],
           \A i \in DOMAIN ds : f[i] \in T
    PROVE  f \in Seq(T) /\ DOMAIN f = DOMAIN ds
  <1>1. DOMAIN ds = 1..Len(ds) /\ Len(ds) \in Nat
    OBVIOUS
  <1>2. f \in [1..Len(ds) -> T]
    BY <1>1
  <1> QED BY <1>1, <1>2

LEMMA SpecFields ==
    ASSUME NEW d \in FailureDomainSpec
    PROVE  /\ d = [name |-> d.name, zone |-> d.zone, account |-> d.account,
                   secret |-> d.secret, project |-> d.project]
           /\ d.name \in {Zero} \cup Names \cup Zones /\ d.zone \in Zones
           /\ d.account \in {Zero} \cup Values /\ d.secret \in {Zero, "global", "own"}
           /\ d.project \in {Zero} \cup Values
BY DEF FailureDomainSpec

\* Two specs with the same fields are the same.
LEMMA SpecEqual ==
    ASSUME NEW d \in FailureDomainSpec, NEW e \in FailureDomainSpec,
           d.name = e.name, d.zone = e.zone, d.account = e.account,
           d.secret = e.secret, d.project = e.project
    PROVE  d = e
BY SpecFields

LEMMA DomainTo2Facts ==
    ASSUME NEW d \in FailureDomainSpec
    PROVE  /\ DomainTo2(d) \in FailureDomainSpec /\ DomainTo2(d).project = Zero
           /\ DomainTo2(d).name = d.name /\ DomainTo2(d).zone = d.zone
           /\ DomainTo2(d).account = d.account /\ DomainTo2(d).secret = d.secret
           /\ d.project = Zero => DomainTo2(d) = d
BY DEF DomainTo2, FailureDomainSpec

LEMMA ListEqual ==
    ASSUME NEW ds \in Seq(FailureDomainSpec), NEW es \in Seq(FailureDomainSpec),
           DOMAIN ds = DOMAIN es, \A i \in DOMAIN ds : ds[i] = es[i]
    PROVE  ds = es
BY SeqFacts

\* The v1beta2 form of a list of failure domains.
LEMMA ListTo2 ==
    ASSUME NEW ds \in Seq(FailureDomainSpec), NEW es,
           es = [i \in DOMAIN ds |-> DomainTo2(ds[i])]
    PROVE  /\ es \in Seq(FailureDomainSpec) /\ DOMAIN es = DOMAIN ds
           /\ \A i \in DOMAIN ds : es[i] = DomainTo2(ds[i])
           /\ (\A i \in DOMAIN ds : ds[i].project = Zero) => es = ds
  <1>1. \A i \in DOMAIN ds : es[i] \in FailureDomainSpec /\ es[i] = DomainTo2(ds[i])
    BY DomainTo2Facts, SeqFacts
  <1>2. es \in Seq(FailureDomainSpec) /\ DOMAIN es = DOMAIN ds
    BY <1>1, MappedSeq
  <1>3. ASSUME \A i \in DOMAIN ds : ds[i].project = Zero
        PROVE  es = ds
    <2>1. \A i \in DOMAIN ds : es[i] = ds[i]
      BY <1>1, <1>3, DomainTo2Facts, SeqFacts
    <2> QED BY <1>2, <2>1, ListEqual
  <1> QED BY <1>1, <1>2, <1>3

\* A v1beta1 cluster's zones.
LEMMA ListTo1 ==
    ASSUME NEW ds \in Seq(FailureDomainSpec), ds # <<>>
    PROVE  /\ getZones(ds) \in Seq(FailureDomainSpec) /\ DOMAIN getZones(ds) = DOMAIN ds
           /\ \A i \in DOMAIN ds :
                /\ getZones(ds)[i].name = Zero /\ getZones(ds)[i].secret = Zero
                /\ getZones(ds)[i].project = Zero /\ getZones(ds)[i].zone = ds[i].zone
                /\ getZones(ds)[i].account = ds[1].account
  <1>1. 1 \in DOMAIN ds /\ \A i \in DOMAIN ds : ds[i] \in FailureDomainSpec
    BY SeqFacts
  <1>2. ASSUME NEW i \in DOMAIN ds
        PROVE  /\ getZones(ds)[i] \in FailureDomainSpec
               /\ getZones(ds)[i].name = Zero /\ getZones(ds)[i].secret = Zero
               /\ getZones(ds)[i].project = Zero /\ getZones(ds)[i].zone = ds[i].zone
               /\ getZones(ds)[i].account = ds[1].account
    <2>1. ds[i] \in FailureDomainSpec /\ ds[1].account \in {Zero} \cup Values
      BY <1>1, SpecFields
    <2>2. getZones(ds)[i] = [ds[i] EXCEPT !.name = Zero, !.secret = Zero, !.project = Zero,
                                          !.account = ds[1].account]
      BY DEF getZones
    <2> QED BY <2>1, <2>2 DEF FailureDomainSpec
  <1>3. getZones(ds) = [i \in DOMAIN ds |-> getZones(ds)[i]]
    BY DEF getZones
  <1>4. getZones(ds) \in Seq(FailureDomainSpec) /\ DOMAIN getZones(ds) = DOMAIN ds
    BY <1>2, <1>3, MappedSeq
  <1> QED BY <1>2, <1>4

\* The hub's failure domains of a v1beta1 cluster's zones.
LEMMA ListFrom1 ==
    ASSUME NEW ds \in Seq(FailureDomainSpec), NEW es \in GetFailureDomains(ds)
    PROVE  /\ es \in Seq(FailureDomainSpec) /\ DOMAIN es = DOMAIN ds
           /\ \A i \in DOMAIN ds :
                /\ es[i].name \in GetDefaultFailureDomainName(ds[i].zone)
                /\ es[i].secret = "global" /\ es[i].zone = ds[i].zone
                /\ es[i].account = ds[i].account /\ es[i].project = ds[i].project
  <1>1. PICK name \in [DOMAIN ds -> Zones \cup {Zero}] :
          /\ \A i \in DOMAIN ds : name[i] \in GetDefaultFailureDomainName(ds[i].zone)
          /\ es = [i \in DOMAIN ds |-> [ds[i] EXCEPT !.name = name[i], !.secret = "global"]]
    BY DEF GetFailureDomains
  <1>2. \A i \in DOMAIN ds : ds[i] \in FailureDomainSpec
    BY SeqFacts
  <1>3. ASSUME NEW i \in DOMAIN ds
        PROVE  /\ es[i] \in FailureDomainSpec /\ es[i].name = name[i]
               /\ es[i].secret = "global" /\ es[i].zone = ds[i].zone
               /\ es[i].account = ds[i].account /\ es[i].project = ds[i].project
    <2>1. es[i] = [ds[i] EXCEPT !.name = name[i], !.secret = "global"]
      BY <1>1
    <2>2. ds[i] \in FailureDomainSpec /\ name[i] \in {Zero} \cup Names \cup Zones
      BY <1>1, <1>2
    <2> QED BY <2>1, <2>2 DEF FailureDomainSpec
  <1>4. es = [i \in DOMAIN ds |-> es[i]]
    BY <1>1
  <1>5. es \in Seq(FailureDomainSpec) /\ DOMAIN es = DOMAIN ds
    BY <1>3, <1>4, MappedSeq
  <1> QED BY <1>1, <1>3, <1>5

----------------------------------------------------------------------------
\* Conversions.

\* The conversions that treat all kinds alike, by cases.
Lowered(k, v, o) ==
    [plain   |-> CarriedPlain(k, v, o.plain),
     domains |-> [i \in DOMAIN o.domains |-> DomainTo2(o.domains[i])],
     saved   |-> IF <<k, v>> \in Saving THEN o.plain ELSE <<>>]

RaisedPlain(k, v, o) ==
    [f \in Fields(k) |->
        IF f \in Restored(k, v) /\ o.saved # <<>> /\ o.saved[f] # Zero
        THEN o.saved[f] ELSE CarriedPlain(k, v, o.plain)[f]]

LEMMA ConvertFromCases ==
    ASSUME NEW k, NEW v, NEW o
    PROVE  /\ v = Hub => ConvertFrom(k, v, o) = {o}
           /\ AsZones(k, v) => ConvertFrom(k, v, o) = ConvertCluster3To1(o)
           /\ v # Hub /\ ~AsZones(k, v) => ConvertFrom(k, v, o) = {Lowered(k, v, o)}
  <1>1. 1 # Hub
    BY DEF Hub
  <1>2. ASSUME v = Hub PROVE ConvertFrom(k, v, o) = {o}
    BY <1>1, <1>2, Zenon DEF ConvertFrom, AsZones
  <1>3. ASSUME AsZones(k, v) PROVE ConvertFrom(k, v, o) = ConvertCluster3To1(o)
    BY <1>1, <1>3, Zenon DEF ConvertFrom, AsZones
  <1>4. ASSUME v # Hub, ~AsZones(k, v)
        PROVE  ConvertFrom(k, v, o) = {Lowered(k, v, o)}
    BY <1>4, Zenon DEF ConvertFrom, Lowered, AsZones
  <1> QED BY <1>2, <1>3, <1>4

LEMMA ConvertToCases ==
    ASSUME NEW k, NEW v, NEW o
    PROVE  /\ v = Hub => ConvertTo(k, v, o) = {o}
           /\ AsZones(k, v) => ConvertTo(k, v, o) = ConvertCluster1To3(o)
           /\ v # Hub /\ ~AsZones(k, v) =>
                ConvertTo(k, v, o) =
                    {[plain |-> RaisedPlain(k, v, o), domains |-> o.domains, saved |-> <<>>]}
  <1>1. 1 # Hub
    BY DEF Hub
  <1>2. ASSUME v = Hub PROVE ConvertTo(k, v, o) = {o}
    BY <1>1, <1>2, Zenon DEF ConvertTo, AsZones
  <1>3. ASSUME AsZones(k, v) PROVE ConvertTo(k, v, o) = ConvertCluster1To3(o)
    BY <1>1, <1>3, Zenon DEF ConvertTo, AsZones
  <1>4. ASSUME v # Hub, ~AsZones(k, v)
        PROVE  ConvertTo(k, v, o) =
                    {[plain |-> RaisedPlain(k, v, o), domains |-> o.domains, saved |-> <<>>]}
    BY <1>4, Zenon DEF ConvertTo, RaisedPlain, AsZones
  <1> QED BY <1>2, <1>3, <1>4

LEMMA HubFacts ==
    ASSUME NEW k \in AllKinds
    PROVE  Hub \in Served(k) /\ Carried(k, Hub) = Has(k, Hub) /\ <<k, Hub>> \notin Saving
  <1>1. Hub \in Served(k)
    BY DEF Served, Versions, Hub
  <1> QED BY <1>1, Tables DEF Carried

\* What a conversion keeps: w, of version v, and the hub object o agree on the
\* fields and the zones, and on the failure domains' names unless v has none.
Agree(k, v, w, o) ==
    /\ \A f \in Carried(k, v) : w.plain[f] = o.plain[f]
    /\ DOMAIN w.domains = DOMAIN o.domains
    /\ \A i \in DOMAIN o.domains : w.domains[i].zone = o.domains[i].zone
    /\ AsZones(k, v) \/ \A i \in DOMAIN o.domains : w.domains[i].name = o.domains[i].name

\* Nothing where the version and the hub do not meet.
Bare(k, v, w) == \A f \in Fields(k) \ Carried(k, v) : w.plain[f] = Zero

\* From the hub down: the version's fields are kept, the others are Zero.
LEMMA Down ==
    ASSUME NEW k \in AllKinds, NEW v \in Served(k), NEW zs,
           NEW o, ObjectOf(k, Hub, zs, o), NEW w \in ConvertFrom(k, v, o)
    PROVE  /\ ObjectOf(k, v, zs, w) /\ Agree(k, v, w, o)
           /\ Bare(k, v, w)
           /\ <<k, v>> \in Saving => w.saved = o.plain
  <1>0. Carried(k, v) \subseteq Has(k, v) /\ Has(k, v) \subseteq Fields(k)
    BY Tables
  <1>1. /\ o \in Object(k) /\ o.plain \in Plain(k) /\ o.domains \in Seq(FailureDomainSpec)
        /\ \A i \in DOMAIN o.domains : o.domains[i] \in FailureDomainSpec
    BY SeqFacts DEF ObjectOf, Object
  <1>2. CASE v = Hub
    <2>1. w = o
      BY <1>2, ConvertFromCases
    <2> QED BY <2>1, <1>2, HubFacts DEF Agree, Bare, ObjectOf
  <1>3. CASE AsZones(k, v)
    <2>1. /\ o.domains # <<>>
          /\ w = [plain |-> CarriedPlain("Cluster", 1, o.plain), domains |-> getZones(o.domains),
                  saved |-> <<>>]
      BY <1>3, ConvertFromCases DEF ConvertCluster3To1
    <2>2. /\ w.plain \in Plain(k) /\ \A f \in Carried(k, v) : w.plain[f] = o.plain[f]
          /\ \A f \in Fields(k) \ Carried(k, v) : w.plain[f] = Zero
      BY <2>1, <1>1, <1>3, CarriedPlainFacts DEF AsZones
    <2>3. w \in Object(k)
      BY <2>1, <2>2, <1>1, ListTo1 DEF Object
    <2>4. /\ DOMAIN w.domains = DOMAIN o.domains
          /\ \A i \in DOMAIN o.domains : w.domains[i].zone = o.domains[i].zone
      BY <2>1, <1>1, ListTo1
    <2>5. DomainsOf(k, v, zs, w.domains)
      <3>1. ZonesDistinct(w.domains)
        BY <2>4, <1>3 DEF ObjectOf, DomainsOf, ZonesDistinct, AsZones
      <3>2. 1 \in DOMAIN o.domains
        BY <2>1, <1>1, SeqFacts
      <3> QED BY <3>1, <3>2, <2>1, <1>1, <1>3, ListTo1 DEF DomainsOf, AsZones
    <2>6. <<k, v>> \notin Saving
      BY <1>3, Tables DEF AsZones
    <2> QED BY <2>1, <2>2, <2>3, <2>4, <2>5, <2>6, <1>0, <1>3 DEF ObjectOf, Agree, Bare
  <1>4. CASE v # Hub /\ ~AsZones(k, v)
    <2>1. w = Lowered(k, v, o)
      BY <1>4, ConvertFromCases
    <2>2. /\ w.plain = CarriedPlain(k, v, o.plain)
          /\ w.domains = [i \in DOMAIN o.domains |-> DomainTo2(o.domains[i])]
          /\ w.saved = IF <<k, v>> \in Saving THEN o.plain ELSE <<>>
          /\ w = [plain |-> w.plain, domains |-> w.domains, saved |-> w.saved]
      BY <2>1 DEF Lowered
    <2>3. /\ w.plain \in Plain(k) /\ \A f \in Carried(k, v) : w.plain[f] = o.plain[f]
          /\ \A f \in Fields(k) \ Carried(k, v) : w.plain[f] = Zero
      BY <2>2, <1>1, CarriedPlainFacts
    <2>4. /\ w.domains \in Seq(FailureDomainSpec) /\ DOMAIN w.domains = DOMAIN o.domains
          /\ \A i \in DOMAIN o.domains : w.domains[i] = DomainTo2(o.domains[i])
      BY <2>2, <1>1, ListTo2
    <2>5. \A i \in DOMAIN o.domains :
            /\ w.domains[i].zone = o.domains[i].zone /\ w.domains[i].name = o.domains[i].name
            /\ w.domains[i].project = Zero
      BY <2>4, <1>1, DomainTo2Facts
    <2>6. w \in Object(k)
      BY <2>2, <2>3, <2>4, <1>1 DEF Object
    <2>7. DomainsOf(k, v, zs, w.domains)
      <3>1. k \notin {"Cluster", "Domain"} => w.domains = <<>>
        BY <2>4, <1>1, SeqFacts DEF ObjectOf, DomainsOf
      <3>2. k = "Cluster" => ZonesDistinct(w.domains)
        BY <2>4, <2>5 DEF ObjectOf, DomainsOf, ZonesDistinct
      <3>3. k = "Cluster" => NamesDistinct(zs, w.domains)
        BY <2>4, <2>5 DEF ObjectOf, DomainsOf, NamesDistinct, Hub, AsZones
      <3> QED BY <3>1, <3>2, <3>3, <2>4, <2>5, <1>4 DEF DomainsOf
    <2> QED BY <2>2, <2>3, <2>4, <2>5, <2>6, <2>7, <1>0 DEF ObjectOf, Agree, Bare
  <1> QED BY <1>2, <1>3, <1>4

\* The name a zone given by name gets without its CloudStackZone object, if
\* CloudStack does not answer.
LEMMA DefaultNames ==
    ASSUME NEW z \in Zones, NEW n \in GetDefaultFailureDomainName(z)
    PROVE  /\ n = z \/ (n = Zero /\ z \in Nameless)
           /\ n \in Zones \cup {Zero}
BY DEF GetDefaultFailureDomainName, fetchZoneIDUsingK8s, Nameless

\* Up to the hub: the version's fields are kept; the others are restored from the
\* annotation or Zero.
LEMMA Raised ==
    ASSUME NEW k \in AllKinds, NEW v \in Served(k), NEW zs,
           NEW w, ObjectOf(k, v, zs, w)
    PROVE  /\ RaisedPlain(k, v, w) \in Plain(k)
           /\ \A f \in Carried(k, v) : RaisedPlain(k, v, w)[f] = w.plain[f]
           /\ w.saved = <<>> => \A f \in Fields(k) \ Carried(k, v) : RaisedPlain(k, v, w)[f] = Zero
           /\ \A f \in Fields(k) \ Has(k, Hub) : RaisedPlain(k, v, w)[f] = Zero
           /\ w.saved \in Plain(k) =>
                \A f \in Restored(k, v) \ Carried(k, v) : RaisedPlain(k, v, w)[f] = w.saved[f]
  <1> DEFINE q == RaisedPlain(k, v, w)
             c == CarriedPlain(k, v, w.plain)
  <1>1. w.plain \in Plain(k) /\ (w.saved = <<>> \/ w.saved \in Plain(k))
    BY DEF ObjectOf, Object
  <1>2. /\ c \in Plain(k) /\ \A f \in Carried(k, v) : c[f] = w.plain[f]
        /\ \A f \in Fields(k) \ Carried(k, v) : c[f] = Zero
    BY <1>1, CarriedPlainFacts
  <1>3. /\ q = [f \in Fields(k) |-> q[f]]
        /\ \A f \in Fields(k) :
             q[f] = IF f \in Restored(k, v) /\ w.saved # <<>> /\ w.saved[f] # Zero
                    THEN w.saved[f] ELSE c[f]
    BY DEF RaisedPlain
  <1> HIDE DEF q, c
  <1>4. \A f \in Fields(k) : q[f] \in FieldValues(f)
    BY <1>1, <1>2, <1>3, PlainElim
  <1>5. q \in Plain(k)
    BY <1>3, <1>4, PlainIntro
  <1>6. ASSUME NEW f \in Carried(k, v)
        PROVE  q[f] = w.plain[f]
    <2>1. f \in Fields(k)
      BY Tables
    <2>2. f \in Restored(k, v) => w.saved = <<>>
      BY Tables DEF ObjectOf
    <2> QED BY <2>1, <2>2, <1>2, <1>3
  <1>7. w.saved = <<>> => \A f \in Fields(k) \ Carried(k, v) : q[f] = Zero
    BY <1>2, <1>3
  <1>8. ASSUME w.saved \in Plain(k), NEW f \in Restored(k, v) \ Carried(k, v)
        PROVE  q[f] = w.saved[f]
    <2>1. f \in Fields(k) /\ "labels" \in Fields(k)
      BY Tables
    <2>2. DOMAIN w.saved # {}
      BY <2>1, <1>8, PlainElim
    <2>3. w.saved # <<>>
      BY <2>2
    <2> QED BY <2>1, <2>3, <1>2, <1>3
  <1>9. ASSUME NEW f \in Fields(k) \ Has(k, Hub)
        PROVE  q[f] = Zero
    <2>1. f \notin Carried(k, v) /\ f \notin Restored(k, v)
      BY Tables
    <2> QED BY <2>1, <1>2, <1>3
  <1> QED BY <1>5, <1>6, <1>7, <1>8, <1>9 DEF q

SameAccounts(w, n) ==
    \A i \in DOMAIN w.domains : n.domains[i].account = w.domains[i].account

LEMMA Up ==
    ASSUME NEW k \in AllKinds, NEW v \in Served(k),
           NEW w, ObjectOf(k, v, Nameless, w), NEW n \in ConvertTo(k, v, w)
    PROVE  /\ ObjectOf(k, Hub, Nameless, n) /\ n.saved = <<>>
           /\ Agree(k, v, w, n) /\ SameAccounts(w, n)
           /\ AsZones(k, v) \/ n.domains = w.domains
           /\ v = Hub \/ AsZones(k, v) \/ n.plain = RaisedPlain(k, v, w)
  <1>1. /\ w \in Object(k) /\ w.plain \in Plain(k) /\ w.domains \in Seq(FailureDomainSpec)
        /\ \A i \in DOMAIN w.domains : w.domains[i] \in FailureDomainSpec
        /\ DomainsOf(k, v, Nameless, w.domains)
    BY SeqFacts DEF ObjectOf, Object
  <1>2. CASE v = Hub
    <2>1. n = w
      BY <1>2, ConvertToCases
    <2>2. ObjectOf(k, Hub, Nameless, n)
      BY <2>1, <1>2
    <2>3. n.saved = <<>>
      BY <2>2, HubFacts DEF ObjectOf
    <2> QED BY <2>1, <2>2, <2>3, <1>2 DEF Agree, SameAccounts
  <1>3. CASE AsZones(k, v)
    <2>1. PICK ds \in GetFailureDomains(w.domains) :
            n = [plain |-> CarriedPlain("Cluster", 1, w.plain), domains |-> ds, saved |-> <<>>]
      BY <1>3, ConvertToCases DEF ConvertCluster1To3
    <2>2. /\ n.plain \in Plain(k) /\ \A f \in Carried(k, v) : n.plain[f] = w.plain[f]
          /\ \A f \in Fields(k) \ Has(k, Hub) : n.plain[f] = Zero
      <3>1. /\ n.plain \in Plain(k) /\ \A f \in Carried(k, v) : n.plain[f] = w.plain[f]
            /\ \A f \in Fields(k) \ Carried(k, v) : n.plain[f] = Zero
        BY <2>1, <1>1, <1>3, CarriedPlainFacts DEF AsZones
      <3>2. Carried(k, v) \subseteq Has(k, Hub)
        BY Tables
      <3> QED BY <3>1, <3>2
    <2>3. /\ ds \in Seq(FailureDomainSpec) /\ DOMAIN ds = DOMAIN w.domains
          /\ \A i \in DOMAIN ds :
                /\ ds[i].name \in GetDefaultFailureDomainName(w.domains[i].zone)
                /\ ds[i].secret = "global" /\ ds[i].zone = w.domains[i].zone
                /\ ds[i].account = w.domains[i].account
      BY <1>1, ListFrom1
    <2>4. n \in Object(k)
      BY <2>1, <2>2, <2>3 DEF Object
    <2>5. ZonesDistinct(ds)
      BY <2>3, <1>1, <1>3 DEF DomainsOf, ZonesDistinct, AsZones
    <2>6. NamesDistinct(Nameless, ds)
      <3> SUFFICES ASSUME NEW i \in DOMAIN ds, NEW j \in DOMAIN ds, i # j, ds[i].name = ds[j].name
                   PROVE  ds[i].zone \in Nameless /\ ds[j].zone \in Nameless
        BY DEF NamesDistinct
      <3>1. /\ ds[i].zone \in Zones /\ ds[j].zone \in Zones /\ ds[i].zone # ds[j].zone
            /\ Zero \notin Zones
        BY <2>3, <2>5, SeqFacts, SpecFields, KindAssumption DEF ZonesDistinct
      <3>2. /\ ds[i].name \in GetDefaultFailureDomainName(ds[i].zone)
            /\ ds[j].name \in GetDefaultFailureDomainName(ds[j].zone)
        BY <2>3
      <3>3. \/ ds[i].name = ds[i].zone
            \/ ds[i].name = Zero /\ ds[i].zone \in Nameless
        BY <3>1, <3>2, DefaultNames
      <3>4. \/ ds[j].name = ds[j].zone
            \/ ds[j].name = Zero /\ ds[j].zone \in Nameless
        BY <3>1, <3>2, DefaultNames
      <3> QED BY <3>1, <3>3, <3>4
    <2>7. DomainsOf(k, Hub, Nameless, n.domains)
      BY <2>1, <2>5, <2>6, <1>3 DEF DomainsOf, Hub, AsZones
    <2>8. Agree(k, v, w, n) /\ SameAccounts(w, n)
      BY <2>1, <2>2, <2>3, <1>3 DEF Agree, SameAccounts
    <2>9. ObjectOf(k, Hub, Nameless, n) /\ n.saved = <<>>
      BY <2>1, <2>2, <2>4, <2>7, HubFacts DEF ObjectOf
    <2> QED BY <2>8, <2>9, <1>3
  <1>4. CASE v # Hub /\ ~AsZones(k, v)
    <2>1. n = [plain |-> RaisedPlain(k, v, w), domains |-> w.domains, saved |-> <<>>]
      BY <1>4, ConvertToCases
    <2>2. n \in Object(k)
      BY <2>1, <1>1, Raised DEF Object
    <2>3. DomainsOf(k, Hub, Nameless, n.domains)
      BY <2>1, <1>1, <1>4 DEF DomainsOf, Hub, AsZones
    <2>4. ObjectOf(k, Hub, Nameless, n) /\ n.saved = <<>>
      <3>1. \A f \in Fields(k) \ Has(k, Hub) : n.plain[f] = Zero
        BY <2>1, Raised
      <3> QED BY <3>1, <2>1, <2>2, <2>3, HubFacts DEF ObjectOf
    <2>5. n.plain = RaisedPlain(k, v, w) /\ n.domains = w.domains
      BY <2>1
    <2>6. \A f \in Carried(k, v) : n.plain[f] = w.plain[f]
      BY <2>5, Raised
    <2> QED BY <2>4, <2>5, <2>6 DEF Agree, SameAccounts
  <1> QED BY <1>2, <1>3, <1>4

\* Down after up gives back what the version has in common with the hub: nothing
\* restored from the annotation hides an edit, and the zones of a v1beta1 cluster
\* survive. What v1beta1 alone has comes back empty.
Kept(k, v, o, w) ==
    \A f \in Has(k, v) : o.plain[f] = IF f \in OnlyInV1beta1 THEN Zero ELSE w.plain[f]

LEMMA RoundTrip ==
    ASSUME NEW k \in AllKinds, NEW v \in Served(k),
           NEW w, ObjectOf(k, v, Nameless, w), HasDomain(k, w),
           NEW n \in ConvertTo(k, v, w)
    PROVE  \E o \in ConvertFrom(k, v, n) : o.domains = w.domains /\ Kept(k, v, o, w)
  <1>1. /\ ObjectOf(k, Hub, Nameless, n) /\ Agree(k, v, w, n) /\ SameAccounts(w, n)
        /\ AsZones(k, v) \/ n.domains = w.domains
    BY Up
  <1>2. /\ \A f \in Carried(k, v) : n.plain[f] = w.plain[f]
        /\ n.domains \in Seq(FailureDomainSpec) /\ w.domains \in Seq(FailureDomainSpec)
        /\ DOMAIN n.domains = DOMAIN w.domains
        /\ DomainsOf(k, v, Nameless, w.domains)
    BY <1>1 DEF ObjectOf, Object, Agree
  <1>3. ASSUME NEW o \in ConvertFrom(k, v, n)
        PROVE  Kept(k, v, o, w)
    <2>1. Agree(k, v, o, n) /\ Bare(k, v, o)
      BY <1>1, Down
    <2>2. /\ Has(k, v) \subseteq Fields(k)
          /\ \A f \in Has(k, v) : f \in Carried(k, v) <=> f \notin OnlyInV1beta1
      BY Tables
    <2> QED BY <2>1, <2>2, <1>2 DEF Agree, Bare, Kept
  <1>4. CASE v = Hub
    <2>1. n \in ConvertFrom(k, v, n) /\ n = w
      BY <1>4, ConvertFromCases, ConvertToCases
    <2> QED BY <2>1, <1>3
  <1>5. CASE AsZones(k, v)
    <2>1. n.domains # <<>>
      BY <1>2, <1>5, SeqFacts DEF AsZones, HasDomain
    <2> DEFINE o == [plain |-> CarriedPlain("Cluster", 1, n.plain), domains |-> getZones(n.domains),
                     saved |-> <<>>]
    <2>2. o \in ConvertFrom(k, v, n)
      BY <2>1, <1>5, ConvertFromCases DEF ConvertCluster3To1
    <2>3. Kept(k, v, o, w)
      BY <2>2, <1>3
    <2>4. getZones(n.domains) = w.domains
      <3>1. ASSUME NEW i \in DOMAIN w.domains
            PROVE  getZones(n.domains)[i] = w.domains[i]
        <4>1. 1 \in DOMAIN w.domains /\ 1 \in DOMAIN n.domains
          BY <1>2, <1>5, SeqFacts DEF AsZones, HasDomain
        <4>2. /\ getZones(n.domains)[i] \in FailureDomainSpec /\ w.domains[i] \in FailureDomainSpec
          BY <2>1, <1>2, ListTo1, SeqFacts
        <4>3. /\ w.domains[i].name = Zero /\ w.domains[i].secret = Zero
              /\ w.domains[i].project = Zero /\ w.domains[i].account = w.domains[1].account
          BY <1>2, <1>5 DEF DomainsOf, Hub, AsZones
        <4>4. /\ n.domains[i].zone = w.domains[i].zone
              /\ n.domains[1].account = w.domains[1].account
          BY <4>1, <1>1, <1>2 DEF Agree, SameAccounts
        <4>5. /\ getZones(n.domains)[i].name = Zero /\ getZones(n.domains)[i].secret = Zero
              /\ getZones(n.domains)[i].project = Zero
              /\ getZones(n.domains)[i].zone = n.domains[i].zone
              /\ getZones(n.domains)[i].account = n.domains[1].account
          BY <2>1, <1>2, ListTo1
        <4> QED BY <4>2, <4>3, <4>4, <4>5, SpecEqual
      <3> QED BY <3>1, <2>1, <1>2, ListTo1, ListEqual
    <2> QED BY <2>2, <2>3, <2>4
  <1>6. CASE v # Hub /\ ~AsZones(k, v)
    <2>1. ConvertFrom(k, v, n) = {Lowered(k, v, n)} /\ n.domains = w.domains
      BY <1>6, <1>1, ConvertFromCases
    <2>2. Kept(k, v, Lowered(k, v, n), w)
      BY <2>1, <1>3
    <2>3. \A i \in DOMAIN n.domains : n.domains[i].project = Zero
      BY <2>1, <1>2, <1>6 DEF DomainsOf
    <2>4. Lowered(k, v, n).domains = n.domains
      BY <2>3, <1>2, ListTo2 DEF Lowered
    <2> QED BY <2>1, <2>2, <2>4
  <1> QED BY <1>4, <1>5, <1>6

----------------------------------------------------------------------------
\* What requests bring.

LEMMA WithoutFacts ==
    ASSUME NEW S, NEW ds \in Seq(S), NEW j \in DOMAIN ds
    PROVE  /\ Without(ds, j) \in Seq(S) /\ DOMAIN Without(ds, j) = 1..(Len(ds) - 1)
           /\ \A i \in 1..(Len(ds) - 1) :
                Without(ds, j)[i] = IF i < j THEN ds[i] ELSE ds[i + 1]
  <1> DEFINE a == SubSeq(ds, 1, j - 1)
             b == SubSeq(ds, j + 1, Len(ds))
  <1>1. j \in 1..Len(ds) /\ Len(ds) \in Nat
    BY SeqFacts
  <1>2. /\ a \in Seq(S) /\ Len(a) = j - 1 /\ \A i \in 1..(j - 1) : a[i] = ds[i]
    BY <1>1
  <1>3. /\ b \in Seq(S) /\ Len(b) = Len(ds) - j
        /\ \A i \in 1..(Len(ds) - j) : b[i] = ds[j + i]
    BY <1>1
  <1>4. Without(ds, j) = a \o b
    BY DEF Without
  <1> HIDE DEF a, b
  <1>5. /\ a \o b \in Seq(S) /\ Len(a \o b) = Len(ds) - 1 /\ DOMAIN (a \o b) = 1..(Len(ds) - 1)
    BY <1>1, <1>2, <1>3
  <1>6. ASSUME NEW i \in 1..(Len(ds) - 1)
        PROVE  (a \o b)[i] = IF i < j THEN ds[i] ELSE ds[i + 1]
    <2>1. CASE i < j
      BY <2>1, <1>1, <1>2, <1>3
    <2>2. CASE ~(i < j)
      <3>1. i - (j - 1) \in 1..(Len(ds) - j) /\ j + (i - (j - 1)) = i + 1
        BY <2>2, <1>1
      <3>2. (a \o b)[i] = b[i - (j - 1)]
        BY <2>2, <1>1, <1>2, <1>3
      <3> QED BY <3>1, <3>2, <2>2, <1>3
    <2> QED BY <2>1, <2>2
  <1> QED BY <1>4, <1>5, <1>6

LEMMA NewDomainFacts ==
    ASSUME NEW v, NEW d \in NewDomains(v)
    PROVE  /\ d \in FailureDomainSpec /\ (v # Hub => d.project = Zero)
           /\ v = 1 => d.name = Zero /\ d.secret = Zero
BY DEF NewDomains, Hub

\* An edit of the failure domains leaves a list the version can have.
LEMMA EditedList ==
    ASSUME NEW k \in AllKinds, NEW v \in Served(k), NEW zs,
           NEW ds \in Seq(FailureDomainSpec), DomainsOf(k, v, zs, ds),
           NEW es \in EditedDomains(k, v, ds)
    PROVE  es \in Seq(FailureDomainSpec) /\ DomainsOf(k, v, zs, es)
  <1>1. /\ Len(ds) \in Nat /\ DOMAIN ds = 1..Len(ds)
        /\ \A i \in DOMAIN ds : ds[i] \in FailureDomainSpec
    BY SeqFacts
  <1>2. k \notin {"Cluster", "Domain"} => DOMAIN ds = {}
    BY <1>1, SeqFacts DEF DomainsOf
  <1>3. ASSUME NEW j \in DOMAIN ds, NEW a \in {Zero} \cup Values,
               es = WithAccount(v, ds, j, a)
        PROVE  es \in Seq(FailureDomainSpec) /\ DomainsOf(k, v, zs, es)
    <2>1. ASSUME NEW i \in DOMAIN ds
          PROVE  /\ es[i] \in FailureDomainSpec /\ es[i].name = ds[i].name
                 /\ es[i].zone = ds[i].zone /\ es[i].secret = ds[i].secret
                 /\ es[i].project = ds[i].project /\ (v = 1 => es[i].account = a)
      BY <1>1, <1>3 DEF FailureDomainSpec, WithAccount
    <2>2. es = [i \in DOMAIN ds |-> es[i]]
      BY <1>3 DEF WithAccount
    <2>3. es \in Seq(FailureDomainSpec) /\ DOMAIN es = DOMAIN ds
      BY <2>1, <2>2, MappedSeq
    <2>4. 1 \in DOMAIN ds
      BY <1>1
    <2>5. k \in {"Cluster", "Domain"}
      BY <1>2
    <2>6. k = "Cluster" => ZonesDistinct(es)
      BY <2>1, <2>3 DEF DomainsOf, ZonesDistinct
    <2>7. k = "Cluster" /\ ~AsZones(k, v) => NamesDistinct(zs, es)
      BY <2>1, <2>3 DEF DomainsOf, NamesDistinct
    <2>8. v # Hub => \A i \in DOMAIN es : es[i].project = Zero
      BY <2>1, <2>3 DEF DomainsOf
    <2>9. AsZones(k, v) => \A i \in DOMAIN es :
             es[i].name = Zero /\ es[i].secret = Zero /\ es[i].account = es[1].account
      BY <2>1, <2>3, <2>4 DEF DomainsOf, AsZones
    <2> QED BY <2>3, <2>5, <2>6, <2>7, <2>8, <2>9 DEF DomainsOf
  <1>4. ASSUME v = Hub, NEW j \in DOMAIN ds, NEW a \in {Zero} \cup Values,
               es = WithProject(ds, j, a)
        PROVE  es \in Seq(FailureDomainSpec) /\ DomainsOf(k, v, zs, es)
    <2>1. ASSUME NEW i \in DOMAIN ds
          PROVE  /\ es[i] \in FailureDomainSpec /\ es[i].name = ds[i].name
                 /\ es[i].zone = ds[i].zone
      <3>1. ds[i] \in FailureDomainSpec
        BY <1>1
      <3>2. es[i] = IF i = j THEN [ds[i] EXCEPT !.project = a] ELSE ds[i]
        BY <1>4, <1>1 DEF WithProject
      <3> QED BY <3>1, <3>2 DEF FailureDomainSpec
    <2>2. es = [i \in DOMAIN ds |-> es[i]]
      BY <1>4 DEF WithProject
    <2>3. es \in Seq(FailureDomainSpec) /\ DOMAIN es = DOMAIN ds
      BY <2>1, <2>2, MappedSeq
    <2>4. k = "Cluster" => ZonesDistinct(es)
      BY <2>1, <2>3 DEF DomainsOf, ZonesDistinct
    <2>5. k = "Cluster" /\ ~AsZones(k, v) => NamesDistinct(zs, es)
      BY <2>1, <2>3 DEF DomainsOf, NamesDistinct
    <2> QED BY <2>3, <2>4, <2>5, <1>2, <1>4 DEF DomainsOf, AsZones, Hub
  <1>5. ASSUME k = "Cluster", NEW j \in DOMAIN ds, es = Without(ds, j)
        PROVE  es \in Seq(FailureDomainSpec) /\ DomainsOf(k, v, zs, es)
    <2> DEFINE at(i) == IF i < j THEN i ELSE i + 1
    <2>1. /\ es \in Seq(FailureDomainSpec) /\ DOMAIN es = 1..(Len(ds) - 1)
          /\ \A i \in DOMAIN es : es[i] = ds[at(i)]
      BY <1>5, WithoutFacts
    <2>2. \A i \in DOMAIN es : at(i) \in DOMAIN ds
      BY <2>1, <1>1
    <2>3. \A h, i \in DOMAIN es : h # i => at(h) # at(i)
      BY <2>1, <1>1
    <2> HIDE DEF at
    <2>4. ZonesDistinct(es)
      BY <2>1, <2>2, <2>3, <1>5 DEF DomainsOf, ZonesDistinct
    <2>5. ~AsZones(k, v) => NamesDistinct(zs, es)
      BY <2>1, <2>2, <2>3, <1>5 DEF DomainsOf, NamesDistinct
    <2>6. v # Hub => \A i \in DOMAIN es : es[i].project = Zero
      BY <2>1, <2>2 DEF DomainsOf
    <2>7. AsZones(k, v) => \A i \in DOMAIN es :
             es[i].name = Zero /\ es[i].secret = Zero /\ es[i].account = es[1].account
      <3> SUFFICES ASSUME AsZones(k, v), NEW i \in DOMAIN es
                   PROVE  es[i].name = Zero /\ es[i].secret = Zero /\ es[i].account = es[1].account
        OBVIOUS
      <3>1. 1 \in DOMAIN es
        BY <2>1, <1>1
      <3> QED BY <3>1, <2>1, <2>2 DEF DomainsOf
    <2> QED BY <2>1, <2>4, <2>5, <2>6, <2>7, <1>5 DEF DomainsOf
  <1>6. ASSUME k = "Cluster", NEW d \in Addable(v, ds), es = Append(ds, d)
        PROVE  es \in Seq(FailureDomainSpec) /\ DomainsOf(k, v, zs, es)
    <2> DEFINE m == Len(ds) + 1
    <2>1. /\ d \in FailureDomainSpec /\ (v # Hub => d.project = Zero)
          /\ v = 1 => d.name = Zero /\ d.secret = Zero
      BY NewDomainFacts DEF Addable
    <2>2. /\ es \in Seq(FailureDomainSpec) /\ DOMAIN es = 1..m /\ es[m] = d
          /\ \A i \in DOMAIN ds : es[i] = ds[i]
      BY <2>1, <1>1, <1>6
    <2>3. \A i \in DOMAIN es : i = m \/ i \in DOMAIN ds
      BY <2>2, <1>1
    <2> HIDE DEF m
    <2>4. ZonesDistinct(es)
      BY <2>2, <2>3, <1>6 DEF DomainsOf, ZonesDistinct, Addable
    <2>5. ~AsZones(k, v) => NamesDistinct(zs, es)
      BY <2>2, <2>3, <1>6 DEF DomainsOf, NamesDistinct, AsZones, Addable
    <2>6. v # Hub => \A i \in DOMAIN es : es[i].project = Zero
      BY <2>1, <2>2, <2>3 DEF DomainsOf
    <2>7. AsZones(k, v) => \A i \in DOMAIN es :
             es[i].name = Zero /\ es[i].secret = Zero /\ es[i].account = es[1].account
      <3> SUFFICES ASSUME AsZones(k, v)
                   PROVE  \A i \in DOMAIN es : es[i].name = Zero /\ es[i].secret = Zero
                                               /\ es[i].account = es[1].account
        OBVIOUS
      <3>1. \A i \in DOMAIN es :
              es[i].name = Zero /\ es[i].secret = Zero /\ es[i].account = d.account
        BY <2>1, <2>2, <2>3, <1>6 DEF DomainsOf, AsZones, Addable
      <3>2. 1 \in DOMAIN es
        BY <2>2, <1>1 DEF m
      <3> QED BY <3>1, <3>2
    <2> QED BY <2>2, <2>4, <2>5, <2>6, <2>7, <1>6 DEF DomainsOf
  <1>7. CASE \E j \in DOMAIN ds, a \in {Zero} \cup Values : es = WithAccount(v, ds, j, a)
    BY <1>3, <1>7
  <1>8. CASE v = Hub /\ \E j \in DOMAIN ds, a \in {Zero} \cup Values : es = WithProject(ds, j, a)
    BY <1>4, <1>8
  <1>9. CASE k = "Cluster" /\ \E j \in DOMAIN ds : es = Without(ds, j)
    BY <1>5, <1>9
  <1>10. CASE k = "Cluster" /\ \E d \in Addable(v, ds) : es = Append(ds, d)
    BY <1>6, <1>10
  <1> QED BY <1>7, <1>8, <1>9, <1>10 DEF EditedDomains

\* What an edit leaves alone.
EditKeeps(k, v, o, e) ==
    /\ e.obj.saved = o.saved
    /\ \A f \in Fields(k) \ {e.field} : e.obj.plain[f] = o.plain[f]
    /\ e.field = "domains" \/ (e.field \in Has(k, v) /\ e.obj.domains = o.domains)

LEMMA Edited ==
    ASSUME NEW k \in AllKinds, NEW v \in Served(k), NEW zs,
           NEW o, ObjectOf(k, v, zs, o), NEW e \in Edits(k, v, o)
    PROVE  ObjectOf(k, v, zs, e.obj) /\ EditKeeps(k, v, o, e)
  <1>1. /\ o \in Object(k) /\ o.plain \in Plain(k) /\ o.domains \in Seq(FailureDomainSpec)
        /\ DomainsOf(k, v, zs, o.domains)
    BY DEF ObjectOf, Object
  <1>2. ASSUME NEW f \in Has(k, v), NEW x \in FieldValues(f), e = FieldEdit(o, f, x)
        PROVE  ObjectOf(k, v, zs, e.obj) /\ EditKeeps(k, v, o, e)
    <2> DEFINE p == [o.plain EXCEPT ![f] = x]
    <2>1. f \in Fields(k) /\ f # "domains"
      BY Tables
    <2>2. /\ p \in Plain(k) /\ \A g \in Fields(k) \ {f} : p[g] = o.plain[g]
      BY <2>1, <1>1, PlainEdit
    <2>3. e.field = f /\ e.obj = [plain |-> p, domains |-> o.domains, saved |-> o.saved]
      BY <1>1, <1>2 DEF FieldEdit, Object
    <2> HIDE DEF p
    <2>4. e.obj \in Object(k)
      BY <2>2, <2>3, <1>1 DEF Object
    <2>5. \A g \in Fields(k) \ Has(k, v) : e.obj.plain[g] = Zero
      BY <2>2, <2>3 DEF ObjectOf
    <2>6. ObjectOf(k, v, zs, e.obj)
      BY <2>3, <2>4, <2>5 DEF ObjectOf
    <2> QED BY <2>2, <2>3, <2>6 DEF EditKeeps
  <1>3. ASSUME NEW ds \in EditedDomains(k, v, o.domains), e = DomainsEdit(o, ds)
        PROVE  ObjectOf(k, v, zs, e.obj) /\ EditKeeps(k, v, o, e)
    <2>1. ds \in Seq(FailureDomainSpec) /\ DomainsOf(k, v, zs, ds)
      BY <1>1, EditedList
    <2>2. e.field = "domains" /\ e.obj = [plain |-> o.plain, domains |-> ds, saved |-> o.saved]
      BY <1>1, <1>3 DEF DomainsEdit, Object
    <2>3. e.obj \in Object(k)
      BY <2>1, <2>2, <1>1 DEF Object
    <2>4. ObjectOf(k, v, zs, e.obj)
      BY <2>1, <2>2, <2>3 DEF ObjectOf
    <2> QED BY <2>2, <2>4 DEF EditKeeps
  <1> DEFINE Of(f) == {FieldEdit(o, f, x) : x \in FieldValues(f) \ {o.plain[f]}}
             Listed == {DomainsEdit(o, ds) : ds \in EditedDomains(k, v, o.domains)}
  <1>4. e \in (UNION {Of(f) : f \in Has(k, v)}) \cup Listed
    BY DEF Edits
  <1>5. ASSUME NEW f \in Has(k, v), e \in Of(f)
        PROVE  ObjectOf(k, v, zs, e.obj) /\ EditKeeps(k, v, o, e)
    BY <1>2, <1>5
  <1>6. ASSUME e \in Listed
        PROVE  ObjectOf(k, v, zs, e.obj) /\ EditKeeps(k, v, o, e)
    BY <1>3, <1>6
  <1> HIDE DEF Of, Listed
  <1>7. (\E f \in Has(k, v) : e \in Of(f)) \/ e \in Listed
    BY <1>4
  <1> QED BY <1>5, <1>6, <1>7, Zenon

LEMMA NewPlainFacts ==
    ASSUME NEW k \in AllKinds, NEW set
    PROVE  /\ NewPlain(k, set) \in Plain(k)
           /\ \A f \in Fields(k) \ set : NewPlain(k, set)[f] = Zero
  <1> DEFINE p == NewPlain(k, set)
  <1>1. /\ p = [f \in Fields(k) |-> p[f]] /\ \A f \in Fields(k) \ set : p[f] = Zero
    BY DEF NewPlain
  <1>2. ASSUME NEW f \in Fields(k) PROVE p[f] \in FieldValues(f)
    <2>1. p[f] = IF f \in set THEN CHOOSE x \in FieldValues(f) : x # Zero ELSE Zero
      BY DEF NewPlain
    <2>2. (CHOOSE x \in FieldValues(f) : x # Zero) \in FieldValues(f)
      BY FieldValuesFacts
    <2> QED BY <2>1, <2>2, FieldValuesFacts
  <1> HIDE DEF p
  <1>3. p \in Plain(k)
    BY <1>1, <1>2, PlainIntro
  <1> QED BY <1>1, <1>3 DEF p

LEMMA NewListFacts ==
    ASSUME NEW k \in AllKinds, NEW v \in Served(k), NEW zs, NEW ds \in NewDomainLists(k, v)
    PROVE  ds \in Seq(FailureDomainSpec) /\ DomainsOf(k, v, zs, ds)
  <1>1. CASE k = "Domain"
    <2>1. ds \in {<<d>> : d \in NewDomains(v)}
      BY <1>1, Zenon DEF NewDomainLists
    <2>2. PICK d \in NewDomains(v) : ds = <<d>>
      BY <2>1
    <2>3. /\ d \in FailureDomainSpec /\ (v # Hub => d.project = Zero)
      BY NewDomainFacts
    <2>4. /\ ds \in Seq(FailureDomainSpec) /\ \A i \in DOMAIN ds : ds[i] = d
      BY <2>2, <2>3
    <2> QED BY <2>3, <2>4, <1>1 DEF DomainsOf, AsZones
  <1>2. CASE k = "Cluster"
    <2>1. ds \in {es \in UNION {[1..n -> NewDomains(v)] : n \in 0..MaxDomains} :
                     /\ \A i, j \in DOMAIN es : i # j => es[i].zone # es[j].zone
                     /\ \A i, j \in DOMAIN es : i # j => es[i].name # es[j].name \/ v = 1
                     /\ v = 1 => \A i \in DOMAIN es : es[i].account = es[1].account}
      BY <1>2, Zenon DEF NewDomainLists
    <2>2. PICK n \in 0..MaxDomains : ds \in [1..n -> NewDomains(v)]
      BY <2>1
    <2>3. /\ \A i \in DOMAIN ds :
                /\ ds[i] \in FailureDomainSpec /\ (v # Hub => ds[i].project = Zero)
                /\ v = 1 => ds[i].name = Zero /\ ds[i].secret = Zero
      BY <2>2, NewDomainFacts
    <2>4. ds \in Seq(FailureDomainSpec)
      <3>1. n \in Nat
        BY KindAssumption
      <3>2. ds \in [1..n -> FailureDomainSpec]
        BY <2>2, <2>3
      <3> QED BY <3>1, <3>2
    <2>5. /\ \A i, j \in DOMAIN ds : i # j => ds[i].zone # ds[j].zone
          /\ \A i, j \in DOMAIN ds : i # j => ds[i].name # ds[j].name \/ v = 1
          /\ v = 1 => \A i \in DOMAIN ds : ds[i].account = ds[1].account
      BY <2>1
    <2> QED BY <2>3, <2>4, <2>5, <1>2 DEF DomainsOf, AsZones, ZonesDistinct, NamesDistinct
  <1>3. CASE k # "Domain" /\ k # "Cluster"
    <2>1. ds = <<>>
      BY <1>3, Zenon DEF NewDomainLists
    <2> QED BY <2>1, <1>3 DEF DomainsOf, AsZones
  <1> QED BY <1>1, <1>2, <1>3

LEMMA Created ==
    ASSUME NEW k \in AllKinds, NEW v \in Served(k), NEW zs, NEW o \in NewObjects(k, v)
    PROVE  ObjectOf(k, v, zs, o) /\ o.saved = <<>>
  <1>1. PICK set \in SUBSET (Schema[k][v] \ StatusFields), ds \in NewDomainLists(k, v) :
          o = [plain |-> NewPlain(k, set), domains |-> ds, saved |-> <<>>]
    BY DEF NewObjects
  <1>2. ds \in Seq(FailureDomainSpec) /\ DomainsOf(k, v, zs, ds)
    BY NewListFacts
  <1>3. NewPlain(k, set) \in Plain(k) /\ \A f \in Fields(k) \ set : NewPlain(k, set)[f] = Zero
    BY NewPlainFacts
  <1>4. set \subseteq Has(k, v)
    BY DEF Has
  <1>5. o \in Object(k)
    BY <1>1, <1>2, <1>3 DEF Object
  <1> QED BY <1>1, <1>2, <1>3, <1>4, <1>5 DEF ObjectOf

----------------------------------------------------------------------------
\* Admission.

LEMMA ValidateCases ==
    ASSUME NEW n, NEW o
    PROVE  /\ ValidateCreate("Machine", n) = MachineCreateValid(n)
           /\ ValidateCreate("Cluster", n) = ClusterCreateValid(n)
           /\ ValidateUpdate("Machine", n, o) = MachineUpdateValid(n, o)
           /\ ValidateUpdate("Template", n, o) = TemplateUpdateValid(n, o)
           /\ ValidateUpdate("Cluster", n, o) = ClusterUpdateValid(n, o)
           /\ \A k : k \notin {"Machine", "Template", "Cluster"} => ValidateUpdate(k, n, o) = TRUE
  <1>1. ValidateCreate("Machine", n) = MachineCreateValid(n)
    BY Zenon DEF ValidateCreate
  <1>2. ValidateCreate("Cluster", n) = ClusterCreateValid(n)
    BY Zenon DEF ValidateCreate
  <1>3. ValidateUpdate("Machine", n, o) = MachineUpdateValid(n, o)
    BY Zenon DEF ValidateUpdate
  <1>4. ValidateUpdate("Template", n, o) = TemplateUpdateValid(n, o)
    BY Zenon DEF ValidateUpdate
  <1>5. ValidateUpdate("Cluster", n, o) = ClusterUpdateValid(n, o)
    BY Zenon DEF ValidateUpdate
  <1>6. ASSUME NEW k, k # "Machine", k # "Template", k # "Cluster"
        PROVE  ValidateUpdate(k, n, o) = TRUE
    BY <1>6, Zenon DEF ValidateUpdate
  <1> QED BY <1>1, <1>2, <1>3, <1>4, <1>5, <1>6

\* What a webhook has let through, has a failure domain and a fitting size.
LEMMA CreateAdmits ==
    ASSUME NEW k, NEW n, ValidateCreate(k, n)
    PROVE  HasDomain(k, n) /\ SizeFits(k, n)
  <1>1. HasDomain(k, n)
    BY ValidateCases DEF HasDomain, ClusterCreateValid
  <1>2. SizeFits(k, n)
    BY ValidateCases DEF SizeFits, MachineCreateValid
  <1> QED BY <1>1, <1>2

LEMMA UpdateAdmits ==
    ASSUME NEW k, NEW n, NEW o, ValidateUpdate(k, n, o)
    PROVE  HasDomain(k, n) /\ SizeFits(k, n)
  <1>1. HasDomain(k, n)
    <2> SUFFICES ASSUME k = "Cluster" PROVE n.domains # <<>>
      BY DEF HasDomain
    <2>1. PICK i \in DOMAIN o.domains : NewByName(n.domains, o.domains[i].name) # {}
      BY ValidateCases DEF ClusterUpdateValid, ValidateFailureDomainUpdates
    <2>2. DOMAIN n.domains # {}
      BY <2>1 DEF NewByName
    <2> QED BY <2>2
  <1>2. SizeFits(k, n)
    BY ValidateCases DEF SizeFits, MachineUpdateValid
  <1> QED BY <1>1, <1>2

LEMMA MachineFields ==
    \A v \in Served("Machine") : {"size", "disk"} \subseteq Carried("Machine", v)
BY SchemaMachine DEF Served, Versions, Carried, Hub

\* A conversion changes neither.
LEMMA AgreeAdmits ==
    ASSUME NEW k \in AllKinds, NEW v \in Served(k), NEW zs, NEW w, NEW o,
           ObjectOf(k, v, zs, w), ObjectOf(k, Hub, zs, o), Agree(k, v, w, o)
    PROVE  /\ HasDomain(k, w) <=> HasDomain(k, o)
           /\ SizeFits(k, w) <=> SizeFits(k, o)
  <1>1. w.domains \in Seq(FailureDomainSpec) /\ o.domains \in Seq(FailureDomainSpec)
    BY DEF ObjectOf, Object
  <1>2. w.domains = <<>> <=> o.domains = <<>>
    BY <1>1, SeqFacts DEF Agree
  <1>3. k = "Machine" => w.plain["size"] = o.plain["size"] /\ w.plain["disk"] = o.plain["disk"]
    BY MachineFields DEF Agree
  <1>4. HasDomain(k, w) <=> HasDomain(k, o)
    BY <1>2 DEF HasDomain
  <1>5. SizeFits(k, w) <=> SizeFits(k, o)
    BY <1>3 DEF SizeFits
  <1> QED BY <1>4, <1>5

----------------------------------------------------------------------------
\* The invariant is inductive.

LEMMA KindFacts == IInv => kind \in AllKinds
BY KindAssumption DEF IInv

\* What a request reads.
LEMMA HubViewFacts ==
    ASSUME IInv, stored # NoObject, NEW o \in HubViews
    PROVE  /\ ObjectOf(kind, Hub, Nameless, o) /\ o.saved = <<>>
           /\ Agree(kind, stored.ver, stored.obj, o)
           /\ HasDomain(kind, o) /\ SizeFits(kind, o)
  <1>1. /\ stored.ver \in Served(kind) /\ ObjectOf(kind, stored.ver, Nameless, stored.obj)
        /\ HasDomain(kind, stored.obj) /\ SizeFits(kind, stored.obj) /\ kind \in AllKinds
    BY KindFacts DEF IInv, StoredInv
  <1>2. o \in ConvertTo(kind, stored.ver, stored.obj)
    BY DEF HubViews
  <1>3. /\ ObjectOf(kind, Hub, Nameless, o) /\ o.saved = <<>>
        /\ Agree(kind, stored.ver, stored.obj, o)
    BY <1>1, <1>2, Up
  <1>4. HasDomain(kind, o) /\ SizeFits(kind, o)
    BY <1>1, <1>3, AgreeAdmits
  <1> QED BY <1>3, <1>4

LEMMA ViewFacts ==
    ASSUME IInv, stored # NoObject, NEW v \in Served(kind), NEW old \in Views(v)
    PROVE  /\ ObjectOf(kind, v, Nameless, old) /\ HasDomain(kind, old) /\ SizeFits(kind, old)
           /\ \/ v = stored.ver /\ old = stored.obj
              \/ v # stored.ver /\ \E o \in HubViews : old \in ConvertFrom(kind, v, o)
  <1>1. /\ stored.ver \in Served(kind) /\ ObjectOf(kind, stored.ver, Nameless, stored.obj)
        /\ HasDomain(kind, stored.obj) /\ SizeFits(kind, stored.obj) /\ kind \in AllKinds
    BY KindFacts DEF IInv, StoredInv
  <1>2. CASE v = stored.ver
    BY <1>1, <1>2 DEF Views
  <1>3. CASE v # stored.ver
    <2>1. PICK o \in HubViews : old \in ConvertFrom(kind, v, o)
      BY <1>3 DEF Views
    <2>2. ObjectOf(kind, Hub, Nameless, o) /\ HasDomain(kind, o) /\ SizeFits(kind, o)
      BY HubViewFacts
    <2>3. ObjectOf(kind, v, Nameless, old) /\ Agree(kind, v, old, o)
      BY <2>1, <2>2, <1>1, Down
    <2>4. HasDomain(kind, old) /\ SizeFits(kind, old)
      BY <2>2, <2>3, <1>1, AgreeAdmits
    <2> QED BY <2>1, <2>3, <2>4, <1>3
  <1> QED BY <1>2, <1>3

\* What an accepted request w of version v leaves in storage: n, converted from it.
LEMMA Accepted ==
    ASSUME NEW v \in Served(kind), kind \in AllKinds,
           NEW w, ObjectOf(kind, v, Nameless, w), HasDomain(kind, w), SizeFits(kind, w),
           NEW n \in ConvertTo(kind, v, w), NEW field,
           stored' = [ver |-> Hub, obj |-> n], last' = [ver |-> v, field |-> field, obj |-> w],
           UNCHANGED <<kind, zoneObj>>
    PROVE  StoredInv' /\ LastInv' /\ ReadYourWrites'
  <1>1. /\ ObjectOf(kind, Hub, Nameless, n) /\ n.saved = <<>> /\ Agree(kind, v, w, n)
    BY Up
  <1>2. HasDomain(kind, n) /\ SizeFits(kind, n)
    BY <1>1, AgreeAdmits
  <1>3. /\ stored'.ver = Hub /\ stored'.obj = n /\ last'.ver = v /\ last'.obj = w
        /\ kind' = kind /\ Nameless' = Nameless
    BY DEF Nameless
  <1>4. stored' # NoObject
    BY DEF NoObject, Hub
  <1>5. StoredInv'
    BY <1>1, <1>2, <1>3, HubFacts DEF StoredInv
  <1>6. LastInv'
    BY <1>3, <1>4 DEF LastInv
  <1>7. \E o \in ConvertFrom(kind, v, n) : o.domains = w.domains /\ Kept(kind, v, o, w)
    BY RoundTrip
  <1>8. ReadYourWrites'
    BY <1>3, <1>7 DEF ReadYourWrites, Kept
  <1> QED BY <1>5, <1>6, <1>8

LEMMA InitEstablishes == Init => IInv
  <1> SUFFICES ASSUME Init PROVE IInv
    OBVIOUS
  <1>1. /\ kind \in Kinds /\ global \in BOOLEAN /\ zoneObj \in BOOLEAN /\ kind \in AllKinds
        /\ last = NoRequest
    BY KindAssumption DEF Init
  <1>2. StoredInv
    <2> SUFFICES ASSUME stored # NoObject
                 PROVE  /\ stored.ver \in Served(kind)
                        /\ ObjectOf(kind, stored.ver, Nameless, stored.obj)
                        /\ stored.obj.saved = <<>>
                        /\ HasDomain(kind, stored.obj) /\ SizeFits(kind, stored.obj)
      BY DEF StoredInv
    <2>1. PICK v \in Served(kind) : \E o \in Legacy(kind, v) : stored = [ver |-> v, obj |-> o]
      BY DEF Init
    <2>2. PICK o \in Legacy(kind, v) : stored = [ver |-> v, obj |-> o]
      BY <2>1
    <2>3. stored.ver = v /\ stored.obj = o
      BY <2>2
    <2>4. ObjectOf(kind, v, Nameless, o) /\ o.saved = <<>>
      BY <1>1, Created DEF Legacy
    <2>5. HasDomain(kind, o)
      BY DEF Legacy, HasDomain
    <2>6. SizeFits(kind, o)
      BY DEF Legacy, SizeFits, MachineCreateValid
    <2> QED BY <2>3, <2>4, <2>5, <2>6
  <1> QED BY <1>1, <1>2 DEF IInv, LastInv, ReadYourWrites

LEMMA CreateKeeps ==
    ASSUME IInv, NEW v \in Served(kind), Create(v)
    PROVE  IInv'
  <1>1. kind \in AllKinds
    BY KindFacts
  <1>2. PICK o \in NewObjects(kind, v) :
          /\ \E n \in ConvertTo(kind, v, o) : ValidateCreate(kind, n)
          /\ \E n \in ConvertTo(kind, v, o) : stored' = [ver |-> Hub, obj |-> n]
          /\ last' = [ver |-> v, field |-> "all", obj |-> o]
    BY DEF Create
  <1>3. PICK n \in ConvertTo(kind, v, o) : stored' = [ver |-> Hub, obj |-> n]
    BY <1>2
  <1>4. PICK m \in ConvertTo(kind, v, o) : ValidateCreate(kind, m)
    BY <1>2
  <1>5. ObjectOf(kind, v, Nameless, o)
    BY <1>1, Created
  <1>6. ObjectOf(kind, Hub, Nameless, m) /\ Agree(kind, v, o, m)
    BY <1>1, <1>5, Up
  <1>7. HasDomain(kind, m) /\ SizeFits(kind, m)
    BY <1>4, CreateAdmits
  <1>8. HasDomain(kind, o) /\ SizeFits(kind, o)
    BY <1>1, <1>5, <1>6, <1>7, AgreeAdmits
  <1>9. UNCHANGED <<kind, global, zoneObj>>
    BY DEF Create
  <1>10. StoredInv' /\ LastInv' /\ ReadYourWrites'
    BY <1>1, <1>2, <1>3, <1>5, <1>8, <1>9, Accepted
  <1> QED BY <1>9, <1>10 DEF IInv

\* A write: what was read, the edit, the object stored, and the admission's own
\* conversions.
Writes(v, old, e, n) ==
    /\ old \in Views(v) /\ e \in Edits(kind, v, old) /\ n \in ConvertTo(kind, v, e.obj)
    /\ \/ e.field \in StatusFields
       \/ \E o \in ConvertTo(kind, v, old), m \in ConvertTo(kind, v, e.obj) :
            ValidateUpdate(kind, m, o)
    /\ stored' = [ver |-> Hub, obj |-> n]
    /\ last' = [ver |-> v, field |-> e.field, obj |-> e.obj]

LEMMA WriteIs ==
    ASSUME NEW v, Write(v)
    PROVE  \E old, e, n : Writes(v, old, e, n)
BY DEF Write, Writes

LEMMA WriteFacts ==
    ASSUME IInv, stored # NoObject, NEW v \in Served(kind), NEW old, NEW e, NEW n,
           Writes(v, old, e, n)
    PROVE  /\ ObjectOf(kind, v, Nameless, old) /\ ObjectOf(kind, v, Nameless, e.obj)
           /\ EditKeeps(kind, v, old, e)
           /\ HasDomain(kind, e.obj) /\ SizeFits(kind, e.obj)
  <1>1. kind \in AllKinds
    BY KindFacts
  <1>2. ObjectOf(kind, v, Nameless, old) /\ HasDomain(kind, old) /\ SizeFits(kind, old)
    BY ViewFacts DEF Writes
  <1>3. ObjectOf(kind, v, Nameless, e.obj) /\ EditKeeps(kind, v, old, e)
    BY <1>1, <1>2, Edited DEF Writes
  <1>4. CASE e.field \in StatusFields
    <2>1. e.field \notin {"domains", "size", "disk"}
      BY <1>4 DEF StatusFields
    <2>2. HasDomain(kind, e.obj)
      BY <2>1, <1>2, <1>3 DEF EditKeeps, HasDomain
    <2>3. kind = "Machine" => {"size", "disk"} \subseteq Fields(kind)
      BY SchemaMachine, AllFields
    <2>4. SizeFits(kind, e.obj)
      BY <2>1, <2>3, <1>2, <1>3 DEF EditKeeps, SizeFits
    <2> QED BY <2>2, <2>4, <1>2, <1>3
  <1>5. CASE e.field \notin StatusFields
    <2>1. PICK o \in ConvertTo(kind, v, old), m \in ConvertTo(kind, v, e.obj) :
            ValidateUpdate(kind, m, o)
      BY <1>5 DEF Writes
    <2>2. HasDomain(kind, m) /\ SizeFits(kind, m)
      BY <2>1, UpdateAdmits
    <2>3. ObjectOf(kind, Hub, Nameless, m) /\ Agree(kind, v, e.obj, m)
      BY <1>1, <1>3, Up
    <2>4. HasDomain(kind, e.obj) /\ SizeFits(kind, e.obj)
      BY <2>2, <2>3, <1>1, <1>3, AgreeAdmits
    <2> QED BY <2>4, <1>2, <1>3
  <1> QED BY <1>4, <1>5

LEMMA WriteKeeps ==
    ASSUME IInv, NEW v \in Served(kind), Write(v)
    PROVE  IInv'
  <1>1. kind \in AllKinds
    BY KindFacts
  <1>2. stored # NoObject /\ UNCHANGED <<kind, global, zoneObj>>
    BY DEF Write
  <1>3. PICK old, e, n : Writes(v, old, e, n)
    BY WriteIs
  <1>4. /\ ObjectOf(kind, v, Nameless, e.obj) /\ HasDomain(kind, e.obj) /\ SizeFits(kind, e.obj)
    BY <1>2, <1>3, WriteFacts
  <1>5. /\ n \in ConvertTo(kind, v, e.obj) /\ stored' = [ver |-> Hub, obj |-> n]
        /\ last' = [ver |-> v, field |-> e.field, obj |-> e.obj]
    BY <1>3 DEF Writes
  <1>6. StoredInv' /\ LastInv' /\ ReadYourWrites'
    BY <1>1, <1>2, <1>4, <1>5, Accepted
  <1> QED BY <1>2, <1>6 DEF IInv

LEMMA Unmoved ==
    ASSUME IInv, UNCHANGED <<kind, zoneObj, stored, last>>, global' \in BOOLEAN
    PROVE  IInv'
  <1>1. Nameless' = Nameless
    BY DEF Nameless
  <1> QED BY <1>1 DEF IInv, StoredInv, LastInv, ReadYourWrites

LEMMA NextKeeps == IInv /\ [Next]_vars => IInv'
  <1> SUFFICES ASSUME IInv, [Next]_vars PROVE IInv'
    OBVIOUS
  <1>1. CASE ChangeGlobal
    <2>1. global' \in BOOLEAN
      BY <1>1 DEF ChangeGlobal
    <2> QED BY <2>1, <1>1, Unmoved DEF ChangeGlobal
  <1>2. ASSUME NEW v \in Served(kind), Create(v) PROVE IInv'
    BY <1>2, CreateKeeps
  <1>3. ASSUME NEW v \in Served(kind), Write(v) PROVE IInv'
    BY <1>3, WriteKeeps
  <1>4. CASE UNCHANGED vars
    BY <1>4, Unmoved DEF vars, IInv
  <1> QED BY <1>1, <1>2, <1>3, <1>4 DEF Next

\* IInv is an invariant of the specification.
THEOREM Invariance == Spec => []IInv
BY InitEstablishes, NextKeeps, PTL DEF Spec

----------------------------------------------------------------------------
\* The invariants.

LEMMA ObjectTyped ==
    ASSUME NEW v, ObjectOf(kind, v, Nameless, stored.obj)
    PROVE  /\ IsObject(stored.obj)
           /\ \A f \in Fields(kind) \ Has(kind, v) : stored.obj.plain[f] = Zero
  <1>1. stored.obj.plain \in Plain(kind) /\ stored.obj.domains \in Seq(FailureDomainSpec)
    BY DEF ObjectOf, Object
  <1>2. /\ DOMAIN stored.obj.plain = Fields(kind)
        /\ \A f \in Fields(kind) : stored.obj.plain[f] \in FieldValues(f)
    BY <1>1, PlainElim
  <1> QED BY <1>1, <1>2 DEF IsObject, ObjectOf

LEMMA RequestTyped ==
    ASSUME NEW v, ObjectOf(kind, v, Nameless, last.obj)
    PROVE  IsObject(last.obj)
  <1>1. last.obj.plain \in Plain(kind) /\ last.obj.domains \in Seq(FailureDomainSpec)
    BY DEF ObjectOf, Object
  <1> QED BY <1>1, PlainElim DEF IsObject

\* Storage never holds an annotation of a conversion, a field its version lacks or
\* a value its field cannot have, whatever versions clients write through.
THEOREM TypeCorrect == Spec => []TypeOK
  <1>1. IInv => TypeOK
    <2> SUFFICES ASSUME IInv PROVE TypeOK
      OBVIOUS
    <2>1. ASSUME stored # NoObject
          PROVE  /\ stored.ver \in Served(kind)
                 /\ IsObject(stored.obj) /\ stored.obj.saved = <<>>
                 /\ \A f \in Fields(kind) \ Has(kind, stored.ver) : stored.obj.plain[f] = Zero
      BY <2>1, ObjectTyped DEF IInv, StoredInv
    <2>2. ASSUME last # NoRequest
          PROVE  last.ver \in Served(kind) /\ IsObject(last.obj)
      BY <2>2, RequestTyped DEF IInv, LastInv
    <2> QED BY <2>1, <2>2 DEF TypeOK, IInv
  <1> QED BY <1>1, Invariance, PTL

\* What a client wrote is what it reads back in that version, but for what v1beta1
\* alone has, which is lost: the restored values of ConvertTo hide no edit, and the
\* zones of a v1beta1 cluster survive GetFailureDomains and getZones.
THEOREM WritesReadBack == Spec => []ReadYourWrites
  <1>1. IInv => ReadYourWrites
    BY DEF IInv
  <1> QED BY <1>1, Invariance, PTL

\* Zones can be named, unless one has to be asked for and there is no secret.
LEMMA Nameable ==
    ASSUME NEW ds \in Seq(FailureDomainSpec),
           global \/ \A i \in DOMAIN ds : ds[i].zone \notin ByName
    PROVE  GetFailureDomains(ds) # {}
  <1> DEFINE name == [i \in DOMAIN ds |-> CHOOSE n \in GetDefaultFailureDomainName(ds[i].zone) : TRUE]
  <1>1. ASSUME NEW i \in DOMAIN ds
        PROVE  /\ name[i] \in GetDefaultFailureDomainName(ds[i].zone)
               /\ name[i] \in Zones \cup {Zero}
    <2>1. ds[i].zone \in Zones
      BY SeqFacts, SpecFields
    <2>2. PICK l \in Lookups : TRUE
      BY KindAssumption
    <2>3. GetDefaultFailureDomainName(ds[i].zone) # {}
      <3> DEFINE z == ds[i].zone
      <3>1. CASE z \notin ByName
        BY <3>1 DEF GetDefaultFailureDomainName
      <3>2. CASE z \in ByName
        <4> DEFINE id(found) == IF found THEN z ELSE fetchZoneIDUsingK8s(z)
        <4>1. global
          BY <3>2
        <4>2. GetDefaultFailureDomainName(z) = {id(found) : found \in Lookups}
          BY <4>1, <3>2, Zenon DEF GetDefaultFailureDomainName
        <4> HIDE DEF id
        <4>3. id(l) \in {id(found) : found \in Lookups}
          BY <2>2
        <4> QED BY <4>2, <4>3
      <3> QED BY <3>1, <3>2
    <2>4. name[i] \in GetDefaultFailureDomainName(ds[i].zone)
      BY <2>3
    <2> QED BY <2>1, <2>4, DefaultNames
  <1>2. name \in [DOMAIN ds -> Zones \cup {Zero}]
    BY <1>1
  <1> HIDE DEF name
  <1>3. [i \in DOMAIN ds |-> [ds[i] EXCEPT !.name = name[i], !.secret = "global"]]
          \in GetFailureDomains(ds)
    BY <1>1, <1>2, Zenon DEF GetFailureDomains
  <1> QED BY <1>3

LEMMA Raisable ==
    ASSUME NEW k \in AllKinds, NEW v \in Served(k),
           NEW w, ObjectOf(k, v, Nameless, w), ConvertTo(k, v, w) = {}
    PROVE  AsZones(k, v) /\ ~global /\ \E i \in DOMAIN w.domains : w.domains[i].zone \in ByName
  <1>1. AsZones(k, v)
    <2>1. v # Hub
      <3> SUFFICES ASSUME v = Hub PROVE FALSE
        OBVIOUS
      <3>1. w \in ConvertTo(k, v, w)
        BY ConvertToCases
      <3> QED BY <3>1
    <2> SUFFICES ASSUME ~AsZones(k, v) PROVE FALSE
      OBVIOUS
    <2>2. ConvertTo(k, v, w) =
            {[plain |-> RaisedPlain(k, v, w), domains |-> w.domains, saved |-> <<>>]}
      BY <2>1, ConvertToCases
    <2> QED BY <2>2
  <1>2. w.domains \in Seq(FailureDomainSpec)
    BY DEF ObjectOf, Object
  <1>3. GetFailureDomains(w.domains) = {}
    <2> SUFFICES ASSUME NEW ds \in GetFailureDomains(w.domains) PROVE FALSE
      OBVIOUS
    <2>1. [plain |-> CarriedPlain("Cluster", 1, w.plain), domains |-> ds, saved |-> <<>>]
            \in ConvertCluster1To3(w)
      BY DEF ConvertCluster1To3
    <2> QED BY <2>1, <1>1, ConvertToCases
  <1> QED BY <1>1, <1>2, <1>3, Nameable

LEMMA Lowerable ==
    ASSUME NEW k \in AllKinds, NEW v \in Served(k), NEW o, HasDomain(k, o)
    PROVE  ConvertFrom(k, v, o) # {}
  <1>1. CASE v = Hub
    <2>1. o \in ConvertFrom(k, v, o)
      BY <1>1, ConvertFromCases
    <2> QED BY <2>1
  <1>2. CASE AsZones(k, v)
    <2>1. ConvertCluster3To1(o) # {}
      BY <1>2 DEF ConvertCluster3To1, HasDomain, AsZones
    <2> QED BY <2>1, <1>2, ConvertFromCases
  <1>3. CASE v # Hub /\ ~AsZones(k, v)
    <2>1. Lowered(k, v, o) \in ConvertFrom(k, v, o)
      BY <1>3, ConvertFromCases
    <2> QED BY <2>1
  <1> QED BY <1>1, <1>2, <1>3

\* Every version of an object can be read, unless a v1beta1 cluster is still stored
\* as such, a zone of it is given by name, and the secret is missing: the webhooks
\* never admit a cluster that getZones has no zone for.
THEOREM AlwaysReadable == Spec => []Readable
  <1>1. IInv => Readable
    <2> SUFFICES ASSUME IInv, NEW v \in Served(kind), stored # NoObject, Views(v) = {}
                 PROVE  /\ stored.ver = 1 /\ kind = "Cluster" /\ ~global
                        /\ \E i \in DOMAIN stored.obj.domains :
                             stored.obj.domains[i].zone \in ByName
      BY DEF Readable
    <2>1. v # stored.ver
      BY DEF Views
    <2>2. HubViews = {}
      <3> SUFFICES ASSUME NEW o \in HubViews PROVE FALSE
        OBVIOUS
      <3>1. HasDomain(kind, o)
        BY HubViewFacts
      <3>2. ConvertFrom(kind, v, o) # {}
        BY <3>1, KindFacts, Lowerable
      <3> QED BY <3>2, <2>1 DEF Views
    <2>3. /\ stored.ver \in Served(kind) /\ ObjectOf(kind, stored.ver, Nameless, stored.obj)
      BY DEF IInv, StoredInv
    <2>4. /\ AsZones(kind, stored.ver) /\ ~global
          /\ \E i \in DOMAIN stored.obj.domains : stored.obj.domains[i].zone \in ByName
      BY <2>2, <2>3, KindFacts, Raisable DEF HubViews
    <2> QED BY <2>4 DEF AsZones
  <1> QED BY <1>1, Invariance, PTL

\* A list with different names passes for an update of itself.
LEMMA UnchangedDomains ==
    ASSUME NEW ds \in Seq(FailureDomainSpec), ds # <<>>,
           \A i, j \in DOMAIN ds : i # j => ds[i].name # ds[j].name
    PROVE  ValidateFailureDomainUpdates(ds, ds)
  <1>1. DOMAIN ds \subseteq Nat /\ 1 \in DOMAIN ds
    BY SeqFacts
  <1>2. ASSUME NEW i \in DOMAIN ds PROVE NewByName(ds, ds[i].name) = {ds[i]}
    <2> DEFINE at == {j \in DOMAIN ds : ds[j].name = ds[i].name}
    <2>1. at = {i}
      OBVIOUS
    <2>2. {j \in at : \A h \in at : h <= j} = {i}
      BY <2>1, <1>1
    <2>3. NewByName(ds, ds[i].name) = {ds[h] : h \in {j \in at : \A g \in at : g <= j}}
      BY DEF NewByName
    <2> HIDE DEF at
    <2> QED BY <2>2, <2>3
  <1>3. \A i \in DOMAIN ds : FailureDomainsEqual(ds[i], ds[i])
    BY DEF FailureDomainsEqual
  <1> QED BY <1>1, <1>2, <1>3 DEF ValidateFailureDomainUpdates

\* Two conversions, of an object and of the object with other labels, that a
\* webhook cannot tell apart but by the labels.
SameButLabels(k, n, o) ==
    /\ n.domains = o.domains
    /\ \A f \in Fields(k) \ {"labels"} : n.plain[f] = o.plain[f]

Relabelled(old) == [old EXCEPT !.plain["labels"] = "new"]

LEMMA Relabel ==
    ASSUME NEW k \in AllKinds, NEW v \in Served(k), NEW zs,
           NEW old, ObjectOf(k, v, zs, old), NEW o \in ConvertTo(k, v, old)
    PROVE  \E n \in ConvertTo(k, v, Relabelled(old)) : SameButLabels(k, n, o)
  <1> DEFINE new == Relabelled(old)
  <1>1. old \in Object(k) /\ old.plain \in Plain(k)
    BY DEF ObjectOf, Object
  <1>2. new = [plain |-> [old.plain EXCEPT !["labels"] = "new"], domains |-> old.domains,
               saved |-> old.saved]
    BY <1>1 DEF Relabelled, Object
  <1>3. \A f \in Fields(k) \ {"labels"} : new.plain[f] = old.plain[f]
    BY <1>1, <1>2, PlainElim
  <1>4. new.domains = old.domains /\ new.saved = old.saved
    BY <1>2
  <1> HIDE DEF new
  <1>5. \A f \in Fields(k) \ {"labels"} :
          CarriedPlain(k, v, new.plain)[f] = CarriedPlain(k, v, old.plain)[f]
    BY <1>3 DEF CarriedPlain
  <1>6. CASE v = Hub
    <2>1. o = old /\ new \in ConvertTo(k, v, new)
      BY <1>6, ConvertToCases
    <2>2. SameButLabels(k, new, o)
      BY <2>1, <1>3, <1>4 DEF SameButLabels
    <2> QED BY <2>1, <2>2 DEF new
  <1>7. CASE AsZones(k, v)
    <2>1. PICK ds \in GetFailureDomains(old.domains) :
            o = [plain |-> CarriedPlain("Cluster", 1, old.plain), domains |-> ds, saved |-> <<>>]
      BY <1>7, ConvertToCases DEF ConvertCluster1To3
    <2> DEFINE n == [plain |-> CarriedPlain("Cluster", 1, new.plain), domains |-> ds,
                     saved |-> <<>>]
    <2>2. n \in ConvertCluster1To3(new)
      BY <1>4 DEF ConvertCluster1To3
    <2>3. n \in ConvertTo(k, v, new)
      BY <2>2, <1>7, ConvertToCases
    <2>4. SameButLabels(k, n, o)
      BY <2>1, <1>5, <1>7 DEF SameButLabels, AsZones
    <2> HIDE DEF n
    <2> QED BY <2>3, <2>4 DEF new
  <1>8. CASE v # Hub /\ ~AsZones(k, v)
    <2>1. o = [plain |-> RaisedPlain(k, v, old), domains |-> old.domains, saved |-> <<>>]
      BY <1>8, ConvertToCases
    <2> DEFINE n == [plain |-> RaisedPlain(k, v, new), domains |-> new.domains, saved |-> <<>>]
    <2>2. ConvertTo(k, v, new) = {n}
      BY <1>8, ConvertToCases
    <2>3. \A f \in Fields(k) \ {"labels"} : RaisedPlain(k, v, new)[f] = RaisedPlain(k, v, old)[f]
      BY <1>4, <1>5 DEF RaisedPlain
    <2>4. SameButLabels(k, n, o)
      BY <2>1, <2>3, <1>4 DEF SameButLabels
    <2> HIDE DEF n
    <2> QED BY <2>2, <2>4 DEF new
  <1> QED BY <1>6, <1>7, <1>8

\* Fields that the webhooks look at.
LEMMA WatchedFields ==
    /\ {"offering", "disk", "affinity", "groupIDs", "size"} \subseteq Fields("Machine") \ {"labels"}
    /\ {"offering", "disk", "affinity", "groupIDs"} \subseteq Fields("Template") \ {"labels"}
    /\ "endpoint" \in Fields("Cluster") \ {"labels"}
BY SchemaMachine, SchemaTemplate, SchemaCluster, AllFields

LEMMA RelabelAdmitted ==
    ASSUME NEW k \in AllKinds, NEW n, NEW o, ObjectOf(k, Hub, Nameless, o), SameButLabels(k, n, o),
           HasDomain(k, o), k = "Machine" => o.plain["size"] # "negative",
           k = "Cluster" => \A i, j \in DOMAIN o.domains :
                                i # j => o.domains[i].name # o.domains[j].name
    PROVE  ValidateUpdate(k, n, o)
  <1>1. CASE k = "Machine"
    <2>1. MachineUpdateValid(n, o)
      BY <1>1, WatchedFields DEF SameButLabels, MachineUpdateValid
    <2> QED BY <2>1, <1>1, ValidateCases
  <1>2. CASE k = "Template"
    <2>1. TemplateUpdateValid(n, o)
      BY <1>2, WatchedFields DEF SameButLabels, TemplateUpdateValid
    <2> QED BY <2>1, <1>2, ValidateCases
  <1>3. CASE k = "Cluster"
    <2>1. o.domains \in Seq(FailureDomainSpec) /\ o.domains # <<>>
      BY <1>3 DEF ObjectOf, Object, HasDomain
    <2>2. ValidateFailureDomainUpdates(o.domains, o.domains)
      BY <2>1, <1>3, UnchangedDomains
    <2>3. n.domains = o.domains /\ n.plain["endpoint"] = o.plain["endpoint"]
      BY <1>3, WatchedFields DEF SameButLabels
    <2>4. ClusterUpdateValid(n, o)
      BY <2>2, <2>3 DEF ClusterUpdateValid
    <2> QED BY <2>4, <1>3, ValidateCases
  <1>4. CASE k \notin {"Machine", "Template", "Cluster"}
    BY <1>4, ValidateCases
  <1> QED BY <1>1, <1>2, <1>3, <1>4

\* A change of labels is admitted through every version, but for the three
\* exceptions of UpdatesAdmitted: ValidateUpdate holds nothing against an object
\* that the earlier requests have led to.
THEOREM AlwaysUpdatable == Spec => []UpdatesAdmitted
  <1>1. IInv => UpdatesAdmitted
    <2> SUFFICES ASSUME IInv, stored # NoObject, NEW v \in Served(kind), NEW old \in Views(v),
                        ~(kind = "Machine" /\ old.plain["disk"] = Zero
                            /\ old.plain["size"] = "negative"),
                        ~(kind = "Cluster" /\ v = 1 /\ ~global),
                        ~(kind = "Cluster" /\ ~zoneObj /\ ByNameTwins(old.domains))
                 PROVE  \E o \in ConvertTo(kind, v, old), n \in ConvertTo(kind, v, Relabelled(old)) :
                            ValidateUpdate(kind, n, o)
      BY DEF UpdatesAdmitted, Relabelled
    <2>1. kind \in AllKinds
      BY KindFacts
    <2>2. ObjectOf(kind, v, Nameless, old) /\ HasDomain(kind, old) /\ SizeFits(kind, old)
      BY ViewFacts
    <2>3. PICK o \in ConvertTo(kind, v, old) : TRUE
      <3>1. ConvertTo(kind, v, old) # {}
        BY <2>1, <2>2, Raisable DEF AsZones
      <3> QED BY <3>1
    <2>4. /\ ObjectOf(kind, Hub, Nameless, o) /\ Agree(kind, v, old, o)
          /\ AsZones(kind, v) \/ o.domains = old.domains
      BY <2>1, <2>2, <2>3, Up
    <2>5. HasDomain(kind, o) /\ SizeFits(kind, o)
      BY <2>1, <2>2, <2>4, AgreeAdmits
    <2>6. PICK n \in ConvertTo(kind, v, Relabelled(old)) : SameButLabels(kind, n, o)
      BY <2>1, <2>2, <2>3, Relabel
    <2>7. kind = "Machine" => o.plain["size"] # "negative"
      BY <2>2, <2>4, MachineFields DEF Agree, SizeFits
    <2>8. ASSUME kind = "Cluster", NEW i \in DOMAIN o.domains, NEW j \in DOMAIN o.domains, i # j,
                 o.domains[i].name = o.domains[j].name
          PROVE  FALSE
      <3>1. o.domains[i].zone \in Nameless /\ o.domains[j].zone \in Nameless
        BY <2>4, <2>8 DEF ObjectOf, DomainsOf, NamesDistinct, AsZones, Hub
      <3>2. ~zoneObj /\ o.domains[i].zone \in ByName /\ o.domains[j].zone \in ByName
        BY <3>1 DEF Nameless
      <3>3. /\ i \in DOMAIN old.domains /\ j \in DOMAIN old.domains
            /\ old.domains[i].zone = o.domains[i].zone /\ old.domains[j].zone = o.domains[j].zone
        BY <2>4 DEF Agree
      <3>4. old.domains[i].name = old.domains[j].name
        BY <3>3, <2>2, <2>4, <2>8 DEF ObjectOf, DomainsOf
      <3>5. ByNameTwins(old.domains)
        BY <3>2, <3>3, <3>4, <2>8 DEF ByNameTwins
      <3> QED BY <3>2, <3>5, <2>8
    <2>9. ValidateUpdate(kind, n, o)
      BY <2>1, <2>4, <2>5, <2>6, <2>7, <2>8, RelabelAdmitted
    <2> QED BY <2>9
  <1> QED BY <1>1, Invariance, PTL

----------------------------------------------------------------------------
\* The action properties. The object in storage changes by writes alone.

LEMMA ChangeIsWrite ==
    ASSUME IInv, [Next]_vars, stored # NoObject, stored' # stored
    PROVE  \E v \in Served(kind) : \E old, e, n : Writes(v, old, e, n)
  <1>1. PICK v \in Served(kind) : Write(v)
    BY DEF Next, vars, ChangeGlobal, Create
  <1> QED BY <1>1, WriteIs

LEMMA WriteEffect ==
    ASSUME IInv, stored # NoObject, NEW v \in Served(kind), NEW old, NEW e, NEW n,
           Writes(v, old, e, n)
    PROVE  /\ stored'.obj = n /\ last'.ver = v /\ last'.field = e.field
           /\ Agree(kind, v, e.obj, n)
           /\ AsZones(kind, v) \/ n.domains = e.obj.domains
           /\ v = Hub \/ AsZones(kind, v) \/ n.plain = RaisedPlain(kind, v, e.obj)
  <1>1. n \in ConvertTo(kind, v, e.obj) /\ ObjectOf(kind, v, Nameless, e.obj) /\ kind \in AllKinds
    BY WriteFacts, KindFacts DEF Writes
  <1>2. /\ Agree(kind, v, e.obj, n)
        /\ AsZones(kind, v) \/ n.domains = e.obj.domains
        /\ v = Hub \/ AsZones(kind, v) \/ n.plain = RaisedPlain(kind, v, e.obj)
    BY <1>1, Up
  <1> QED BY <1>2 DEF Writes

\* A write in the version of a stored object finds that object convertible.
LEMMA StoredConvertible ==
    ASSUME IInv, stored # NoObject, NEW v \in Served(kind), NEW old, NEW e, NEW n,
           Writes(v, old, e, n)
    PROVE  HubViews # {}
  <1> SUFFICES ASSUME HubViews = {} PROVE FALSE
    OBVIOUS
  <1>1. kind \in AllKinds
    BY KindFacts
  <1>2. v = stored.ver /\ old = stored.obj
    BY ViewFacts DEF Writes
  <1>3. ObjectOf(kind, v, Nameless, old) /\ EditKeeps(kind, v, old, e)
    BY WriteFacts
  <1>4. AsZones(kind, v)
    BY <1>1, <1>2, <1>3, Raisable DEF HubViews
  <1>5. \A o : ConvertTo(kind, v, o) = ConvertCluster1To3(o)
    BY <1>4, ConvertToCases
  <1>6. CASE e.field \in StatusFields
    <2>1. e.obj.domains = old.domains
      BY <1>3, <1>6 DEF EditKeeps, StatusFields
    <2>2. ConvertCluster1To3(e.obj) # {}
      BY <1>5 DEF Writes
    <2>3. PICK ds \in GetFailureDomains(old.domains) : TRUE
      BY <2>1, <2>2 DEF ConvertCluster1To3
    <2>4. ConvertCluster1To3(old) # {}
      BY <2>3 DEF ConvertCluster1To3
    <2> QED BY <2>4, <1>2, <1>5 DEF HubViews
  <1>7. CASE e.field \notin StatusFields
    <2>1. \E o \in ConvertTo(kind, v, old) : TRUE
      BY <1>7 DEF Writes
    <2> QED BY <2>1, <1>2 DEF HubViews
  <1> QED BY <1>6, <1>7

LEMMA PromiseKept ==
    ASSUME IInv, stored # NoObject, NEW v \in Served(kind), NEW old, NEW e, NEW n,
           Writes(v, old, e, n), NEW f \in Promised(kind, v) \ {e.field}
    PROVE  \E o \in HubViews : n.plain[f] = o.plain[f]
  <1>1. kind \in AllKinds
    BY KindFacts
  <1>2. /\ ObjectOf(kind, v, Nameless, old) /\ ObjectOf(kind, v, Nameless, e.obj)
        /\ EditKeeps(kind, v, old, e)
    BY WriteFacts
  <1>3. /\ Agree(kind, v, e.obj, n)
        /\ v = Hub \/ AsZones(kind, v) \/ n.plain = RaisedPlain(kind, v, e.obj)
    BY WriteEffect
  <1>4. /\ f \in Fields(kind)
        /\ f \in Carried(kind, v) \/ (f \in Restored(kind, v) /\ <<kind, v>> \in Saving)
        /\ <<kind, v>> \in Saving => v # Hub /\ kind # "Cluster"
    BY <1>1, Tables
  <1>5. e.obj.plain[f] = old.plain[f] /\ e.obj.saved = old.saved
    BY <1>2, <1>4 DEF EditKeeps
  <1>6. /\ stored.ver \in Served(kind) /\ ObjectOf(kind, stored.ver, Nameless, stored.obj)
        /\ stored.obj.saved = <<>>
    BY DEF IInv, StoredInv
  \* What the annotation, or its absence, makes of a field that the version lacks.
  <1>7. ASSUME f \notin Carried(kind, v)
        PROVE  /\ n.plain = RaisedPlain(kind, v, e.obj)
               /\ old.saved = <<>> => n.plain[f] = Zero
               /\ old.saved \in Plain(kind) => n.plain[f] = old.saved[f]
    <2>1. n.plain = RaisedPlain(kind, v, e.obj)
      BY <1>3, <1>4, <1>7 DEF AsZones
    <2>2. /\ e.obj.saved = <<>> => RaisedPlain(kind, v, e.obj)[f] = Zero
          /\ e.obj.saved \in Plain(kind) => RaisedPlain(kind, v, e.obj)[f] = e.obj.saved[f]
      BY <1>1, <1>2, <1>4, <1>7, Raised
    <2> QED BY <2>1, <2>2, <1>5
  <1>8. CASE v = stored.ver
    <2>1. old = stored.obj
      BY <1>8, ViewFacts DEF Writes
    <2>2. PICK o \in HubViews : TRUE
      BY StoredConvertible
    <2>3. /\ Agree(kind, v, old, o)
          /\ v = Hub \/ AsZones(kind, v) \/ o.plain = RaisedPlain(kind, v, old)
      BY <2>1, <2>2, <1>1, <1>6, <1>8, Up DEF HubViews
    <2>4. CASE f \in Carried(kind, v)
      BY <2>3, <2>4, <1>3, <1>5 DEF Agree
    <2>5. CASE f \notin Carried(kind, v)
      <3>1. o.plain = RaisedPlain(kind, v, old)
        BY <2>3, <2>5, <1>4 DEF AsZones
      <3>2. RaisedPlain(kind, v, old)[f] = Zero
        BY <2>1, <2>5, <1>1, <1>2, <1>4, <1>6, Raised
      <3>3. n.plain[f] = Zero
        BY <2>1, <2>5, <1>6, <1>7
      <3> QED BY <3>1, <3>2, <3>3
    <2> QED BY <2>4, <2>5
  <1>9. CASE v # stored.ver
    <2>1. PICK o \in HubViews : old \in ConvertFrom(kind, v, o)
      BY <1>9, ViewFacts DEF Writes
    <2>2. ObjectOf(kind, Hub, Nameless, o)
      BY HubViewFacts
    <2>3. Agree(kind, v, old, o) /\ (<<kind, v>> \in Saving => old.saved = o.plain)
      BY <2>1, <2>2, <1>1, Down
    <2>4. CASE f \in Carried(kind, v)
      BY <2>3, <2>4, <1>3, <1>5 DEF Agree
    <2>5. CASE f \notin Carried(kind, v)
      <3>1. old.saved = o.plain /\ old.saved \in Plain(kind)
        BY <2>2, <2>3, <2>5, <1>4 DEF ObjectOf, Object
      <3> QED BY <3>1, <2>5, <1>7
    <2> QED BY <2>4, <2>5
  <1> QED BY <1>8, <1>9

\* A write through an old version keeps the hub's fields that MarshalData saves for
\* it, and those its version has and it does not edit.
THEOREM NewFieldsKept == Spec => OldWritesKeepNew
  <1> DEFINE Step == stored # NoObject /\ stored' # stored =>
                        \A f \in Promised(kind, last'.ver) \ {last'.field} :
                            \E o \in HubViews : stored'.obj.plain[f] = o.plain[f]
  <1>1. IInv /\ [Next]_vars => [Step]_vars
    <2> SUFFICES ASSUME IInv, [Next]_vars, stored # NoObject, stored' # stored,
                        NEW f \in Promised(kind, last'.ver) \ {last'.field}
                 PROVE  \E o \in HubViews : stored'.obj.plain[f] = o.plain[f]
      OBVIOUS
    <2>1. PICK v \in Served(kind) : \E old, e, n : Writes(v, old, e, n)
      BY ChangeIsWrite
    <2>2. PICK old, e, n : Writes(v, old, e, n)
      BY <2>1
    <2>3. stored'.obj = n /\ last'.ver = v /\ last'.field = e.field
      BY <2>2, WriteEffect
    <2>4. \E o \in HubViews : n.plain[f] = o.plain[f]
      BY <2>2, <2>3, PromiseKept
    <2> QED BY <2>3, <2>4
  <1> QED BY <1>1, Invariance, PTL DEF Spec, OldWritesKeepNew

LEMMA EndpointCarried ==
    \A v \in Served("Cluster") : "endpoint" \in Carried("Cluster", v)
BY SchemaCluster DEF Served, Versions, Carried, Hub

\* The control plane endpoint stays once its port is one that string() tells apart:
\* the webhook's comparison (ClusterUpdateValid) survives every conversion.
THEOREM EndpointStays == Spec => EndpointFixed
  <1> DEFINE Step == kind = "Cluster" /\ stored # NoObject /\ stored' # stored =>
                        \A o \in HubViews :
                            o.plain["endpoint"] \notin {Zero} \cup NonRunes =>
                                stored'.obj.plain["endpoint"] = o.plain["endpoint"]
  <1>1. IInv /\ [Next]_vars => [Step]_vars
    <2> SUFFICES ASSUME IInv, [Next]_vars, kind = "Cluster", stored # NoObject, stored' # stored,
                        NEW o \in HubViews, o.plain["endpoint"] \notin {Zero} \cup NonRunes
                 PROVE  stored'.obj.plain["endpoint"] = o.plain["endpoint"]
      OBVIOUS
    <2> DEFINE p == o.plain["endpoint"]
    <2>1. PICK v \in Served(kind) : \E old, e, n : Writes(v, old, e, n)
      BY ChangeIsWrite
    <2>2. PICK old, e, n : Writes(v, old, e, n)
      BY <2>1
    <2>3. /\ ObjectOf(kind, v, Nameless, old) /\ ObjectOf(kind, v, Nameless, e.obj)
          /\ EditKeeps(kind, v, old, e) /\ kind \in AllKinds
      BY <2>2, WriteFacts, KindFacts
    <2>4. stored'.obj = n /\ Agree(kind, v, e.obj, n)
      BY <2>2, WriteEffect
    <2>5. "endpoint" \in Carried(kind, v) /\ "endpoint" \in Carried(kind, stored.ver)
      BY EndpointCarried DEF IInv, StoredInv
    <2>6. "endpoint" \in Fields(kind)
      BY <2>3, <2>5, Tables
    <2>7. stored.obj.plain["endpoint"] = p
      BY <2>5, HubViewFacts DEF Agree
    <2>8. old.plain["endpoint"] = p
      <3>1. CASE v = stored.ver
        BY <3>1, <2>2, <2>7, ViewFacts DEF Writes
      <3>2. CASE v # stored.ver
        <4>1. PICK h \in HubViews : old \in ConvertFrom(kind, v, h)
          BY <3>2, <2>2, ViewFacts DEF Writes
        <4>2. ObjectOf(kind, Hub, Nameless, h) /\ Agree(kind, stored.ver, stored.obj, h)
          BY HubViewFacts
        <4>3. Agree(kind, v, old, h)
          BY <4>1, <4>2, <2>3, Down
        <4> QED BY <4>2, <4>3, <2>5, <2>7 DEF Agree
      <3> QED BY <3>1, <3>2
    <2>9. p \in Ports
      <3>1. old.plain \in Plain(kind)
        BY <2>3 DEF ObjectOf, Object
      <3>2. p \in FieldValues("endpoint")
        BY <3>1, <2>6, <2>8, PlainElim
      <3> QED BY <3>2, FieldValuesOf
    <2>10. n.plain["endpoint"] = e.obj.plain["endpoint"]
      BY <2>4, <2>5 DEF Agree
    <2>11. CASE e.field # "endpoint"
      BY <2>3, <2>4, <2>6, <2>8, <2>10, <2>11 DEF EditKeeps
    <2>12. CASE e.field = "endpoint"
      <3>1. PICK h \in ConvertTo(kind, v, old), m \in ConvertTo(kind, v, e.obj) :
              ValidateUpdate(kind, m, h)
        BY <2>2, <2>12 DEF Writes, StatusFields
      <3>2. Agree(kind, v, old, h)
        BY <2>3, <3>1, Up
      <3>3. Agree(kind, v, e.obj, m)
        BY <2>3, <3>1, Up
      <3>4. h.plain["endpoint"] = p /\ m.plain["endpoint"] = e.obj.plain["endpoint"]
        BY <3>2, <3>3, <2>5, <2>8 DEF Agree
      <3>5. PortString(e.obj.plain["endpoint"]) = PortString(p)
        BY <3>1, <3>4, ValidateCases DEF ClusterUpdateValid
      <3>6. e.obj.plain["endpoint"] = p
        BY <3>5, <2>9, KindAssumption DEF PortString
      <3> QED BY <3>6, <2>4, <2>10
    <2> QED BY <2>11, <2>12
  <1> QED BY <1>1, Invariance, PTL DEF Spec, EndpointFixed

\* With the CloudStackZone objects a zone's name is its id, whoever is asked.
LEMMA NamedByZone ==
    ASSUME NEW k \in AllKinds, NEW v \in Served(k), AsZones(k, v), zoneObj,
           NEW w, ObjectOf(k, v, Nameless, w), NEW n \in ConvertTo(k, v, w)
    PROVE  \A i \in DOMAIN w.domains : n.domains[i].name = w.domains[i].zone
  <1>1. w.domains \in Seq(FailureDomainSpec)
    BY DEF ObjectOf, Object
  <1>2. n.domains \in GetFailureDomains(w.domains)
    BY ConvertToCases DEF ConvertCluster1To3
  <1> SUFFICES ASSUME NEW i \in DOMAIN w.domains
               PROVE  n.domains[i].name = w.domains[i].zone
    OBVIOUS
  <1>3. n.domains[i].name \in GetDefaultFailureDomainName(w.domains[i].zone)
    BY <1>1, <1>2, ListFrom1
  <1>4. w.domains[i].zone \in Zones
    BY <1>1, SeqFacts, SpecFields
  <1> QED BY <1>3, <1>4, DefaultNames DEF Nameless

\* With the CloudStackZone objects, writes of v1beta2 and v1beta3 clients that are
\* not about failure domains leave their names (GetDefaultFailureDomainName).
THEOREM NamesKept == Spec => NamesStable
  <1> DEFINE Step == kind = "Cluster" /\ zoneObj /\ stored # NoObject /\ stored' # stored
                        /\ last'.ver # 1 /\ last'.field # "domains" =>
                            \A o \in HubViews : DomainNames(o) = DomainNames(stored'.obj)
  <1>1. IInv /\ [Next]_vars => [Step]_vars
    <2> SUFFICES ASSUME IInv, [Next]_vars, kind = "Cluster", zoneObj, stored # NoObject,
                        stored' # stored, last'.ver # 1, last'.field # "domains",
                        NEW o \in HubViews
                 PROVE  DomainNames(o) = DomainNames(stored'.obj)
      OBVIOUS
    <2>1. PICK v \in Served(kind) : \E old, e, n : Writes(v, old, e, n)
      BY ChangeIsWrite
    <2>2. PICK old, e, n : Writes(v, old, e, n)
      BY <2>1
    <2>3. stored'.obj = n /\ last'.ver = v /\ last'.field = e.field
      BY <2>2, WriteEffect
    <2>4. ~AsZones(kind, v)
      BY <2>3 DEF AsZones
    <2>5. n.domains = e.obj.domains
      BY <2>2, <2>4, WriteEffect
    <2>6. EditKeeps(kind, v, old, e) /\ kind \in AllKinds
      BY <2>2, WriteFacts, KindFacts
    <2>7. n.domains = old.domains
      BY <2>3, <2>5, <2>6 DEF EditKeeps
    <2>8. /\ stored.ver \in Served(kind) /\ ObjectOf(kind, stored.ver, Nameless, stored.obj)
      BY DEF IInv, StoredInv
    \* All hub views have the same names.
    <2>9. ASSUME NEW h \in HubViews
          PROVE  /\ DOMAIN h.domains = DOMAIN o.domains
                 /\ \A i \in DOMAIN o.domains : h.domains[i].name = o.domains[i].name
      <3>1. Agree(kind, stored.ver, stored.obj, h) /\ Agree(kind, stored.ver, stored.obj, o)
        BY HubViewFacts
      <3>2. DOMAIN h.domains = DOMAIN stored.obj.domains /\ DOMAIN o.domains = DOMAIN stored.obj.domains
        BY <3>1 DEF Agree
      <3>3. CASE AsZones(kind, stored.ver)
        <4>1. h \in ConvertTo(kind, stored.ver, stored.obj)
              /\ o \in ConvertTo(kind, stored.ver, stored.obj)
          BY DEF HubViews
        <4>2. \A i \in DOMAIN stored.obj.domains : h.domains[i].name = stored.obj.domains[i].zone
          BY <4>1, <3>3, <2>6, <2>8, NamedByZone
        <4>3. \A i \in DOMAIN stored.obj.domains : o.domains[i].name = stored.obj.domains[i].zone
          BY <4>1, <3>3, <2>6, <2>8, NamedByZone
        <4> QED BY <4>2, <4>3, <3>2
      <3>4. CASE ~AsZones(kind, stored.ver)
        BY <3>1, <3>2, <3>4 DEF Agree
      <3> QED BY <3>2, <3>3, <3>4
    <2>10. PICK h \in HubViews :
             /\ DOMAIN old.domains = DOMAIN h.domains
             /\ \A i \in DOMAIN h.domains : old.domains[i].name = h.domains[i].name
      <3>1. CASE v = stored.ver
        <4>1. old = stored.obj
          BY <3>1, <2>2, ViewFacts DEF Writes
        <4>2. Agree(kind, v, old, o)
          BY <4>1, <3>1, HubViewFacts
        <4> QED BY <4>2, <2>4 DEF Agree
      <3>2. CASE v # stored.ver
        <4>1. PICK h \in HubViews : old \in ConvertFrom(kind, v, h)
          BY <3>2, <2>2, ViewFacts DEF Writes
        <4>2. ObjectOf(kind, Hub, Nameless, h)
          BY HubViewFacts
        <4>3. Agree(kind, v, old, h)
          BY <4>1, <4>2, <2>6, Down
        <4> QED BY <4>3, <2>4 DEF Agree
      <3> QED BY <3>1, <3>2
    <2> QED BY <2>3, <2>7, <2>9, <2>10 DEF DomainNames
  <1> QED BY <1>1, Invariance, PTL DEF Spec, NamesStable

=============================================================================
