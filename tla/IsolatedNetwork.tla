--------------------------- MODULE IsolatedNetwork ---------------------------
(***************************************************************************)
(* Isolated networks and API endpoints: the CloudStackIsolatedNetwork      *)
(* controller of several clusters that name the same network, with the     *)
(* CloudStack resources it creates, tags and disposes of.                  *)
(*                                                                         *)
(* Every cluster has one CloudStackIsolatedNetwork object and one          *)
(* CloudStackCluster object, of which only the control plane endpoint host *)
(* matters. An object is reconciled by one pass at a time; there is no     *)
(* event predicate, and resyncs queue it again and again, so a pass may    *)
(* start whenever none is running. One action is one CloudStack or API     *)
(* server call (a tag is read and written in one).                         *)
(*                                                                         *)
(* The specs name a VPC or not, and the network offering makes the network *)
(* a routed one or not: that is the layout, the same for all clusters.     *)
(*                                                                         *)
(* Simplifications: public IPs are not source NAT addresses; firewall      *)
(* rules are opened or not (the three protocols are not told apart); a     *)
(* public IP stands for both its id (Status.PublicIPID) and its address    *)
(* (the endpoint host); a routed network's endpoint, which the user gives, *)
(* is left out.                                                            *)
(***************************************************************************)
EXTENDS Naturals, FiniteSets

CONSTANTS
    Clusters,      \* clusters whose failure domain names the network
    Nets,          \* ids CloudStack may give to networks of that name
    Vpcs,          \* ids CloudStack may give to VPCs of the name the specs give
    Provided,      \* the networks and VPCs that may have been there before
    Layouts,       \* which of "plain", "vpc" and "routed" to look at
    IPs,           \* public IP addresses of the zone
    None,          \* an empty field
    Disturbances,  \* which kinds of disturbance may happen
    MaxFaults      \* bound on the number of disturbances

ASSUME NetAssumption ==
    /\ None \notin Nets \cup Vpcs \cup IPs /\ Nets \cap Vpcs = {}
    /\ Provided \subseteq Nets \cup Vpcs /\ Layouts \subseteq {"plain", "vpc", "routed"}
ASSUME BoundAssumption == MaxFaults \in Nat /\ Disturbances \subseteq {"error", "crash"}

VARIABLES
    layout,    \* what the specs and the network offering ask for
    obj,       \* obj[c]: the stored CloudStackIsolatedNetwork
    seen,      \* seen[c]: the informer cache's copy of it
    host,      \* host[c]: the stored endpoint host of the CloudStackCluster
    hostSeen,  \* hostSeen[c]: the informer cache's copy of it
    pc,        \* pc[c]: the next call of the pass on obj[c]
    base,      \* base[c]: the object as the pass read it
    loc,       \* loc[c]: the pass's working copy
    hbase,     \* hbase[c]: the endpoint host as the pass read it
    hloc,      \* hloc[c]: the endpoint host in the pass's CloudStackCluster
    net,       \* CloudStack's networks
    vpc,       \* CloudStack's VPCs
    ip,        \* CloudStack's public IP addresses
    faults     \* disturbances so far

objects == <<layout, obj, seen, host, hostSeen>>
copies  == <<base, hbase>>
vars    == <<objects, pc, copies, loc, hloc, net, vpc, ip, faults>>

Obj == [exists: BOOLEAN, deleting: BOOLEAN, fin: BOOLEAN,
        id: Nets \cup {None}, vpc: Vpcs \cup {None}, ip: IPs \cup {None}, ready: BOOLEAN]

\* given: the network was there before; created: it has CAPC's tag.
Network == [given: BOOLEAN, state: {"absent", "up", "gone"}, created: BOOLEAN,
            tags: SUBSET Clusters, open: BOOLEAN, vpc: Vpcs \cup {None}]

VPC == [given: BOOLEAN, state: {"absent", "up", "gone"}, created: BOOLEAN,
        tags: SUBSET Clusters]

\* net: the network or the VPC the address is associated with; rule: the
\* network its load balancer rule forwards to.
Address == [net: Nets \cup Vpcs \cup {None}, created: BOOLEAN, tags: SUBSET Clusters,
            rule: Nets \cup {None}]

PCs == {"idle", "resolve", "resolvevpc", "createvpc", "tagvpccreated", "create",
        "tagcreated", "tagnet", "tagvpc", "getip", "assoc", "tagip", "tagipcreated", "lb",
        "firewall", "retag", "patchcluster", "untagip", "checkip", "untagipcreated",
        "disassoc", "untagnet", "checknet", "delnet", "untagvpc", "checkvpc", "delvpc",
        "patch"}

\* The calls of a pass that has a public IP, a network, a VPC at hand.
NeedIP == {"assoc", "tagip", "tagipcreated", "lb", "untagip", "checkip", "untagipcreated",
           "disassoc"}
NeedId == {"tagcreated", "tagnet", "tagvpc", "getip", "assoc", "tagip", "tagipcreated", "lb",
           "firewall", "retag", "delnet"}
NeedVpc == {"tagvpccreated", "tagvpc", "untagvpc", "checkvpc", "delvpc"}

\* Every variable has its type, and no call is made without the id or the
\* address it is about.
TypeOK ==
    /\ obj \in [Clusters -> Obj] /\ seen \in [Clusters -> Obj]
    /\ base \in [Clusters -> Obj] /\ loc \in [Clusters -> Obj]
    /\ host \in [Clusters -> IPs \cup {None}] /\ hostSeen \in [Clusters -> IPs \cup {None}]
    /\ hbase \in [Clusters -> IPs \cup {None}] /\ hloc \in [Clusters -> IPs \cup {None}]
    /\ pc \in [Clusters -> PCs]
    /\ \A c \in Clusters :
          /\ pc[c] \in NeedIP => loc[c].ip # None
          /\ pc[c] \in NeedId => loc[c].id # None
          /\ pc[c] \in NeedVpc => loc[c].vpc # None
    /\ layout \in Layouts
    /\ net \in [Nets -> Network]
    /\ vpc \in [Vpcs -> VPC]
    /\ ip \in [IPs -> Address]
    /\ faults \in 0..MaxFaults

\* The object as the failure domain controller generates it.
NewObj == [exists |-> TRUE, deleting |-> FALSE, fin |-> FALSE,
           id |-> None, vpc |-> None, ip |-> None, ready |-> FALSE]

VpcUp == {v \in Vpcs : vpc[v].state = "up"}
Up   == {n \in Nets : net[n].state = "up"}
Free == {p \in IPs : ip[p].net = None}

Disturb(kind) ==
    /\ kind \in Disturbances
    /\ faults < MaxFaults
    /\ faults' = faults + 1

Goto(c, next) == pc' = [pc EXCEPT ![c] = next]

\* Every return goes through the deferred patch.
Return(c) == Goto(c, "patch")

Fails(c) ==
    /\ Disturb("error") /\ Return(c)
    /\ UNCHANGED <<objects, copies, loc, hloc, net, vpc, ip>>

(***************************************************************************)
(* Tags.                                                                   *)
(***************************************************************************)

\* AddClusterTag and DeleteClusterTag touch only resources created by CAPC.
AddClusterTag(r, c) == IF r.created THEN [r EXCEPT !.tags = @ \cup {c}] ELSE r
DeleteClusterTag(r, c) == IF r.created THEN [r EXCEPT !.tags = @ \ {c}] ELSE r

\* Variation of TagsAllowDisposal: who created the resource is not looked at.
TagsAllowAny(r) == r.tags = {}

\* DoClusterTagsAllowDisposal, and the same test in DeleteNetworkIfNotInUse.
TagsAllowDisposal(r) == r.tags = {} /\ r.created

(***************************************************************************)
(* A pass begins and ends.                                                 *)
(***************************************************************************)

\* Variation of DisposeFrom: a public IP is taken for granted.
DisposeAnyIP(o) == "untagip"

\* DisposeIsoNetResources begins with the public IP if there is one.
DisposeFrom(o) == IF o.ip # None THEN "untagip" ELSE "untagnet"

\* GetReconciliationSubject; the gates pass, or an unresolved zone or a failed
\* lookup ends the pass. Reconcile begins by adding the finalizer.
Start(c) ==
    LET o == seen[c]
        guarded == [o EXCEPT !.fin = @ \/ ~o.deleting]
    IN  /\ pc[c] = "idle" /\ o.exists
        /\ base' = [base EXCEPT ![c] = o]
        /\ hbase' = [hbase EXCEPT ![c] = hostSeen[c]]
        /\ hloc' = [hloc EXCEPT ![c] = hostSeen[c]]
        /\ \/ /\ Goto(c, IF o.deleting THEN DisposeFrom(o) ELSE "resolve")
              /\ loc' = [loc EXCEPT ![c] = guarded]
              /\ UNCHANGED faults
           \/ /\ Disturb("error") /\ Return(c)
              /\ \E l \in {o, guarded} : loc' = [loc EXCEPT ![c] = l]
        /\ UNCHANGED <<objects, net, vpc, ip>>

Collected(o) == [o EXCEPT !.exists = @ /\ ~(o.deleting /\ ~o.fin)]

\* The deferred patch: the changed fields of spec and metadata, then those of
\* the status, each of them whether or not the other fails. A finalizer is
\* not added to an object that is being deleted.
SpecPatch(o, b, l) ==
    IF ~o.exists \/ (l.fin /\ ~b.fin /\ o.deleting) THEN o
    ELSE Collected([o EXCEPT !.fin = IF l.fin = b.fin THEN @ ELSE l.fin,
                             !.id  = IF l.id = b.id THEN @ ELSE l.id,
                             !.vpc = IF l.vpc = b.vpc THEN @ ELSE l.vpc])

StatusPatch(o, b, l) ==
    IF ~o.exists THEN o
    ELSE [o EXCEPT !.ip    = IF l.ip = b.ip THEN @ ELSE l.ip,
                   !.ready = IF l.ready = b.ready THEN @ ELSE l.ready]

Patch(c) ==
    LET s == SpecPatch(obj[c], base[c], loc[c])
        Becomes(o) == obj' = [obj EXCEPT ![c] = o]
    IN  /\ pc[c] = "patch"
        /\ \/ Becomes(StatusPatch(s, base[c], loc[c])) /\ UNCHANGED faults
           \/ /\ Disturb("error")
              /\ \E o \in {obj[c], s, StatusPatch(obj[c], base[c], loc[c])} : Becomes(o)
        /\ Goto(c, "idle")
        /\ base' = [base EXCEPT ![c] = NewObj]
        /\ loc' = [loc EXCEPT ![c] = NewObj]
        /\ hbase' = [hbase EXCEPT ![c] = None]
        /\ hloc' = [hloc EXCEPT ![c] = None]
        /\ UNCHANGED <<layout, seen, host, hostSeen, net, vpc, ip>>

(***************************************************************************)
(* Reconcile: GetOrCreateIsolatedNetwork.                                  *)
(***************************************************************************)

\* The object's spec names a VPC.
NamesVPC(o) == layout = "vpc" \/ o.vpc # None

\* ResolveNetwork: by name if there is exactly one of that name, else by id; it
\* also tells the VPC of the network. Any error counts as "not there".
ResolveNetwork(c) ==
    LET Found(n) ==
            /\ loc' = [loc EXCEPT ![c].id = n,
                                  ![c].vpc = IF net[n].vpc # None THEN net[n].vpc ELSE @]
            /\ Goto(c, "tagnet")
        Missing ==
            /\ Goto(c, IF NamesVPC(loc[c]) THEN "resolvevpc" ELSE "create")
            /\ UNCHANGED loc
    IN  /\ pc[c] = "resolve"
        /\ \/ /\ \/ \E n \in Up : Up = {n} /\ Found(n)
                 \/ /\ Cardinality(Up) # 1
                    /\ IF loc[c].id \in Up THEN Found(loc[c].id) ELSE Missing
              /\ UNCHANGED faults
           \/ /\ Disturb("error")
              /\ Missing \/ (loc[c].id \in Up /\ Found(loc[c].id))
        /\ UNCHANGED <<objects, copies, hloc, net, vpc, ip>>

\* ResolveVPC: by id if the spec has one, else by name if there is exactly one
\* of that name. Any error counts as "not there".
ResolveVPC(c) ==
    LET Finds(v) == v \in VpcUp /\ IF loc[c].vpc # None THEN v = loc[c].vpc ELSE VpcUp = {v}
    IN  /\ pc[c] = "resolvevpc"
        /\ \/ /\ \/ \E v \in Vpcs : /\ Finds(v)
                                    /\ loc' = [loc EXCEPT ![c].vpc = v]
                                    /\ Goto(c, "create")
                 \/ /\ \A v \in Vpcs : ~Finds(v)
                    /\ Goto(c, "createvpc") /\ UNCHANGED loc
              /\ UNCHANGED faults
           \/ Disturb("error") /\ Goto(c, "createvpc") /\ UNCHANGED loc
        /\ UNCHANGED <<objects, copies, hloc, net, vpc, ip>>

\* CreateVPC; a call that fails may have created the VPC.
CreateVPC(c) ==
    LET Creates(v) == vpc' = [vpc EXCEPT ![v].state = "up"]
        absent == {v \in Vpcs : vpc[v].state = "absent"}
    IN  /\ pc[c] = "createvpc"
        /\ \/ /\ \E v \in absent : Creates(v) /\ loc' = [loc EXCEPT ![c].vpc = v]
              /\ Goto(c, "tagvpccreated") /\ UNCHANGED faults
           \/ absent = {} /\ Return(c) /\ UNCHANGED <<vpc, loc, faults>>
           \/ /\ Disturb("error") /\ Return(c)
              /\ UNCHANGED vpc \/ \E v \in absent : Creates(v)
              /\ UNCHANGED loc
        /\ UNCHANGED <<objects, copies, hloc, net, ip>>

\* AddCreatedByCAPCTag on the VPC.
TagVPCCreated(c) ==
    /\ pc[c] = "tagvpccreated"
    /\ \/ /\ IF loc[c].vpc \in VpcUp
             THEN vpc' = [vpc EXCEPT ![loc[c].vpc].created = TRUE] /\ Goto(c, "create")
             ELSE UNCHANGED vpc /\ Return(c)
          /\ UNCHANGED <<objects, copies, loc, hloc, net, ip, faults>>
       \/ Fails(c)

\* CreateNetwork, in the VPC if there is one: CloudStack refuses a VPC that is
\* gone. A call that fails may have created the network.
CreateNetwork(c) ==
    LET Creates(n) == net' = [net EXCEPT ![n].state = "up", ![n].vpc = loc[c].vpc]
        absent == IF loc[c].vpc \in VpcUp \cup {None}
                  THEN {n \in Nets : net[n].state = "absent"} ELSE {}
    IN  /\ pc[c] = "create"
        /\ \/ /\ \E n \in absent : Creates(n) /\ loc' = [loc EXCEPT ![c].id = n]
              /\ Goto(c, "tagcreated") /\ UNCHANGED faults
           \/ absent = {} /\ Return(c) /\ UNCHANGED <<net, loc, faults>>
           \/ /\ Disturb("error") /\ Return(c)
              /\ UNCHANGED net \/ \E n \in absent : Creates(n)
              /\ UNCHANGED loc
        /\ UNCHANGED <<objects, copies, hloc, vpc, ip>>

\* AddCreatedByCAPCTag on the network.
TagCreated(c) ==
    /\ pc[c] = "tagcreated"
    /\ \/ /\ IF loc[c].id \in Up
             THEN net' = [net EXCEPT ![loc[c].id].created = TRUE] /\ Goto(c, "tagnet")
             ELSE UNCHANGED net /\ Return(c)
          /\ UNCHANGED <<objects, copies, loc, hloc, vpc, ip, faults>>
       \/ Fails(c)

\* What GetOrCreateIsolatedNetwork does once network and VPC are tagged: a
\* routed network has no address and no load balancer.
Endpoint == IF layout = "routed" THEN "firewall" ELSE "getip"

\* AddClusterTag on the network, in GetOrCreateIsolatedNetwork and again in
\* Reconcile. A network that is gone has no tags, and so no creator.
TagNetwork(c) ==
    /\ pc[c] \in {"tagnet", "retag"}
    /\ \/ /\ net' = IF loc[c].id \in Up
                    THEN [net EXCEPT ![loc[c].id] = AddClusterTag(@, c)] ELSE net
          /\ Goto(c, CASE pc[c] = "retag" -> "patchcluster"
                       [] pc[c] = "tagnet" /\ loc[c].vpc # None -> "tagvpc"
                       [] OTHER -> Endpoint)
          /\ UNCHANGED <<objects, copies, loc, hloc, vpc, ip, faults>>
       \/ Fails(c)

\* AddClusterTag on the VPC.
TagVPC(c) ==
    /\ pc[c] = "tagvpc"
    /\ \/ /\ vpc' = IF loc[c].vpc \in VpcUp
                    THEN [vpc EXCEPT ![loc[c].vpc] = AddClusterTag(@, c)] ELSE vpc
          /\ Goto(c, Endpoint)
          /\ UNCHANGED <<objects, copies, loc, hloc, net, ip, faults>>
       \/ Fails(c)

\* Variation of GetPublicIP: an address that is allocated is never taken.
GetFreeIP(c) ==
    /\ pc[c] = "getip"
    /\ \/ /\ \/ \E p \in Free :
                  /\ loc' = [loc EXCEPT ![c].ip = p]
                  /\ hloc' = [hloc EXCEPT ![c] = p]
                  /\ Goto(c, "assoc")
             \/ Free = {} /\ Return(c) /\ UNCHANGED <<loc, hloc>>
          /\ UNCHANGED <<objects, copies, net, vpc, ip, faults>>
       \/ Fails(c)

\* The address counts as associated: with the network, or with the VPC of the
\* spec, both of which may be empty.
Associated(p, o) ==
    \/ ip[p].net = o.id
    \/ NamesVPC(o) /\ o.vpc = IF ip[p].net \in Vpcs THEN ip[p].net ELSE None

\* Variation of GetPublicIP: the address the object records comes first.
GetRecordedIP(c) ==
    /\ pc[c] = "getip"
    /\ \/ /\ \/ \E p \in IF loc[c].ip # None THEN {loc[c].ip}
                        ELSE IF hloc[c] # None THEN {hloc[c]} ELSE Free :
                  /\ loc' = [loc EXCEPT ![c].ip = p]
                  /\ hloc' = [hloc EXCEPT ![c] = p]
                  /\ Goto(c, IF Associated(p, loc[c]) THEN "lb" ELSE "assoc")
             \/ hloc[c] = None /\ Free = {} /\ Return(c) /\ UNCHANGED <<loc, hloc>>
          /\ UNCHANGED <<objects, copies, net, vpc, ip, faults>>
       \/ Fails(c)

\* GetPublicIP: the endpoint's address if it is set, else a free one. Both
\* the object and the pass's CloudStackCluster take it over.
GetPublicIP(c) ==
    /\ pc[c] = "getip"
    /\ \/ /\ \/ \E p \in IF hloc[c] # None THEN {hloc[c]} ELSE Free :
                  /\ loc' = [loc EXCEPT ![c].ip = p]
                  /\ hloc' = [hloc EXCEPT ![c] = p]
                  /\ Goto(c, IF Associated(p, loc[c]) THEN "lb" ELSE "assoc")
             \/ hloc[c] = None /\ Free = {} /\ Return(c) /\ UNCHANGED <<loc, hloc>>
          /\ UNCHANGED <<objects, copies, net, vpc, ip, faults>>
       \/ Fails(c)

\* AssociateIpAddress, with the VPC if there is one: CloudStack refuses an
\* allocated address and a missing owner; a call that fails may have taken effect.
AssociatePublicIPAddress(c) ==
    LET p == loc[c].ip
        owner == IF loc[c].vpc # None THEN loc[c].vpc ELSE loc[c].id
        possible == p \in Free /\ owner \in Up \cup VpcUp
        Associates == ip' = [ip EXCEPT ![p].net = owner]
    IN  /\ pc[c] = "assoc"
        /\ \/ possible /\ Associates /\ Goto(c, "tagip") /\ UNCHANGED faults
           \/ ~possible /\ Return(c) /\ UNCHANGED <<ip, faults>>
           \/ /\ Disturb("error") /\ Return(c)
              /\ UNCHANGED ip \/ (possible /\ Associates)
        /\ UNCHANGED <<objects, copies, loc, hloc, net, vpc>>

\* AddClusterTag on the address, before it is marked as created by CAPC.
TagIP(c) ==
    /\ pc[c] = "tagip"
    /\ \/ /\ ip' = [ip EXCEPT ![loc[c].ip] = AddClusterTag(@, c)]
          /\ Goto(c, "tagipcreated")
          /\ UNCHANGED <<objects, copies, loc, hloc, net, vpc, faults>>
       \/ Fails(c)

TagIPCreated(c) ==
    /\ pc[c] = "tagipcreated"
    /\ \/ /\ ip' = [ip EXCEPT ![loc[c].ip].created = TRUE]
          /\ Goto(c, "lb")
          /\ UNCHANGED <<objects, copies, loc, hloc, net, vpc, faults>>
       \/ Fails(c)

\* A load balancer rule of the address is taken whatever network it is for; a
\* new one needs a network the address belongs to.
Rule(p, n) == IF ip[p].rule # None THEN ip[p].rule
              ELSE IF n \in Up /\ ip[p].net \in {n, net[n].vpc} \ {None} THEN n ELSE None

\* OpenFirewallRules leaves a network of a VPC alone.
AfterRule(o) == IF o.vpc # None THEN "retag" ELSE "firewall"

\* Variation of GetOrCreateLoadBalancerRule: its error is dropped.
LoadBalancerRuleUnchecked(c) ==
    /\ pc[c] = "lb"
    /\ \/ ip' = [ip EXCEPT ![loc[c].ip].rule = Rule(loc[c].ip, loc[c].id)] /\ UNCHANGED faults
       \/ UNCHANGED ip /\ Disturb("error")
    /\ Goto(c, AfterRule(loc[c]))
    /\ UNCHANGED <<objects, copies, loc, hloc, net, vpc>>

\* A call that fails may have created the rule.
GetOrCreateLoadBalancerRule(c) ==
    LET r == Rule(loc[c].ip, loc[c].id)
        Creates == ip' = [ip EXCEPT ![loc[c].ip].rule = r]
    IN  /\ pc[c] = "lb"
        /\ \/ /\ Creates
              /\ IF r = None THEN Return(c) ELSE Goto(c, AfterRule(loc[c]))
              /\ UNCHANGED <<objects, copies, loc, hloc, net, vpc, faults>>
           \/ /\ Disturb("error") /\ Return(c) /\ Creates
              /\ UNCHANGED <<objects, copies, loc, hloc, net, vpc>>
           \/ Fails(c)

OpenFirewallRules(c) ==
    /\ pc[c] = "firewall"
    /\ \/ /\ IF loc[c].id \in Up
             THEN net' = [net EXCEPT ![loc[c].id].open = TRUE] /\ Goto(c, "retag")
             ELSE UNCHANGED net /\ Return(c)
          /\ UNCHANGED <<objects, copies, loc, hloc, vpc, ip, faults>>
       \/ Fails(c)

\* CloudStackCluster.ValidateUpdate: the endpoint is set once.
EndpointAdmitted(old, new) == old = None \/ new = old

\* The CloudStackCluster is patched if the pass changed the host; only then
\* the object is Ready. A patch that fails may have been stored.
PatchCluster(c) ==
    /\ pc[c] = "patchcluster"
    /\ \/ /\ hloc[c] # hbase[c] /\ EndpointAdmitted(host[c], hloc[c])
          /\ Disturb("error") /\ Return(c) /\ host' = [host EXCEPT ![c] = hloc[c]]
          /\ UNCHANGED <<layout, obj, seen, hostSeen, copies, loc, hloc, net, vpc, ip>>
       \/ /\ IF hloc[c] = hbase[c] \/ EndpointAdmitted(host[c], hloc[c])
             THEN /\ host' = IF hloc[c] = hbase[c] THEN host ELSE [host EXCEPT ![c] = hloc[c]]
                  /\ loc' = [loc EXCEPT ![c].ready = TRUE]
             ELSE UNCHANGED <<host, loc>>
          /\ Return(c)
          /\ UNCHANGED <<layout, obj, seen, hostSeen, copies, hloc, net, vpc, ip, faults>>
       \/ Fails(c)

(***************************************************************************)
(* ReconcileDelete: DisposeIsoNetResources.                                *)
(***************************************************************************)
Released(c) ==
    /\ loc' = [loc EXCEPT ![c].fin = FALSE]
    /\ Return(c)

UntagIP(c) ==
    /\ pc[c] = "untagip"
    /\ \/ /\ ip' = [ip EXCEPT ![loc[c].ip] = DeleteClusterTag(@, c)]
          /\ Goto(c, "checkip")
          /\ UNCHANGED <<objects, copies, loc, hloc, net, vpc, faults>>
       \/ Fails(c)

\* Variation of CheckIP: "no match found" is an error like any other.
CheckIPStrict(c) ==
    /\ pc[c] = "checkip"
    /\ Goto(c, CASE loc[c].ip \in Free -> "patch"
                 [] loc[c].ip \notin Free /\ TagsAllowDisposal(ip[loc[c].ip]) -> "untagipcreated"
                 [] OTHER -> "untagnet")
    /\ UNCHANGED <<objects, copies, loc, hloc, net, vpc, ip, faults>>

\* DisassociatePublicIPAddressIfNotInUse up to its decision. An address that
\* is no longer allocated gives "no match found", which ReconcileDelete takes
\* for the end of the disposal.
CheckIP(c) ==
    /\ pc[c] = "checkip"
    /\ \/ /\ IF loc[c].ip \in Free
             THEN Released(c)
             ELSE /\ Goto(c, IF TagsAllowDisposal(ip[loc[c].ip])
                             THEN "untagipcreated" ELSE "untagnet")
                  /\ UNCHANGED loc
          /\ UNCHANGED <<objects, copies, hloc, net, vpc, ip, faults>>
       \/ Fails(c)

\* DisassociatePublicIPAddress: the creator tag goes first.
UntagIPCreated(c) ==
    /\ pc[c] = "untagipcreated"
    /\ \/ /\ ip' = [ip EXCEPT ![loc[c].ip].created = FALSE]
          /\ Goto(c, "disassoc")
          /\ UNCHANGED <<objects, copies, loc, hloc, net, vpc, faults>>
       \/ Fails(c)

\* A call that fails may have taken effect.
DisassociatePublicIPAddress(c) ==
    LET Releases == ip' = [ip EXCEPT ![loc[c].ip].net = None, ![loc[c].ip].rule = None]
    IN  /\ pc[c] = "disassoc"
        /\ \/ /\ IF loc[c].ip \in Free THEN Return(c) /\ UNCHANGED ip
                 ELSE Releases /\ Goto(c, "untagnet")
              /\ UNCHANGED faults
           \/ Disturb("error") /\ Return(c) /\ (UNCHANGED ip \/ Releases)
        /\ UNCHANGED <<objects, copies, loc, hloc, net, vpc>>

\* Variation of UntagNetwork: the cluster's own tag stays.
KeepNetworkTag(c) ==
    /\ pc[c] = "untagnet"
    /\ \/ Goto(c, "checknet") /\ UNCHANGED <<objects, copies, loc, hloc, net, vpc, ip, faults>>
       \/ Fails(c)

\* RemoveClusterTagFromNetwork.
UntagNetwork(c) ==
    /\ pc[c] = "untagnet"
    /\ \/ /\ net' = IF loc[c].id \in Up
                    THEN [net EXCEPT ![loc[c].id].tags = @ \ {c}] ELSE net
          /\ Goto(c, "checknet")
          /\ UNCHANGED <<objects, copies, loc, hloc, vpc, ip, faults>>
       \/ Fails(c)

\* The network is dealt with; the VPC is next, if there is one.
NetworkDone(c) ==
    IF loc[c].vpc # None THEN Goto(c, "untagvpc") /\ UNCHANGED loc ELSE Released(c)

\* DeleteNetworkIfNotInUse: the tags are read here, the network is deleted in
\* the next step.
CheckNetwork(c) ==
    /\ pc[c] = "checknet"
    /\ \/ /\ IF loc[c].id \in Up /\ TagsAllowDisposal(net[loc[c].id])
             THEN Goto(c, "delnet") /\ UNCHANGED loc
             ELSE NetworkDone(c)
          /\ UNCHANGED <<objects, copies, hloc, net, vpc, ip, faults>>
       \/ Fails(c)

\* The addresses when a network or a VPC x is gone: its own are released, and
\* so are the rules that forward to it.
Without(x) ==
    [p \in IPs |-> IF ip[p].net = x THEN [ip[p] EXCEPT !.net = None, !.rule = None]
                   ELSE IF ip[p].rule = x THEN [ip[p] EXCEPT !.rule = None]
                   ELSE ip[p]]

\* Deleting a network releases its addresses; a call that fails may have
\* taken effect.
DeleteNetwork(c) ==
    LET n == loc[c].id
        Goes == net' = [net EXCEPT ![n].state = "gone", ![n].tags = {}] /\ ip' = Without(n)
    IN  /\ pc[c] = "delnet"
        /\ \/ n \in Up /\ Goes /\ NetworkDone(c) /\ UNCHANGED faults
           \/ n \notin Up /\ Return(c) /\ UNCHANGED <<net, ip, loc, faults>>
           \/ /\ Disturb("error") /\ Return(c)
              /\ UNCHANGED <<net, ip>> \/ (n \in Up /\ Goes)
              /\ UNCHANGED loc
        /\ UNCHANGED <<objects, copies, hloc, vpc>>

\* RemoveClusterTagFromVPC.
UntagVPC(c) ==
    /\ pc[c] = "untagvpc"
    /\ \/ /\ vpc' = IF loc[c].vpc \in VpcUp
                    THEN [vpc EXCEPT ![loc[c].vpc].tags = @ \ {c}] ELSE vpc
          /\ Goto(c, "checkvpc")
          /\ UNCHANGED <<objects, copies, loc, hloc, net, ip, faults>>
       \/ Fails(c)

\* DeleteVPCIfNotInUse: the tags are read here, the VPC is deleted in the next
\* step.
CheckVPC(c) ==
    /\ pc[c] = "checkvpc"
    /\ \/ /\ IF loc[c].vpc \in VpcUp /\ TagsAllowDisposal(vpc[loc[c].vpc])
             THEN Goto(c, "delvpc") /\ UNCHANGED loc
             ELSE Released(c)
          /\ UNCHANGED <<objects, copies, hloc, net, vpc, ip, faults>>
       \/ Fails(c)

\* CloudStack refuses to delete a VPC that has networks; a call that fails may
\* have taken effect.
DeleteVPC(c) ==
    LET v == loc[c].vpc
        possible == v \in VpcUp /\ \A n \in Up : net[n].vpc # v
        Goes == vpc' = [vpc EXCEPT ![v].state = "gone", ![v].tags = {}] /\ ip' = Without(v)
    IN  /\ pc[c] = "delvpc"
        /\ \/ possible /\ Goes /\ Released(c) /\ UNCHANGED faults
           \/ ~possible /\ Return(c) /\ UNCHANGED <<vpc, ip, loc, faults>>
           \/ /\ Disturb("error") /\ Return(c)
              /\ UNCHANGED <<vpc, ip>> \/ (possible /\ Goes)
              /\ UNCHANGED loc
        /\ UNCHANGED <<objects, copies, hloc, net>>

(***************************************************************************)
(* Everyone else.                                                          *)
(***************************************************************************)
WatchNetwork(c) ==
    /\ seen[c] # obj[c]
    /\ seen' = [seen EXCEPT ![c] = obj[c]]
    /\ UNCHANGED <<layout, obj, host, hostSeen, pc, copies, loc, hloc, net, vpc, ip, faults>>

WatchCluster(c) ==
    /\ hostSeen[c] # host[c]
    /\ hostSeen' = [hostSeen EXCEPT ![c] = host[c]]
    /\ UNCHANGED <<layout, obj, seen, host, pc, copies, loc, hloc, net, vpc, ip, faults>>

\* The failure domain controller deletes the object of a cluster being deleted.
DeleteRequested(c) ==
    /\ obj[c].exists /\ ~obj[c].deleting
    /\ obj' = [obj EXCEPT ![c] = Collected([@ EXCEPT !.deleting = TRUE])]
    /\ UNCHANGED <<layout, seen, host, hostSeen, pc, copies, loc, hloc, net, vpc, ip, faults>>

\* The manager restarts: passes are lost, the caches are filled anew.
Crash ==
    /\ Disturb("crash")
    /\ seen' = obj /\ hostSeen' = host
    /\ pc' = [c \in Clusters |-> "idle"]
    /\ base' = [c \in Clusters |-> NewObj] /\ loc' = [c \in Clusters |-> NewObj]
    /\ hbase' = [c \in Clusters |-> None] /\ hloc' = [c \in Clusters |-> None]
    /\ UNCHANGED <<layout, obj, host, net, vpc, ip>>

(***************************************************************************)
(* The specification.                                                      *)
(***************************************************************************)
Init ==
    /\ obj = [c \in Clusters |-> NewObj] /\ seen = obj
    /\ host = [c \in Clusters |-> None] /\ hostSeen = host
    /\ pc = [c \in Clusters |-> "idle"]
    /\ base = [c \in Clusters |-> NewObj] /\ loc = base
    /\ hbase = [c \in Clusters |-> None] /\ hloc = hbase
    /\ layout \in Layouts
    /\ \E given \in SUBSET Provided, place \in [Nets -> Vpcs \cup {None}] :
          /\ \A n \in Nets : place[n] \in given \cup {None} /\ (n \notin given => place[n] = None)
          /\ layout = "routed" => given \cap Vpcs = {}
          /\ net = [n \in Nets |-> [given |-> n \in given,
                                   state |-> IF n \in given THEN "up" ELSE "absent",
                                   created |-> FALSE, tags |-> {}, open |-> FALSE,
                                   vpc |-> place[n]]]
          /\ vpc = [v \in Vpcs |-> [given |-> v \in given,
                                   state |-> IF v \in given THEN "up" ELSE "absent",
                                   created |-> FALSE, tags |-> {}]]
    /\ ip = [p \in IPs |-> [net |-> None, created |-> FALSE, tags |-> {}, rule |-> None]]
    /\ faults = 0

Pass(c) ==
    \/ Start(c) \/ Patch(c)
    \/ ResolveNetwork(c) \/ ResolveVPC(c) \/ CreateVPC(c) \/ TagVPCCreated(c) \/ TagVPC(c)
    \/ CreateNetwork(c) \/ TagCreated(c) \/ TagNetwork(c)
    \/ GetPublicIP(c) \/ AssociatePublicIPAddress(c) \/ TagIP(c) \/ TagIPCreated(c)
    \/ GetOrCreateLoadBalancerRule(c) \/ OpenFirewallRules(c) \/ PatchCluster(c)
    \/ UntagIP(c) \/ CheckIP(c) \/ UntagIPCreated(c) \/ DisassociatePublicIPAddress(c)
    \/ UntagNetwork(c) \/ CheckNetwork(c) \/ DeleteNetwork(c)
    \/ UntagVPC(c) \/ CheckVPC(c) \/ DeleteVPC(c)

Next ==
    \/ \E c \in Clusters : Pass(c) \/ WatchNetwork(c) \/ WatchCluster(c) \/ DeleteRequested(c)
    \/ Crash

\* Passes are run and watches deliver as long as the manager runs.
Fairness ==
    \A c \in Clusters : WF_vars(Pass(c)) /\ WF_vars(WatchNetwork(c)) /\ WF_vars(WatchCluster(c))

Spec == Init /\ [][Next]_vars
FairSpec == Spec /\ Fairness

(***************************************************************************)
(* Properties.                                                             *)
(***************************************************************************)
InService(c) == obj[c].exists /\ ~obj[c].deleting /\ obj[c].ready

\* A network or VPC that CAPC did not create is never deleted, whichever
\* clusters come and go and wherever their passes fail.
ProvidedKept ==
    /\ \A n \in Nets : net[n].given => n \in Up
    /\ \A v \in Vpcs : vpc[v].given => v \in VpcUp

\* A pass on a stale CloudStackCluster takes another address, prepares and
\* records it, and fails to store it as the endpoint: the object of a cluster
\* in service comes back to the address of the endpoint for good, whichever
\* calls fail, so that disposal releases the one in use.
EndpointRecorded == \A c \in Clusters : <>[](InService(c) => obj[c].ip = host[c])

\* A cluster whose network is Ready can be reached: a routed network is open;
\* else the endpoint address has a load balancer rule to an existing network
\* that is open or in the VPC that the address belongs to.
ReadyIsServed ==
    \A c \in Clusters : InService(c) =>
        IF layout = "routed" THEN \E n \in Up : net[n].open
        ELSE /\ host[c] # None
             /\ LET n == ip[host[c]].rule
                IN  /\ n \in Up
                    /\ \/ ip[host[c]].net = n /\ net[n].open
                       \/ net[n].vpc \in VpcUp /\ ip[host[c]].net = net[n].vpc

\* The VPC of object o was created by CAPC and holds a network that the disposal
\* of o leaves alone: a pass that failed created it without tag or without id.
Blocked(o) ==
    o.vpc # None /\ vpc[o.vpc].created
      /\ \E n \in Up : net[n].vpc = o.vpc /\ (n # o.id \/ ~net[n].created)

\* A deletion always completes, unless a failed pass has left a network in the
\* VPC: CloudStack refuses to delete the VPC then.
DeletionCompletes ==
    \A c \in Clusters : obj[c].deleting ~> (~obj[c].exists \/ Blocked(obj[c]))

\* The specs name a VPC, and the network that was there is in none.
Mismatch == layout = "vpc" /\ \E n \in Nets : net[n].given /\ net[n].vpc = None

\* Provisioning always comes to an end, unless the specs contradict CloudStack.
ProvisioningEnds ==
    \A c \in Clusters : <>(obj[c].ready \/ obj[c].deleting \/ Mismatch)

\* The disposal of cluster c's network is over: its finalizer comes off.
Disposed(c) == obj[c].exists /\ obj[c].fin /\ ~obj'[c].exists

\* When no call fails and the manager keeps running, the object of the last
\* cluster goes away only after every network and VPC CAPC created is deleted
\* and, unless some were there before, every public IP is given back, whatever
\* passes on stale copies picked up before. (A cluster deleted before its
\* finalizer is stored may leave its tag, which keeps a network another cluster
\* would delete: the property is checked for one cluster.)
UndisturbedDisposal ==
    [][\A c \in Clusters :
          Disposed(c) /\ faults = 0 /\ (\A d \in Clusters \ {c} : ~obj[d].exists)
            => /\ \A n \in Up : net[n].given
               /\ \A v \in VpcUp : vpc[v].given
               /\ Free = IPs \/ Up # {} \/ VpcUp # {}]_vars

(***************************************************************************)
(* What comments and tests say and the code does not do.                   *)
(***************************************************************************)
\* "RemoveClusterTagFromNetwork the cluster in use tag from a network": an
\* object that is gone has left no cluster tag on a network.
NetworkReleased ==
    [][\A c \in Clusters : Disposed(c) => \A n \in Nets : c \notin net[n].tags]_vars

\* "DisposeIsoNetResources cleans up isolated network resources": no public
\* IP is left associated when the last object is gone.
AddressesReleased ==
    [][\A c \in Clusters : Disposed(c) /\ (\A d \in Clusters \ {c} : ~obj[d].exists)
                            => Free = IPs]_vars

\* "should successfully add and remove a second cluster without breaking the
\* first cluster": the network of a cluster in service stays.
NetworkInUseKept == \A c \in Clusters : InService(c) => obj[c].id \in Up

\* "removes a CloudStack public IP association [...] if it is no longer in
\* use": the endpoint address of a cluster in service stays associated.
EndpointInUseKept ==
    \A c \in Clusters : InService(c) => host[c] # None /\ host[c] \notin Free

\* "This tag indicates the resource is used by a given the cluster": the
\* endpoint address of a cluster in service carries its cluster tag.
EndpointTagged == \A c \in Clusters : InService(c) => c \in ip[host[c]].tags
=============================================================================
