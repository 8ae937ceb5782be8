------------------------ MODULE IsolatedNetworkProofs ------------------------
(***************************************************************************)
(* Proofs about IsolatedNetwork, for any number of clusters, networks,     *)
(* VPCs, addresses and disturbances and every layout.                      *)
(***************************************************************************)
EXTENDS IsolatedNetwork, TLAPS, FiniteSetTheorems

USE DEF Goto, Return

(***************************************************************************)
(* Types.                                                                  *)
(***************************************************************************)
LEMMA NewObjType == NewObj \in Obj
  BY DEF NewObj, Obj

LEMMA DisturbType ==
    ASSUME faults \in 0..MaxFaults, NEW kind, Disturb(kind)
    PROVE  faults' \in 0..MaxFaults
  BY BoundAssumption DEF Disturb

\* What a step of a pass of cluster c leaves alone, and what is left to show of
\* its types.
PassStep(c) ==
    /\ UNCHANGED <<layout, obj, seen, hostSeen, base, hbase>>
    /\ host' \in [Clusters -> IPs \cup {None}] /\ hloc' \in [Clusters -> IPs \cup {None}]
    /\ pc' \in [Clusters -> PCs] /\ loc' \in [Clusters -> Obj]
    /\ \A d \in Clusters \ {c} : pc'[d] = pc[d] /\ loc'[d] = loc[d]
    /\ pc'[c] \in NeedIP => loc'[c].ip # None
    /\ pc'[c] \in NeedId => loc'[c].id # None
    /\ pc'[c] \in NeedVpc => loc'[c].vpc # None
    /\ net' \in [Nets -> Network] /\ vpc' \in [Vpcs -> VPC] /\ ip' \in [IPs -> Address]
    /\ faults' \in 0..MaxFaults

LEMMA TypePassStep ==
    ASSUME TypeOK, NEW c \in Clusters, PassStep(c)
    PROVE  TypeOK'
  BY DEF TypeOK, PassStep

LEMMA TypeFails ==
    ASSUME TypeOK, NEW c \in Clusters, Fails(c)
    PROVE  PassStep(c)
  <1>1. faults' \in 0..MaxFaults
    BY DisturbType DEF Fails, TypeOK
  <1> QED
    BY <1>1 DEF Fails, PassStep, TypeOK, objects, copies, PCs, NeedIP, NeedId, NeedVpc

(***************************************************************************)
(* Updates of one field.                                                   *)
(***************************************************************************)
LEMMA LocId ==
    ASSUME loc \in [Clusters -> Obj], NEW c \in Clusters, NEW n \in Nets,
           loc' = [loc EXCEPT ![c].id = n]
    PROVE  /\ loc' \in [Clusters -> Obj] /\ \A d \in Clusters \ {c} : loc'[d] = loc[d]
           /\ loc'[c].id = n /\ loc'[c].vpc = loc[c].vpc /\ loc'[c].ip = loc[c].ip
           /\ loc'[c].ready = loc[c].ready
  BY DEF Obj

LEMMA LocVpc ==
    ASSUME loc \in [Clusters -> Obj], NEW c \in Clusters, NEW v \in Vpcs,
           loc' = [loc EXCEPT ![c].vpc = v]
    PROVE  /\ loc' \in [Clusters -> Obj] /\ \A d \in Clusters \ {c} : loc'[d] = loc[d]
           /\ loc'[c].vpc = v /\ loc'[c].id = loc[c].id /\ loc'[c].ip = loc[c].ip
           /\ loc'[c].ready = loc[c].ready
  BY DEF Obj

LEMMA LocIp ==
    ASSUME loc \in [Clusters -> Obj], NEW c \in Clusters, NEW p \in IPs,
           loc' = [loc EXCEPT ![c].ip = p]
    PROVE  /\ loc' \in [Clusters -> Obj] /\ \A d \in Clusters \ {c} : loc'[d] = loc[d]
           /\ loc'[c].ip = p /\ loc'[c].id = loc[c].id /\ loc'[c].vpc = loc[c].vpc
           /\ loc'[c].ready = loc[c].ready
  BY DEF Obj

LEMMA LocFin ==
    ASSUME loc \in [Clusters -> Obj], NEW c \in Clusters,
           loc' = [loc EXCEPT ![c].fin = FALSE]
    PROVE  /\ loc' \in [Clusters -> Obj] /\ \A d \in Clusters \ {c} : loc'[d] = loc[d]
           /\ loc'[c].ip = loc[c].ip /\ loc'[c].id = loc[c].id /\ loc'[c].vpc = loc[c].vpc
  BY DEF Obj

LEMMA LocReady ==
    ASSUME loc \in [Clusters -> Obj], NEW c \in Clusters,
           loc' = [loc EXCEPT ![c].ready = TRUE]
    PROVE  /\ loc' \in [Clusters -> Obj] /\ \A d \in Clusters \ {c} : loc'[d] = loc[d]
           /\ loc'[c].ip = loc[c].ip /\ loc'[c].id = loc[c].id /\ loc'[c].vpc = loc[c].vpc
  BY DEF Obj

LEMMA NetCreates ==
    ASSUME net \in [Nets -> Network], NEW n \in Nets, NEW v \in Vpcs \cup {None},
           net' = [net EXCEPT ![n].state = "up", ![n].vpc = v]
    PROVE  net' \in [Nets -> Network]
  BY DEF Network

LEMMA NetCreated ==
    ASSUME net \in [Nets -> Network], NEW n \in Nets, net' = [net EXCEPT ![n].created = TRUE]
    PROVE  net' \in [Nets -> Network]
  BY DEF Network

LEMMA NetOpen ==
    ASSUME net \in [Nets -> Network], NEW n \in Nets, net' = [net EXCEPT ![n].open = TRUE]
    PROVE  net' \in [Nets -> Network]
  BY DEF Network

LEMMA NetUntag ==
    ASSUME net \in [Nets -> Network], NEW n \in Nets, NEW c,
           net' = [net EXCEPT ![n].tags = @ \ {c}]
    PROVE  net' \in [Nets -> Network]
  BY DEF Network

LEMMA NetGoes ==
    ASSUME net \in [Nets -> Network], NEW n \in Nets,
           net' = [net EXCEPT ![n].state = "gone", ![n].tags = {}]
    PROVE  net' \in [Nets -> Network]
  BY DEF Network

LEMMA VpcCreates ==
    ASSUME vpc \in [Vpcs -> VPC], NEW v \in Vpcs, vpc' = [vpc EXCEPT ![v].state = "up"]
    PROVE  vpc' \in [Vpcs -> VPC]
  BY DEF VPC

LEMMA VpcCreated ==
    ASSUME vpc \in [Vpcs -> VPC], NEW v \in Vpcs, vpc' = [vpc EXCEPT ![v].created = TRUE]
    PROVE  vpc' \in [Vpcs -> VPC]
  BY DEF VPC

LEMMA VpcTag ==
    ASSUME vpc \in [Vpcs -> VPC], NEW v \in Vpcs, NEW c \in Clusters,
           vpc' = [vpc EXCEPT ![v] = AddClusterTag(@, c)]
    PROVE  vpc' \in [Vpcs -> VPC]
  BY DEF VPC, AddClusterTag

LEMMA VpcUntag ==
    ASSUME vpc \in [Vpcs -> VPC], NEW v \in Vpcs, NEW c,
           vpc' = [vpc EXCEPT ![v].tags = @ \ {c}]
    PROVE  vpc' \in [Vpcs -> VPC]
  BY DEF VPC

LEMMA VpcGoes ==
    ASSUME vpc \in [Vpcs -> VPC], NEW v \in Vpcs,
           vpc' = [vpc EXCEPT ![v].state = "gone", ![v].tags = {}]
    PROVE  vpc' \in [Vpcs -> VPC]
  BY DEF VPC

LEMMA IpTaken ==
    ASSUME ip \in [IPs -> Address], NEW p \in IPs, NEW o \in Nets \cup Vpcs,
           ip' = [ip EXCEPT ![p].net = o]
    PROVE  ip' \in [IPs -> Address]
  BY DEF Address

LEMMA IpTag ==
    ASSUME ip \in [IPs -> Address], NEW p \in IPs, NEW c \in Clusters,
           ip' = [ip EXCEPT ![p] = AddClusterTag(@, c)]
    PROVE  ip' \in [IPs -> Address]
  BY DEF Address, AddClusterTag

LEMMA IpUntag ==
    ASSUME ip \in [IPs -> Address], NEW p \in IPs, NEW c \in Clusters,
           ip' = [ip EXCEPT ![p] = DeleteClusterTag(@, c)]
    PROVE  ip' \in [IPs -> Address]
  BY DEF Address, DeleteClusterTag

LEMMA IpCreated ==
    ASSUME ip \in [IPs -> Address], NEW p \in IPs, NEW b \in BOOLEAN,
           ip' = [ip EXCEPT ![p].created = b]
    PROVE  ip' \in [IPs -> Address]
  BY DEF Address

LEMMA IpRule ==
    ASSUME ip \in [IPs -> Address], NEW p \in IPs, NEW r \in Nets \cup {None},
           ip' = [ip EXCEPT ![p].rule = r]
    PROVE  ip' \in [IPs -> Address]
  BY DEF Address

LEMMA IpReleased ==
    ASSUME ip \in [IPs -> Address], NEW p \in IPs,
           ip' = [ip EXCEPT ![p].net = None, ![p].rule = None]
    PROVE  ip' \in [IPs -> Address]
  BY DEF Address

LEMMA IpWithout ==
    ASSUME ip \in [IPs -> Address], NEW x, ip' = Without(x)
    PROVE  ip' \in [IPs -> Address]
  <1>1. \A p \in IPs : /\ [ip[p] EXCEPT !.net = None, !.rule = None] \in Address
                       /\ [ip[p] EXCEPT !.rule = None] \in Address
    BY DEF Address
  <1> QED
    BY <1>1 DEF Without

(***************************************************************************)
(* The steps of a pass have their types.                                   *)
(***************************************************************************)
LEMMA TypeResolveNetwork ==
    ASSUME TypeOK, NEW c \in Clusters, ResolveNetwork(c)
    PROVE  PassStep(c)
  <1>1. UNCHANGED <<objects, copies, hloc, net, vpc, ip>> /\ faults' \in 0..MaxFaults
    BY DisturbType DEF ResolveNetwork, TypeOK
  <1>2. \/ /\ pc' = [pc EXCEPT ![c] = "tagnet"]
           /\ \E n \in Nets : loc' = [loc EXCEPT ![c].id = n,
                                ![c].vpc = IF net[n].vpc # None THEN net[n].vpc ELSE @]
        \/ loc' = loc /\ \E q \in {"resolvevpc", "create"} : pc' = [pc EXCEPT ![c] = q]
    BY DEF ResolveNetwork, Up
  <1>3. CASE /\ pc' = [pc EXCEPT ![c] = "tagnet"]
             /\ \E n \in Nets : loc' = [loc EXCEPT ![c].id = n,
                                  ![c].vpc = IF net[n].vpc # None THEN net[n].vpc ELSE @]
    <2>1. PICK n \in Nets : loc' = [loc EXCEPT ![c].id = n,
                                  ![c].vpc = IF net[n].vpc # None THEN net[n].vpc ELSE @]
      BY <1>3
    <2>2. net[n].vpc \in Vpcs \cup {None} /\ loc \in [Clusters -> Obj]
      BY DEF TypeOK, Network
    <2>3. /\ loc' \in [Clusters -> Obj] /\ \A d \in Clusters \ {c} : loc'[d] = loc[d]
          /\ loc'[c].id # None
      <3> DEFINE v == IF net[n].vpc # None THEN net[n].vpc ELSE loc[c].vpc
                 o == [loc[c] EXCEPT !.id = n, !.vpc = v]
      <3>1. loc' = [loc EXCEPT ![c] = o]
        BY <2>1
      <3>2. o \in Obj /\ o.id = n
        BY <2>2 DEF Obj
      <3> HIDE DEF o
      <3> QED
        BY <2>2, <3>1, <3>2, NetAssumption
    <2>4. /\ pc' \in [Clusters -> PCs] /\ \A d \in Clusters \ {c} : pc'[d] = pc[d]
          /\ pc'[c] = "tagnet"
      BY <1>3 DEF TypeOK, PCs
    <2> QED
      BY <1>1, <2>3, <2>4 DEF PassStep, TypeOK, objects, copies, NeedIP, NeedId, NeedVpc
  <1>4. CASE loc' = loc /\ \E q \in {"resolvevpc", "create"} : pc' = [pc EXCEPT ![c] = q]
    BY <1>1, <1>4 DEF PassStep, TypeOK, objects, copies, PCs, NeedIP, NeedId, NeedVpc
  <1> QED
    BY <1>2, <1>3, <1>4

LEMMA TypeResolveVPC ==
    ASSUME TypeOK, NEW c \in Clusters, ResolveVPC(c)
    PROVE  PassStep(c)
  <1>1. UNCHANGED <<objects, copies, hloc, net, vpc, ip>> /\ faults' \in 0..MaxFaults
    BY DisturbType DEF ResolveVPC, TypeOK
  <1>2. \/ loc' = loc
        \/ \E v \in Vpcs : loc' = [loc EXCEPT ![c].vpc = v]
    BY DEF ResolveVPC
  <1>3. loc' \in [Clusters -> Obj] /\ \A d \in Clusters \ {c} : loc'[d] = loc[d]
    BY <1>2, LocVpc DEF TypeOK
  <1>4. \E q \in {"create", "createvpc"} : pc' = [pc EXCEPT ![c] = q]
    BY DEF ResolveVPC
  <1> QED
    BY <1>1, <1>3, <1>4 DEF PassStep, TypeOK, objects, copies, PCs, NeedIP, NeedId, NeedVpc

LEMMA TypeCreateVPC ==
    ASSUME TypeOK, NEW c \in Clusters, CreateVPC(c)
    PROVE  PassStep(c)
  <1>1. UNCHANGED <<objects, copies, hloc, net, ip>> /\ faults' \in 0..MaxFaults
    BY DisturbType DEF CreateVPC, TypeOK
  <1>2. vpc' = vpc \/ \E v \in Vpcs : vpc' = [vpc EXCEPT ![v].state = "up"]
    BY DEF CreateVPC
  <1>3. vpc' \in [Vpcs -> VPC]
    BY <1>2, VpcCreates DEF TypeOK
  <1>4. \/ /\ \E v \in Vpcs : loc' = [loc EXCEPT ![c].vpc = v]
           /\ pc' = [pc EXCEPT ![c] = "tagvpccreated"]
        \/ loc' = loc /\ pc' = [pc EXCEPT ![c] = "patch"]
    BY DEF CreateVPC
  <1>5. /\ loc' \in [Clusters -> Obj] /\ \A d \in Clusters \ {c} : loc'[d] = loc[d]
        /\ loc' = loc \/ loc'[c].vpc # None
    BY <1>4, LocVpc, NetAssumption DEF TypeOK
  <1>6. CASE loc' = loc /\ pc' = [pc EXCEPT ![c] = "patch"]
    BY <1>1, <1>3, <1>6 DEF PassStep, TypeOK, objects, copies, PCs, NeedIP, NeedId, NeedVpc
  <1>7. CASE loc'[c].vpc # None /\ pc' = [pc EXCEPT ![c] = "tagvpccreated"]
    BY <1>1, <1>3, <1>5, <1>7 DEF PassStep, TypeOK, objects, copies, PCs, NeedIP, NeedId, NeedVpc
  <1> QED
    BY <1>4, <1>6, <1>7, LocVpc, NetAssumption DEF TypeOK

LEMMA TypeTagVPCCreated ==
    ASSUME TypeOK, NEW c \in Clusters, TagVPCCreated(c)
    PROVE  PassStep(c)
  <1>1. CASE Fails(c)
    BY <1>1, TypeFails
  <1>2. CASE ~Fails(c)
    <2>1. UNCHANGED <<objects, copies, loc, hloc, net, ip, faults>>
      BY <1>2 DEF TagVPCCreated
    <2>2. vpc' = vpc \/ \E v \in Vpcs : vpc' = [vpc EXCEPT ![v].created = TRUE]
      BY <1>2 DEF TagVPCCreated, VpcUp
    <2>3. vpc' \in [Vpcs -> VPC]
      BY <2>2, VpcCreated DEF TypeOK
    <2>4. \E q \in {"create", "patch"} : pc' = [pc EXCEPT ![c] = q]
      BY <1>2 DEF TagVPCCreated
    <2> QED
      BY <2>1, <2>3, <2>4 DEF PassStep, TypeOK, objects, copies, PCs, NeedIP, NeedId, NeedVpc
  <1> QED
    BY <1>1, <1>2

LEMMA TypeCreateNetwork ==
    ASSUME TypeOK, NEW c \in Clusters, CreateNetwork(c)
    PROVE  PassStep(c)
  <1>1. UNCHANGED <<objects, copies, hloc, vpc, ip>> /\ faults' \in 0..MaxFaults
    BY DisturbType DEF CreateNetwork, TypeOK
  <1>2. net' = net \/ \E n \in Nets : net' = [net EXCEPT ![n].state = "up", ![n].vpc = loc[c].vpc]
    BY DEF CreateNetwork
  <1>3. loc[c].vpc \in Vpcs \cup {None}
    BY DEF TypeOK, Obj
  <1>4. net' \in [Nets -> Network]
    BY <1>2, <1>3, NetCreates DEF TypeOK
  <1>5. \/ /\ \E n \in Nets : loc' = [loc EXCEPT ![c].id = n]
           /\ pc' = [pc EXCEPT ![c] = "tagcreated"]
        \/ loc' = loc /\ pc' = [pc EXCEPT ![c] = "patch"]
    BY DEF CreateNetwork
  <1>6. CASE loc' = loc /\ pc' = [pc EXCEPT ![c] = "patch"]
    BY <1>1, <1>4, <1>6 DEF PassStep, TypeOK, objects, copies, PCs, NeedIP, NeedId, NeedVpc
  <1>7. CASE /\ loc' \in [Clusters -> Obj] /\ \A d \in Clusters \ {c} : loc'[d] = loc[d]
             /\ loc'[c].id # None /\ pc' = [pc EXCEPT ![c] = "tagcreated"]
    BY <1>1, <1>4, <1>7 DEF PassStep, TypeOK, objects, copies, PCs, NeedIP, NeedId, NeedVpc
  <1> QED
    BY <1>5, <1>6, <1>7, LocId, NetAssumption DEF TypeOK

LEMMA TypeTagCreated ==
    ASSUME TypeOK, NEW c \in Clusters, TagCreated(c)
    PROVE  PassStep(c)
  <1>1. CASE Fails(c)
    BY <1>1, TypeFails
  <1>2. CASE ~Fails(c)
    <2>1. UNCHANGED <<objects, copies, loc, hloc, vpc, ip, faults>>
      BY <1>2 DEF TagCreated
    <2>2. net' = net \/ \E n \in Nets : net' = [net EXCEPT ![n].created = TRUE]
      BY <1>2 DEF TagCreated, Up
    <2>3. net' \in [Nets -> Network]
      BY <2>2, NetCreated DEF TypeOK
    <2>4. (\E q \in {"tagnet", "patch"} : pc' = [pc EXCEPT ![c] = q]) /\ pc[c] \in NeedId
      BY <1>2 DEF TagCreated, NeedId
    <2> QED
      BY <2>1, <2>3, <2>4 DEF PassStep, TypeOK, objects, copies, PCs, NeedIP, NeedId, NeedVpc
  <1> QED
    BY <1>1, <1>2

LEMMA TypeTagNetwork ==
    ASSUME TypeOK, NEW c \in Clusters, TagNetwork(c)
    PROVE  PassStep(c)
  <1>1. CASE Fails(c)
    BY <1>1, TypeFails
  <1>2. CASE ~Fails(c)
    <2>1. net' \in [Nets -> Network]
      BY <1>2 DEF TagNetwork, TypeOK, Network, AddClusterTag, Up
    <2>2. UNCHANGED <<objects, copies, loc, hloc, vpc, ip, faults>>
      BY <1>2 DEF TagNetwork
    <2>3. /\ pc' \in [Clusters -> PCs] /\ \A d \in Clusters \ {c} : pc'[d] = pc[d]
          /\ pc'[c] \in {"patchcluster", "tagvpc", "firewall", "getip"}
          /\ pc'[c] = "tagvpc" => loc[c].vpc # None
          /\ pc[c] \in NeedId
      BY <1>2 DEF TagNetwork, TypeOK, PCs, Endpoint, NeedId
    <2> QED
      BY <2>1, <2>2, <2>3 DEF PassStep, TypeOK, objects, copies, NeedIP, NeedId, NeedVpc
  <1> QED
    BY <1>1, <1>2

LEMMA TypeTagVPC ==
    ASSUME TypeOK, NEW c \in Clusters, TagVPC(c)
    PROVE  PassStep(c)
  <1>1. CASE Fails(c)
    BY <1>1, TypeFails
  <1>2. CASE ~Fails(c)
    <2>1. UNCHANGED <<objects, copies, loc, hloc, net, ip, faults>>
      BY <1>2 DEF TagVPC
    <2>2. vpc' = vpc \/ \E v \in Vpcs : vpc' = [vpc EXCEPT ![v] = AddClusterTag(@, c)]
      BY <1>2 DEF TagVPC, VpcUp
    <2>3. vpc' \in [Vpcs -> VPC]
      BY <2>2, VpcTag DEF TypeOK
    <2>4. (\E q \in {"firewall", "getip", "patch"} : pc' = [pc EXCEPT ![c] = q]) /\ pc[c] \in NeedId
      BY <1>2 DEF TagVPC, NeedId, Endpoint
    <2> QED
      BY <2>1, <2>3, <2>4 DEF PassStep, TypeOK, objects, copies, PCs, NeedIP, NeedId, NeedVpc
  <1> QED
    BY <1>1, <1>2

LEMMA TypeGetPublicIP ==
    ASSUME TypeOK, NEW c \in Clusters, GetPublicIP(c)
    PROVE  PassStep(c)
  <1>1. CASE Fails(c)
    BY <1>1, TypeFails
  <1>2. CASE ~Fails(c)
    <2>1. UNCHANGED <<objects, copies, net, vpc, ip, faults>>
      BY <1>2 DEF GetPublicIP
    <2>2. hloc[c] \in IPs \cup {None} /\ loc \in [Clusters -> Obj]
      BY DEF TypeOK
    <2>3. \/ \E p \in IPs : /\ loc' = [loc EXCEPT ![c].ip = p] /\ hloc' = [hloc EXCEPT ![c] = p]
                            /\ \E q \in {"lb", "assoc"} : pc' = [pc EXCEPT ![c] = q]
          \/ UNCHANGED <<loc, hloc>> /\ pc' = [pc EXCEPT ![c] = "patch"]
      BY <1>2, <2>2 DEF GetPublicIP, Free
    <2>4. pc[c] \in NeedId /\ loc[c].id # None
      BY DEF GetPublicIP, NeedId, TypeOK
    <2>5. CASE UNCHANGED <<loc, hloc>> /\ pc' = [pc EXCEPT ![c] = "patch"]
      BY <2>1, <2>5 DEF PassStep, TypeOK, objects, copies, PCs, NeedIP, NeedId, NeedVpc
    <2>6. CASE \E p \in IPs : /\ loc' = [loc EXCEPT ![c].ip = p] /\ hloc' = [hloc EXCEPT ![c] = p]
                              /\ \E q \in {"lb", "assoc"} : pc' = [pc EXCEPT ![c] = q]
      <3>1. PICK p \in IPs : /\ loc' = [loc EXCEPT ![c].ip = p] /\ hloc' = [hloc EXCEPT ![c] = p]
                             /\ \E q \in {"lb", "assoc"} : pc' = [pc EXCEPT ![c] = q]
        BY <2>6
      <3>2. /\ loc' \in [Clusters -> Obj] /\ \A d \in Clusters \ {c} : loc'[d] = loc[d]
            /\ loc'[c].id # None /\ loc'[c].ip # None
        <4>1. loc' = [loc EXCEPT ![c].ip = p]
          BY <3>1
        <4>2. /\ loc' \in [Clusters -> Obj] /\ \A d \in Clusters \ {c} : loc'[d] = loc[d]
              /\ loc'[c].id = loc[c].id /\ loc'[c].ip = p
          BY <2>2, <4>1, LocIp
        <4> QED
          BY <2>4, <4>2, NetAssumption
      <3>3. /\ pc' \in [Clusters -> PCs] /\ \A d \in Clusters \ {c} : pc'[d] = pc[d]
            /\ pc'[c] \in {"lb", "assoc"} /\ hloc' \in [Clusters -> IPs \cup {None}]
        BY <3>1 DEF TypeOK, PCs
      <3> QED
        BY <2>1, <3>2, <3>3 DEF PassStep, TypeOK, objects, copies, NeedIP, NeedId, NeedVpc
    <2> QED
      BY <2>3, <2>5, <2>6
  <1> QED
    BY <1>1, <1>2

LEMMA TypeAssociate ==
    ASSUME TypeOK, NEW c \in Clusters, AssociatePublicIPAddress(c)
    PROVE  PassStep(c)
  <1>1. UNCHANGED <<objects, copies, loc, hloc, net, vpc>> /\ faults' \in 0..MaxFaults
    BY DisturbType DEF AssociatePublicIPAddress, TypeOK
  <1>2. pc[c] \in NeedIP /\ pc[c] \in NeedId /\ loc[c].ip \in IPs
    BY DEF AssociatePublicIPAddress, NeedIP, NeedId, TypeOK, Obj
  <1>3. \/ ip' = ip
        \/ \E o \in Nets \cup Vpcs : ip' = [ip EXCEPT ![loc[c].ip].net = o]
    BY DEF AssociatePublicIPAddress, Up, VpcUp
  <1>4. ip' \in [IPs -> Address]
    BY <1>2, <1>3, IpTaken DEF TypeOK
  <1>5. \E q \in {"tagip", "patch"} : pc' = [pc EXCEPT ![c] = q]
    BY DEF AssociatePublicIPAddress
  <1> QED
    BY <1>1, <1>2, <1>4, <1>5 DEF PassStep, TypeOK, objects, copies, PCs, NeedIP, NeedId, NeedVpc

LEMMA TypeTagIP ==
    ASSUME TypeOK, NEW c \in Clusters, TagIP(c)
    PROVE  PassStep(c)
  <1>1. CASE Fails(c)
    BY <1>1, TypeFails
  <1>2. CASE ~Fails(c)
    <2>1. pc[c] \in NeedIP /\ pc[c] = "tagip" /\ loc[c].ip \in IPs
      BY DEF TagIP, NeedIP, TypeOK, Obj
    <2>2. ip' \in [IPs -> Address]
      BY <1>2, <2>1, IpTag DEF TagIP, TypeOK
    <2> QED
      BY <1>2, <2>1, <2>2 DEF TagIP, PassStep, TypeOK, objects, copies, PCs, NeedIP, NeedId, NeedVpc
  <1> QED
    BY <1>1, <1>2

LEMMA TypeTagIPCreated ==
    ASSUME TypeOK, NEW c \in Clusters, TagIPCreated(c)
    PROVE  PassStep(c)
  <1>1. CASE Fails(c)
    BY <1>1, TypeFails
  <1>2. CASE ~Fails(c)
    <2>1. pc[c] \in NeedIP /\ loc[c].ip \in IPs
      BY DEF TagIPCreated, NeedIP, TypeOK, Obj
    <2>2. ip' \in [IPs -> Address]
      BY <1>2, <2>1, IpCreated DEF TagIPCreated, TypeOK
    <2> QED
      BY <1>2, <2>1, <2>2 DEF TagIPCreated, PassStep, TypeOK, objects, copies, PCs, NeedIP, NeedId, NeedVpc
  <1> QED
    BY <1>1, <1>2

LEMMA RuleType ==
    ASSUME TypeOK, NEW p \in IPs, NEW n
    PROVE  Rule(p, n) \in Nets \cup {None}
  BY DEF Rule, Up, TypeOK, Address

LEMMA TypeLoadBalancer ==
    ASSUME TypeOK, NEW c \in Clusters, GetOrCreateLoadBalancerRule(c)
    PROVE  PassStep(c)
  <1>1. CASE Fails(c)
    BY <1>1, TypeFails
  <1>2. CASE ~Fails(c)
    <2>1. pc[c] \in NeedIP /\ pc[c] \in NeedId /\ loc[c].ip \in IPs
      BY DEF GetOrCreateLoadBalancerRule, NeedIP, NeedId, TypeOK, Obj
    <2>2. ip' \in [IPs -> Address]
      BY <1>2, <2>1, RuleType, IpRule DEF GetOrCreateLoadBalancerRule, TypeOK
    <2>3. UNCHANGED <<objects, copies, loc, hloc, net, vpc>> /\ faults' \in 0..MaxFaults
      BY <1>2, DisturbType DEF GetOrCreateLoadBalancerRule, TypeOK
    <2>4. \E q \in {"patch", "retag", "firewall"} : pc' = [pc EXCEPT ![c] = q]
      BY <1>2 DEF GetOrCreateLoadBalancerRule, AfterRule
    <2> QED
      BY <2>1, <2>2, <2>3, <2>4 DEF PassStep, TypeOK, objects, copies, PCs, NeedIP, NeedId, NeedVpc
  <1> QED
    BY <1>1, <1>2

LEMMA TypeOpenFirewall ==
    ASSUME TypeOK, NEW c \in Clusters, OpenFirewallRules(c)
    PROVE  PassStep(c)
  <1>1. CASE Fails(c)
    BY <1>1, TypeFails
  <1>2. CASE ~Fails(c)
    <2>1. net' = net \/ \E n \in Nets : net' = [net EXCEPT ![n].open = TRUE]
      BY <1>2 DEF OpenFirewallRules, Up
    <2>2. net' \in [Nets -> Network]
      BY <2>1, NetOpen DEF TypeOK
    <2>3. UNCHANGED <<objects, copies, loc, hloc, vpc, ip, faults>>
      BY <1>2 DEF OpenFirewallRules
    <2>4. (\E q \in {"patch", "retag"} : pc' = [pc EXCEPT ![c] = q]) /\ pc[c] \in NeedId
      BY <1>2 DEF OpenFirewallRules, NeedId
    <2> QED
      BY <2>2, <2>3, <2>4 DEF PassStep, TypeOK, objects, copies, PCs, NeedIP, NeedId, NeedVpc
  <1> QED
    BY <1>1, <1>2

LEMMA TypePatchCluster ==
    ASSUME TypeOK, NEW c \in Clusters, PatchCluster(c)
    PROVE  PassStep(c)
  <1>1. CASE Fails(c)
    BY <1>1, TypeFails
  <1>2. CASE ~Fails(c)
    <2>1. /\ UNCHANGED <<layout, obj, seen, hostSeen, copies, hloc, net, vpc, ip>>
          /\ faults' \in 0..MaxFaults
      BY <1>2, DisturbType DEF PatchCluster, TypeOK
    <2>2. loc' \in [Clusters -> Obj] /\ \A d \in Clusters \ {c} : loc'[d] = loc[d]
      BY <1>2, LocReady DEF PatchCluster, TypeOK
    <2>3. host' \in [Clusters -> IPs \cup {None}]
      BY <1>2 DEF PatchCluster, TypeOK
    <2>4. pc' = [pc EXCEPT ![c] = "patch"]
      BY <1>2 DEF PatchCluster
    <2> QED
      BY <2>1, <2>2, <2>3, <2>4 DEF PassStep, TypeOK, copies, PCs, NeedIP, NeedId, NeedVpc
  <1> QED
    BY <1>1, <1>2

LEMMA TypeUntagIP ==
    ASSUME TypeOK, NEW c \in Clusters, UntagIP(c)
    PROVE  PassStep(c)
  <1>1. CASE Fails(c)
    BY <1>1, TypeFails
  <1>2. CASE ~Fails(c)
    <2>1. pc[c] \in NeedIP /\ loc[c].ip \in IPs
      BY DEF UntagIP, NeedIP, TypeOK, Obj
    <2>2. ip' \in [IPs -> Address]
      BY <1>2, <2>1, IpUntag DEF UntagIP, TypeOK
    <2> QED
      BY <1>2, <2>1, <2>2 DEF UntagIP, PassStep, TypeOK, objects, copies, PCs, NeedIP, NeedId, NeedVpc
  <1> QED
    BY <1>1, <1>2

LEMMA TypeReleased ==
    ASSUME TypeOK, NEW c \in Clusters, Released(c)
    PROVE  /\ loc' \in [Clusters -> Obj] /\ \A d \in Clusters \ {c} : loc'[d] = loc[d]
           /\ pc' = [pc EXCEPT ![c] = "patch"]
  BY LocFin DEF Released, TypeOK

LEMMA TypeCheckIP ==
    ASSUME TypeOK, NEW c \in Clusters, CheckIP(c)
    PROVE  PassStep(c)
  <1>1. CASE Fails(c)
    BY <1>1, TypeFails
  <1>2. CASE ~Fails(c)
    <2>1. UNCHANGED <<objects, copies, hloc, net, vpc, ip, faults>>
      BY <1>2 DEF CheckIP
    <2>2. CASE Released(c)
      BY <2>1, <2>2, TypeReleased DEF PassStep, TypeOK, objects, copies, PCs, NeedIP, NeedId, NeedVpc
    <2>3. CASE ~Released(c)
      <3>1. loc' = loc /\ (\E q \in {"untagipcreated", "untagnet"} : pc' = [pc EXCEPT ![c] = q])
        BY <1>2, <2>3 DEF CheckIP
      <3>2. pc[c] \in NeedIP
        BY DEF CheckIP, NeedIP
      <3> QED
        BY <2>1, <3>1, <3>2 DEF PassStep, TypeOK, objects, copies, PCs, NeedIP, NeedId, NeedVpc
    <2> QED
      BY <2>2, <2>3
  <1> QED
    BY <1>1, <1>2

LEMMA TypeUntagIPCreated ==
    ASSUME TypeOK, NEW c \in Clusters, UntagIPCreated(c)
    PROVE  PassStep(c)
  <1>1. CASE Fails(c)
    BY <1>1, TypeFails
  <1>2. CASE ~Fails(c)
    <2>1. pc[c] \in NeedIP /\ loc[c].ip \in IPs
      BY DEF UntagIPCreated, NeedIP, TypeOK, Obj
    <2>2. ip' \in [IPs -> Address]
      BY <1>2, <2>1, IpCreated DEF UntagIPCreated, TypeOK
    <2> QED
      BY <1>2, <2>1, <2>2 DEF UntagIPCreated, PassStep, TypeOK, objects, copies, PCs, NeedIP, NeedId, NeedVpc
  <1> QED
    BY <1>1, <1>2

LEMMA TypeDisassociate ==
    ASSUME TypeOK, NEW c \in Clusters, DisassociatePublicIPAddress(c)
    PROVE  PassStep(c)
  <1>1. UNCHANGED <<objects, copies, loc, hloc, net, vpc>> /\ faults' \in 0..MaxFaults
    BY DisturbType DEF DisassociatePublicIPAddress, TypeOK
  <1>2. loc[c].ip \in IPs
    BY DEF DisassociatePublicIPAddress, NeedIP, TypeOK, Obj
  <1>3. ip' = ip \/ ip' = [ip EXCEPT ![loc[c].ip].net = None, ![loc[c].ip].rule = None]
    BY DEF DisassociatePublicIPAddress
  <1>4. ip' \in [IPs -> Address]
    BY <1>2, <1>3, IpReleased DEF TypeOK
  <1>5. \E q \in {"untagnet", "patch"} : pc' = [pc EXCEPT ![c] = q]
    BY DEF DisassociatePublicIPAddress
  <1> QED
    BY <1>1, <1>4, <1>5 DEF PassStep, TypeOK, objects, copies, PCs, NeedIP, NeedId, NeedVpc

LEMMA TypeUntagNetwork ==
    ASSUME TypeOK, NEW c \in Clusters, UntagNetwork(c)
    PROVE  PassStep(c)
  <1>1. CASE Fails(c)
    BY <1>1, TypeFails
  <1>2. CASE ~Fails(c)
    <2>1. net' = net \/ \E n \in Nets : net' = [net EXCEPT ![n].tags = @ \ {c}]
      BY <1>2 DEF UntagNetwork, Up
    <2>2. net' \in [Nets -> Network]
      BY <2>1, NetUntag DEF TypeOK
    <2> QED
      BY <1>2, <2>2 DEF UntagNetwork, PassStep, TypeOK, objects, copies, PCs, NeedIP, NeedId, NeedVpc
  <1> QED
    BY <1>1, <1>2

\* What is left of NetworkDone to show: the types of pass and working copy.
LEMMA TypeNetworkDone ==
    ASSUME TypeOK, NEW c \in Clusters, NetworkDone(c)
    PROVE  /\ loc' \in [Clusters -> Obj] /\ \A d \in Clusters \ {c} : loc'[d] = loc[d]
           /\ pc' \in [Clusters -> PCs] /\ \A d \in Clusters \ {c} : pc'[d] = pc[d]
           /\ pc'[c] = "patch" \/ (pc'[c] = "untagvpc" /\ loc'[c].vpc # None)
  <1>1. CASE Released(c)
    BY <1>1, TypeReleased DEF TypeOK, PCs
  <1>2. CASE loc' = loc /\ loc[c].vpc # None /\ pc' = [pc EXCEPT ![c] = "untagvpc"]
    BY <1>2 DEF TypeOK, PCs
  <1> QED
    BY <1>1, <1>2 DEF NetworkDone

LEMMA TypeCheckNetwork ==
    ASSUME TypeOK, NEW c \in Clusters, CheckNetwork(c)
    PROVE  PassStep(c)
  <1>1. CASE Fails(c)
    BY <1>1, TypeFails
  <1>2. CASE ~Fails(c)
    <2>1. UNCHANGED <<objects, copies, hloc, net, vpc, ip, faults>>
      BY <1>2 DEF CheckNetwork
    <2>2. CASE NetworkDone(c)
      BY <2>1, <2>2, TypeNetworkDone DEF PassStep, TypeOK, objects, copies, NeedIP, NeedId, NeedVpc
    <2>3. CASE ~NetworkDone(c)
      <3>1. loc' = loc /\ pc' = [pc EXCEPT ![c] = "delnet"] /\ loc[c].id # None
        BY <1>2, <2>3, NetAssumption DEF CheckNetwork, Up
      <3> QED
        BY <2>1, <3>1 DEF PassStep, TypeOK, objects, copies, PCs, NeedIP, NeedId, NeedVpc
    <2> QED
      BY <2>2, <2>3
  <1> QED
    BY <1>1, <1>2

LEMMA TypeDeleteNetwork ==
    ASSUME TypeOK, NEW c \in Clusters, DeleteNetwork(c)
    PROVE  PassStep(c)
  <1>1. UNCHANGED <<objects, copies, hloc, vpc>> /\ faults' \in 0..MaxFaults
    BY DisturbType DEF DeleteNetwork, TypeOK
  <1>2. /\ net' = net \/ \E n \in Nets : net' = [net EXCEPT ![n].state = "gone", ![n].tags = {}]
        /\ ip' = ip \/ \E n \in Nets : ip' = Without(n)
    BY DEF DeleteNetwork, Up
  <1>3. net' \in [Nets -> Network] /\ ip' \in [IPs -> Address]
    BY <1>2, NetGoes, IpWithout DEF TypeOK
  <1>4. CASE NetworkDone(c)
    BY <1>1, <1>3, <1>4, TypeNetworkDone DEF PassStep, TypeOK, objects, copies, NeedIP, NeedId, NeedVpc
  <1>5. CASE ~NetworkDone(c)
    <2>1. loc' = loc /\ pc' = [pc EXCEPT ![c] = "patch"]
      BY <1>5 DEF DeleteNetwork
    <2> QED
      BY <1>1, <1>3, <2>1 DEF PassStep, TypeOK, objects, copies, PCs, NeedIP, NeedId, NeedVpc
  <1> QED
    BY <1>4, <1>5

LEMMA TypeUntagVPC ==
    ASSUME TypeOK, NEW c \in Clusters, UntagVPC(c)
    PROVE  PassStep(c)
  <1>1. CASE Fails(c)
    BY <1>1, TypeFails
  <1>2. CASE ~Fails(c)
    <2>1. vpc' = vpc \/ \E v \in Vpcs : vpc' = [vpc EXCEPT ![v].tags = @ \ {c}]
      BY <1>2 DEF UntagVPC, VpcUp
    <2>2. vpc' \in [Vpcs -> VPC]
      BY <2>1, VpcUntag DEF TypeOK
    <2>3. pc[c] \in NeedVpc
      BY DEF UntagVPC, NeedVpc
    <2> QED
      BY <1>2, <2>2, <2>3 DEF UntagVPC, PassStep, TypeOK, objects, copies, PCs, NeedIP, NeedId, NeedVpc
  <1> QED
    BY <1>1, <1>2

LEMMA TypeCheckVPC ==
    ASSUME TypeOK, NEW c \in Clusters, CheckVPC(c)
    PROVE  PassStep(c)
  <1>1. CASE Fails(c)
    BY <1>1, TypeFails
  <1>2. CASE ~Fails(c)
    <2>1. UNCHANGED <<objects, copies, hloc, net, vpc, ip, faults>>
      BY <1>2 DEF CheckVPC
    <2>2. CASE Released(c)
      BY <2>1, <2>2, TypeReleased DEF PassStep, TypeOK, objects, copies, PCs, NeedIP, NeedId, NeedVpc
    <2>3. CASE ~Released(c)
      <3>1. loc' = loc /\ pc' = [pc EXCEPT ![c] = "delvpc"] /\ loc[c].vpc # None
        BY <1>2, <2>3, NetAssumption DEF CheckVPC, VpcUp
      <3> QED
        BY <2>1, <3>1 DEF PassStep, TypeOK, objects, copies, PCs, NeedIP, NeedId, NeedVpc
    <2> QED
      BY <2>2, <2>3
  <1> QED
    BY <1>1, <1>2

LEMMA TypeDeleteVPC ==
    ASSUME TypeOK, NEW c \in Clusters, DeleteVPC(c)
    PROVE  PassStep(c)
  <1>1. UNCHANGED <<objects, copies, hloc, net>> /\ faults' \in 0..MaxFaults
    BY DisturbType DEF DeleteVPC, TypeOK
  <1>2. /\ vpc' = vpc \/ \E v \in Vpcs : vpc' = [vpc EXCEPT ![v].state = "gone", ![v].tags = {}]
        /\ ip' = ip \/ \E v \in Vpcs : ip' = Without(v)
    BY DEF DeleteVPC, VpcUp
  <1>3. vpc' \in [Vpcs -> VPC] /\ ip' \in [IPs -> Address]
    BY <1>2, VpcGoes, IpWithout DEF TypeOK
  <1>4. CASE Released(c)
    BY <1>1, <1>3, <1>4, TypeReleased DEF PassStep, TypeOK, objects, copies, PCs, NeedIP, NeedId, NeedVpc
  <1>5. CASE ~Released(c)
    <2>1. loc' = loc /\ pc' = [pc EXCEPT ![c] = "patch"]
      BY <1>5 DEF DeleteVPC
    <2> QED
      BY <1>1, <1>3, <2>1 DEF PassStep, TypeOK, objects, copies, PCs, NeedIP, NeedId, NeedVpc
  <1> QED
    BY <1>4, <1>5

(***************************************************************************)
(* Everything else has its types.                                          *)
(***************************************************************************)
LEMMA GuardedType ==
    ASSUME NEW o \in Obj
    PROVE  LET g == [o EXCEPT !.fin = @ \/ ~o.deleting]
           IN  g \in Obj /\ g.id = o.id /\ g.vpc = o.vpc /\ g.ip = o.ip /\ g.ready = o.ready
  BY DEF Obj

LEMMA TypeStart ==
    ASSUME TypeOK, NEW c \in Clusters, Start(c)
    PROVE  TypeOK'
  <1> DEFINE o == seen[c]
             g == [o EXCEPT !.fin = @ \/ ~o.deleting]
  <1>1. UNCHANGED <<objects, net, vpc, ip>> /\ faults' \in 0..MaxFaults
    BY DisturbType DEF Start, TypeOK
  <1>2. /\ base' = [base EXCEPT ![c] = o] /\ hbase' = [hbase EXCEPT ![c] = hostSeen[c]]
        /\ hloc' = [hloc EXCEPT ![c] = hostSeen[c]]
    BY DEF Start
  <1>3. o \in Obj /\ g \in Obj /\ g.ip = o.ip
    BY GuardedType DEF TypeOK
  <1>4. \/ loc' = [loc EXCEPT ![c] = g]
        \/ loc' = [loc EXCEPT ![c] = o]
    BY DEF Start
  <1>5. \E q \in {"resolve", "untagip", "untagnet", "patch"} :
          /\ pc' = [pc EXCEPT ![c] = q]
          /\ q = "untagip" => o.ip # None
    BY DEF Start, DisposeFrom
  <1> HIDE DEF o, g
  <1>6. /\ base' \in [Clusters -> Obj] /\ loc' \in [Clusters -> Obj]
        /\ \A d \in Clusters \ {c} : loc'[d] = loc[d]
        /\ loc'[c].ip = o.ip
    BY <1>2, <1>3, <1>4 DEF TypeOK
  <1>7. /\ hbase' \in [Clusters -> IPs \cup {None}] /\ hloc' \in [Clusters -> IPs \cup {None}]
    BY <1>2 DEF TypeOK
  <1>8. /\ pc' \in [Clusters -> PCs] /\ \A d \in Clusters \ {c} : pc'[d] = pc[d]
        /\ pc'[c] \in {"resolve", "untagip", "untagnet", "patch"}
        /\ pc'[c] = "untagip" => o.ip # None
    BY <1>5 DEF TypeOK, PCs
  <1> QED
    BY <1>1, <1>6, <1>7, <1>8 DEF TypeOK, objects, NeedIP, NeedId, NeedVpc

LEMMA CollectedType ==
    ASSUME NEW o \in Obj
    PROVE  /\ Collected(o) \in Obj
           /\ [o EXCEPT !.deleting = TRUE] \in Obj
  BY DEF Collected, Obj

LEMMA SpecPatchType ==
    ASSUME NEW o \in Obj, NEW b \in Obj, NEW l \in Obj
    PROVE  SpecPatch(o, b, l) \in Obj
  <1>1. [o EXCEPT !.fin = IF l.fin = b.fin THEN @ ELSE l.fin,
                  !.id  = IF l.id = b.id THEN @ ELSE l.id,
                  !.vpc = IF l.vpc = b.vpc THEN @ ELSE l.vpc] \in Obj
    BY DEF Obj
  <1> QED
    BY <1>1, CollectedType DEF SpecPatch

LEMMA StatusPatchType ==
    ASSUME NEW o \in Obj, NEW b \in Obj, NEW l \in Obj
    PROVE  StatusPatch(o, b, l) \in Obj
  BY DEF StatusPatch, Obj

LEMMA TypePatch ==
    ASSUME TypeOK, NEW c \in Clusters, Patch(c)
    PROVE  TypeOK'
  <1> DEFINE s == SpecPatch(obj[c], base[c], loc[c])
  <1>1. UNCHANGED <<layout, seen, host, hostSeen, net, vpc, ip>> /\ faults' \in 0..MaxFaults
    BY DisturbType DEF Patch, TypeOK
  <1>2. /\ base' = [base EXCEPT ![c] = NewObj] /\ loc' = [loc EXCEPT ![c] = NewObj]
        /\ hbase' = [hbase EXCEPT ![c] = None] /\ hloc' = [hloc EXCEPT ![c] = None]
        /\ pc' = [pc EXCEPT ![c] = "idle"]
    BY DEF Patch
  <1>3. obj[c] \in Obj /\ base[c] \in Obj /\ loc[c] \in Obj
    BY DEF TypeOK
  <1>4. s \in Obj
    BY <1>3, SpecPatchType
  <1> HIDE DEF s
  <1>5. StatusPatch(s, base[c], loc[c]) \in Obj /\ StatusPatch(obj[c], base[c], loc[c]) \in Obj
    BY <1>3, <1>4, StatusPatchType
  <1>6. \E o \in {obj[c], s, StatusPatch(s, base[c], loc[c]), StatusPatch(obj[c], base[c], loc[c])} :
          obj' = [obj EXCEPT ![c] = o]
    BY DEF Patch, s
  <1>7. obj' \in [Clusters -> Obj]
    BY <1>3, <1>4, <1>5, <1>6 DEF TypeOK
  <1>8. /\ base' \in [Clusters -> Obj] /\ loc' \in [Clusters -> Obj]
        /\ hbase' \in [Clusters -> IPs \cup {None}] /\ hloc' \in [Clusters -> IPs \cup {None}]
        /\ pc' \in [Clusters -> PCs] /\ pc'[c] = "idle"
        /\ \A d \in Clusters \ {c} : pc'[d] = pc[d] /\ loc'[d] = loc[d]
    BY <1>2, NewObjType DEF TypeOK, PCs
  <1> QED
    BY <1>1, <1>7, <1>8 DEF TypeOK, NeedIP, NeedId, NeedVpc

LEMMA TypePass ==
    ASSUME TypeOK, NEW c \in Clusters, Pass(c)
    PROVE  Start(c) \/ Patch(c) \/ PassStep(c)
  BY TypeResolveNetwork, TypeResolveVPC, TypeCreateVPC, TypeTagVPCCreated, TypeTagVPC,
     TypeCreateNetwork, TypeTagCreated, TypeTagNetwork, TypeGetPublicIP, TypeAssociate,
     TypeTagIP, TypeTagIPCreated, TypeLoadBalancer, TypeOpenFirewall, TypePatchCluster,
     TypeUntagIP, TypeCheckIP, TypeUntagIPCreated, TypeDisassociate, TypeUntagNetwork,
     TypeCheckNetwork, TypeDeleteNetwork, TypeUntagVPC, TypeCheckVPC, TypeDeleteVPC DEF Pass

LEMMA TypeWatch ==
    ASSUME TypeOK, NEW c \in Clusters, WatchNetwork(c) \/ WatchCluster(c)
    PROVE  TypeOK'
  BY DEF WatchNetwork, WatchCluster, TypeOK, copies

LEMMA TypeDeleteRequested ==
    ASSUME TypeOK, NEW c \in Clusters, DeleteRequested(c)
    PROVE  TypeOK'
  <1>1. Collected([obj[c] EXCEPT !.deleting = TRUE]) \in Obj
    BY CollectedType DEF TypeOK
  <1>2. obj' = [obj EXCEPT ![c] = Collected([obj[c] EXCEPT !.deleting = TRUE])]
    BY DEF DeleteRequested
  <1>3. obj' \in [Clusters -> Obj]
    BY <1>1, <1>2 DEF TypeOK
  <1> QED
    BY <1>3 DEF DeleteRequested, TypeOK, copies

LEMMA TypeCrash ==
    ASSUME TypeOK, Crash
    PROVE  TypeOK'
  <1>1. faults' \in 0..MaxFaults
    BY DisturbType DEF Crash, TypeOK
  <1> QED
    BY <1>1, NewObjType DEF Crash, TypeOK, PCs, NeedIP, NeedId, NeedVpc

LEMMA TypeInit == Init => TypeOK
  <1> SUFFICES ASSUME Init PROVE TypeOK
    OBVIOUS
  <1>1. net \in [Nets -> Network] /\ vpc \in [Vpcs -> VPC] /\ ip \in [IPs -> Address]
    BY DEF Init, Network, VPC, Address
  <1>2. pc \in [Clusters -> PCs] /\ \A c \in Clusters : pc[c] = "idle"
    BY DEF Init, PCs
  <1>3. layout \in Layouts /\ faults \in 0..MaxFaults
    BY BoundAssumption DEF Init
  <1>4. /\ obj = [c \in Clusters |-> NewObj] /\ seen = obj
        /\ base = [c \in Clusters |-> NewObj] /\ loc = base
        /\ host = [c \in Clusters |-> None] /\ hostSeen = host
        /\ hbase = [c \in Clusters |-> None] /\ hloc = hbase
    BY DEF Init
  <1> QED
    BY <1>1, <1>2, <1>3, <1>4, NewObjType DEF TypeOK, NeedIP, NeedId, NeedVpc

LEMMA TypeNext == TypeOK /\ [Next]_vars => TypeOK'
  <1> SUFFICES ASSUME TypeOK, [Next]_vars PROVE TypeOK'
    OBVIOUS
  <1>1. ASSUME NEW c \in Clusters, Pass(c) PROVE TypeOK'
    BY <1>1, TypePass, TypePassStep, TypeStart, TypePatch
  <1>2. CASE UNCHANGED vars
    BY <1>2 DEF vars, objects, copies, TypeOK
  <1> QED
    BY <1>1, <1>2, TypeWatch, TypeDeleteRequested, TypeCrash DEF Next

\* Every variable has its type, and no CloudStack call is made without the id
\* or the address it is about.
THEOREM TypeCorrect == Spec => []TypeOK
  BY TypeInit, TypeNext, PTL DEF Spec

(***************************************************************************)
(* The endpoint.                                                           *)
(***************************************************************************)

\* Only PatchCluster writes the endpoint.
LEMMA HostWriter ==
    ASSUME Next, NEW c \in Clusters, host'[c] # host[c]
    PROVE  \E d \in Clusters : PatchCluster(d)
  <1> USE DEF objects
  <1>1. ASSUME NEW d \in Clusters, Pass(d) PROVE host' = host \/ PatchCluster(d)
    <2>1. Start(d) \/ Patch(d) => host' = host
      BY DEF Start, Patch
    <2>2. Fails(d) => host' = host
      BY DEF Fails
    <2>3. (\/ ResolveNetwork(d) \/ ResolveVPC(d) \/ CreateVPC(d) \/ TagVPCCreated(d)
           \/ CreateNetwork(d) \/ TagCreated(d) \/ TagNetwork(d) \/ TagVPC(d))
          => host' = host
      BY <2>2 DEF ResolveNetwork, ResolveVPC, CreateVPC, TagVPCCreated, CreateNetwork,
                  TagCreated, TagNetwork, TagVPC
    <2>4. (\/ GetPublicIP(d) \/ AssociatePublicIPAddress(d) \/ TagIP(d) \/ TagIPCreated(d)
           \/ GetOrCreateLoadBalancerRule(d) \/ OpenFirewallRules(d))
          => host' = host
      BY <2>2 DEF GetPublicIP, AssociatePublicIPAddress, TagIP, TagIPCreated,
                  GetOrCreateLoadBalancerRule, OpenFirewallRules
    <2>5. (\/ UntagIP(d) \/ CheckIP(d) \/ UntagIPCreated(d) \/ DisassociatePublicIPAddress(d)
           \/ UntagNetwork(d) \/ CheckNetwork(d) \/ DeleteNetwork(d))
          => host' = host
      BY <2>2 DEF UntagIP, CheckIP, UntagIPCreated, DisassociatePublicIPAddress,
                  UntagNetwork, CheckNetwork, DeleteNetwork
    <2>6. UntagVPC(d) \/ CheckVPC(d) \/ DeleteVPC(d) => host' = host
      BY <2>2 DEF UntagVPC, CheckVPC, DeleteVPC
    <2> QED
      BY <1>1, <2>1, <2>3, <2>4, <2>5, <2>6 DEF Pass
  <1>2. ASSUME NEW d \in Clusters, WatchNetwork(d) \/ WatchCluster(d) \/ DeleteRequested(d)
        PROVE  host' = host
    BY <1>2 DEF WatchNetwork, WatchCluster, DeleteRequested
  <1>3. Crash => host' = host
    BY DEF Crash
  <1> QED
    BY <1>1, <1>2, <1>3 DEF Next

\* The webhook admits only the first value.
LEMMA HostStays ==
    ASSUME TypeOK, Next, NEW c \in Clusters, host[c] # None
    PROVE  host'[c] = host[c]
  <1> SUFFICES ASSUME host'[c] # host[c] PROVE FALSE
    OBVIOUS
  <1>1. PICK d \in Clusters : PatchCluster(d)
    BY HostWriter
  <1>2. Fails(d) => host' = host
    BY DEF Fails, objects
  <1>3. host' = [host EXCEPT ![d] = hloc[d]] /\ EndpointAdmitted(host[d], hloc[d])
    BY <1>1, <1>2 DEF PatchCluster
  <1> QED
    BY <1>3 DEF EndpointAdmitted, TypeOK

(***************************************************************************)
(* Networks and VPCs that were there before.                               *)
(***************************************************************************)

\* A network that was there is up and is not marked as created by CAPC, no
\* pass is about to mark or to delete it; and the same for VPCs.
GivenInv ==
    /\ TypeOK
    /\ \A n \in Nets : net[n].given => net[n].state = "up" /\ ~net[n].created
    /\ \A v \in Vpcs : vpc[v].given => vpc[v].state = "up" /\ ~vpc[v].created
    /\ \A c \in Clusters :
          /\ pc[c] \in {"tagcreated", "delnet"} => ~net[loc[c].id].given
          /\ pc[c] \in {"tagvpccreated", "delvpc"} => ~vpc[loc[c].vpc].given

\* A step leaves what was there as it is.
NetsKept ==
    \A n \in Nets : /\ net'[n].given = net[n].given
                    /\ net[n].given => net'[n].state = net[n].state /\ net'[n].created = net[n].created

VpcsKept ==
    \A v \in Vpcs : /\ vpc'[v].given = vpc[v].given
                    /\ vpc[v].given => vpc'[v].state = vpc[v].state /\ vpc'[v].created = vpc[v].created

LEMMA IdType ==
    ASSUME TypeOK, NEW c \in Clusters
    PROVE  /\ loc[c].id \in Nets \cup {None} /\ loc[c].vpc \in Vpcs \cup {None}
           /\ loc[c].ip \in IPs \cup {None}
  BY DEF TypeOK, Obj

\* A step of a pass of c keeps GivenInv if it keeps what was there and does not
\* begin to mark or to delete it.
LEMMA GivenStep ==
    ASSUME GivenInv, NEW c \in Clusters, PassStep(c), NetsKept, VpcsKept,
           pc'[c] \in {"tagcreated", "delnet"} => ~net[loc'[c].id].given,
           pc'[c] \in {"tagvpccreated", "delvpc"} => ~vpc[loc'[c].vpc].given
    PROVE  GivenInv'
  <1>1. TypeOK'
    BY TypePassStep DEF GivenInv
  <1>2. \A d \in Clusters : /\ pc'[d] \in {"tagcreated", "delnet"} => loc'[d].id \in Nets
                            /\ pc'[d] \in {"tagvpccreated", "delvpc"} => loc'[d].vpc \in Vpcs
    BY <1>1 DEF TypeOK, Obj, NeedId, NeedVpc
  <1>3. /\ \A n \in Nets : net'[n].given => net'[n].state = "up" /\ ~net'[n].created
        /\ \A v \in Vpcs : vpc'[v].given => vpc'[v].state = "up" /\ ~vpc'[v].created
    BY DEF GivenInv, NetsKept, VpcsKept
  <1>4. \A d \in Clusters :
          /\ pc'[d] \in {"tagcreated", "delnet"} => ~net'[loc'[d].id].given
          /\ pc'[d] \in {"tagvpccreated", "delvpc"} => ~vpc'[loc'[d].vpc].given
    <2> SUFFICES ASSUME NEW d \in Clusters
                 PROVE  /\ pc'[d] \in {"tagcreated", "delnet"} => ~net'[loc'[d].id].given
                        /\ pc'[d] \in {"tagvpccreated", "delvpc"} => ~vpc'[loc'[d].vpc].given
      OBVIOUS
    <2>1. CASE d = c
      BY <1>2, <2>1 DEF NetsKept, VpcsKept
    <2>2. CASE d # c
      <3>1. pc'[d] = pc[d] /\ loc'[d] = loc[d]
        BY <2>2 DEF PassStep
      <3> QED
        BY <1>2, <3>1 DEF GivenInv, NetsKept, VpcsKept
    <2> QED
      BY <2>1, <2>2
  <1> QED
    BY <1>1, <1>3, <1>4 DEF GivenInv

LEMMA GivenFails ==
    ASSUME GivenInv, NEW c \in Clusters, Fails(c)
    PROVE  GivenInv'
  <1>1. PassStep(c)
    BY TypeFails DEF GivenInv
  <1>2. NetsKept /\ VpcsKept /\ pc'[c] = "patch"
    BY DEF Fails, NetsKept, VpcsKept, GivenInv, TypeOK
  <1> QED
    BY <1>1, <1>2, GivenStep

\* Networks change one field at a time.
LEMMA NetFields ==
    ASSUME net \in [Nets -> Network], NEW n \in Nets,
           \/ net[n].state = "absent" /\ \E v : net' = [net EXCEPT ![n].state = "up", ![n].vpc = v]
           \/ ~net[n].given /\ net' = [net EXCEPT ![n].created = TRUE]
           \/ net' = [net EXCEPT ![n].open = TRUE]
           \/ \E c : net' = [net EXCEPT ![n].tags = @ \ {c}]
           \/ \E c : net' = [net EXCEPT ![n] = AddClusterTag(@, c)]
           \/ ~net[n].given /\ net' = [net EXCEPT ![n].state = "gone", ![n].tags = {}],
           net[n].given => net[n].state = "up"
    PROVE  NetsKept
  BY DEF NetsKept, Network, AddClusterTag

LEMMA VpcFields ==
    ASSUME vpc \in [Vpcs -> VPC], NEW v \in Vpcs,
           \/ vpc[v].state = "absent" /\ vpc' = [vpc EXCEPT ![v].state = "up"]
           \/ ~vpc[v].given /\ vpc' = [vpc EXCEPT ![v].created = TRUE]
           \/ \E c : vpc' = [vpc EXCEPT ![v].tags = @ \ {c}]
           \/ \E c : vpc' = [vpc EXCEPT ![v] = AddClusterTag(@, c)]
           \/ ~vpc[v].given /\ vpc' = [vpc EXCEPT ![v].state = "gone", ![v].tags = {}],
           vpc[v].given => vpc[v].state = "up"
    PROVE  VpcsKept
  BY DEF VpcsKept, VPC, AddClusterTag

Marking == {"tagcreated", "delnet", "tagvpccreated", "delvpc"}

\* Most steps touch no network and no VPC.
LEMMA GivenQuiet ==
    ASSUME GivenInv, NEW c \in Clusters, PassStep(c), net' = net, vpc' = vpc, pc'[c] \notin Marking
    PROVE  GivenInv'
  BY GivenStep DEF NetsKept, VpcsKept, Marking

LEMMA GivenQuietSteps ==
    ASSUME GivenInv, NEW c \in Clusters, PassStep(c),
           \/ ResolveNetwork(c) \/ ResolveVPC(c) \/ GetPublicIP(c) \/ AssociatePublicIPAddress(c)
           \/ TagIP(c) \/ TagIPCreated(c) \/ GetOrCreateLoadBalancerRule(c) \/ PatchCluster(c)
           \/ UntagIP(c) \/ CheckIP(c) \/ UntagIPCreated(c) \/ DisassociatePublicIPAddress(c)
    PROVE  GivenInv'
  <1> USE DEF GivenInv, TypeOK, Marking
  <1>1. CASE Fails(c)
    BY <1>1, GivenFails
  <1>2. CASE ~Fails(c)
    <2>1. net' = net /\ vpc' = vpc
      BY <1>2 DEF ResolveNetwork, ResolveVPC, GetPublicIP, AssociatePublicIPAddress, TagIP,
           TagIPCreated, GetOrCreateLoadBalancerRule, PatchCluster, UntagIP, CheckIP,
           UntagIPCreated, DisassociatePublicIPAddress
    <2>2. CASE ResolveNetwork(c) \/ ResolveVPC(c) \/ GetPublicIP(c) \/ AssociatePublicIPAddress(c)
      <3>1. pc'[c] \notin Marking
        BY <1>2, <2>2 DEF ResolveNetwork, ResolveVPC, GetPublicIP, AssociatePublicIPAddress
      <3> QED
        BY <2>1, <3>1, GivenQuiet
    <2>3. CASE TagIP(c) \/ TagIPCreated(c) \/ GetOrCreateLoadBalancerRule(c) \/ PatchCluster(c)
      <3>1. pc'[c] \notin Marking
        BY <1>2, <2>3 DEF TagIP, TagIPCreated, GetOrCreateLoadBalancerRule, PatchCluster, AfterRule
      <3> QED
        BY <2>1, <3>1, GivenQuiet
    <2>4. CASE UntagIP(c) \/ CheckIP(c) \/ UntagIPCreated(c) \/ DisassociatePublicIPAddress(c)
      <3>1. pc'[c] \notin Marking
        BY <1>2, <2>4 DEF UntagIP, CheckIP, UntagIPCreated, DisassociatePublicIPAddress, Released
      <3> QED
        BY <2>1, <3>1, GivenQuiet
    <2> QED
      BY <2>2, <2>3, <2>4
  <1> QED
    BY <1>1, <1>2

LEMMA GivenCreateVPC ==
    ASSUME GivenInv, NEW c \in Clusters, CreateVPC(c)
    PROVE  GivenInv'
  <1>1. PassStep(c) /\ NetsKept
    BY TypeCreateVPC DEF CreateVPC, NetsKept, GivenInv
  <1>2. \/ vpc' = vpc
        \/ \E v \in Vpcs : vpc[v].state = "absent" /\ vpc' = [vpc EXCEPT ![v].state = "up"]
    BY DEF CreateVPC
  <1>3. VpcsKept
    <2>1. CASE vpc' = vpc
      BY <2>1 DEF VpcsKept
    <2>2. ASSUME NEW v \in Vpcs, vpc[v].state = "absent", vpc' = [vpc EXCEPT ![v].state = "up"]
          PROVE  VpcsKept
      BY <2>2, VpcFields DEF GivenInv, TypeOK
    <2> QED
      BY <1>2, <2>1, <2>2
  <1>4. \/ pc'[c] = "patch"
        \/ /\ pc'[c] = "tagvpccreated"
           /\ \E v \in Vpcs : vpc[v].state = "absent" /\ loc' = [loc EXCEPT ![c].vpc = v]
    BY DEF CreateVPC, GivenInv, TypeOK
  <1>5. ASSUME NEW v \in Vpcs, vpc[v].state = "absent", loc' = [loc EXCEPT ![c].vpc = v]
        PROVE  ~vpc[loc'[c].vpc].given
    BY <1>5, LocVpc DEF GivenInv, TypeOK
  <1> QED
    BY <1>1, <1>3, <1>4, <1>5, GivenStep

LEMMA GivenTagVPCCreated ==
    ASSUME GivenInv, NEW c \in Clusters, TagVPCCreated(c)
    PROVE  GivenInv'
  <1>1. CASE Fails(c)
    BY <1>1, GivenFails
  <1>2. CASE ~Fails(c)
    <2>1. PassStep(c) /\ NetsKept /\ pc'[c] \notin Marking
      BY <1>2, TypeTagVPCCreated DEF TagVPCCreated, NetsKept, GivenInv, TypeOK, Marking
    <2>2. CASE vpc' = vpc
      BY <2>1, <2>2, GivenStep DEF VpcsKept, Marking
    <2>3. CASE vpc' # vpc
      <3>1. /\ loc[c].vpc \in Vpcs /\ ~vpc[loc[c].vpc].given
            /\ vpc' = [vpc EXCEPT ![loc[c].vpc].created = TRUE]
        BY <1>2, <2>3 DEF TagVPCCreated, VpcUp, GivenInv
      <3>2. VpcsKept
        BY <3>1, VpcFields DEF GivenInv, TypeOK
      <3> QED
        BY <2>1, <3>2, GivenStep DEF Marking
    <2> QED
      BY <2>2, <2>3
  <1> QED
    BY <1>1, <1>2

LEMMA GivenTagVPC ==
    ASSUME GivenInv, NEW c \in Clusters, TagVPC(c) \/ UntagVPC(c)
    PROVE  GivenInv'
  <1>1. CASE Fails(c)
    BY <1>1, GivenFails
  <1>2. CASE ~Fails(c)
    <2>1. PassStep(c) /\ NetsKept
      BY <1>2, TypeTagVPC, TypeUntagVPC DEF TagVPC, UntagVPC, NetsKept, GivenInv
    <2>2. pc'[c] \notin Marking
      BY <1>2 DEF TagVPC, UntagVPC, Endpoint, GivenInv, TypeOK, Marking
    <2>3. \/ vpc' = vpc
          \/ /\ loc[c].vpc \in Vpcs
             /\ \/ vpc' = [vpc EXCEPT ![loc[c].vpc] = AddClusterTag(@, c)]
                \/ vpc' = [vpc EXCEPT ![loc[c].vpc].tags = @ \ {c}]
      BY <1>2 DEF TagVPC, UntagVPC, VpcUp
    <2>4. VpcsKept
      BY <2>3, VpcFields DEF GivenInv, TypeOK, VpcsKept
    <2> QED
      BY <2>1, <2>2, <2>4, GivenStep DEF Marking
  <1> QED
    BY <1>1, <1>2

LEMMA GivenCheckVPC ==
    ASSUME GivenInv, NEW c \in Clusters, CheckVPC(c)
    PROVE  GivenInv'
  <1>1. CASE Fails(c)
    BY <1>1, GivenFails
  <1>2. CASE ~Fails(c)
    <2>1. PassStep(c) /\ NetsKept /\ VpcsKept
      BY <1>2, TypeCheckVPC DEF CheckVPC, NetsKept, VpcsKept, GivenInv
    <2>2. \/ pc'[c] = "patch"
          \/ pc'[c] = "delvpc" /\ loc' = loc /\ loc[c].vpc \in Vpcs /\ vpc[loc[c].vpc].created
      BY <1>2 DEF CheckVPC, Released, VpcUp, TagsAllowDisposal, GivenInv, TypeOK
    <2> QED
      BY <2>1, <2>2, GivenStep DEF GivenInv
  <1> QED
    BY <1>1, <1>2

LEMMA GivenDeleteVPC ==
    ASSUME GivenInv, NEW c \in Clusters, DeleteVPC(c)
    PROVE  GivenInv'
  <1>1. PassStep(c) /\ NetsKept
    BY TypeDeleteVPC DEF DeleteVPC, NetsKept, GivenInv
  <1>2. pc'[c] = "patch"
    BY DEF DeleteVPC, Released, GivenInv, TypeOK
  <1>3. \/ vpc' = vpc
        \/ /\ loc[c].vpc \in Vpcs /\ ~vpc[loc[c].vpc].given
           /\ vpc' = [vpc EXCEPT ![loc[c].vpc].state = "gone", ![loc[c].vpc].tags = {}]
    BY DEF DeleteVPC, VpcUp, GivenInv
  <1>4. VpcsKept
    BY <1>3, VpcFields DEF GivenInv, TypeOK, VpcsKept
  <1> QED
    BY <1>1, <1>2, <1>4, GivenStep

LEMMA GivenCreateNetwork ==
    ASSUME GivenInv, NEW c \in Clusters, CreateNetwork(c)
    PROVE  GivenInv'
  <1>1. PassStep(c) /\ VpcsKept
    BY TypeCreateNetwork DEF CreateNetwork, VpcsKept, GivenInv
  <1>2. \/ net' = net
        \/ \E n \in Nets : /\ net[n].state = "absent"
                           /\ net' = [net EXCEPT ![n].state = "up", ![n].vpc = loc[c].vpc]
    BY DEF CreateNetwork
  <1>3. NetsKept
    <2>1. CASE net' = net
      BY <2>1 DEF NetsKept
    <2>2. ASSUME NEW n \in Nets, net[n].state = "absent",
                 net' = [net EXCEPT ![n].state = "up", ![n].vpc = loc[c].vpc]
          PROVE  NetsKept
      BY <2>2, NetFields DEF GivenInv, TypeOK
    <2> QED
      BY <1>2, <2>1, <2>2
  <1>4. \/ pc'[c] = "patch"
        \/ /\ pc'[c] = "tagcreated"
           /\ \E n \in Nets : net[n].state = "absent" /\ loc' = [loc EXCEPT ![c].id = n]
    BY DEF CreateNetwork, GivenInv, TypeOK
  <1>5. ASSUME NEW n \in Nets, net[n].state = "absent", loc' = [loc EXCEPT ![c].id = n]
        PROVE  ~net[loc'[c].id].given
    BY <1>5, LocId DEF GivenInv, TypeOK
  <1> QED
    BY <1>1, <1>3, <1>4, <1>5, GivenStep

LEMMA GivenTagCreated ==
    ASSUME GivenInv, NEW c \in Clusters, TagCreated(c)
    PROVE  GivenInv'
  <1>1. CASE Fails(c)
    BY <1>1, GivenFails
  <1>2. CASE ~Fails(c)
    <2>1. PassStep(c) /\ VpcsKept /\ pc'[c] \notin Marking
      BY <1>2, TypeTagCreated DEF TagCreated, VpcsKept, GivenInv, TypeOK, Marking
    <2>2. CASE net' = net
      BY <2>1, <2>2, GivenStep DEF NetsKept, Marking
    <2>3. CASE net' # net
      <3>1. /\ loc[c].id \in Nets /\ ~net[loc[c].id].given
            /\ net' = [net EXCEPT ![loc[c].id].created = TRUE]
        BY <1>2, <2>3 DEF TagCreated, Up, GivenInv
      <3>2. NetsKept
        BY <3>1, NetFields DEF GivenInv, TypeOK
      <3> QED
        BY <2>1, <3>2, GivenStep DEF Marking
    <2> QED
      BY <2>2, <2>3
  <1> QED
    BY <1>1, <1>2

LEMMA GivenTagNetwork ==
    ASSUME GivenInv, NEW c \in Clusters, TagNetwork(c) \/ UntagNetwork(c) \/ OpenFirewallRules(c)
    PROVE  GivenInv'
  <1>1. CASE Fails(c)
    BY <1>1, GivenFails
  <1>2. CASE ~Fails(c)
    <2>1. PassStep(c) /\ VpcsKept
      BY <1>2, TypeTagNetwork, TypeUntagNetwork, TypeOpenFirewall
         DEF TagNetwork, UntagNetwork, OpenFirewallRules, VpcsKept, GivenInv
    <2>2. pc'[c] \notin Marking
      BY <1>2 DEF TagNetwork, UntagNetwork, OpenFirewallRules, Endpoint, GivenInv, TypeOK, Marking
    <2>3. \/ net' = net
          \/ /\ loc[c].id \in Nets
             /\ \/ net' = [net EXCEPT ![loc[c].id] = AddClusterTag(@, c)]
                \/ net' = [net EXCEPT ![loc[c].id].tags = @ \ {c}]
                \/ net' = [net EXCEPT ![loc[c].id].open = TRUE]
      BY <1>2 DEF TagNetwork, UntagNetwork, OpenFirewallRules, Up
    <2>4. NetsKept
      BY <2>3, NetFields DEF GivenInv, TypeOK, NetsKept
    <2> QED
      BY <2>1, <2>2, <2>4, GivenStep DEF Marking
  <1> QED
    BY <1>1, <1>2

LEMMA GivenCheckNetwork ==
    ASSUME GivenInv, NEW c \in Clusters, CheckNetwork(c)
    PROVE  GivenInv'
  <1>1. CASE Fails(c)
    BY <1>1, GivenFails
  <1>2. CASE ~Fails(c)
    <2>1. PassStep(c) /\ NetsKept /\ VpcsKept
      BY <1>2, TypeCheckNetwork DEF CheckNetwork, NetsKept, VpcsKept, GivenInv
    <2>2. \/ pc'[c] \in {"patch", "untagvpc"}
          \/ pc'[c] = "delnet" /\ loc' = loc /\ loc[c].id \in Nets /\ net[loc[c].id].created
      BY <1>2 DEF CheckNetwork, NetworkDone, Released, Up, TagsAllowDisposal, GivenInv, TypeOK
    <2> QED
      BY <2>1, <2>2, GivenStep DEF GivenInv
  <1> QED
    BY <1>1, <1>2

LEMMA GivenDeleteNetwork ==
    ASSUME GivenInv, NEW c \in Clusters, DeleteNetwork(c)
    PROVE  GivenInv'
  <1>1. PassStep(c) /\ VpcsKept
    BY TypeDeleteNetwork DEF DeleteNetwork, VpcsKept, GivenInv
  <1>2. pc'[c] \in {"patch", "untagvpc"}
    BY DEF DeleteNetwork, NetworkDone, Released, GivenInv, TypeOK
  <1>3. \/ net' = net
        \/ /\ loc[c].id \in Nets /\ ~net[loc[c].id].given
           /\ net' = [net EXCEPT ![loc[c].id].state = "gone", ![loc[c].id].tags = {}]
    BY DEF DeleteNetwork, Up, GivenInv
  <1>4. NetsKept
    BY <1>3, NetFields DEF GivenInv, TypeOK, NetsKept
  <1> QED
    BY <1>1, <1>2, <1>4, GivenStep

LEMMA GivenStartPatch ==
    ASSUME GivenInv, NEW c \in Clusters, Start(c) \/ Patch(c)
    PROVE  GivenInv'
  <1>1. TypeOK'
    BY TypeStart, TypePatch DEF GivenInv
  <1>2. net' = net /\ vpc' = vpc
    BY DEF Start, Patch
  <1>3. /\ pc'[c] \notin Marking
        /\ \A d \in Clusters \ {c} : pc'[d] = pc[d] /\ loc'[d] = loc[d]
    BY DEF Start, Patch, DisposeFrom, Marking, GivenInv, TypeOK
  <1> QED
    BY <1>1, <1>2, <1>3 DEF GivenInv, Marking

LEMMA GivenInit == Init => GivenInv
  <1> SUFFICES ASSUME Init PROVE GivenInv
    OBVIOUS
  <1>1. /\ \A n \in Nets : net[n].given => net[n].state = "up" /\ ~net[n].created
        /\ \A v \in Vpcs : vpc[v].given => vpc[v].state = "up" /\ ~vpc[v].created
    <2>1. PICK g \in SUBSET Provided, place \in [Nets -> Vpcs \cup {None}] :
            /\ net = [n \in Nets |-> [given |-> n \in g,
                                     state |-> IF n \in g THEN "up" ELSE "absent",
                                     created |-> FALSE, tags |-> {}, open |-> FALSE,
                                     vpc |-> place[n]]]
            /\ vpc = [v \in Vpcs |-> [given |-> v \in g,
                                     state |-> IF v \in g THEN "up" ELSE "absent",
                                     created |-> FALSE, tags |-> {}]]
      BY DEF Init
    <2> QED
      BY <2>1
  <1>2. \A c \in Clusters : pc[c] = "idle"
    BY DEF Init
  <1> QED
    BY <1>1, <1>2, TypeInit DEF GivenInv

LEMMA GivenNext == GivenInv /\ [Next]_vars => GivenInv'
  <1> SUFFICES ASSUME GivenInv, [Next]_vars PROVE GivenInv'
    OBVIOUS
  <1>1. TypeOK'
    BY TypeNext DEF GivenInv
  <1>2. ASSUME NEW c \in Clusters, Pass(c) PROVE GivenInv'
    <2>1. Start(c) \/ Patch(c) \/ PassStep(c)
      BY <1>2, TypePass DEF GivenInv
    <2> QED
      BY <1>2, <2>1, GivenStartPatch, GivenQuietSteps, GivenCreateVPC, GivenTagVPCCreated,
         GivenTagVPC, GivenCheckVPC, GivenDeleteVPC, GivenCreateNetwork, GivenTagCreated,
         GivenTagNetwork, GivenCheckNetwork, GivenDeleteNetwork DEF Pass
  <1>3. ASSUME NEW c \in Clusters, WatchNetwork(c) \/ WatchCluster(c) \/ DeleteRequested(c)
        PROVE  GivenInv'
    BY <1>1, <1>3 DEF WatchNetwork, WatchCluster, DeleteRequested, GivenInv
  <1>4. CASE Crash
    BY <1>1, <1>4 DEF Crash, GivenInv
  <1>5. CASE UNCHANGED vars
    BY <1>1, <1>5 DEF vars, GivenInv
  <1> QED
    BY <1>2, <1>3, <1>4, <1>5 DEF Next

\* DeleteNetworkIfNotInUse, DeleteVPCIfNotInUse and the creator tags they look
\* at: a network or a VPC that CAPC did not create is never deleted, whichever
\* clusters share it, however their passes interleave and wherever they fail.
THEOREM ProvidedNetworksKept == Spec => []ProvidedKept
  <1>1. GivenInv => ProvidedKept
    BY DEF GivenInv, ProvidedKept, Up, VpcUp
  <1> QED
    BY <1>1, GivenInit, GivenNext, PTL DEF Spec

(***************************************************************************)
(* A cluster whose network is Ready can be reached.                        *)
(***************************************************************************)
Undeleted == \A c \in Clusters : obj[c].exists /\ ~obj[c].deleting

\* An address belongs to something that is there, its rule forwards to a network
\* that it belongs to itself or through a VPC.
Sound(p) ==
    /\ ip[p].net \in Up \cup VpcUp \cup {None}
    /\ layout = "vpc" => ip[p].net \notin Nets
    /\ ip[p].rule # None => /\ ip[p].rule \in Up /\ ip[p].net # None
                            /\ ip[p].net \in {ip[p].rule, net[ip[p].rule].vpc}

Serves(p) == ip[p].rule # None /\ (ip[p].net = ip[p].rule => net[ip[p].rule].open)

SomeOpen == \E n \in Nets : net[n].state = "up" /\ net[n].open

\* The calls up to the choice of an address, and all of Reconcile.
Early == {"resolve", "resolvevpc", "createvpc", "tagvpccreated", "create", "tagcreated",
          "tagnet", "tagvpc", "getip"}
Provisioning == Early \cup {"idle", "assoc", "tagip", "tagipcreated", "lb", "firewall", "retag",
                            "patchcluster", "patch"}

\* How far the pass of c has got with its address. Until then it has the endpoint
\* as it read it. An address it takes over belongs to its VPC or, without one,
\* to its network, or serves already.
OnItsWay(c) ==
    LET p == loc[c].ip
    IN  /\ pc[c] \in Provisioning
        /\ pc[c] \in Early => hloc[c] = hbase[c]
        /\ pc[c] \in {"getip", "assoc", "tagip", "tagipcreated", "lb"} => layout # "routed"
        /\ pc[c] \in {"assoc", "tagip", "tagipcreated", "lb"} => hloc[c] = p
        /\ pc[c] = "assoc" /\ layout = "vpc" /\ loc[c].vpc = None => ip[p].net \in Vpcs
        /\ pc[c] \in {"tagip", "tagipcreated", "lb"} =>
             /\ ip[p].net \in Nets => Serves(p) \/ (loc[c].vpc = None /\ ip[p].net = loc[c].id)
             /\ layout # "vpc" => ip[p].net # None
        /\ pc[c] = "firewall" /\ layout # "routed" =>
             /\ hloc[c] # None /\ ip[hloc[c]].rule # None
             /\ Serves(hloc[c]) \/ ip[hloc[c]].rule = loc[c].id
        /\ pc[c] \in {"retag", "patchcluster"} =>
             IF layout = "routed" THEN SomeOpen ELSE hloc[c] # None /\ Serves(hloc[c])

\* What is true of copies: an endpoint that is set is the stored one, and a
\* deletion does not go away.
CopiesInv ==
    \A c \in Clusters : /\ hbase[c] \in {None, host[c]} /\ hostSeen[c] \in {None, host[c]}
                        /\ seen[c].deleting => obj[c].deleting \/ ~obj[c].exists

Reached(c) == IF layout = "routed" THEN SomeOpen ELSE host[c] # None

\* The address that is stored as an endpoint serves; a cluster that is Ready, or
\* about to be, has one.
Working ==
    /\ \A p \in IPs : Sound(p)
    /\ \A c \in Clusters :
          /\ layout # "routed" /\ host[c] # None => Serves(host[c])
          /\ obj[c].ready \/ seen[c].ready \/ loc[c].ready => Reached(c)
          /\ OnItsWay(c)

ServeInv == TypeOK /\ CopiesInv /\ (Undeleted => Working)

\* As long as nothing is deleted, networks, VPCs, the owners of addresses and
\* their rules stay.
Grows ==
    /\ layout' = layout
    /\ \A n \in Nets : net[n].state = "up" => /\ net'[n].state = "up" /\ net'[n].vpc = net[n].vpc
                                              /\ net[n].open => net'[n].open
    /\ \A v \in Vpcs : vpc[v].state = "up" => vpc'[v].state = "up"
    /\ \A p \in IPs : /\ ip[p].net # None => ip'[p].net = ip[p].net
                      /\ ip[p].rule # None => ip'[p].rule = ip[p].rule

LEMMA AddressType ==
    ASSUME TypeOK, NEW p \in IPs
    PROVE  /\ ip[p].net \in Nets \cup Vpcs \cup {None} /\ ip[p].rule \in Nets \cup {None}
           /\ p # None
  BY NetAssumption DEF TypeOK, Address

LEMMA ServesGrows ==
    ASSUME TypeOK, Grows, NEW p \in IPs, Sound(p), Serves(p)
    PROVE  Serves(p)'
  <1>1. /\ ip[p].rule \in Nets /\ net[ip[p].rule].state = "up" /\ ip[p].net # None
    BY DEF Sound, Serves, Up
  <1>2. ip'[p].rule = ip[p].rule /\ ip'[p].net = ip[p].net
    BY <1>1 DEF Grows, Serves
  <1>3. net[ip[p].rule].open => net'[ip[p].rule].open
    BY <1>1 DEF Grows
  <1> QED
    BY <1>2, <1>3 DEF Serves

LEMMA OpenGrows ==
    ASSUME Grows, SomeOpen
    PROVE  SomeOpen'
  <1>1. PICK n \in Nets : net[n].state = "up" /\ net[n].open
    BY DEF SomeOpen
  <1>2. net'[n].state = "up" /\ net'[n].open
    BY <1>1 DEF Grows
  <1> QED
    BY <1>2 DEF SomeOpen

\* An address whose owner and rule do not change stays sound.
LEMMA SoundGrows ==
    ASSUME TypeOK, Grows, NEW p \in IPs, Sound(p), ip'[p].net = ip[p].net, ip'[p].rule = ip[p].rule
    PROVE  Sound(p)'
  <1>1. ip[p].net \in Nets \cup Vpcs \cup {None} /\ ip[p].rule \in Nets \cup {None}
    BY AddressType
  <1>2. ip[p].net \in Up' \cup VpcUp' \cup {None}
    BY <1>1 DEF Sound, Grows, Up, VpcUp
  <1>3. ip[p].rule # None => ip[p].rule \in Up' /\ net'[ip[p].rule].vpc = net[ip[p].rule].vpc
    BY <1>1 DEF Sound, Grows, Up
  <1> QED
    BY <1>2, <1>3 DEF Sound, Grows

\* The passes of other clusters.
LEMMA WayKept ==
    ASSUME TypeOK, Grows, \A p \in IPs : Sound(p) /\ Sound(p)', NEW d \in Clusters, OnItsWay(d),
           pc'[d] = pc[d], loc'[d] = loc[d], hloc'[d] = hloc[d], hbase'[d] = hbase[d]
    PROVE  OnItsWay(d)'
  <1> DEFINE p == loc[d].ip
             h == hloc[d]
  <1>1. p \in IPs \cup {None} /\ h \in IPs \cup {None} /\ layout' = layout
    BY DEF TypeOK, Obj, Grows
  <1>2. pc[d] \in {"assoc", "tagip", "tagipcreated", "lb"} => p \in IPs
    BY <1>1 DEF TypeOK, NeedIP
  <1>3. ASSUME pc[d] = "assoc", layout = "vpc", loc[d].vpc = None PROVE ip'[p].net \in Vpcs
    BY <1>2, <1>3, NetAssumption DEF OnItsWay, Grows
  <1>4. ASSUME pc[d] \in {"tagip", "tagipcreated", "lb"}
        PROVE  /\ ip'[p].net \in Nets => Serves(p)' \/ (loc[d].vpc = None /\ ip'[p].net = loc[d].id)
               /\ layout # "vpc" => ip'[p].net # None
    <2>1. p \in IPs /\ Sound(p) /\ Sound(p)'
      BY <1>2, <1>4
    <2>2. Serves(p) => Serves(p)'
      BY <2>1, ServesGrows
    <2>3. CASE ip[p].net = None
      BY <1>1, <1>4, <2>1, <2>3 DEF OnItsWay, Sound
    <2>4. CASE ip[p].net # None
      <3>1. ip'[p].net = ip[p].net
        BY <2>1, <2>4 DEF Grows
      <3> QED
        BY <1>4, <2>2, <2>4, <3>1 DEF OnItsWay
    <2> QED
      BY <2>3, <2>4
  <1>5. ASSUME pc[d] = "firewall", layout # "routed"
        PROVE  h # None /\ ip'[h].rule # None /\ (Serves(h)' \/ ip'[h].rule = loc[d].id)
    <2>1. h \in IPs /\ ip[h].rule # None /\ (Serves(h) \/ ip[h].rule = loc[d].id)
      BY <1>1, <1>5 DEF OnItsWay
    <2>2. ip'[h].rule = ip[h].rule /\ h # None
      BY <2>1, NetAssumption DEF Grows
    <2>3. Serves(h) => Serves(h)'
      BY <2>1, ServesGrows
    <2> QED
      BY <2>1, <2>2, <2>3
  <1>6. ASSUME pc[d] \in {"retag", "patchcluster"}
        PROVE  IF layout = "routed" THEN SomeOpen' ELSE h # None /\ Serves(h)'
    <2>1. CASE layout = "routed"
      BY <1>6, <2>1, OpenGrows DEF OnItsWay
    <2>2. CASE layout # "routed"
      BY <1>1, <1>6, <2>2, ServesGrows DEF OnItsWay
    <2> QED
      BY <2>1, <2>2
  <1> QED
    BY <1>1, <1>3, <1>4, <1>5, <1>6 DEF OnItsWay, Serves, Early

(***************************************************************************)
(* Copies.                                                                 *)
(***************************************************************************)
LEMMA PatchKeeps ==
    ASSUME NEW o \in Obj, NEW b \in Obj, NEW l \in Obj
    PROVE  /\ SpecPatch(o, b, l).deleting = o.deleting /\ SpecPatch(o, b, l).ready = o.ready
           /\ SpecPatch(o, b, l).exists => o.exists
           /\ StatusPatch(o, b, l).deleting = o.deleting
           /\ StatusPatch(o, b, l).exists = o.exists
           /\ StatusPatch(o, b, l).ready \in {o.ready, l.ready}
  BY DEF SpecPatch, StatusPatch, Collected, Obj

\* A patch does not bring back an object and does not end its deletion.
LEMMA PatchObj ==
    ASSUME TypeOK, NEW c \in Clusters, Patch(c)
    PROVE  /\ obj'[c].deleting = obj[c].deleting /\ (obj'[c].exists => obj[c].exists)
           /\ obj'[c].ready \in {obj[c].ready, loc[c].ready}
           /\ \A d \in Clusters \ {c} : obj'[d] = obj[d]
  <1> DEFINE s == SpecPatch(obj[c], base[c], loc[c])
             t == StatusPatch(s, base[c], loc[c])
             u == StatusPatch(obj[c], base[c], loc[c])
  <1>1. obj[c] \in Obj /\ base[c] \in Obj /\ loc[c] \in Obj
    BY DEF TypeOK
  <1>2. s \in Obj
    BY <1>1, SpecPatchType
  <1>3. /\ s.deleting = obj[c].deleting /\ s.ready = obj[c].ready /\ (s.exists => obj[c].exists)
        /\ u.deleting = obj[c].deleting /\ u.exists = obj[c].exists
        /\ u.ready \in {obj[c].ready, loc[c].ready}
    BY <1>1, PatchKeeps
  <1>4. t.deleting = s.deleting /\ t.exists = s.exists /\ t.ready \in {s.ready, loc[c].ready}
    BY <1>1, <1>2, PatchKeeps
  <1>5. \E o \in {obj[c], s, t, u} : obj' = [obj EXCEPT ![c] = o]
    <2> HIDE DEF s, t, u
    <2> QED
      BY DEF Patch, s, t, u
  <1> HIDE DEF s, t, u
  <1>6. PICK o \in {obj[c], s, t, u} : obj' = [obj EXCEPT ![c] = o]
    BY <1>5
  <1>7. obj'[c] = o /\ \A d \in Clusters \ {c} : obj'[d] = obj[d]
    BY <1>6 DEF TypeOK
  <1> QED
    BY <1>3, <1>4, <1>6, <1>7

LEMMA DeletedStays ==
    ASSUME TypeOK, Next, NEW c \in Clusters, obj[c].deleting \/ ~obj[c].exists
    PROVE  obj'[c].deleting \/ ~obj'[c].exists
  <1>1. ASSUME NEW d \in Clusters, Pass(d) PROVE obj' = obj \/ Patch(d)
    <2>1. Start(d) => obj' = obj
      BY DEF Start, objects
    <2> QED
      BY <1>1, <2>1, TypePass DEF PassStep
  <1>2. ASSUME NEW d \in Clusters, DeleteRequested(d)
        PROVE  obj'[c] = obj[c] \/ obj'[c].deleting
    BY <1>2 DEF DeleteRequested, Collected, TypeOK, Obj
  <1>3. (Crash \/ \E d \in Clusters : WatchNetwork(d) \/ WatchCluster(d)) => obj' = obj
    BY DEF Crash, WatchNetwork, WatchCluster
  <1>4. ASSUME NEW d \in Clusters, Patch(d) PROVE obj'[c].deleting \/ ~obj'[c].exists
    BY <1>4, PatchObj
  <1> QED
    BY <1>1, <1>2, <1>3, <1>4 DEF Next

LEMMA UndeletedBefore ==
    ASSUME TypeOK, Next, Undeleted'
    PROVE  Undeleted
  BY DeletedStays DEF Undeleted

LEMMA CopiesNext ==
    ASSUME TypeOK, CopiesInv, Next
    PROVE  CopiesInv'
  <1>1. \A c \in Clusters : host[c] # None => host'[c] = host[c]
    BY HostStays
  <1>2. \A c \in Clusters : obj[c].deleting \/ ~obj[c].exists => obj'[c].deleting \/ ~obj'[c].exists
    BY DeletedStays
  <1> DEFINE Known == \A c \in Clusters : /\ hbase'[c] \in {None, hbase[c], hostSeen[c]}
                                          /\ hostSeen'[c] \in {hostSeen[c], host[c]}
                                          /\ seen'[c] \in {seen[c], obj[c]}
  <1>3. Known
    <2>1. ASSUME NEW d \in Clusters, Start(d) PROVE Known
      BY <2>1 DEF Start, TypeOK, objects
    <2>2. ASSUME NEW d \in Clusters, Patch(d) PROVE Known
      BY <2>2 DEF Patch, TypeOK
    <2>3. ASSUME NEW d \in Clusters, PassStep(d) PROVE Known
      BY <2>3 DEF PassStep
    <2>4. ASSUME NEW d \in Clusters, WatchNetwork(d) \/ WatchCluster(d) \/ DeleteRequested(d)
          PROVE  Known
      BY <2>4 DEF WatchNetwork, WatchCluster, DeleteRequested, copies, TypeOK
    <2>5. CASE Crash
      BY <2>5 DEF Crash
    <2> HIDE DEF Known
    <2> QED
      BY <2>1, <2>2, <2>3, <2>4, <2>5, TypePass DEF Next
  <1>4. ASSUME NEW c \in Clusters
        PROVE  hbase'[c] \in {None, host'[c]} /\ hostSeen'[c] \in {None, host'[c]}
    BY <1>1, <1>3 DEF CopiesInv
  <1>5. ASSUME NEW c \in Clusters, seen'[c].deleting PROVE obj'[c].deleting \/ ~obj'[c].exists
    BY <1>2, <1>3, <1>5 DEF CopiesInv
  <1> QED
    BY <1>4, <1>5 DEF CopiesInv

(***************************************************************************)
(* Steps of a pass while nothing is deleted.                               *)
(***************************************************************************)

\* A step that neither writes the endpoint nor makes the object Ready.
LEMMA WorkingStep ==
    ASSUME TypeOK, Working, NEW c \in Clusters, PassStep(c), Grows, \A p \in IPs : Sound(p)',
           host' = host, \A d \in Clusters \ {c} : hloc'[d] = hloc[d],
           loc'[c].ready = loc[c].ready, OnItsWay(c)'
    PROVE  Working'
  <1>1. UNCHANGED <<layout, obj, seen, hbase>> /\ \A d \in Clusters : loc'[d].ready = loc[d].ready
    BY DEF PassStep
  <1>2. ASSUME NEW d \in Clusters PROVE OnItsWay(d)'
    <2>1. CASE d = c
      BY <2>1
    <2>2. CASE d # c
      <3>1. /\ pc'[d] = pc[d] /\ loc'[d] = loc[d] /\ hloc'[d] = hloc[d] /\ hbase'[d] = hbase[d]
            /\ OnItsWay(d) /\ \A p \in IPs : Sound(p)
        BY <1>1, <2>2 DEF PassStep, Working
      <3> QED
        BY <3>1, WayKept
    <2> QED
      BY <2>1, <2>2
  <1>3. ASSUME NEW d \in Clusters, layout' # "routed", host'[d] # None PROVE Serves(host[d])'
    <2>1. PICK p \in IPs : p = host[d] /\ Serves(p) /\ Sound(p)
      BY <1>1, <1>3 DEF Working, TypeOK
    <2>2. Serves(p)' /\ host'[d] = p
      BY <2>1, ServesGrows
    <2> QED
      BY <2>2 DEF Serves
  <1>4. ASSUME NEW d \in Clusters, obj'[d].ready \/ seen'[d].ready \/ loc'[d].ready
        PROVE  Reached(d)'
    <2>1. Reached(d)
      BY <1>1, <1>4 DEF Working
    <2> QED
      BY <1>1, <2>1, OpenGrows DEF Reached
  <1> QED
    BY <1>2, <1>3, <1>4 DEF Working

\* A step that leaves CloudStack alone.
LEMMA QuietGrows ==
    ASSUME TypeOK, Working, layout' = layout, UNCHANGED <<net, vpc, ip>>
    PROVE  Grows /\ \A p \in IPs : Sound(p)'
  BY DEF Grows, Working, Sound, Up, VpcUp

\* A step that changes no address.
LEMMA AddressesKept ==
    ASSUME TypeOK, Working, Grows, ip' = ip
    PROVE  \A p \in IPs : Sound(p)'
  BY SoundGrows DEF Working

LEMMA WorkingFails ==
    ASSUME TypeOK, Working, NEW c \in Clusters, Fails(c)
    PROVE  Working'
  <1>1. PassStep(c)
    BY TypeFails
  <1>2. layout' = layout /\ UNCHANGED <<net, vpc, ip, host, hloc, loc>>
    BY DEF Fails, objects
  <1>3. pc'[c] = "patch"
    BY DEF Fails, TypeOK
  <1>4. OnItsWay(c)'
    BY <1>3 DEF OnItsWay, Provisioning, Early
  <1> QED
    BY <1>1, <1>2, <1>4, QuietGrows, WorkingStep

\* The pass is at a call before the choice of an address, or at its end.
LEMMA EarlyWay ==
    ASSUME NEW c \in Clusters, hloc'[c] = hbase'[c],
           \/ pc'[c] \in (Early \ {"getip"}) \cup {"patch"}
           \/ pc'[c] = IF layout' = "routed" THEN "firewall" ELSE "getip"
    PROVE  OnItsWay(c)'
  BY DEF OnItsWay, Provisioning, Early

\* Networks and VPCs change one field at a time.
LEMMA NetGrows ==
    ASSUME TypeOK, layout' = layout, UNCHANGED <<vpc, ip>>,
           \/ net' = net
           \/ \E n \in Nets :
                \/ net[n].state = "absent" /\ \E v : net' = [net EXCEPT ![n].state = "up", ![n].vpc = v]
                \/ net' = [net EXCEPT ![n].created = TRUE]
                \/ net' = [net EXCEPT ![n].open = TRUE]
                \/ \E c : net' = [net EXCEPT ![n] = AddClusterTag(@, c)]
    PROVE  Grows
  <1>1. net \in [Nets -> Network]
    BY DEF TypeOK
  <1>2. CASE net' = net
    BY <1>2 DEF Grows
  <1>3. ASSUME NEW n \in Nets, net[n].state = "absent", NEW v,
               net' = [net EXCEPT ![n].state = "up", ![n].vpc = v]
        PROVE  Grows
    BY <1>1, <1>3 DEF Grows, Network
  <1>4. ASSUME NEW n \in Nets, net' = [net EXCEPT ![n].created = TRUE]
        PROVE  Grows
    BY <1>1, <1>4 DEF Grows, Network
  <1>5. ASSUME NEW n \in Nets, net' = [net EXCEPT ![n].open = TRUE]
        PROVE  Grows
    BY <1>1, <1>5 DEF Grows, Network
  <1>6. ASSUME NEW n \in Nets, NEW c, net' = [net EXCEPT ![n] = AddClusterTag(@, c)]
        PROVE  Grows
    BY <1>1, <1>6 DEF Grows, Network, AddClusterTag
  <1> QED
    BY <1>2, <1>3, <1>4, <1>5, <1>6

LEMMA VpcGrows ==
    ASSUME TypeOK, layout' = layout, UNCHANGED <<net, ip>>,
           \/ vpc' = vpc
           \/ \E v \in Vpcs :
                \/ vpc' = [vpc EXCEPT ![v].state = "up"]
                \/ vpc' = [vpc EXCEPT ![v].created = TRUE]
                \/ \E c : vpc' = [vpc EXCEPT ![v] = AddClusterTag(@, c)]
    PROVE  Grows
  <1>1. vpc \in [Vpcs -> VPC]
    BY DEF TypeOK
  <1>2. CASE vpc' = vpc
    BY <1>2 DEF Grows
  <1>3. ASSUME NEW v \in Vpcs,
               \/ vpc' = [vpc EXCEPT ![v].state = "up"]
               \/ vpc' = [vpc EXCEPT ![v].created = TRUE]
        PROVE  Grows
    BY <1>1, <1>3 DEF Grows, VPC
  <1>4. ASSUME NEW v \in Vpcs, NEW c, vpc' = [vpc EXCEPT ![v] = AddClusterTag(@, c)]
        PROVE  Grows
    BY <1>1, <1>4 DEF Grows, VPC, AddClusterTag
  <1> QED
    BY <1>2, <1>3, <1>4

\* The steps before the choice of an address.
LEMMA WorkingEarly ==
    ASSUME TypeOK, Working, NEW c \in Clusters, PassStep(c), Grows, ip' = ip,
           host' = host, hloc' = hloc, loc'[c].ready = loc[c].ready, pc[c] \in Early,
           \/ pc'[c] \in (Early \ {"getip"}) \cup {"patch"}
           \/ pc'[c] = IF layout' = "routed" THEN "firewall" ELSE "getip"
    PROVE  Working'
  <1>1. hloc'[c] = hbase'[c]
    BY DEF PassStep, Working, OnItsWay
  <1> QED
    BY <1>1, EarlyWay, AddressesKept, WorkingStep

LEMMA WorkingResolve ==
    ASSUME TypeOK, Working, NEW c \in Clusters, ResolveNetwork(c) \/ ResolveVPC(c)
    PROVE  Working'
  <1>1. PassStep(c) /\ layout' = layout /\ UNCHANGED <<net, vpc, ip, host, hloc>>
    BY TypeResolveNetwork, TypeResolveVPC DEF ResolveNetwork, ResolveVPC, objects
  <1>2. loc'[c].ready = loc[c].ready
    <2>1. \/ loc' = loc \/ \E v \in Vpcs : loc' = [loc EXCEPT ![c].vpc = v]
          \/ \E n \in Nets, v \in Vpcs \cup {None} : loc' = [loc EXCEPT ![c].id = n, ![c].vpc = v]
      <3>1. \A n \in Up : n \in Nets /\ net[n].vpc \in Vpcs \cup {None}
        BY DEF Up, TypeOK, Network
      <3>2. loc[c].vpc \in Vpcs \cup {None}
        BY DEF TypeOK, Obj
      <3> QED
        BY <3>1, <3>2 DEF ResolveNetwork, ResolveVPC
    <2> QED
      BY <2>1 DEF TypeOK, Obj
  <1>3. pc[c] \in Early /\ pc'[c] \in Early \ {"getip"}
    BY DEF ResolveNetwork, ResolveVPC, TypeOK, Early
  <1> QED
    BY <1>1, <1>2, <1>3, QuietGrows, WorkingEarly

LEMMA WorkingVPC ==
    ASSUME TypeOK, Working, NEW c \in Clusters, CreateVPC(c) \/ TagVPCCreated(c) \/ TagVPC(c)
    PROVE  Working'
  <1>1. CASE Fails(c)
    BY <1>1, WorkingFails
  <1>2. CASE ~Fails(c)
    <2>1. PassStep(c) /\ layout' = layout /\ UNCHANGED <<net, ip, host, hloc>>
      BY <1>2, TypeCreateVPC, TypeTagVPCCreated, TypeTagVPC
         DEF CreateVPC, TagVPCCreated, TagVPC, objects
    <2>2. loc'[c].ready = loc[c].ready
      BY <1>2 DEF CreateVPC, TagVPCCreated, TagVPC, TypeOK, Obj
    <2>3. /\ pc[c] \in Early
          /\ \/ pc'[c] \in (Early \ {"getip"}) \cup {"patch"}
             \/ pc'[c] = IF layout = "routed" THEN "firewall" ELSE "getip"
      BY <1>2 DEF CreateVPC, TagVPCCreated, TagVPC, TypeOK, Early, Endpoint
    <2>4. \/ vpc' = vpc
          \/ \E v \in Vpcs : \/ vpc' = [vpc EXCEPT ![v].state = "up"]
                             \/ vpc' = [vpc EXCEPT ![v].created = TRUE]
                             \/ vpc' = [vpc EXCEPT ![v] = AddClusterTag(@, c)]
      BY <1>2 DEF CreateVPC, TagVPCCreated, TagVPC, VpcUp
    <2>5. Grows
      BY <2>1, <2>4, VpcGrows
    <2> QED
      BY <2>1, <2>2, <2>3, <2>5, WorkingEarly
  <1> QED
    BY <1>1, <1>2

LEMMA WorkingNetwork ==
    ASSUME TypeOK, Working, NEW c \in Clusters,
           CreateNetwork(c) \/ TagCreated(c) \/ (TagNetwork(c) /\ pc[c] = "tagnet")
    PROVE  Working'
  <1>1. CASE Fails(c)
    BY <1>1, WorkingFails
  <1>2. CASE ~Fails(c)
    <2>1. PassStep(c) /\ layout' = layout /\ UNCHANGED <<vpc, ip, host, hloc>>
      BY <1>2, TypeCreateNetwork, TypeTagCreated, TypeTagNetwork
         DEF CreateNetwork, TagCreated, TagNetwork, objects
    <2>2. loc'[c].ready = loc[c].ready
      <3>1. loc' = loc \/ \E n \in Nets : loc' = [loc EXCEPT ![c].id = n]
        BY <1>2 DEF CreateNetwork, TagCreated, TagNetwork
      <3> QED
        BY <3>1, LocId DEF TypeOK
    <2>3. /\ pc[c] \in Early
          /\ \/ pc'[c] \in (Early \ {"getip"}) \cup {"patch"}
             \/ pc'[c] = IF layout = "routed" THEN "firewall" ELSE "getip"
      BY <1>2 DEF CreateNetwork, TagCreated, TagNetwork, TypeOK, Early, Endpoint
    <2>4. \/ net' = net
          \/ \E n \in Nets :
               \/ /\ net[n].state = "absent"
                  /\ net' = [net EXCEPT ![n].state = "up", ![n].vpc = loc[c].vpc]
               \/ net' = [net EXCEPT ![n].created = TRUE]
               \/ net' = [net EXCEPT ![n] = AddClusterTag(@, c)]
      BY <1>2 DEF CreateNetwork, TagCreated, TagNetwork, Up
    <2>5. Grows
      BY <2>1, <2>4, NetGrows
    <2> QED
      BY <2>1, <2>2, <2>3, <2>5, WorkingEarly
  <1> QED
    BY <1>1, <1>2

\* GetPublicIP takes over the stored endpoint, which serves, or a free address.
LEMMA WorkingGetPublicIP ==
    ASSUME TypeOK, CopiesInv, Working, NEW c \in Clusters, GetPublicIP(c)
    PROVE  Working'
  <1>1. CASE Fails(c)
    BY <1>1, WorkingFails
  <1>2. CASE ~Fails(c)
    <2>1. PassStep(c) /\ layout' = layout /\ UNCHANGED <<net, vpc, ip, host>>
      BY <1>2, TypeGetPublicIP DEF GetPublicIP, objects
    <2>2. loc'[c].ready = loc[c].ready /\ \A d \in Clusters \ {c} : hloc'[d] = hloc[d]
      BY <1>2 DEF GetPublicIP, TypeOK, Obj
    <2>3. CASE pc'[c] = "patch"
      <3>1. OnItsWay(c)'
        BY <2>3 DEF OnItsWay, Provisioning, Early
      <3> QED
        BY <2>1, <2>2, <3>1, QuietGrows, WorkingStep
    <2>4. ASSUME NEW p \in IPs, p \in IF hloc[c] # None THEN {hloc[c]} ELSE Free,
                 loc' = [loc EXCEPT ![c].ip = p], hloc' = [hloc EXCEPT ![c] = p],
                 pc' = [pc EXCEPT ![c] = IF Associated(p, loc[c]) THEN "lb" ELSE "assoc"]
          PROVE  Working'
      <3>1. /\ loc'[c].ip = p /\ loc'[c].id = loc[c].id /\ loc'[c].vpc = loc[c].vpc
            /\ hloc'[c] = p /\ pc'[c] = IF Associated(p, loc[c]) THEN "lb" ELSE "assoc"
        BY <2>4, LocIp DEF TypeOK
      <3>2. pc[c] = "getip" /\ loc[c].id \in Nets /\ loc[c].vpc \in Vpcs \cup {None} /\ Sound(p)
        BY <1>2 DEF GetPublicIP, TypeOK, Obj, NeedId, Working
      <3>3. ip[p].net \in Nets \cup Vpcs \cup {None} /\ None \notin Nets \cup Vpcs
        BY AddressType, NetAssumption
      <3>4. Serves(p) \/ ip[p].net = None
        <4>1. CASE hloc[c] # None
          <5>1. hloc[c] = hbase[c] /\ hbase[c] = host[c] /\ p = host[c] /\ layout # "routed"
            BY <2>4, <3>2, <4>1 DEF Working, OnItsWay, Early, CopiesInv
          <5> QED
            BY <4>1, <5>1 DEF Working
        <4>2. CASE hloc[c] = None
          BY <2>4, <4>2 DEF Free
        <4> QED
          BY <4>1, <4>2
      <3>5. layout # "routed"
        BY <3>2 DEF Working, OnItsWay
      <3>6. Associated(p, loc[c]) /\ layout # "vpc" => ip[p].net # None
        BY <3>2, <3>3 DEF Associated, NamesVPC
      <3>7. ~Associated(p, loc[c]) /\ layout = "vpc" /\ loc[c].vpc = None => ip[p].net \in Vpcs
        BY DEF Associated, NamesVPC
      <3>8. OnItsWay(c)'
        <4>1. Serves(p)' = Serves(p)
          BY <2>1 DEF Serves
        <4>2. CASE Associated(p, loc[c])
          BY <2>1, <3>1, <3>3, <3>4, <3>5, <3>6, <4>1, <4>2 DEF OnItsWay, Provisioning, Early
        <4>3. CASE ~Associated(p, loc[c])
          BY <2>1, <3>1, <3>5, <3>7, <4>3 DEF OnItsWay, Provisioning, Early
        <4> QED
          BY <4>2, <4>3
      <3> QED
        BY <2>1, <2>2, <3>8, QuietGrows, WorkingStep
    <2>5. \/ pc'[c] = "patch"
          \/ \E p \in IF hloc[c] # None THEN {hloc[c]} ELSE Free :
               /\ loc' = [loc EXCEPT ![c].ip = p] /\ hloc' = [hloc EXCEPT ![c] = p]
               /\ pc' = [pc EXCEPT ![c] = IF Associated(p, loc[c]) THEN "lb" ELSE "assoc"]
      BY <1>2 DEF GetPublicIP, TypeOK
    <2>6. (IF hloc[c] # None THEN {hloc[c]} ELSE Free) \subseteq IPs
      BY DEF Free, TypeOK
    <2> QED
      BY <2>3, <2>4, <2>5, <2>6
  <1> QED
    BY <1>1, <1>2

\* One address changes.
LEMMA AddressGrows ==
    ASSUME TypeOK, Working, layout' = layout, UNCHANGED <<net, vpc>>, NEW p \in IPs,
           \A q \in IPs \ {p} : ip'[q] = ip[q],
           ip[p].net # None => ip'[p].net = ip[p].net,
           ip[p].rule # None => ip'[p].rule = ip[p].rule,
           Sound(p)'
    PROVE  Grows /\ \A q \in IPs : Sound(q)'
  <1>1. Grows
    BY DEF Grows
  <1>2. ASSUME NEW q \in IPs \ {p} PROVE Sound(q)'
    BY <1>1, SoundGrows DEF Working
  <1> QED
    BY <1>1, <1>2

\* A pass that is over.
LEMMA WayDone ==
    ASSUME NEW c \in Clusters, pc'[c] = "patch"
    PROVE  OnItsWay(c)'
  BY DEF OnItsWay, Provisioning, Early

\* A free address is given the VPC of the spec or, without one, the network.
LEMMA WorkingAssociate ==
    ASSUME TypeOK, Working, NEW c \in Clusters, AssociatePublicIPAddress(c)
    PROVE  Working'
  <1>0. PICK p \in IPs : p = loc[c].ip
    BY DEF AssociatePublicIPAddress, TypeOK, Obj, NeedIP
  <1> DEFINE owner == IF loc[c].vpc # None THEN loc[c].vpc ELSE loc[c].id
  <1>1. /\ PassStep(c) /\ layout' = layout /\ UNCHANGED <<net, vpc, host, hloc, loc>>
        /\ pc[c] = "assoc" /\ hloc[c] = p /\ layout # "routed"
    BY <1>0, TypeAssociate DEF AssociatePublicIPAddress, objects, Working, OnItsWay
  <1>2. /\ loc[c].id \in Nets /\ loc[c].vpc \in Vpcs \cup {None}
        /\ None \notin Nets \cup Vpcs \cup IPs /\ Nets \cap Vpcs = {}
    BY <1>1, NetAssumption DEF TypeOK, Obj, NeedId
  <1>3. CASE ip' = ip
    <2>1. pc'[c] = "patch" \/ (p \in Free /\ ip' = [ip EXCEPT ![p].net = owner] /\ owner # None)
      BY <1>0, <1>2 DEF AssociatePublicIPAddress, TypeOK
    <2>2. pc'[c] = "patch"
      BY <1>2, <1>3, <2>1 DEF Free, TypeOK, Address
    <2> QED
      BY <1>1, <1>3, <2>2, WayDone, QuietGrows, WorkingStep
  <1>4. CASE ip' # ip
    <2>1. /\ p \in Free /\ owner \in Up \cup VpcUp /\ ip' = [ip EXCEPT ![p].net = owner]
          /\ pc'[c] \in {"tagip", "patch"}
      BY <1>0, <1>4 DEF AssociatePublicIPAddress, TypeOK
    <2> HIDE DEF owner
    <2>2. ip[p].net = None /\ ip[p].rule = None
      BY <1>2, <2>1 DEF Free, Working, Sound
    <2>3. /\ ip'[p].net = owner /\ ip'[p].rule = None /\ \A q \in IPs \ {p} : ip'[q] = ip[q]
      BY <1>2, <2>1, <2>2 DEF TypeOK, Address
    <2>4. layout = "vpc" => loc[c].vpc # None
      BY <1>0, <1>1, <1>2, <2>2 DEF Working, OnItsWay
    <2>5. layout = "vpc" => owner \notin Nets
      BY <1>2, <2>4 DEF owner
    <2>6. owner # None /\ (owner \in Nets => loc[c].vpc = None /\ owner = loc[c].id)
      BY <1>2 DEF owner
    <2>7. Up' = Up /\ VpcUp' = VpcUp
      BY <1>1 DEF Up, VpcUp
    <2>8. Sound(p)'
      BY <1>1, <2>1, <2>3, <2>5, <2>7 DEF Sound
    <2>9. OnItsWay(c)'
      <3>1. CASE pc'[c] = "patch"
        BY <3>1, WayDone
      <3>2. CASE pc'[c] = "tagip"
        <4>1. loc'[c].ip = p /\ hloc'[c] = p /\ loc'[c] = loc[c]
          BY <1>0, <1>1
        <4> QED
          BY <1>1, <2>3, <2>6, <3>2, <4>1 DEF OnItsWay, Provisioning, Early
      <3> QED
        BY <2>1, <3>1, <3>2
    <2>10. Grows /\ \A q \in IPs : Sound(q)'
      BY <1>1, <1>2, <2>2, <2>3, <2>8, AddressGrows
    <2> QED
      BY <1>1, <2>9, <2>10, WorkingStep
  <1> QED
    BY <1>3, <1>4

LEMMA WorkingTagIP ==
    ASSUME TypeOK, Working, NEW c \in Clusters, TagIP(c) \/ TagIPCreated(c)
    PROVE  Working'
  <1>1. CASE Fails(c)
    BY <1>1, WorkingFails
  <1>2. CASE ~Fails(c)
    <2>0. PICK p \in IPs : p = loc[c].ip
      BY <1>2 DEF TagIP, TagIPCreated, TypeOK, Obj, NeedIP
    <2>1. PassStep(c) /\ layout' = layout /\ UNCHANGED <<net, vpc, host, hloc, loc>>
      BY <1>2, TypeTagIP, TypeTagIPCreated DEF TagIP, TagIPCreated, objects
    <2>2. /\ pc[c] \in {"tagip", "tagipcreated"} /\ pc'[c] \in {"tagipcreated", "lb"}
          /\ \/ ip' = [ip EXCEPT ![p] = AddClusterTag(@, c)]
             \/ ip' = [ip EXCEPT ![p].created = TRUE]
      BY <1>2, <2>0 DEF TagIP, TagIPCreated, TypeOK
    <2>4. \A q \in IPs : ip'[q].net = ip[q].net /\ ip'[q].rule = ip[q].rule
      BY <2>2 DEF TypeOK, Address, AddClusterTag
    <2>5. Grows
      BY <2>1, <2>4 DEF Grows
    <2>6. \A q \in IPs : Sound(q)'
      BY <2>4, <2>5, SoundGrows DEF Working
    <2>7. OnItsWay(c)'
      <3>1. loc'[c].ip = p /\ hloc'[c] = hloc[c] /\ loc'[c] = loc[c] /\ p = loc[c].ip
        BY <2>0, <2>1
      <3>2. Serves(p)' = Serves(p)
        BY <2>1, <2>4 DEF Serves
      <3>3. ip'[p].net = ip[p].net
        BY <2>4
      <3>4. OnItsWay(c)
        BY DEF Working
      <3> QED
        BY <2>1, <2>2, <3>1, <3>2, <3>3, <3>4 DEF OnItsWay, Provisioning, Early
    <2> QED
      BY <2>1, <2>5, <2>6, <2>7, WorkingStep
  <1> QED
    BY <1>1, <1>2

\* A rule that is there is taken; a new one forwards to the network of the pass.
LEMMA WorkingRule ==
    ASSUME TypeOK, Working, NEW c \in Clusters, GetOrCreateLoadBalancerRule(c)
    PROVE  Working'
  <1>1. CASE Fails(c)
    BY <1>1, WorkingFails
  <1>2. CASE ~Fails(c)
    <2>0. PICK p \in IPs : p = loc[c].ip
      BY <1>2 DEF GetOrCreateLoadBalancerRule, TypeOK, Obj, NeedIP
    <2> DEFINE r == Rule(p, loc[c].id)
    <2>1. PassStep(c) /\ layout' = layout /\ UNCHANGED <<net, vpc, host, hloc, loc>>
      BY <1>2, TypeLoadBalancer DEF GetOrCreateLoadBalancerRule, objects
    <2>2. /\ pc[c] = "lb" /\ ip' = [ip EXCEPT ![p].rule = r]
          /\ pc'[c] = "patch" \/ (r # None /\ pc'[c] = AfterRule(loc[c]))
      BY <1>2, <2>0 DEF GetOrCreateLoadBalancerRule, TypeOK
    <2>3. /\ hloc[c] = p /\ layout # "routed"
          /\ loc[c].id \in Nets /\ loc[c].vpc \in Vpcs \cup {None} /\ Sound(p)
      BY <2>0, <2>2 DEF TypeOK, Obj, NeedId, Working, OnItsWay
    <2>4. ip[p].net \in Nets => Serves(p) \/ (loc[c].vpc = None /\ ip[p].net = loc[c].id)
      BY <2>0, <2>2 DEF Working, OnItsWay
    <2>5. /\ ip[p].rule # None => r = ip[p].rule
          /\ ip[p].rule = None /\ r # None => /\ r = loc[c].id /\ r \in Up /\ ip[p].net # None
                                              /\ ip[p].net \in {r, net[r].vpc}
      BY DEF Rule
    <2>6. /\ ip[p].net \in Nets \cup Vpcs \cup {None} /\ p # None
          /\ None \notin Nets \cup Vpcs /\ Nets \cap Vpcs = {}
          /\ \A n \in Nets : net[n].vpc \in Vpcs \cup {None}
      BY <2>3, AddressType, NetAssumption DEF TypeOK, Network
    <2> HIDE DEF r
    <2>7. /\ ip'[p].rule = r /\ ip'[p].net = ip[p].net /\ \A q \in IPs \ {p} : ip'[q] = ip[q]
      BY <2>2, <2>3 DEF TypeOK, Address
    <2>8. Up' = Up /\ VpcUp' = VpcUp /\ Up \subseteq Nets
      BY <2>1 DEF Up, VpcUp
    <2>9. r # None => r \in Up /\ ip[p].net # None /\ ip[p].net \in {r, net[r].vpc}
      BY <2>3, <2>5 DEF Sound
    <2>10. Sound(p)'
      BY <2>1, <2>3, <2>7, <2>8, <2>9 DEF Sound
    <2>11. Grows /\ \A q \in IPs : Sound(q)'
      BY <2>1, <2>3, <2>5, <2>7, <2>10, AddressGrows
    <2>12. OnItsWay(c)'
      <3>1. CASE pc'[c] = "patch"
        BY <2>2, <3>1, WayDone
      <3>2. CASE r # None /\ pc'[c] = AfterRule(loc[c])
        <4>1. /\ hloc'[c] = p /\ loc'[c] = loc[c] /\ layout' = layout /\ ip'[p].rule # None
              /\ pc'[c] = IF loc[c].vpc # None THEN "retag" ELSE "firewall"
          BY <2>1, <2>2, <2>3, <2>7, <3>2 DEF AfterRule
        <4>2. Serves(p) => Serves(p)'
          BY <2>1, <2>5, <2>7 DEF Serves
        <4>3. Serves(p)' \/ (loc[c].vpc = None /\ r = loc[c].id)
          <5>1. CASE ip[p].net = r
            <6>1. ip[p].net \in Nets
              BY <2>8, <2>9, <3>2, <5>1
            <6> QED
              BY <2>4, <4>2, <5>1, <6>1
          <5>2. CASE ip[p].net # r
            BY <2>7, <3>2, <5>2 DEF Serves
          <5> QED
            BY <5>1, <5>2
        <4> QED
          BY <2>3, <2>6, <2>7, <4>1, <4>3 DEF OnItsWay, Provisioning, Early, Serves
      <3> QED
        BY <2>2, <3>1, <3>2
    <2> QED
      BY <2>1, <2>11, <2>12, WorkingStep
  <1> QED
    BY <1>1, <1>2

LEMMA WorkingFirewall ==
    ASSUME TypeOK, Working, NEW c \in Clusters, OpenFirewallRules(c)
    PROVE  Working'
  <1>1. CASE Fails(c)
    BY <1>1, WorkingFails
  <1>2. CASE ~Fails(c)
    <2>1. /\ PassStep(c) /\ layout' = layout /\ UNCHANGED <<vpc, ip, host, hloc, loc>>
          /\ pc[c] = "firewall"
      BY <1>2, TypeOpenFirewall DEF OpenFirewallRules, objects
    <2>2. \/ net' = net /\ pc'[c] = "patch"
          \/ loc[c].id \in Up /\ net' = [net EXCEPT ![loc[c].id].open = TRUE] /\ pc'[c] = "retag"
      BY <1>2 DEF OpenFirewallRules, TypeOK
    <2>3. Grows
      BY <2>1, <2>2, NetGrows DEF Up
    <2>4. CASE pc'[c] = "patch"
      BY <2>1, <2>3, <2>4, WayDone, AddressesKept, WorkingStep
    <2>5. CASE pc'[c] = "retag"
      <3>1. PICK n \in Nets : n = loc[c].id /\ net[n].state = "up" /\ net' = [net EXCEPT ![n].open = TRUE]
        BY <2>2, <2>5 DEF Up
      <3>2. net'[n].state = "up" /\ net'[n].open
        BY <3>1 DEF TypeOK, Network
      <3>3. CASE layout = "routed"
        <4>1. SomeOpen'
          BY <3>2 DEF SomeOpen
        <4>2. OnItsWay(c)'
          BY <2>1, <2>5, <3>3, <4>1 DEF OnItsWay, Provisioning, Early
        <4> QED
          BY <2>1, <2>3, <4>2, AddressesKept, WorkingStep
      <3>4. CASE layout # "routed"
        <4>1. PICK h \in IPs : /\ h = hloc[c] /\ ip[h].rule # None
                               /\ Serves(h) \/ ip[h].rule = n
          BY <2>1, <3>1, <3>4 DEF Working, OnItsWay, TypeOK
        <4>2. Serves(h)'
          <5>1. CASE Serves(h)
            BY <2>3, <5>1, ServesGrows DEF Working
          <5>2. CASE ip[h].rule = n
            BY <2>1, <3>2, <4>1, <5>2 DEF Serves
          <5> QED
            BY <4>1, <5>1, <5>2
        <4>3. hloc'[c] = h /\ h # None
          BY <2>1, <4>1, NetAssumption
        <4>4. OnItsWay(c)'
          BY <2>1, <2>5, <3>4, <4>2, <4>3 DEF OnItsWay, Provisioning, Early, Serves
        <4> QED
          BY <2>1, <2>3, <4>4, AddressesKept, WorkingStep
      <3> QED
        BY <3>3, <3>4
    <2> QED
      BY <2>2, <2>4, <2>5
  <1> QED
    BY <1>1, <1>2

LEMMA WorkingRetag ==
    ASSUME TypeOK, Working, NEW c \in Clusters, TagNetwork(c), pc[c] = "retag"
    PROVE  Working'
  <1>1. CASE Fails(c)
    BY <1>1, WorkingFails
  <1>2. CASE ~Fails(c)
    <2>1. /\ PassStep(c) /\ layout' = layout /\ UNCHANGED <<vpc, ip, host, hloc, loc>>
          /\ pc'[c] = "patchcluster"
      BY <1>2, TypeTagNetwork DEF TagNetwork, objects, TypeOK
    <2>2. \/ net' = net
          \/ loc[c].id \in Nets /\ net' = [net EXCEPT ![loc[c].id] = AddClusterTag(@, c)]
      BY <1>2 DEF TagNetwork, Up
    <2>3. Grows
      BY <2>1, <2>2, NetGrows
    <2>4. CASE layout = "routed"
      <3>1. SomeOpen'
        BY <2>3, <2>4, OpenGrows DEF Working, OnItsWay
      <3>2. OnItsWay(c)'
        BY <2>1, <2>4, <3>1 DEF OnItsWay, Provisioning, Early
      <3> QED
        BY <2>1, <2>3, <3>2, AddressesKept, WorkingStep
    <2>5. CASE layout # "routed"
      <3>1. PICK h \in IPs : h = hloc[c] /\ Serves(h)
        BY <2>5 DEF Working, OnItsWay, TypeOK
      <3>2. Serves(h)' /\ hloc'[c] = h /\ h # None
        BY <2>1, <2>3, <3>1, ServesGrows, NetAssumption DEF Working
      <3>3. OnItsWay(c)'
        BY <2>1, <2>5, <3>2 DEF OnItsWay, Provisioning, Early, Serves
      <3> QED
        BY <2>1, <2>3, <3>3, AddressesKept, WorkingStep
    <2> QED
      BY <2>4, <2>5
  <1> QED
    BY <1>1, <1>2

\* The passes of other clusters when a step leaves CloudStack alone.
LEMMA OthersKept ==
    ASSUME TypeOK, Working, layout' = layout, UNCHANGED <<net, vpc, ip>>, NEW d \in Clusters,
           pc'[d] = pc[d], loc'[d] = loc[d], hloc'[d] = hloc[d], hbase'[d] = hbase[d]
    PROVE  OnItsWay(d)'
  BY QuietGrows, WayKept DEF Working

LEMMA WorkingPatchCluster ==
    ASSUME TypeOK, CopiesInv, Working, NEW c \in Clusters, PatchCluster(c)
    PROVE  Working'
  <1>1. CASE Fails(c)
    BY <1>1, WorkingFails
  <1>2. CASE ~Fails(c)
    <2>1. /\ PassStep(c) /\ UNCHANGED <<layout, obj, seen, net, vpc, ip, hloc, hbase>>
          /\ pc[c] = "patchcluster" /\ pc'[c] = "patch"
      BY <1>2, TypePatchCluster DEF PatchCluster, copies, TypeOK
    <2>2. /\ \A p \in IPs : Sound(p)'
          /\ \A d \in Clusters : OnItsWay(d)'
      <3>1. ASSUME NEW d \in Clusters PROVE OnItsWay(d)'
        <4>1. CASE d = c
          BY <2>1, <4>1, WayDone
        <4>2. CASE d # c
          BY <2>1, <4>2, OthersKept DEF PassStep
        <4> QED
          BY <4>1, <4>2
      <3> QED
        BY <2>1, <3>1, QuietGrows
    <2>3. \A d \in Clusters \ {c} : host'[d] = host[d] /\ loc'[d] = loc[d]
      BY <1>2 DEF PatchCluster, TypeOK
    <2>4. host'[c] = host[c] \/ host'[c] = hloc[c]
      BY <1>2 DEF PatchCluster, TypeOK
    <2>5. loc'[c].ready => loc[c].ready \/ (hloc[c] = hbase[c] /\ host'[c] = host[c]) \/ host'[c] = hloc[c]
      BY <1>2 DEF PatchCluster, TypeOK, Obj
    <2>6. IF layout = "routed" THEN SomeOpen ELSE hloc[c] # None /\ Serves(hloc[c])
      BY <2>1 DEF Working, OnItsWay
    <2>7. SomeOpen' = SomeOpen /\ \A p : Serves(p)' = Serves(p)
      BY <2>1 DEF SomeOpen, Serves
    <2>8. ASSUME NEW d \in Clusters, layout' # "routed", host'[d] # None PROVE Serves(host[d])'
      <3>1. PICK h : h = host'[d]
        OBVIOUS
      <3>2. Serves(h)
        <4>1. h = host[d] \/ (d = c /\ h = hloc[c])
          BY <2>3, <2>4, <3>1
        <4> QED
          BY <2>1, <2>6, <2>8, <3>1, <4>1 DEF Working
      <3>3. Serves(h)'
        BY <2>7, <3>2
      <3> QED
        BY <3>1, <3>3 DEF Serves
    <2>9. ASSUME NEW d \in Clusters, obj'[d].ready \/ seen'[d].ready \/ loc'[d].ready
          PROVE  Reached(d)'
      <3>1. CASE layout = "routed" /\ SomeOpen
        BY <2>1, <2>7, <3>1 DEF Reached
      <3>2. CASE layout = "routed" /\ ~SomeOpen
        <4>1. d # c
          BY <2>6, <3>2
        <4> QED
          BY <2>1, <2>3, <2>9, <3>2, <4>1 DEF Working, Reached
      <3>3. CASE layout # "routed"
        <4>1. host'[d] # None
          <5>1. CASE d # c
            BY <2>1, <2>3, <2>9, <3>3, <5>1 DEF Working, Reached
          <5>2. CASE d = c
            <6>1. hloc[c] # None /\ (hloc[c] = hbase[c] => hbase[c] = host[c])
              BY <2>6, <3>3 DEF CopiesInv
            <6> QED
              BY <2>1, <2>4, <2>5, <2>9, <3>3, <5>2, <6>1 DEF Working, Reached
          <5> QED
            BY <5>1, <5>2
        <4> QED
          BY <2>1, <3>3, <4>1 DEF Reached
      <3> QED
        BY <3>1, <3>2, <3>3
    <2> QED
      BY <2>2, <2>8, <2>9 DEF Working
  <1> QED
    BY <1>1, <1>2

\* Steps that leave CloudStack and the endpoints alone.
LEMMA WorkingQuiet ==
    ASSUME TypeOK, Working, UNCHANGED <<layout, host, net, vpc, ip>>,
           \A d \in Clusters : OnItsWay(d)',
           \A d \in Clusters : obj'[d].ready \/ seen'[d].ready \/ loc'[d].ready
                                 => obj[d].ready \/ seen[d].ready \/ loc[d].ready
    PROVE  Working'
  <1>1. \A p \in IPs : Sound(p)'
    BY QuietGrows
  <1>2. ASSUME NEW d \in Clusters
        PROVE  /\ layout' # "routed" /\ host'[d] # None => Serves(host[d])'
               /\ Reached(d)' = Reached(d)
    BY DEF Working, Serves, Reached, SomeOpen
  <1> QED
    BY <1>1, <1>2 DEF Working

LEMMA WorkingStart ==
    ASSUME TypeOK, CopiesInv, Undeleted, Working, NEW c \in Clusters, Start(c)
    PROVE  Working'
  <1>1. UNCHANGED <<layout, host, net, vpc, ip, obj, seen>>
    BY DEF Start, objects
  <1>2. /\ pc'[c] \in {"resolve", "patch"} /\ hloc'[c] = hbase'[c]
        /\ loc'[c].ready = seen[c].ready
    BY DEF Start, TypeOK, Obj, CopiesInv, Undeleted
  <1>3. \A d \in Clusters \ {c} : /\ pc'[d] = pc[d] /\ loc'[d] = loc[d] /\ hloc'[d] = hloc[d]
                                  /\ hbase'[d] = hbase[d]
    BY DEF Start, TypeOK
  <1>4. ASSUME NEW d \in Clusters PROVE OnItsWay(d)'
    <2>1. CASE d = c
      BY <1>2, <2>1, EarlyWay DEF Early
    <2>2. CASE d # c
      BY <1>1, <1>3, <2>2, OthersKept
    <2> QED
      BY <2>1, <2>2
  <1> QED
    BY <1>1, <1>2, <1>3, <1>4, WorkingQuiet

LEMMA WorkingPatch ==
    ASSUME TypeOK, Working, NEW c \in Clusters, Patch(c)
    PROVE  Working'
  <1>1. UNCHANGED <<layout, host, net, vpc, ip, seen>>
    BY DEF Patch
  <1>2. pc'[c] = "idle" /\ ~loc'[c].ready
    BY DEF Patch, TypeOK, NewObj
  <1>3. \A d \in Clusters \ {c} : /\ pc'[d] = pc[d] /\ loc'[d] = loc[d] /\ hloc'[d] = hloc[d]
                                  /\ hbase'[d] = hbase[d]
    BY DEF Patch, TypeOK
  <1>4. ASSUME NEW d \in Clusters PROVE OnItsWay(d)'
    <2>1. CASE d = c
      BY <1>2, <2>1 DEF OnItsWay, Provisioning, Early
    <2>2. CASE d # c
      BY <1>1, <1>3, <2>2, OthersKept
    <2> QED
      BY <2>1, <2>2
  <1>5. obj'[c].ready \in {obj[c].ready, loc[c].ready} /\ \A d \in Clusters \ {c} : obj'[d] = obj[d]
    BY PatchObj
  <1> QED
    BY <1>1, <1>2, <1>3, <1>4, <1>5, WorkingQuiet

LEMMA WorkingOthers ==
    ASSUME TypeOK, Working, Undeleted',
           Crash \/ \E c \in Clusters : WatchNetwork(c) \/ WatchCluster(c) \/ DeleteRequested(c)
    PROVE  Working'
  <1>1. CASE Crash
    <2>1. /\ UNCHANGED <<layout, host, net, vpc, ip, obj>> /\ seen' = obj
          /\ \A d \in Clusters : pc'[d] = "idle" /\ ~loc'[d].ready
      BY <1>1 DEF Crash, NewObj
    <2>2. \A d \in Clusters : OnItsWay(d)'
      BY <2>1 DEF OnItsWay, Provisioning, Early
    <2> QED
      BY <2>1, <2>2, WorkingQuiet
  <1>2. ASSUME NEW c \in Clusters, WatchNetwork(c) \/ WatchCluster(c)
        PROVE  Working'
    <2>1. /\ UNCHANGED <<layout, host, net, vpc, ip, obj, pc, loc, hloc, hbase>>
          /\ \A d \in Clusters : seen'[d] \in {seen[d], obj[d]}
      BY <1>2 DEF WatchNetwork, WatchCluster, copies, TypeOK
    <2>2. \A d \in Clusters : OnItsWay(d)'
      BY <2>1, OthersKept
    <2> QED
      BY <2>1, <2>2, WorkingQuiet
  <1>3. ASSUME NEW c \in Clusters, DeleteRequested(c)
        PROVE  FALSE
    <2> DEFINE o == [obj[c] EXCEPT !.deleting = TRUE]
    <2>1. o \in Obj /\ o.deleting = TRUE
      <3>1. obj[c] \in Obj
        BY <1>3 DEF TypeOK
      <3>2. o.deleting = TRUE
        BY <3>1 DEF Obj
      <3>3. o \in Obj
        BY <3>1 DEF Obj
      <3> QED
        BY <3>2, <3>3
    <2>2. obj' = [obj EXCEPT ![c] = Collected(o)]
      BY <1>3 DEF DeleteRequested
    <2> HIDE DEF o
    <2>3. Collected(o).deleting
      BY <2>1 DEF Collected, Obj
    <2>4. obj'[c] = Collected(o)
      BY <1>3, <2>2 DEF TypeOK
    <2> QED
      BY <1>3, <2>3, <2>4 DEF Undeleted
  <1> QED
    BY <1>1, <1>2, <1>3

LEMMA ServeInit == Init => ServeInv
  <1> SUFFICES ASSUME Init PROVE ServeInv
    OBVIOUS
  <1>1. TypeOK
    BY TypeInit
  <1>2. /\ \A c \in Clusters : /\ hbase[c] = None /\ hostSeen[c] = None /\ host[c] = None
                               /\ pc[c] = "idle"
                               /\ obj[c] = NewObj /\ seen[c] = NewObj /\ loc[c] = NewObj
        /\ \A p \in IPs : ip[p].net = None /\ ip[p].rule = None
    BY DEF Init
  <1>3. CopiesInv
    BY <1>2 DEF CopiesInv, NewObj
  <1>4. \A p \in IPs : Sound(p)
    BY <1>2, NetAssumption DEF Sound
  <1>5. \A c \in Clusters : OnItsWay(c)
    BY <1>2 DEF OnItsWay, Provisioning, Early
  <1>6. Working
    BY <1>2, <1>4, <1>5 DEF Working, NewObj
  <1> QED
    BY <1>1, <1>3, <1>6 DEF ServeInv

LEMMA ServeNext == ServeInv /\ [Next]_vars => ServeInv'
  <1> SUFFICES ASSUME ServeInv, [Next]_vars PROVE ServeInv'
    OBVIOUS
  <1>1. TypeOK /\ CopiesInv /\ TypeOK' /\ (Undeleted => Working)
    BY TypeNext DEF ServeInv
  <1>2. CASE UNCHANGED vars
    <2>1. CopiesInv' /\ Undeleted' = Undeleted
      BY <1>1, <1>2 DEF CopiesInv, Undeleted, vars, objects, copies
    <2>2. Undeleted => Working'
      <3> SUFFICES ASSUME Undeleted PROVE Working'
        OBVIOUS
      <3>1. UNCHANGED <<layout, host, net, vpc, ip, obj, seen, loc, pc, hloc, hbase>>
        BY <1>2 DEF vars, objects, copies
      <3>2. \A d \in Clusters : OnItsWay(d)'
        BY <1>1, <3>1, OthersKept
      <3> QED
        BY <1>1, <3>1, <3>2, WorkingQuiet
    <2> QED
      BY <1>1, <2>1, <2>2 DEF ServeInv
  <1>3. CASE Next
    <2>1. CopiesInv'
      BY <1>1, <1>3, CopiesNext
    <2>2. ASSUME Undeleted' PROVE Working'
      <3>1. Undeleted /\ Working
        BY <1>1, <1>3, <2>2, UndeletedBefore
      <3>2. ASSUME NEW c \in Clusters, Pass(c) PROVE Working'
        <4>1. pc[c] \in Provisioning
          BY <3>1 DEF Working, OnItsWay
        <4>2. ~(\/ UntagIP(c) \/ CheckIP(c) \/ UntagIPCreated(c) \/ DisassociatePublicIPAddress(c)
                \/ UntagNetwork(c) \/ CheckNetwork(c) \/ DeleteNetwork(c)
                \/ UntagVPC(c) \/ CheckVPC(c) \/ DeleteVPC(c))
          BY <4>1 DEF UntagIP, CheckIP, UntagIPCreated, DisassociatePublicIPAddress, UntagNetwork,
             CheckNetwork, DeleteNetwork, UntagVPC, CheckVPC, DeleteVPC, Provisioning, Early
        <4>3. TagNetwork(c) => pc[c] \in {"tagnet", "retag"}
          BY DEF TagNetwork
        <4> QED
          BY <1>1, <3>1, <3>2, <4>2, <4>3, WorkingStart, WorkingPatch, WorkingResolve, WorkingVPC,
             WorkingNetwork, WorkingGetPublicIP, WorkingAssociate, WorkingTagIP, WorkingRule,
             WorkingFirewall, WorkingRetag, WorkingPatchCluster DEF Pass
      <3> QED
        BY <1>1, <1>3, <2>2, <3>1, <3>2, WorkingOthers DEF Next
    <2> QED
      BY <1>1, <2>1, <2>2 DEF ServeInv
  <1> QED
    BY <1>2, <1>3

LEMMA ServeHolds ==
    ASSUME ServeInv, Undeleted
    PROVE  ReadyIsServed
  <1> SUFFICES ASSUME NEW c \in Clusters, InService(c)
               PROVE  IF layout = "routed" THEN \E n \in Up : net[n].open
                      ELSE /\ host[c] # None
                           /\ LET n == ip[host[c]].rule
                              IN  /\ n \in Up
                                  /\ \/ ip[host[c]].net = n /\ net[n].open
                                     \/ net[n].vpc \in VpcUp /\ ip[host[c]].net = net[n].vpc
    BY DEF ReadyIsServed
  <1>1. Working /\ Reached(c)
    BY DEF ServeInv, Working, InService
  <1>2. CASE layout = "routed"
    BY <1>1, <1>2 DEF Reached, SomeOpen, Up
  <1>3. CASE layout # "routed"
    <2>1. PICK p \in IPs : p = host[c] /\ Serves(p) /\ Sound(p) /\ host[c] # None
      BY <1>1, <1>3 DEF Reached, Working, ServeInv, TypeOK
    <2>2. PICK n \in Nets : n = ip[p].rule /\ n \in Up /\ ip[p].net # None
                            /\ ip[p].net \in {n, net[n].vpc} /\ (ip[p].net = n => net[n].open)
      BY <2>1 DEF Serves, Sound, Up
    <2>3. net[n].vpc \in Vpcs \cup {None} /\ Nets \cap Vpcs = {}
      BY NetAssumption DEF ServeInv, TypeOK, Network
    <2>4. ip[p].net = n \/ (net[n].vpc \in VpcUp /\ ip[p].net = net[n].vpc)
      BY <2>1, <2>2, <2>3 DEF Sound, Up
    <2> QED
      BY <1>3, <2>1, <2>2, <2>4
  <1> QED
    BY <1>2, <1>3

\* GetOrCreateIsolatedNetwork and the endpoint it stores: as long as none of the
\* clusters that name the network is being deleted, each one that is Ready can
\* be reached, however many of them compete for networks and addresses and
\* whichever of their calls fail.
THEOREM ReadyServedWhileUndeleted == Spec => [](Undeleted => ReadyIsServed)
  <1>1. ServeInv => (Undeleted => ReadyIsServed)
    BY ServeHolds
  <1> QED
    BY <1>1, ServeInit, ServeNext, PTL DEF Spec

\* A cluster that is alone on its network is reached as long as it is in
\* service: no condition is left.
THEOREM LoneClusterIsServed ==
    ASSUME \A c, d \in Clusters : c = d
    PROVE  Spec => []ReadyIsServed
  <1>1. ServeInv => ReadyIsServed
    <2> SUFFICES ASSUME ServeInv, ~Undeleted PROVE ReadyIsServed
      BY ServeHolds
    <2>1. \A c \in Clusters : ~InService(c)
      BY DEF Undeleted, InService
    <2> QED
      BY <2>1 DEF ReadyIsServed
  <1> QED
    BY <1>1, ServeInit, ServeNext, PTL DEF Spec

(***************************************************************************)
(* The disposal of a cluster that is alone on its network.                 *)
(***************************************************************************)

\* Of networks and of VPCs, at most one was there before.
OneGiven ==
    \A x, y \in Provided : x = y \/ (x \in Nets /\ y \in Vpcs) \/ (x \in Vpcs /\ y \in Nets)

\* No call has failed, the manager has not restarted, and the object is there.
Calm(c) == faults = 0 /\ obj[c].exists

\* A pass on an object that is being deleted is running.
Disposing(c) == pc[c] # "idle" /\ base[c].deleting

\* Object o names each network and each VPC that was not there before.
KnowsNet(o) == \A n \in Nets : net[n].state = "up" /\ ~net[n].given => o.id = n
KnowsVpc(o) == \A v \in Vpcs : vpc[v].state = "up" /\ ~vpc[v].given => o.vpc = v

\* Object o names nothing that does not exist.
Names(o) == /\ o.id # None => net[o.id].state = "up"
            /\ o.vpc # None => vpc[o.vpc].state = "up"

\* The address of object o is allocated, except where no address ever is.
HasAddress(o) == o.ip # None /\ ip[o.ip].net = None => Mismatch

NetsClean == \A n \in Nets : net[n].state = "up" => net[n].given
VpcsClean == \A v \in Vpcs : vpc[v].state = "up" => vpc[v].given
Marked    == \A n \in Nets : net[n].state = "up" /\ ~net[n].given => net[n].created
VpcMarked == \A v \in Vpcs : vpc[v].state = "up" /\ ~vpc[v].given => vpc[v].created

NoNet == \A n \in Nets : net[n].state # "up"
NoVpc == \A v \in Vpcs : vpc[v].state # "up"

\* What a pass can create it has created: no later pass creates anything.
Settled ==
    \/ ~NoNet
    \/ layout = "vpc" /\ Vpcs = {}
    \/ Nets = {} /\ (layout = "vpc" => ~NoVpc)

\* There is one network and one VPC; CAPC puts its network into its VPC; and an
\* address belongs to one of the two.
World ==
    /\ \A m, n \in Nets : net[m].state = "up" /\ net[n].state = "up" => m = n
    /\ \A u, v \in Vpcs : vpc[u].state = "up" /\ vpc[v].state = "up" => u = v
    /\ \A n \in Nets : net[n].state = "up" /\ net[n].vpc # None =>
         /\ vpc[net[n].vpc].state = "up"
         /\ net[n].given => vpc[net[n].vpc].given
    /\ \A n \in Nets, v \in Vpcs :
         net[n].state = "up" /\ vpc[v].state = "up" /\ ~vpc[v].given => net[n].vpc = v
    /\ layout # "vpc" => VpcsClean
    /\ layout = "vpc" => \A n \in Nets : net[n].state = "up" /\ ~net[n].given => net[n].vpc # None
    /\ \A p \in IPs : ip[p].net # None =>
         \/ ip[p].net \in Nets /\ net[ip[p].net].state = "up"
         \/ ip[p].net \in Vpcs /\ vpc[ip[p].net].state = "up"

\* Copy o of the object is an earlier version of it.
Earlier(c, o) ==
    /\ o.fin => obj[c].fin
    /\ o.deleting => obj[c].deleting /\ o.fin
    /\ o.id # None => obj[c].id = o.id
    /\ o.vpc # None => obj[c].vpc = o.vpc

\* The stored object and the copies of it.
Versions(c) ==
    /\ Earlier(c, obj[c]) /\ Earlier(c, seen[c])
    /\ pc[c] # "idle" => Earlier(c, base[c])

\* Up to the pass that disposes, nothing goes away, and an object with a
\* finalizer names all there is.
Building(c) ==
    /\ \A n \in Nets : net[n].state # "gone"
    /\ \A v \in Vpcs : vpc[v].state # "gone"
    /\ Names(obj[c]) /\ HasAddress(obj[c]) /\ HasAddress(seen[c])
    /\ obj[c].fin => Settled /\ KnowsNet(obj[c]) /\ KnowsVpc(obj[c])
    /\ seen[c].fin => KnowsNet(seen[c]) /\ KnowsVpc(seen[c])
    /\ pc[c] # "tagcreated" => Marked
    /\ pc[c] # "tagvpccreated" => VpcMarked

\* A pass that has its network.
WithNetwork == {"tagcreated", "tagnet", "tagvpc", "getip", "assoc", "tagip", "tagipcreated",
                "lb", "firewall", "retag", "patchcluster"}

\* What a pass that provisions knows.
BuildingPass(c) ==
    /\ pc[c] \in Provisioning
    /\ loc[c].fin /\ Names(loc[c])
    /\ base[c].id # None => loc[c].id # None
    /\ base[c].vpc # None => loc[c].vpc # None
    /\ pc[c] # "assoc" => HasAddress(loc[c])
    /\ pc[c] \in {"resolvevpc", "createvpc", "tagvpccreated", "create"} => NoNet
    /\ pc[c] = "resolvevpc" => NamesVPC(loc[c])
    /\ pc[c] = "createvpc" => NoVpc /\ layout = "vpc"
    /\ pc[c] = "tagvpccreated" => \A v \in Vpcs : vpc[v].state = "up" => loc[c].vpc = v
    /\ pc[c] = "create" => KnowsVpc(loc[c]) /\ (layout = "vpc" => loc[c].vpc # None)
    /\ pc[c] \in WithNetwork =>
         /\ loc[c].id # None
         /\ net[loc[c].id].vpc # None => loc[c].vpc = net[loc[c].id].vpc
    /\ pc[c] = "tagcreated" => \A n \in Nets : net[n].state = "up" => loc[c].id = n
    /\ pc[c] = "patch" => Settled /\ KnowsNet(loc[c]) /\ KnowsVpc(loc[c])

\* What a pass that disposes knows.
DisposingPass(c) ==
    /\ pc[c] \in {"untagip", "checkip", "untagipcreated", "disassoc", "untagnet", "checknet",
                  "delnet", "untagvpc", "checkvpc", "delvpc", "patch"}
    /\ pc[c] \in {"untagip", "checkip", "untagipcreated", "disassoc", "untagnet", "checknet",
                  "delnet"} => KnowsNet(loc[c]) /\ Marked
    /\ pc[c] # "patch" => KnowsVpc(loc[c]) /\ VpcMarked
    /\ pc[c] \in {"untagip", "checkip"} => HasAddress(loc[c])
    /\ pc[c] \in {"untagipcreated", "disassoc"} => ip[loc[c].ip].net # None
    /\ pc[c] = "checknet" /\ loc[c].id # None /\ net[loc[c].id].state = "up" =>
         net[loc[c].id].tags = {}
    /\ pc[c] = "delnet" => net[loc[c].id].state = "up"
    /\ pc[c] \in {"untagvpc", "checkvpc", "delvpc"} => NetsClean
    /\ pc[c] = "checkvpc" /\ vpc[loc[c].vpc].state = "up" => vpc[loc[c].vpc].tags = {}
    /\ pc[c] = "delvpc" => vpc[loc[c].vpc].state = "up" /\ ~vpc[loc[c].vpc].given
    /\ pc[c] = "patch" => ~loc[c].fin /\ NetsClean /\ VpcsClean

\* The part of the invariant that concerns a calm cluster c.
Orderly(c) ==
    /\ World /\ Versions(c)
    /\ ~Disposing(c) => Building(c)
    /\ pc[c] # "idle" /\ ~base[c].deleting => BuildingPass(c)
    /\ Disposing(c) => DisposingPass(c)

DisposalInv == GivenInv /\ \A c \in Clusters : Calm(c) => Orderly(c)

\* A step leaves alone what the definitions above look at, but for an address
\* that gets an owner.
SameShape ==
    /\ layout' = layout
    /\ \A n \in Nets : /\ net'[n].state = net[n].state /\ net'[n].given = net[n].given
                       /\ net'[n].created = net[n].created /\ net'[n].vpc = net[n].vpc
    /\ \A v \in Vpcs : /\ vpc'[v].state = vpc[v].state /\ vpc'[v].given = vpc[v].given
                       /\ vpc'[v].created = vpc[v].created
    /\ \A p \in IPs :
         \/ ip'[p].net = ip[p].net
         \/ ip[p].net = None /\ ip'[p].net \in Nets /\ net[ip'[p].net].state = "up"
         \/ ip[p].net = None /\ ip'[p].net \in Vpcs /\ vpc[ip'[p].net].state = "up"

LEMMA ObjFields ==
    ASSUME TypeOK, NEW c \in Clusters
    PROVE  /\ \A o \in {obj[c], seen[c], base[c], loc[c]} :
                /\ o \in Obj
                /\ o.id \in Nets \cup {None} /\ o.vpc \in Vpcs \cup {None}
                /\ o.ip \in IPs \cup {None} /\ o.fin \in BOOLEAN
                /\ o.deleting \in BOOLEAN /\ o.exists \in BOOLEAN
  <1>1. obj[c] \in Obj /\ seen[c] \in Obj /\ base[c] \in Obj /\ loc[c] \in Obj
    BY DEF TypeOK
  <1> QED
    BY <1>1 DEF Obj

LEMMA CloudFields ==
    ASSUME TypeOK
    PROVE  /\ \A n \in Nets : /\ net[n].state \in {"absent", "up", "gone"}
                              /\ net[n].vpc \in Vpcs \cup {None} /\ net[n].tags \subseteq Clusters
                              /\ net[n].given \in BOOLEAN /\ net[n].created \in BOOLEAN
           /\ \A v \in Vpcs : /\ vpc[v].state \in {"absent", "up", "gone"}
                              /\ vpc[v].tags \subseteq Clusters
                              /\ vpc[v].given \in BOOLEAN /\ vpc[v].created \in BOOLEAN
           /\ \A p \in IPs : ip[p].net \in Nets \cup Vpcs \cup {None}
  BY DEF TypeOK, Network, VPC, Address

LEMMA ShapeWorld ==
    ASSUME TypeOK, World, SameShape
    PROVE  World'
  BY CloudFields DEF World, SameShape, VpcsClean

LEMMA ShapeBuilding ==
    ASSUME TypeOK, NEW c \in Clusters, Building(c), SameShape, obj' = obj, seen' = seen,
           pc[c] # "tagcreated", pc[c] # "tagvpccreated"
    PROVE  Building(c)'
  <1>1. /\ \A n \in Nets : net'[n].state # "gone"
        /\ \A v \in Vpcs : vpc'[v].state # "gone"
        /\ Marked' /\ VpcMarked'
    BY DEF Building, SameShape, Marked, VpcMarked
  <1>2. Mismatch <=> Mismatch'
    BY DEF SameShape, Mismatch
  <1>3. Names(obj[c])' /\ HasAddress(obj[c])' /\ HasAddress(seen[c])'
    BY <1>2, ObjFields, NetAssumption DEF Building, SameShape, Names, HasAddress
  <1>4. Settled => Settled'
    BY DEF Settled, NoNet, NoVpc, SameShape
  <1>5. /\ obj'[c].fin => Settled' /\ KnowsNet(obj[c])' /\ KnowsVpc(obj[c])'
        /\ seen'[c].fin => KnowsNet(seen[c])' /\ KnowsVpc(seen[c])'
    BY <1>4 DEF Building, KnowsNet, KnowsVpc, SameShape
  <1> QED
    BY <1>1, <1>3, <1>5 DEF Building

\* A step of a pass leaves the object and its copies alone.
LEMMA StepKeeps ==
    ASSUME TypeOK, NEW c \in Clusters, Versions(c), PassStep(c), pc[c] # "idle", pc'[c] # "idle"
    PROVE  /\ Versions(c)' /\ obj' = obj /\ seen' = seen /\ base' = base /\ layout' = layout
           /\ Disposing(c)' <=> Disposing(c)
  BY DEF Versions, Earlier, PassStep, Disposing

\* A pass that provisions takes a step that changes nothing of note.
LEMMA QuietBuilding ==
    ASSUME TypeOK, NEW c \in Clusters, Orderly(c), PassStep(c), SameShape,
           pc[c] \notin {"idle", "tagcreated", "tagvpccreated"}, pc'[c] # "idle",
           ~base[c].deleting, BuildingPass(c)'
    PROVE  Orderly(c)'
  <1>1. /\ Versions(c)' /\ obj' = obj /\ seen' = seen /\ base' = base
        /\ ~Disposing(c) /\ ~Disposing(c)'
    BY StepKeeps DEF Orderly, Disposing
  <1>2. World' /\ Building(c)'
    BY <1>1, ShapeWorld, ShapeBuilding DEF Orderly
  <1> QED
    BY <1>1, <1>2 DEF Orderly

LEMMA QuietDisposing ==
    ASSUME TypeOK, NEW c \in Clusters, Orderly(c), PassStep(c), SameShape,
           pc[c] # "idle", pc'[c] # "idle", base[c].deleting, DisposingPass(c)'
    PROVE  Orderly(c)'
  <1>1. /\ Versions(c)' /\ base' = base /\ Disposing(c) /\ Disposing(c)'
    BY StepKeeps DEF Orderly, Disposing
  <1>2. World'
    BY <1>1, ShapeWorld DEF Orderly
  <1> QED
    BY <1>1, <1>2 DEF Orderly, Disposing

\* A pass that has its network names all there is.
LEMMA WithNetworkKnows ==
    ASSUME TypeOK, NEW c \in Clusters, World, BuildingPass(c), pc[c] \in WithNetwork
    PROVE  /\ loc[c].id \in Nets /\ net[loc[c].id].state = "up"
           /\ Settled /\ KnowsNet(loc[c]) /\ KnowsVpc(loc[c])
  <1>1. loc[c].id \in Nets /\ net[loc[c].id].state = "up"
    BY ObjFields DEF BuildingPass, Names
  <1>2. Settled /\ KnowsNet(loc[c])
    BY <1>1 DEF Settled, NoNet, KnowsNet, World
  <1>3. ASSUME NEW v \in Vpcs, vpc[v].state = "up", ~vpc[v].given PROVE loc[c].vpc = v
    <2>1. net[loc[c].id].vpc = v /\ v # None
      BY <1>1, <1>3, NetAssumption DEF World
    <2> QED
      BY <2>1 DEF BuildingPass
  <1> QED
    BY <1>1, <1>2, <1>3 DEF KnowsVpc

\* Once it has its network, a pass goes on with it, or ends.
LEMMA GoesOn ==
    ASSUME TypeOK, NEW c \in Clusters, Orderly(c), PassStep(c), SameShape,
           pc[c] \in WithNetwork \ {"tagcreated"}, ~base[c].deleting,
           pc'[c] \in (WithNetwork \cup {"patch"}) \ {"tagcreated"},
           loc'[c].id = loc[c].id, loc'[c].vpc = loc[c].vpc, loc'[c].fin = loc[c].fin,
           pc'[c] # "assoc" => HasAddress(loc[c])'
    PROVE  Orderly(c)'
  <1>1. BuildingPass(c) /\ World /\ pc[c] # "idle"
    BY DEF Orderly, WithNetwork
  <1>2. /\ loc[c].id \in Nets /\ net[loc[c].id].state = "up"
        /\ Settled /\ KnowsNet(loc[c]) /\ KnowsVpc(loc[c])
    BY <1>1, WithNetworkKnows
  <1>3. Names(loc[c])'
    BY <1>1, ObjFields DEF Names, SameShape, BuildingPass
  <1>4. Settled' /\ KnowsNet(loc[c])' /\ KnowsVpc(loc[c])'
    BY <1>2 DEF SameShape, Settled, NoNet, NoVpc, KnowsNet, KnowsVpc
  <1>5. net'[loc'[c].id].vpc # None => loc'[c].vpc = net'[loc'[c].id].vpc
    BY <1>1, <1>2 DEF SameShape, BuildingPass
  <1>6. base' = base /\ loc'[c].id # None
    BY <1>2, NetAssumption DEF PassStep
  <1>7. BuildingPass(c)'
    BY <1>1, <1>3, <1>4, <1>5, <1>6 DEF BuildingPass, WithNetwork, Provisioning, Early
  <1> QED
    BY <1>1, <1>7, QuietBuilding DEF WithNetwork

(***************************************************************************)
(* The steps of a pass that provisions.                                    *)
(***************************************************************************)
LEMMA NoFault ==
    ASSUME faults = 0, faults' = 0, NEW c
    PROVE  ~Disturb("error") /\ ~Disturb("crash") /\ ~Fails(c)
  BY DEF Disturb, Fails

\* Where a pass is tells whether it provisions.
LEMMA WhichPass ==
    ASSUME NEW c \in Clusters, Orderly(c), pc[c] # "idle"
    PROVE  /\ base[c].deleting => DisposingPass(c)
           /\ ~base[c].deleting => BuildingPass(c) /\ Building(c)
           /\ pc[c] \in Provisioning \ {"patch"} => ~base[c].deleting
           /\ pc[c] \notin Provisioning => base[c].deleting
  BY DEF Orderly, Disposing, DisposingPass, BuildingPass, Provisioning, Early

LEMMA ResolveStep ==
    ASSUME TypeOK, NEW c \in Clusters, Orderly(c), faults = 0, faults' = 0, ResolveNetwork(c)
    PROVE  Orderly(c)'
  <1>1. PassStep(c) /\ pc[c] = "resolve" /\ SameShape
    BY TypeResolveNetwork DEF ResolveNetwork, SameShape, objects
  <1>2. ~base[c].deleting /\ BuildingPass(c) /\ Building(c) /\ World
    BY <1>1, WhichPass DEF Provisioning, Early, Orderly
  <1>3. \/ /\ pc'[c] = "tagnet"
           /\ \E n \in Nets : /\ net[n].state = "up"
                              /\ loc' = [loc EXCEPT ![c].id = n,
                                           ![c].vpc = IF net[n].vpc # None THEN net[n].vpc ELSE @]
        \/ /\ loc' = loc /\ NoNet
           /\ pc'[c] = IF NamesVPC(loc[c]) THEN "resolvevpc" ELSE "create"
    <2>1. ~Disturb("error")
      BY NoFault
    <2>2. \/ /\ pc' = [pc EXCEPT ![c] = "tagnet"]
             /\ \E n \in Up : loc' = [loc EXCEPT ![c].id = n,
                                         ![c].vpc = IF net[n].vpc # None THEN net[n].vpc ELSE @]
          \/ /\ loc' = loc /\ Cardinality(Up) # 1
             /\ pc' = [pc EXCEPT ![c] = IF NamesVPC(loc[c]) THEN "resolvevpc" ELSE "create"]
      BY <2>1 DEF ResolveNetwork
    <2>3. ASSUME Cardinality(Up) # 1 PROVE NoNet
      <3>1. ASSUME NEW n \in Nets, net[n].state = "up" PROVE FALSE
        <4>1. Up = {n}
          BY <3>1, <1>2 DEF Up, World
        <4> QED
          BY <2>3, <4>1, FS_Singleton
      <3> QED
        BY <3>1 DEF NoNet
    <2> QED
      BY <2>2, <2>3 DEF Up, TypeOK
  <1>4. base' = base /\ pc'[c] # "idle"
    BY <1>1, <1>3 DEF PassStep
  <1>5. CASE loc' = loc /\ NoNet /\ pc'[c] = IF NamesVPC(loc[c]) THEN "resolvevpc" ELSE "create"
    <2>1. NoNet' /\ Names(loc[c])' /\ HasAddress(loc[c])'
      BY <1>1, <1>2, <1>5, ObjFields
         DEF SameShape, NoNet, Names, HasAddress, Mismatch, BuildingPass
    <2>2. pc'[c] = "resolvevpc" => NamesVPC(loc[c])'
      BY <1>1, <1>5 DEF NamesVPC, SameShape
    <2>3. pc'[c] = "create" => KnowsVpc(loc[c])' /\ layout' # "vpc"
      BY <1>1, <1>2, <1>5 DEF NamesVPC, SameShape, KnowsVpc, World, VpcsClean
    <2>4. BuildingPass(c)'
      BY <1>2, <1>4, <1>5, <2>1, <2>2, <2>3 DEF BuildingPass, Provisioning, Early, WithNetwork
    <2> QED
      BY <1>1, <1>2, <1>4, <2>4, QuietBuilding
  <1>6. ASSUME NEW n \in Nets, net[n].state = "up", pc'[c] = "tagnet",
               loc' = [loc EXCEPT ![c].id = n,
                          ![c].vpc = IF net[n].vpc # None THEN net[n].vpc ELSE @]
        PROVE  Orderly(c)'
    <2>1. /\ loc'[c].id = n /\ loc'[c].fin = loc[c].fin /\ loc'[c].ip = loc[c].ip
          /\ loc'[c].vpc = IF net[n].vpc # None THEN net[n].vpc ELSE loc[c].vpc
          /\ pc'[c] = "tagnet" /\ net'[n].vpc = net[n].vpc
      BY <1>1, <1>6, ObjFields DEF TypeOK, Obj, SameShape
    <2>2. n # None
      BY NetAssumption
    <2>3. net[n].vpc # None => net[n].vpc \in Vpcs /\ vpc[net[n].vpc].state = "up"
      BY <1>2, <1>6, CloudFields DEF World
    <2>4. Names(loc[c])' /\ HasAddress(loc[c])'
      BY <1>1, <1>2, <1>6, <2>1, <2>3, ObjFields
         DEF SameShape, Names, HasAddress, Mismatch, BuildingPass
    <2>5. BuildingPass(c)'
      BY <1>2, <1>4, <2>1, <2>2, <2>4 DEF BuildingPass, Provisioning, Early, WithNetwork
    <2> QED
      BY <1>1, <1>2, <1>4, <2>5, QuietBuilding
  <1> QED
    BY <1>3, <1>5, <1>6

LEMMA ResolveVPCStep ==
    ASSUME TypeOK, NEW c \in Clusters, Orderly(c), faults = 0, faults' = 0, ResolveVPC(c)
    PROVE  Orderly(c)'
  <1>1. PassStep(c) /\ pc[c] = "resolvevpc" /\ SameShape
    BY TypeResolveVPC DEF ResolveVPC, SameShape, objects
  <1>2. ~base[c].deleting /\ BuildingPass(c) /\ World
    BY <1>1, WhichPass DEF Provisioning, Early, Orderly
  <1>3. NoNet /\ NamesVPC(loc[c]) /\ Names(loc[c])
    BY <1>1, <1>2 DEF BuildingPass
  <1>4. \/ /\ pc'[c] = "create"
           /\ \E v \in Vpcs : vpc[v].state = "up" /\ loc' = [loc EXCEPT ![c].vpc = v]
        \/ pc'[c] = "createvpc" /\ loc' = loc /\ NoVpc /\ layout = "vpc"
    <2> DEFINE Finds(v) == v \in VpcUp /\ IF loc[c].vpc # None THEN v = loc[c].vpc ELSE VpcUp = {v}
    <2>1. \/ \E v \in Vpcs : /\ Finds(v) /\ loc' = [loc EXCEPT ![c].vpc = v]
                             /\ pc' = [pc EXCEPT ![c] = "create"]
          \/ /\ \A v \in Vpcs : ~Finds(v)
             /\ pc' = [pc EXCEPT ![c] = "createvpc"] /\ loc' = loc
      BY NoFault DEF ResolveVPC
    <2>2. ASSUME \A v \in Vpcs : ~Finds(v) PROVE NoVpc /\ layout = "vpc"
      <3>1. loc[c].vpc = None
        BY <1>3, <2>2, ObjFields DEF Names, VpcUp
      <3>2. ASSUME NEW v \in Vpcs, vpc[v].state = "up" PROVE FALSE
        <4>1. VpcUp = {v}
          BY <3>2, <1>2 DEF VpcUp, World
        <4> QED
          BY <2>2, <3>1, <4>1
      <3> QED
        BY <1>3, <3>1, <3>2 DEF NoVpc, NamesVPC
    <2>3. ASSUME NEW v \in Vpcs, Finds(v) PROVE vpc[v].state = "up"
      BY <2>3 DEF VpcUp
    <2> HIDE DEF Finds
    <2> QED
      BY <2>1, <2>2, <2>3 DEF TypeOK
  <1>5. base' = base /\ pc'[c] # "idle" /\ NoNet'
    BY <1>1, <1>3, <1>4 DEF PassStep, SameShape, NoNet
  <1>6. CASE pc'[c] = "createvpc" /\ loc' = loc /\ NoVpc /\ layout = "vpc"
    <2>1. Names(loc[c])' /\ HasAddress(loc[c])' /\ NoVpc' /\ layout' = "vpc"
      BY <1>1, <1>2, <1>6, ObjFields
         DEF SameShape, NoVpc, Names, HasAddress, Mismatch, BuildingPass
    <2>2. BuildingPass(c)'
      BY <1>2, <1>5, <1>6, <2>1 DEF BuildingPass, Provisioning, Early, WithNetwork
    <2> QED
      BY <1>1, <1>2, <1>5, <2>2, QuietBuilding
  <1>7. ASSUME NEW v \in Vpcs, vpc[v].state = "up", pc'[c] = "create",
               loc' = [loc EXCEPT ![c].vpc = v]
        PROVE  Orderly(c)'
    <2>1. /\ loc'[c].id = loc[c].id /\ loc'[c].fin = loc[c].fin /\ loc'[c].ip = loc[c].ip
          /\ loc'[c].vpc = v /\ v # None /\ pc'[c] = "create"
      BY <1>7, NetAssumption DEF TypeOK, Obj
    <2>2. Names(loc[c])' /\ HasAddress(loc[c])'
      BY <1>1, <1>2, <1>7, <2>1, ObjFields
         DEF SameShape, Names, HasAddress, Mismatch, BuildingPass
    <2>3. KnowsVpc(loc[c])'
      BY <1>1, <1>2, <1>7, <2>1 DEF SameShape, KnowsVpc, World
    <2>4. BuildingPass(c)'
      BY <1>2, <1>5, <2>1, <2>2, <2>3 DEF BuildingPass, Provisioning, Early, WithNetwork
    <2> QED
      BY <1>1, <1>2, <1>5, <2>4, QuietBuilding
  <1> QED
    BY <1>4, <1>6, <1>7

LEMMA CreateVPCStep ==
    ASSUME GivenInv, NEW c \in Clusters, Orderly(c), faults = 0, faults' = 0, CreateVPC(c)
    PROVE  Orderly(c)'
  <1>0. TypeOK
    BY DEF GivenInv
  <1>1. /\ PassStep(c) /\ pc[c] = "createvpc" /\ net' = net /\ ip' = ip
        /\ layout' = layout
    BY <1>0, TypeCreateVPC DEF CreateVPC, objects
  <1>2. ~base[c].deleting /\ BuildingPass(c) /\ Building(c) /\ World
    BY <1>1, WhichPass DEF Provisioning, Early, Orderly
  <1>3. NoNet /\ NoVpc /\ layout = "vpc" /\ Names(loc[c])
    BY <1>1, <1>2 DEF BuildingPass
  <1>4. \/ /\ pc'[c] = "tagvpccreated"
           /\ \E v \in Vpcs : /\ vpc[v].state = "absent" /\ vpc' = [vpc EXCEPT ![v].state = "up"]
                              /\ loc' = [loc EXCEPT ![c].vpc = v]
        \/ pc'[c] = "patch" /\ UNCHANGED <<vpc, loc>> /\ \A v \in Vpcs : vpc[v].state # "absent"
    BY <1>0, NoFault DEF CreateVPC, TypeOK
  <1>5. base' = base /\ pc'[c] # "idle"
    BY <1>1, <1>4 DEF PassStep
  <1>6. CASE pc'[c] = "patch" /\ UNCHANGED <<vpc, loc>> /\ \A v \in Vpcs : vpc[v].state # "absent"
    <2>1. Vpcs = {}
      BY <1>0, <1>2, <1>3, <1>6, CloudFields DEF Building, NoVpc
    <2>2. SameShape
      BY <1>1, <1>6 DEF SameShape
    <2>3. Names(loc[c])' /\ HasAddress(loc[c])'
      BY <1>1, <1>2, <1>6 DEF Names, HasAddress, Mismatch, BuildingPass
    <2>4. Settled' /\ KnowsNet(loc[c])' /\ KnowsVpc(loc[c])'
      BY <1>1, <1>3, <2>1 DEF Settled, KnowsNet, KnowsVpc, NoNet
    <2>5. BuildingPass(c)'
      BY <1>2, <1>5, <1>6, <2>3, <2>4 DEF BuildingPass, Provisioning, Early, WithNetwork
    <2> QED
      BY <1>0, <1>1, <1>2, <1>5, <2>2, <2>5, QuietBuilding
  <1>7. ASSUME NEW v \in Vpcs, vpc[v].state = "absent", vpc' = [vpc EXCEPT ![v].state = "up"],
               loc' = [loc EXCEPT ![c].vpc = v], pc'[c] = "tagvpccreated"
        PROVE  Orderly(c)'
    <2>1. /\ loc'[c].id = loc[c].id /\ loc'[c].fin = loc[c].fin /\ loc'[c].ip = loc[c].ip
          /\ loc'[c].vpc = v /\ v # None /\ pc'[c] = "tagvpccreated"
      BY <1>0, <1>7, NetAssumption DEF TypeOK, Obj
    <2>2. /\ vpc'[v].state = "up" /\ ~vpc[v].given
          /\ \A u \in Vpcs : /\ vpc'[u].given = vpc[u].given /\ vpc'[u].created = vpc[u].created
                             /\ u # v => vpc'[u].state = vpc[u].state
      BY <1>0, <1>7 DEF TypeOK, VPC, GivenInv
    <2>3. \A u \in Vpcs : vpc'[u].state = "up" => u = v
      BY <1>3, <2>2 DEF NoVpc
    <2>4. World'
      BY <1>0, <1>1, <1>2, <1>3, <2>2, <2>3, CloudFields DEF World, NoNet, NoVpc, VpcsClean
    <2>5. Versions(c)' /\ obj' = obj /\ seen' = seen /\ ~Disposing(c)'
      BY <1>0, <1>1, <1>2, <1>5, StepKeeps DEF Orderly, Disposing
    <2>6. ~obj[c].fin /\ ~seen[c].fin
      <3>1. ~Settled
        BY <1>3, <1>7 DEF Settled, NoNet
      <3> QED
        BY <3>1, <1>2 DEF Building, Orderly, Versions, Earlier
    <2>7. Building(c)'
      <3>1. /\ \A n \in Nets : net'[n].state # "gone"
            /\ \A u \in Vpcs : vpc'[u].state # "gone"
        BY <1>1, <1>2, <2>2 DEF Building
      <3>2. Names(obj[c])' /\ HasAddress(obj[c])' /\ HasAddress(seen[c])'
        BY <1>0, <1>1, <1>2, <2>2, <2>5, ObjFields DEF Building, Names, HasAddress, Mismatch
      <3>3. Marked'
        BY <1>1, <1>3 DEF Marked, NoNet
      <3> QED
        BY <2>1, <2>5, <2>6, <3>1, <3>2, <3>3 DEF Building
    <2>8. Names(loc[c])' /\ HasAddress(loc[c])' /\ NoNet'
      BY <1>1, <1>2, <1>3, <2>1, <2>2 DEF Names, HasAddress, Mismatch, BuildingPass, NoNet
    <2>9. BuildingPass(c)'
      BY <1>2, <1>5, <2>1, <2>3, <2>8 DEF BuildingPass, Provisioning, Early, WithNetwork
    <2> QED
      BY <2>4, <2>5, <2>7, <2>9 DEF Orderly
  <1> QED
    BY <1>4, <1>6, <1>7

LEMMA TagVPCCreatedStep ==
    ASSUME GivenInv, NEW c \in Clusters, Orderly(c), faults = 0, faults' = 0, TagVPCCreated(c)
    PROVE  Orderly(c)'
  <1>0. TypeOK
    BY DEF GivenInv
  <1>1. PassStep(c) /\ pc[c] = "tagvpccreated"
    BY <1>0, TypeTagVPCCreated DEF TagVPCCreated
  <1>2. ~base[c].deleting /\ BuildingPass(c) /\ Building(c) /\ World
    BY <1>1, WhichPass DEF Provisioning, Early, Orderly
  <1>3. /\ NoNet /\ Names(loc[c]) /\ \A v \in Vpcs : vpc[v].state = "up" => loc[c].vpc = v
        /\ loc[c].vpc \in Vpcs /\ loc[c].vpc # None
    BY <1>0, <1>1, <1>2, ObjFields DEF BuildingPass, TypeOK, NeedVpc
  <1>4. /\ UNCHANGED <<layout, net, ip, loc>> /\ pc'[c] = "create"
        /\ vpc' = [vpc EXCEPT ![loc[c].vpc].created = TRUE]
    BY <1>0, <1>3, NoFault DEF TagVPCCreated, VpcUp, Names, TypeOK, objects
  <1>5. /\ \A u \in Vpcs : /\ vpc'[u].given = vpc[u].given /\ vpc'[u].state = vpc[u].state
        /\ vpc'[loc[c].vpc].created
    BY <1>0, <1>3, <1>4 DEF TypeOK, VPC
  <1>6. Versions(c)' /\ obj' = obj /\ seen' = seen /\ base' = base /\ ~Disposing(c)'
    BY <1>0, <1>1, <1>2, <1>4, StepKeeps DEF Orderly, Disposing
  <1>7. World'
    BY <1>0, <1>2, <1>4, <1>5, CloudFields DEF World, VpcsClean
  <1>8. Building(c)'
    <2>1. /\ \A n \in Nets : net'[n].state # "gone"
          /\ \A u \in Vpcs : vpc'[u].state # "gone"
      BY <1>2, <1>4, <1>5 DEF Building
    <2>2. Names(obj[c])' /\ HasAddress(obj[c])' /\ HasAddress(seen[c])'
      BY <1>0, <1>2, <1>4, <1>5, <1>6, ObjFields DEF Building, Names, HasAddress, Mismatch
    <2>3. Marked' /\ VpcMarked'
      BY <1>3, <1>4, <1>5 DEF Marked, VpcMarked, NoNet
    <2>4. Settled => Settled'
      BY <1>4, <1>5 DEF Settled, NoNet, NoVpc
    <2>5. /\ obj'[c].fin => Settled' /\ KnowsNet(obj[c])' /\ KnowsVpc(obj[c])'
          /\ seen'[c].fin => KnowsNet(seen[c])' /\ KnowsVpc(seen[c])'
      BY <1>2, <1>4, <1>5, <1>6, <2>4 DEF Building, KnowsNet, KnowsVpc
    <2> QED
      BY <2>1, <2>2, <2>3, <2>5 DEF Building
  <1>9. BuildingPass(c)'
    <2>1. Names(loc[c])' /\ HasAddress(loc[c])' /\ NoNet' /\ KnowsVpc(loc[c])'
      BY <1>1, <1>2, <1>3, <1>4, <1>5 DEF Names, HasAddress, Mismatch, BuildingPass, NoNet, KnowsVpc
    <2> QED
      BY <1>2, <1>3, <1>4, <1>6, <2>1 DEF BuildingPass, Provisioning, Early, WithNetwork
  <1> QED
    BY <1>6, <1>7, <1>8, <1>9 DEF Orderly

LEMMA CreateNetworkStep ==
    ASSUME GivenInv, NEW c \in Clusters, Orderly(c), faults = 0, faults' = 0, CreateNetwork(c)
    PROVE  Orderly(c)'
  <1>0. TypeOK
    BY DEF GivenInv
  <1>1. /\ PassStep(c) /\ pc[c] = "create" /\ vpc' = vpc /\ ip' = ip
        /\ layout' = layout
    BY <1>0, TypeCreateNetwork DEF CreateNetwork, objects
  <1>2. ~base[c].deleting /\ BuildingPass(c) /\ Building(c) /\ World
    BY <1>1, WhichPass DEF Provisioning, Early, Orderly
  <1>3. /\ NoNet /\ Names(loc[c]) /\ KnowsVpc(loc[c]) /\ (layout = "vpc" => loc[c].vpc # None)
        /\ loc[c].vpc # None => loc[c].vpc \in Vpcs /\ vpc[loc[c].vpc].state = "up"
    BY <1>0, <1>1, <1>2, ObjFields DEF BuildingPass, Names
  <1>4. \/ /\ pc'[c] = "tagcreated"
           /\ \E n \in Nets : /\ net[n].state = "absent"
                              /\ net' = [net EXCEPT ![n].state = "up", ![n].vpc = loc[c].vpc]
                              /\ loc' = [loc EXCEPT ![c].id = n]
        \/ pc'[c] = "patch" /\ UNCHANGED <<net, loc>> /\ \A n \in Nets : net[n].state # "absent"
    <2> DEFINE absent == {n \in Nets : net[n].state = "absent"}
    <2>1. loc[c].vpc \in VpcUp \cup {None}
      BY <1>3 DEF VpcUp
    <2>2. \/ /\ pc' = [pc EXCEPT ![c] = "tagcreated"]
             /\ \E n \in absent : /\ net' = [net EXCEPT ![n].state = "up", ![n].vpc = loc[c].vpc]
                                  /\ loc' = [loc EXCEPT ![c].id = n]
          \/ pc' = [pc EXCEPT ![c] = "patch"] /\ UNCHANGED <<net, loc>> /\ absent = {}
      BY <2>1, NoFault DEF CreateNetwork
    <2> QED
      BY <1>0, <2>2 DEF TypeOK
  <1>5. base' = base /\ pc'[c] # "idle"
    BY <1>1, <1>4 DEF PassStep
  <1>6. CASE pc'[c] = "patch" /\ UNCHANGED <<net, loc>> /\ \A n \in Nets : net[n].state # "absent"
    <2>1. Nets = {}
      BY <1>0, <1>2, <1>3, <1>6, CloudFields DEF Building, NoNet
    <2>2. SameShape
      BY <1>1, <1>6 DEF SameShape
    <2>3. Names(loc[c])' /\ HasAddress(loc[c])'
      BY <1>1, <1>2, <1>6 DEF Names, HasAddress, Mismatch, BuildingPass
    <2>4. Settled' /\ KnowsNet(loc[c])' /\ KnowsVpc(loc[c])'
      BY <1>1, <1>3, <1>6, <2>1 DEF Settled, KnowsNet, KnowsVpc, NoNet, NoVpc
    <2>5. BuildingPass(c)'
      BY <1>2, <1>5, <1>6, <2>3, <2>4 DEF BuildingPass, Provisioning, Early, WithNetwork
    <2> QED
      BY <1>0, <1>1, <1>2, <1>5, <2>2, <2>5, QuietBuilding
  <1>7. ASSUME NEW n \in Nets, net[n].state = "absent", loc' = [loc EXCEPT ![c].id = n],
               net' = [net EXCEPT ![n].state = "up", ![n].vpc = loc[c].vpc],
               pc'[c] = "tagcreated"
        PROVE  Orderly(c)'
    <2>1. /\ loc'[c].id = n /\ loc'[c].fin = loc[c].fin /\ loc'[c].ip = loc[c].ip
          /\ loc'[c].vpc = loc[c].vpc /\ n # None /\ pc'[c] = "tagcreated"
      BY <1>0, <1>7, NetAssumption DEF TypeOK, Obj
    <2>2. /\ net'[n].state = "up" /\ ~net[n].given /\ net'[n].vpc = loc[c].vpc
          /\ \A m \in Nets : /\ net'[m].given = net[m].given
                             /\ m # n => net'[m].state = net[m].state /\ net'[m].vpc = net[m].vpc
      BY <1>0, <1>7 DEF TypeOK, Network, GivenInv
    <2>3. \A m \in Nets : net'[m].state = "up" => m = n
      BY <1>3, <2>2 DEF NoNet
    <2>4. World'
      <3>1. \A p \in IPs : ip[p].net # None => ip[p].net \in Vpcs /\ vpc[ip[p].net].state = "up"
        BY <1>2, <1>3 DEF World, NoNet
      <3>2. \A v \in Vpcs : vpc[v].state = "up" /\ ~vpc[v].given => loc[c].vpc = v
        BY <1>3 DEF KnowsVpc
      <3> QED
        BY <1>1, <1>2, <1>3, <2>2, <2>3, <3>1, <3>2 DEF World, VpcsClean
    <2>5. Versions(c)' /\ obj' = obj /\ seen' = seen /\ ~Disposing(c)'
      BY <1>0, <1>1, <1>2, <1>5, StepKeeps DEF Orderly, Disposing
    <2>6. ~obj[c].fin /\ ~seen[c].fin
      <3>1. ~Settled
        BY <1>3, <1>7 DEF Settled, NoNet
      <3> QED
        BY <3>1, <1>2 DEF Building, Orderly, Versions, Earlier
    <2>7. Mismatch => Mismatch'
      BY <1>1, <2>2 DEF Mismatch
    <2>8. Building(c)'
      <3>1. /\ \A m \in Nets : net'[m].state # "gone"
            /\ \A u \in Vpcs : vpc'[u].state # "gone"
        BY <1>1, <1>2, <2>2 DEF Building
      <3>2. Names(obj[c])' /\ HasAddress(obj[c])' /\ HasAddress(seen[c])'
        BY <1>0, <1>1, <1>2, <2>2, <2>5, <2>7, ObjFields DEF Building, Names, HasAddress
      <3>3. VpcMarked'
        BY <1>1, <1>2 DEF Building, VpcMarked
      <3> QED
        BY <2>1, <2>5, <2>6, <3>1, <3>2, <3>3 DEF Building
    <2>9. Names(loc[c])' /\ HasAddress(loc[c])'
      BY <1>1, <1>2, <1>3, <2>1, <2>2, <2>7 DEF Names, HasAddress, BuildingPass
    <2>10. BuildingPass(c)'
      BY <1>2, <1>5, <2>1, <2>2, <2>3, <2>9 DEF BuildingPass, Provisioning, Early, WithNetwork
    <2> QED
      BY <2>4, <2>5, <2>8, <2>10 DEF Orderly
  <1> QED
    BY <1>4, <1>6, <1>7

LEMMA TagCreatedStep ==
    ASSUME GivenInv, NEW c \in Clusters, Orderly(c), faults = 0, faults' = 0, TagCreated(c)
    PROVE  Orderly(c)'
  <1>0. TypeOK
    BY DEF GivenInv
  <1>1. PassStep(c) /\ pc[c] = "tagcreated"
    BY <1>0, TypeTagCreated DEF TagCreated
  <1>2. ~base[c].deleting /\ BuildingPass(c) /\ Building(c) /\ World
    BY <1>1, WhichPass DEF Provisioning, Early, Orderly
  <1>3. /\ Names(loc[c]) /\ \A n \in Nets : net[n].state = "up" => loc[c].id = n
        /\ loc[c].id \in Nets /\ loc[c].id # None /\ net[loc[c].id].state = "up"
        /\ net[loc[c].id].vpc # None => loc[c].vpc = net[loc[c].id].vpc
    BY <1>0, <1>1, <1>2, ObjFields DEF BuildingPass, WithNetwork, Names
  <1>4. /\ UNCHANGED <<layout, vpc, ip, loc>> /\ pc'[c] = "tagnet"
        /\ net' = [net EXCEPT ![loc[c].id].created = TRUE]
    BY <1>0, <1>3, NoFault DEF TagCreated, Up, TypeOK, objects
  <1>5. /\ \A n \in Nets : /\ net'[n].given = net[n].given /\ net'[n].state = net[n].state
                           /\ net'[n].vpc = net[n].vpc
        /\ net'[loc[c].id].created
    BY <1>0, <1>3, <1>4 DEF TypeOK, Network
  <1>6. Versions(c)' /\ obj' = obj /\ seen' = seen /\ base' = base /\ ~Disposing(c)'
    BY <1>0, <1>1, <1>2, <1>4, StepKeeps DEF Orderly, Disposing
  <1>7. World'
    BY <1>0, <1>2, <1>4, <1>5, CloudFields DEF World, VpcsClean
  <1>8. Building(c)'
    <2>1. /\ \A n \in Nets : net'[n].state # "gone"
          /\ \A u \in Vpcs : vpc'[u].state # "gone"
      BY <1>2, <1>4, <1>5 DEF Building
    <2>2. Names(obj[c])' /\ HasAddress(obj[c])' /\ HasAddress(seen[c])'
      BY <1>0, <1>2, <1>4, <1>5, <1>6, ObjFields DEF Building, Names, HasAddress, Mismatch
    <2>3. Marked' /\ VpcMarked'
      BY <1>1, <1>2, <1>3, <1>4, <1>5 DEF Marked, VpcMarked, Building
    <2>4. Settled => Settled'
      BY <1>4, <1>5 DEF Settled, NoNet, NoVpc
    <2>5. /\ obj'[c].fin => Settled' /\ KnowsNet(obj[c])' /\ KnowsVpc(obj[c])'
          /\ seen'[c].fin => KnowsNet(seen[c])' /\ KnowsVpc(seen[c])'
      BY <1>2, <1>4, <1>5, <1>6, <2>4 DEF Building, KnowsNet, KnowsVpc
    <2> QED
      BY <2>1, <2>2, <2>3, <2>5 DEF Building
  <1>9. BuildingPass(c)'
    <2>1. Names(loc[c])' /\ HasAddress(loc[c])'
      BY <1>0, <1>1, <1>2, <1>4, <1>5, ObjFields DEF Names, HasAddress, Mismatch, BuildingPass
    <2> QED
      <3>1. /\ loc' = loc /\ loc[c].id # None /\ pc'[c] = "tagnet"
            /\ net'[loc[c].id].vpc # None => loc[c].vpc = net'[loc[c].id].vpc
        BY <1>3, <1>4, <1>5
      <3> QED
        BY <1>2, <1>6, <2>1, <3>1 DEF BuildingPass, Provisioning, Early, WithNetwork
  <1> QED
    BY <1>6, <1>7, <1>8, <1>9 DEF Orderly

\* Tags and firewall rules leave the rest of a network or VPC alone.
LEMMA NetShape ==
    ASSUME net \in [Nets -> Network], NEW m \in Nets, NEW c,
           \/ net' = [net EXCEPT ![m] = AddClusterTag(@, c)]
           \/ net' = [net EXCEPT ![m].open = TRUE]
           \/ net' = [net EXCEPT ![m].tags = @ \ {c}]
    PROVE  \A n \in Nets : /\ net'[n].state = net[n].state /\ net'[n].given = net[n].given
                           /\ net'[n].created = net[n].created /\ net'[n].vpc = net[n].vpc
  BY DEF Network, AddClusterTag

LEMMA VpcShape ==
    ASSUME vpc \in [Vpcs -> VPC], NEW u \in Vpcs, NEW c,
           \/ vpc' = [vpc EXCEPT ![u] = AddClusterTag(@, c)]
           \/ vpc' = [vpc EXCEPT ![u].tags = @ \ {c}]
    PROVE  \A v \in Vpcs : /\ vpc'[v].state = vpc[v].state /\ vpc'[v].given = vpc[v].given
                           /\ vpc'[v].created = vpc[v].created
  BY DEF VPC, AddClusterTag

LEMMA TagStep ==
    ASSUME TypeOK, NEW c \in Clusters, Orderly(c), faults = 0, faults' = 0,
           TagNetwork(c) \/ TagVPC(c) \/ OpenFirewallRules(c)
    PROVE  Orderly(c)'
  <1>1. /\ PassStep(c) /\ pc[c] \in {"tagnet", "retag", "tagvpc", "firewall"}
    BY TypeTagNetwork, TypeTagVPC, TypeOpenFirewall DEF TagNetwork, TagVPC, OpenFirewallRules
  <1>2. ~base[c].deleting /\ BuildingPass(c)
    BY <1>1, WhichPass DEF Provisioning, Early
  <1>3. /\ UNCHANGED <<layout, loc, ip>>
        /\ pc'[c] \in {"patchcluster", "tagvpc", "firewall", "getip", "retag", "patch"}
    BY NoFault DEF TagNetwork, TagVPC, OpenFirewallRules, Endpoint, TypeOK, objects
  <1>4. SameShape
    <2>1. \/ net' = net
          \/ /\ loc[c].id \in Nets
             /\ \/ net' = [net EXCEPT ![loc[c].id] = AddClusterTag(@, c)]
                \/ net' = [net EXCEPT ![loc[c].id].open = TRUE]
      BY NoFault DEF TagNetwork, TagVPC, OpenFirewallRules, Up
    <2>2. vpc' = vpc \/ (loc[c].vpc \in Vpcs /\ vpc' = [vpc EXCEPT ![loc[c].vpc] = AddClusterTag(@, c)])
      BY NoFault DEF TagNetwork, TagVPC, OpenFirewallRules, VpcUp
    <2>3. \A n \in Nets : /\ net'[n].state = net[n].state /\ net'[n].given = net[n].given
                          /\ net'[n].created = net[n].created /\ net'[n].vpc = net[n].vpc
      BY <2>1, NetShape DEF TypeOK
    <2>4. \A v \in Vpcs : /\ vpc'[v].state = vpc[v].state /\ vpc'[v].given = vpc[v].given
                          /\ vpc'[v].created = vpc[v].created
      BY <2>2, VpcShape DEF TypeOK
    <2> QED
      BY <1>3, <2>3, <2>4 DEF SameShape
  <1>5. HasAddress(loc[c])'
    BY <1>1, <1>2, <1>3, <1>4, ObjFields DEF BuildingPass, HasAddress, Mismatch, SameShape
  <1> QED
    BY <1>1, <1>2, <1>3, <1>4, <1>5, GoesOn DEF WithNetwork

LEMMA GetPublicIPStep ==
    ASSUME TypeOK, NEW c \in Clusters, Orderly(c), faults = 0, faults' = 0, GetPublicIP(c)
    PROVE  Orderly(c)'
  <1>1. /\ PassStep(c) /\ pc[c] = "getip"
    BY TypeGetPublicIP DEF GetPublicIP
  <1>2. ~base[c].deleting /\ BuildingPass(c) /\ World
    BY <1>1, WhichPass DEF Provisioning, Early, Orderly
  <1>3. /\ loc[c].id \in Nets /\ net[loc[c].id].state = "up"
        /\ net[loc[c].id].vpc # None => loc[c].vpc = net[loc[c].id].vpc
    BY <1>1, <1>2, WithNetworkKnows DEF BuildingPass, WithNetwork
  <1>4. UNCHANGED <<layout, net, vpc, ip>> /\ SameShape
    BY NoFault DEF GetPublicIP, SameShape, objects
  <1>5. \/ loc' = loc /\ pc' = [pc EXCEPT ![c] = "patch"]
        \/ \E p \in IPs : /\ loc' = [loc EXCEPT ![c].ip = p]
                          /\ pc' = [pc EXCEPT ![c] = IF Associated(p, loc[c]) THEN "lb" ELSE "assoc"]
    <2>1. hloc[c] \in IPs \cup {None}
      BY DEF TypeOK
    <2> QED
      BY <2>1, NoFault DEF GetPublicIP, Free
  <1>6. CASE loc' = loc /\ pc' = [pc EXCEPT ![c] = "patch"]
    <2>1. HasAddress(loc[c])' /\ pc'[c] = "patch"
      BY <1>1, <1>2, <1>4, <1>6 DEF BuildingPass, HasAddress, Mismatch, TypeOK
    <2> QED
      BY <1>1, <1>2, <1>4, <1>6, <2>1, GoesOn DEF WithNetwork
  <1>7. ASSUME NEW p \in IPs, loc' = [loc EXCEPT ![c].ip = p],
               pc' = [pc EXCEPT ![c] = IF Associated(p, loc[c]) THEN "lb" ELSE "assoc"]
        PROVE  Orderly(c)'
    <2>1. /\ loc'[c].ip = p /\ loc'[c].id = loc[c].id /\ loc'[c].vpc = loc[c].vpc
          /\ loc'[c].fin = loc[c].fin
          /\ pc'[c] = IF Associated(p, loc[c]) THEN "lb" ELSE "assoc"
      BY <1>7, ObjFields DEF TypeOK, Obj
    <2>2. ASSUME Associated(p, loc[c]), ip[p].net = None PROVE Mismatch
      <3>1. layout = "vpc" /\ loc[c].vpc = None
        BY <1>3, <2>2, NetAssumption DEF Associated, NamesVPC
      <3>2. net[loc[c].id].vpc = None
        BY <1>3, <3>1
      <3>3. net[loc[c].id].given
        BY <1>2, <1>3, <3>1, <3>2 DEF World
      <3> QED
        BY <1>3, <3>1, <3>2, <3>3 DEF Mismatch
    <2>3. pc'[c] # "assoc" => HasAddress(loc[c])'
      BY <1>4, <2>1, <2>2 DEF HasAddress, Mismatch
    <2> QED
      BY <1>1, <1>2, <1>4, <2>1, <2>3, GoesOn DEF WithNetwork
  <1> QED
    BY <1>5, <1>6, <1>7

LEMMA AssociateStep ==
    ASSUME TypeOK, NEW c \in Clusters, Orderly(c), faults = 0, faults' = 0,
           AssociatePublicIPAddress(c)
    PROVE  Orderly(c)'
  <1>1. /\ PassStep(c) /\ pc[c] = "assoc" /\ UNCHANGED <<layout, net, vpc, loc>>
    BY TypeAssociate DEF AssociatePublicIPAddress, objects
  <1>2. ~base[c].deleting /\ BuildingPass(c) /\ World
    BY <1>1, WhichPass DEF Provisioning, Early, Orderly
  <1>3. loc[c].id \in Nets /\ net[loc[c].id].state = "up" /\ loc[c].ip \in IPs
    BY <1>1, <1>2, WithNetworkKnows, ObjFields DEF WithNetwork, TypeOK, NeedIP
  <1>4. PICK w \in Nets \cup Vpcs : /\ w = IF loc[c].vpc # None THEN loc[c].vpc ELSE loc[c].id
                                    /\ w \in Up \cup VpcUp
    BY <1>2, <1>3, ObjFields DEF BuildingPass, Names, Up, VpcUp
  <1>5. \/ /\ ip[loc[c].ip].net = None /\ ip' = [ip EXCEPT ![loc[c].ip].net = w]
           /\ pc' = [pc EXCEPT ![c] = "tagip"]
        \/ ip[loc[c].ip].net # None /\ ip' = ip /\ pc' = [pc EXCEPT ![c] = "patch"]
    BY <1>3, <1>4, NoFault DEF AssociatePublicIPAddress, Free
  <1>6. /\ ip'[loc[c].ip].net # None /\ pc'[c] \in {"tagip", "patch"}
        /\ \A p \in IPs : ip'[p].net = ip[p].net \/ (ip[p].net = None /\ ip'[p].net = w)
    BY <1>3, <1>5, NetAssumption DEF TypeOK, Address
  <1>7. SameShape
    BY <1>1, <1>4, <1>6 DEF SameShape, Up, VpcUp
  <1>8. HasAddress(loc[c])'
    BY <1>1, <1>6 DEF HasAddress
  <1> QED
    BY <1>1, <1>2, <1>6, <1>7, <1>8, GoesOn DEF WithNetwork

\* Tags and rules leave the owner of an address alone.
LEMMA IpShape ==
    ASSUME ip \in [IPs -> Address], NEW q \in IPs, NEW c, NEW r,
           \/ ip' = [ip EXCEPT ![q] = AddClusterTag(@, c)]
           \/ ip' = [ip EXCEPT ![q] = DeleteClusterTag(@, c)]
           \/ ip' = [ip EXCEPT ![q].created = r]
           \/ ip' = [ip EXCEPT ![q].rule = r]
    PROVE  \A p \in IPs : ip'[p].net = ip[p].net
  BY DEF Address, AddClusterTag, DeleteClusterTag

LEMMA AddressStep ==
    ASSUME TypeOK, NEW c \in Clusters, Orderly(c), faults = 0, faults' = 0,
           TagIP(c) \/ TagIPCreated(c) \/ GetOrCreateLoadBalancerRule(c)
    PROVE  Orderly(c)'
  <1>1. PassStep(c) /\ pc[c] \in {"tagip", "tagipcreated", "lb"}
    BY TypeTagIP, TypeTagIPCreated, TypeLoadBalancer
       DEF TagIP, TagIPCreated, GetOrCreateLoadBalancerRule
  <1>2. ~base[c].deleting /\ BuildingPass(c)
    BY <1>1, WhichPass DEF Provisioning, Early
  <1>3. loc[c].ip \in IPs
    BY <1>1, ObjFields DEF TypeOK, NeedIP
  <1>4. /\ UNCHANGED <<layout, loc, net, vpc>>
        /\ pc'[c] \in {"tagipcreated", "lb", "retag", "firewall", "patch"}
    BY NoFault DEF TagIP, TagIPCreated, GetOrCreateLoadBalancerRule, AfterRule, TypeOK, objects
  <1>5. \E r : \/ ip' = [ip EXCEPT ![loc[c].ip] = AddClusterTag(@, c)]
               \/ ip' = [ip EXCEPT ![loc[c].ip].created = r]
               \/ ip' = [ip EXCEPT ![loc[c].ip].rule = r]
    BY NoFault DEF TagIP, TagIPCreated, GetOrCreateLoadBalancerRule
  <1>6. \A p \in IPs : ip'[p].net = ip[p].net
    BY <1>3, <1>5, IpShape DEF TypeOK
  <1>7. SameShape
    BY <1>4, <1>6 DEF SameShape
  <1>8. HasAddress(loc[c])'
    BY <1>1, <1>2, <1>3, <1>4, <1>6 DEF BuildingPass, HasAddress, Mismatch
  <1> QED
    BY <1>1, <1>2, <1>4, <1>7, <1>8, GoesOn DEF WithNetwork

LEMMA PatchClusterStep ==
    ASSUME TypeOK, NEW c \in Clusters, Orderly(c), faults = 0, faults' = 0, PatchCluster(c)
    PROVE  Orderly(c)'
  <1>1. PassStep(c) /\ pc[c] = "patchcluster"
    BY TypePatchCluster DEF PatchCluster
  <1>2. ~base[c].deleting /\ BuildingPass(c)
    BY <1>1, WhichPass DEF Provisioning, Early
  <1>3. UNCHANGED <<layout, net, vpc, ip>> /\ pc'[c] = "patch"
    BY NoFault DEF PatchCluster, TypeOK
  <1>4. loc' = loc \/ loc' = [loc EXCEPT ![c].ready = TRUE]
    BY NoFault DEF PatchCluster
  <1>5. /\ loc'[c].ip = loc[c].ip /\ loc'[c].id = loc[c].id /\ loc'[c].vpc = loc[c].vpc
        /\ loc'[c].fin = loc[c].fin
    BY <1>4 DEF TypeOK, Obj
  <1>6. SameShape
    BY <1>3 DEF SameShape
  <1>7. HasAddress(loc[c])'
    BY <1>1, <1>2, <1>3, <1>5 DEF BuildingPass, HasAddress, Mismatch
  <1> QED
    BY <1>1, <1>2, <1>3, <1>5, <1>6, <1>7, GoesOn DEF WithNetwork

(***************************************************************************)
(* The steps of a pass that disposes.                                      *)
(***************************************************************************)

\* A step of a pass that disposes keeps the invariant if it keeps World and what
\* such a pass knows.
LEMMA DisposingKept ==
    ASSUME TypeOK, NEW c \in Clusters, Orderly(c), PassStep(c), pc[c] # "idle",
           base[c].deleting, World', DisposingPass(c)'
    PROVE  Orderly(c)'
  <1>1. pc'[c] # "idle"
    BY DEF DisposingPass
  <1>2. /\ Versions(c)' /\ base' = base /\ Disposing(c) /\ Disposing(c)'
    BY <1>1, StepKeeps DEF Orderly, Disposing
  <1> QED
    BY <1>2 DEF Orderly, Disposing

\* ... and a pass that ends there has disposed of everything.
LEMMA ReleasedKept ==
    ASSUME TypeOK, NEW c \in Clusters, Orderly(c), PassStep(c), pc[c] # "idle",
           base[c].deleting, World', Released(c), NetsClean', VpcsClean'
    PROVE  Orderly(c)'
  <1>1. pc'[c] = "patch" /\ ~loc'[c].fin
    BY DEF Released, TypeOK, Obj
  <1>2. DisposingPass(c)'
    BY <1>1 DEF DisposingPass
  <1> QED
    BY <1>2, DisposingKept

\* Where no address is ever allocated, CAPC has created nothing.
LEMMA MismatchClean ==
    ASSUME GivenInv, World, Mismatch
    PROVE  NetsClean /\ VpcsClean
  <1>1. PICK n \in Nets : net[n].given /\ net[n].vpc = None
    BY DEF Mismatch
  <1>2. net[n].state = "up"
    BY <1>1 DEF GivenInv
  <1>3. NetsClean
    BY <1>1, <1>2 DEF NetsClean, World
  <1>4. VpcsClean
    BY <1>1, <1>2, NetAssumption DEF VpcsClean, World
  <1> QED
    BY <1>3, <1>4

LEMMA UntagIPStep ==
    ASSUME TypeOK, NEW c \in Clusters, Orderly(c), faults = 0, faults' = 0,
           UntagIP(c) \/ UntagIPCreated(c)
    PROVE  Orderly(c)'
  <1>1. PassStep(c) /\ pc[c] \in {"untagip", "untagipcreated"}
    BY TypeUntagIP, TypeUntagIPCreated DEF UntagIP, UntagIPCreated
  <1>2. base[c].deleting /\ DisposingPass(c) /\ World /\ loc[c].ip \in IPs
    BY <1>1, WhichPass, ObjFields DEF Provisioning, Early, Orderly, TypeOK, NeedIP
  <1>3. /\ UNCHANGED <<layout, loc, net, vpc>>
        /\ pc[c] = "untagip" => pc'[c] = "checkip"
        /\ pc[c] = "untagipcreated" => pc'[c] = "disassoc"
    BY NoFault DEF UntagIP, UntagIPCreated, TypeOK, objects
  <1>4. \E r : \/ ip' = [ip EXCEPT ![loc[c].ip] = DeleteClusterTag(@, c)]
               \/ ip' = [ip EXCEPT ![loc[c].ip].created = r]
    BY NoFault DEF UntagIP, UntagIPCreated
  <1>5. \A p \in IPs : ip'[p].net = ip[p].net
    BY <1>2, <1>4, IpShape DEF TypeOK
  <1>6. World'
    BY <1>2, <1>3, <1>5, ShapeWorld DEF SameShape
  <1>7. /\ KnowsNet(loc[c])' /\ KnowsVpc(loc[c])' /\ Marked' /\ VpcMarked'
        /\ HasAddress(loc[c]) => HasAddress(loc[c])'
    BY <1>1, <1>2, <1>3, <1>5
       DEF DisposingPass, KnowsNet, KnowsVpc, Marked, VpcMarked, HasAddress, Mismatch
  <1>8. DisposingPass(c)'
    BY <1>1, <1>2, <1>3, <1>5, <1>7 DEF DisposingPass
  <1> QED
    BY <1>1, <1>2, <1>6, <1>8, DisposingKept

LEMMA CheckIPStep ==
    ASSUME GivenInv, NEW c \in Clusters, Orderly(c), faults = 0, faults' = 0, CheckIP(c)
    PROVE  Orderly(c)'
  <1>0. TypeOK
    BY DEF GivenInv
  <1>1. /\ PassStep(c) /\ pc[c] = "checkip"
    BY <1>0, TypeCheckIP DEF CheckIP
  <1>2. base[c].deleting /\ DisposingPass(c) /\ World /\ loc[c].ip \in IPs /\ loc[c].ip # None
    BY <1>0, <1>1, WhichPass, ObjFields DEF Provisioning, Early, Orderly, TypeOK, NeedIP
  <1>3. UNCHANGED <<layout, net, vpc, ip>>
    BY NoFault DEF CheckIP, objects
  <1>4. World'
    BY <1>0, <1>2, <1>3, ShapeWorld DEF SameShape
  <1>5. \/ Released(c) /\ ip[loc[c].ip].net = None
        \/ /\ ip[loc[c].ip].net # None /\ loc' = loc /\ pc'[c] \in {"untagipcreated", "untagnet"}
    BY <1>0, <1>2, NoFault DEF CheckIP, Free, TypeOK
  <1>6. CASE Released(c) /\ ip[loc[c].ip].net = None
    <2>1. Mismatch
      BY <1>1, <1>2, <1>6 DEF DisposingPass, HasAddress
    <2>2. NetsClean' /\ VpcsClean'
      BY <1>2, <1>3, <2>1, MismatchClean DEF NetsClean, VpcsClean
    <2> QED
      BY <1>0, <1>1, <1>2, <1>4, <1>6, <2>2, ReleasedKept
  <1>7. CASE ip[loc[c].ip].net # None /\ loc' = loc /\ pc'[c] \in {"untagipcreated", "untagnet"}
    <2>1. KnowsNet(loc[c])' /\ KnowsVpc(loc[c])' /\ Marked' /\ VpcMarked'
      BY <1>1, <1>2, <1>3, <1>7 DEF DisposingPass, KnowsNet, KnowsVpc, Marked, VpcMarked
    <2>2. DisposingPass(c)'
      BY <1>3, <1>7, <2>1 DEF DisposingPass
    <2> QED
      BY <1>0, <1>1, <1>2, <1>4, <2>2, DisposingKept
  <1> QED
    BY <1>5, <1>6, <1>7

LEMMA DisassociateStep ==
    ASSUME TypeOK, NEW c \in Clusters, Orderly(c), faults = 0, faults' = 0,
           DisassociatePublicIPAddress(c)
    PROVE  Orderly(c)'
  <1>1. PassStep(c) /\ pc[c] = "disassoc"
    BY TypeDisassociate DEF DisassociatePublicIPAddress
  <1>2. base[c].deleting /\ DisposingPass(c) /\ World /\ loc[c].ip \in IPs
    BY <1>1, WhichPass, ObjFields DEF Provisioning, Early, Orderly, TypeOK, NeedIP
  <1>3. /\ UNCHANGED <<layout, loc, net, vpc>> /\ pc'[c] = "untagnet"
        /\ ip' = [ip EXCEPT ![loc[c].ip].net = None, ![loc[c].ip].rule = None]
    <2>1. loc[c].ip \notin Free
      BY <1>1, <1>2 DEF DisposingPass, Free
    <2> QED
      BY <2>1, NoFault DEF DisassociatePublicIPAddress, TypeOK, objects
  <1>4. \A p \in IPs : ip'[p].net \in {None, ip[p].net}
    BY <1>2, <1>3 DEF TypeOK, Address
  <1>5. World'
    BY <1>2, <1>3, <1>4 DEF World, VpcsClean
  <1>6. KnowsNet(loc[c])' /\ KnowsVpc(loc[c])' /\ Marked' /\ VpcMarked'
    BY <1>1, <1>2, <1>3 DEF DisposingPass, KnowsNet, KnowsVpc, Marked, VpcMarked
  <1>7. DisposingPass(c)'
    BY <1>3, <1>6 DEF DisposingPass
  <1> QED
    BY <1>1, <1>2, <1>5, <1>7, DisposingKept

LEMMA UntagNetworkStep ==
    ASSUME TypeOK, NEW c, Clusters = {c}, Orderly(c), faults = 0, faults' = 0, UntagNetwork(c)
    PROVE  Orderly(c)'
  <1>1. PassStep(c) /\ pc[c] = "untagnet" /\ c \in Clusters
    BY TypeUntagNetwork DEF UntagNetwork
  <1>2. base[c].deleting /\ DisposingPass(c) /\ World
    BY <1>1, WhichPass DEF Provisioning, Early, Orderly
  <1>3. /\ UNCHANGED <<layout, loc, vpc, ip>> /\ pc'[c] = "checknet"
        /\ net' = IF loc[c].id \in Up THEN [net EXCEPT ![loc[c].id].tags = @ \ {c}] ELSE net
    BY <1>1, NoFault DEF UntagNetwork, TypeOK, objects
  <1>4. \A n \in Nets : /\ net'[n].state = net[n].state /\ net'[n].given = net[n].given
                        /\ net'[n].created = net[n].created /\ net'[n].vpc = net[n].vpc
    BY <1>3, NetShape DEF TypeOK, Up
  <1>5. loc[c].id # None /\ net'[loc[c].id].state = "up" => net'[loc[c].id].tags = {}
    <2>1. CASE loc[c].id \in Up
      <3>1. loc[c].id \in Nets
        BY <2>1 DEF Up
      <3>2. net'[loc[c].id].tags = net[loc[c].id].tags \ {c}
        BY <1>3, <2>1, <3>1 DEF TypeOK, Network
      <3> QED
        BY <3>1, <3>2, CloudFields
    <2>2. CASE loc[c].id \notin Up
      BY <1>1, <1>3, <2>2, ObjFields DEF Up
    <2> QED
      BY <2>1, <2>2
  <1>6. World'
    BY <1>2, <1>3, <1>4, ShapeWorld DEF SameShape
  <1>7. KnowsNet(loc[c])' /\ KnowsVpc(loc[c])' /\ Marked' /\ VpcMarked'
    BY <1>1, <1>2, <1>3, <1>4 DEF DisposingPass, KnowsNet, KnowsVpc, Marked, VpcMarked
  <1>8. DisposingPass(c)'
    BY <1>3, <1>5, <1>7 DEF DisposingPass
  <1> QED
    BY <1>1, <1>2, <1>6, <1>8, DisposingKept

\* After the network comes the VPC, or the end.
LEMMA NetworkDoneKept ==
    ASSUME TypeOK, NEW c \in Clusters, Orderly(c), PassStep(c), pc[c] # "idle",
           base[c].deleting, World', NetworkDone(c), NetsClean', KnowsVpc(loc[c]), VpcMarked,
           vpc' = vpc
    PROVE  Orderly(c)'
  <1>1. CASE loc[c].vpc # None
    <2>1. pc'[c] = "untagvpc" /\ loc' = loc
      BY <1>1 DEF NetworkDone, TypeOK
    <2>2. KnowsVpc(loc[c])' /\ VpcMarked'
      BY <2>1 DEF KnowsVpc, VpcMarked
    <2>3. DisposingPass(c)'
      BY <2>1, <2>2 DEF DisposingPass
    <2> QED
      BY <2>3, DisposingKept
  <1>2. CASE loc[c].vpc = None
    <2>1. VpcsClean'
      BY <1>2, NetAssumption DEF KnowsVpc, VpcsClean
    <2> QED
      BY <1>2, <2>1, ReleasedKept DEF NetworkDone
  <1> QED
    BY <1>1, <1>2

LEMMA CheckNetworkStep ==
    ASSUME TypeOK, NEW c \in Clusters, Orderly(c), faults = 0, faults' = 0, CheckNetwork(c)
    PROVE  Orderly(c)'
  <1>1. PassStep(c) /\ pc[c] = "checknet"
    BY TypeCheckNetwork DEF CheckNetwork
  <1>2. base[c].deleting /\ DisposingPass(c) /\ World
    BY <1>1, WhichPass DEF Provisioning, Early, Orderly
  <1>3. UNCHANGED <<layout, net, vpc, ip>>
    BY NoFault DEF CheckNetwork, objects
  <1>4. World' /\ KnowsNet(loc[c]) /\ KnowsVpc(loc[c]) /\ Marked /\ VpcMarked
    BY <1>1, <1>2, <1>3, ShapeWorld DEF SameShape, DisposingPass
  <1> DEFINE goes == loc[c].id \in Up /\ TagsAllowDisposal(net[loc[c].id])
  <1>5. CASE goes
    <2>1. pc'[c] = "delnet" /\ loc' = loc /\ net[loc[c].id].state = "up"
      BY <1>5, NoFault DEF CheckNetwork, TypeOK, Up
    <2>2. KnowsNet(loc[c])' /\ KnowsVpc(loc[c])' /\ Marked' /\ VpcMarked'
      BY <1>3, <1>4, <2>1 DEF KnowsNet, KnowsVpc, Marked, VpcMarked
    <2>3. DisposingPass(c)'
      BY <1>3, <2>1, <2>2 DEF DisposingPass
    <2> QED
      BY <1>1, <1>2, <1>4, <2>3, DisposingKept
  <1>6. CASE ~goes
    <2>1. NetworkDone(c)
      BY <1>6, NoFault DEF CheckNetwork
    <2>2. ASSUME NEW n \in Nets, net[n].state = "up", ~net[n].given PROVE FALSE
      <3>1. loc[c].id = n /\ net[n].created /\ n # None
        BY <1>4, <2>2, NetAssumption DEF KnowsNet, Marked
      <3>2. net[n].tags = {}
        BY <1>1, <1>2, <2>2, <3>1 DEF DisposingPass
      <3> QED
        BY <1>6, <2>2, <3>1, <3>2 DEF Up, TagsAllowDisposal
    <2>3. NetsClean'
      BY <1>3, <2>2 DEF NetsClean
    <2> QED
      BY <1>1, <1>2, <1>3, <1>4, <2>1, <2>3, NetworkDoneKept
  <1> QED
    BY <1>5, <1>6

\* What is left of the addresses when x is gone.
LEMMA WithoutNet ==
    ASSUME TypeOK, NEW x, ip' = Without(x)
    PROVE  \A p \in IPs : ip'[p].net = IF ip[p].net = x THEN None ELSE ip[p].net
  BY DEF Without, TypeOK, Address

LEMMA DeleteNetworkStep ==
    ASSUME TypeOK, NEW c \in Clusters, Orderly(c), faults = 0, faults' = 0, DeleteNetwork(c)
    PROVE  Orderly(c)'
  <1>1. PassStep(c) /\ pc[c] = "delnet" /\ UNCHANGED <<layout, vpc>>
    BY TypeDeleteNetwork DEF DeleteNetwork, objects
  <1>2. /\ base[c].deleting /\ DisposingPass(c) /\ World /\ loc[c].id \in Nets
        /\ net[loc[c].id].state = "up" /\ KnowsVpc(loc[c]) /\ VpcMarked
    BY <1>1, WhichPass, ObjFields
       DEF Provisioning, Early, Orderly, TypeOK, NeedId, DisposingPass
  <1>3. /\ net' = [net EXCEPT ![loc[c].id].state = "gone", ![loc[c].id].tags = {}]
        /\ ip' = Without(loc[c].id) /\ NetworkDone(c)
    BY <1>2, NoFault DEF DeleteNetwork, Up
  <1>4. /\ net'[loc[c].id].state = "gone"
        /\ \A n \in Nets : /\ net'[n].given = net[n].given /\ net'[n].vpc = net[n].vpc
                           /\ n # loc[c].id => net'[n].state = net[n].state
    BY <1>2, <1>3 DEF TypeOK, Network
  <1>5. \A n \in Nets : net'[n].state # "up"
    BY <1>2, <1>4 DEF World
  <1>6. NetsClean'
    BY <1>5 DEF NetsClean
  <1>7. World'
    <2>1. \A p \in IPs : ip'[p].net = IF ip[p].net = loc[c].id THEN None ELSE ip[p].net
      BY <1>3, WithoutNet
    <2>2. ASSUME NEW p \in IPs, ip'[p].net # None
          PROVE  ip'[p].net \in Vpcs /\ vpc[ip'[p].net].state = "up"
      BY <1>2, <2>1, <2>2 DEF World
    <2> QED
      BY <1>1, <1>2, <1>5, <2>2 DEF World, VpcsClean
  <1> QED
    BY <1>1, <1>2, <1>3, <1>6, <1>7, NetworkDoneKept

LEMMA UntagVPCStep ==
    ASSUME TypeOK, NEW c, Clusters = {c}, Orderly(c), faults = 0, faults' = 0, UntagVPC(c)
    PROVE  Orderly(c)'
  <1>1. PassStep(c) /\ pc[c] = "untagvpc" /\ c \in Clusters
    BY TypeUntagVPC DEF UntagVPC
  <1>2. base[c].deleting /\ DisposingPass(c) /\ World /\ loc[c].vpc \in Vpcs
    BY <1>1, WhichPass, ObjFields DEF Provisioning, Early, Orderly, TypeOK, NeedVpc
  <1>3. /\ UNCHANGED <<layout, loc, net, ip>> /\ pc'[c] = "checkvpc"
        /\ vpc' = IF loc[c].vpc \in VpcUp THEN [vpc EXCEPT ![loc[c].vpc].tags = @ \ {c}] ELSE vpc
    BY <1>1, NoFault DEF UntagVPC, TypeOK, objects
  <1>4. \A v \in Vpcs : /\ vpc'[v].state = vpc[v].state /\ vpc'[v].given = vpc[v].given
                        /\ vpc'[v].created = vpc[v].created
    BY <1>3, VpcShape DEF TypeOK, VpcUp
  <1>5. vpc'[loc[c].vpc].state = "up" => vpc'[loc[c].vpc].tags = {}
    <2>1. CASE loc[c].vpc \in VpcUp
      <3>1. vpc'[loc[c].vpc].tags = vpc[loc[c].vpc].tags \ {c}
        BY <1>2, <1>3, <2>1 DEF TypeOK, VPC
      <3> QED
        BY <1>2, <3>1, CloudFields
    <2>2. CASE loc[c].vpc \notin VpcUp
      BY <1>2, <1>3, <2>2 DEF VpcUp
    <2> QED
      BY <2>1, <2>2
  <1>6. World'
    BY <1>2, <1>3, <1>4, ShapeWorld DEF SameShape
  <1>7. NetsClean' /\ KnowsVpc(loc[c])' /\ VpcMarked'
    BY <1>1, <1>2, <1>3, <1>4 DEF DisposingPass, NetsClean, KnowsVpc, VpcMarked
  <1>8. DisposingPass(c)'
    BY <1>3, <1>5, <1>7 DEF DisposingPass
  <1> QED
    BY <1>1, <1>2, <1>6, <1>8, DisposingKept

LEMMA CheckVPCStep ==
    ASSUME GivenInv, NEW c \in Clusters, Orderly(c), faults = 0, faults' = 0, CheckVPC(c)
    PROVE  Orderly(c)'
  <1>0. TypeOK
    BY DEF GivenInv
  <1>1. PassStep(c) /\ pc[c] = "checkvpc"
    BY <1>0, TypeCheckVPC DEF CheckVPC
  <1>2. base[c].deleting /\ DisposingPass(c) /\ World
    BY <1>1, WhichPass DEF Provisioning, Early, Orderly
  <1>3. UNCHANGED <<layout, net, vpc, ip>>
    BY NoFault DEF CheckVPC, objects
  <1>4. World' /\ NetsClean' /\ NetsClean /\ KnowsVpc(loc[c]) /\ VpcMarked
    BY <1>0, <1>1, <1>2, <1>3, ShapeWorld DEF SameShape, DisposingPass, NetsClean
  <1> DEFINE goes == loc[c].vpc \in VpcUp /\ TagsAllowDisposal(vpc[loc[c].vpc])
  <1>5. CASE goes
    <2>1. pc'[c] = "delvpc" /\ loc' = loc /\ vpc[loc[c].vpc].state = "up"
      BY <1>0, <1>5, NoFault DEF CheckVPC, TypeOK, VpcUp
    <2>2. ~vpc[loc[c].vpc].given
      BY <1>5 DEF TagsAllowDisposal, VpcUp, GivenInv
    <2>3. KnowsVpc(loc[c])' /\ VpcMarked'
      BY <1>3, <1>4, <2>1 DEF KnowsVpc, VpcMarked
    <2>4. DisposingPass(c)'
      BY <1>3, <1>4, <2>1, <2>2, <2>3 DEF DisposingPass
    <2> QED
      BY <1>0, <1>1, <1>2, <1>4, <2>4, DisposingKept
  <1>6. CASE ~goes
    <2>1. Released(c)
      BY <1>6, NoFault DEF CheckVPC
    <2>2. ASSUME NEW v \in Vpcs, vpc[v].state = "up", ~vpc[v].given PROVE FALSE
      <3>1. loc[c].vpc = v /\ vpc[v].created
        BY <1>4, <2>2 DEF KnowsVpc, VpcMarked
      <3>2. vpc[v].tags = {}
        BY <1>1, <1>2, <2>2, <3>1 DEF DisposingPass
      <3> QED
        BY <1>6, <2>2, <3>1, <3>2 DEF VpcUp, TagsAllowDisposal
    <2>3. VpcsClean'
      BY <1>3, <2>2 DEF VpcsClean
    <2> QED
      BY <1>0, <1>1, <1>2, <1>4, <2>1, <2>3, ReleasedKept
  <1> QED
    BY <1>5, <1>6

LEMMA DeleteVPCStep ==
    ASSUME TypeOK, NEW c \in Clusters, Orderly(c), faults = 0, faults' = 0, DeleteVPC(c)
    PROVE  Orderly(c)'
  <1>1. PassStep(c) /\ pc[c] = "delvpc" /\ UNCHANGED <<layout, net>>
    BY TypeDeleteVPC DEF DeleteVPC, objects
  <1>2. /\ base[c].deleting /\ DisposingPass(c) /\ World /\ loc[c].vpc \in Vpcs
        /\ vpc[loc[c].vpc].state = "up" /\ ~vpc[loc[c].vpc].given /\ NetsClean
    BY <1>1, WhichPass, ObjFields
       DEF Provisioning, Early, Orderly, TypeOK, NeedVpc, DisposingPass
  <1>3. \A n \in Nets : net[n].state = "up" => net[n].vpc # loc[c].vpc
    BY <1>2, NetAssumption DEF World, NetsClean
  <1>4. /\ vpc' = [vpc EXCEPT ![loc[c].vpc].state = "gone", ![loc[c].vpc].tags = {}]
        /\ ip' = Without(loc[c].vpc) /\ Released(c)
    BY <1>2, <1>3, NoFault DEF DeleteVPC, Up, VpcUp
  <1>5. /\ vpc'[loc[c].vpc].state = "gone"
        /\ \A v \in Vpcs : /\ vpc'[v].given = vpc[v].given
                           /\ v # loc[c].vpc => vpc'[v].state = vpc[v].state
    BY <1>2, <1>4 DEF TypeOK, VPC
  <1>6. \A v \in Vpcs : vpc'[v].state # "up"
    BY <1>2, <1>5 DEF World
  <1>7. \A n \in Nets : net[n].state = "up" => net[n].vpc = None
    BY <1>2, <1>3, CloudFields DEF World
  <1>8. NetsClean' /\ VpcsClean'
    BY <1>1, <1>2, <1>6 DEF NetsClean, VpcsClean
  <1>9. World'
    <2>1. \A p \in IPs : ip'[p].net = IF ip[p].net = loc[c].vpc THEN None ELSE ip[p].net
      BY <1>4, WithoutNet
    <2>2. ASSUME NEW p \in IPs, ip'[p].net # None
          PROVE  ip'[p].net \in Nets /\ net[ip'[p].net].state = "up"
      BY <1>2, <2>1, <2>2 DEF World
    <2> QED
      BY <1>1, <1>2, <1>6, <1>7, <2>2 DEF World, VpcsClean
  <1> QED
    BY <1>1, <1>2, <1>4, <1>8, <1>9, ReleasedKept

(***************************************************************************)
(* A pass begins and ends; the others.                                     *)
(***************************************************************************)
LEMMA StartStep ==
    ASSUME TypeOK, NEW c \in Clusters, Orderly(c), faults = 0, faults' = 0, Start(c)
    PROVE  Orderly(c)'
  <1> DEFINE o == seen[c]
             g == [o EXCEPT !.fin = @ \/ ~o.deleting]
  <1>1. UNCHANGED <<layout, obj, seen, net, vpc, ip>> /\ pc[c] = "idle"
    BY DEF Start, objects
  <1>2. World /\ Versions(c) /\ Building(c)
    BY <1>1 DEF Orderly, Disposing
  <1>3. /\ base' = [base EXCEPT ![c] = o] /\ loc' = [loc EXCEPT ![c] = g]
        /\ pc' = [pc EXCEPT ![c] = IF o.deleting THEN DisposeFrom(o) ELSE "resolve"]
    BY NoFault DEF Start
  <1>4. /\ o \in Obj /\ g.id = o.id /\ g.vpc = o.vpc /\ g.ip = o.ip
        /\ g.fin = (o.fin \/ ~o.deleting)
    BY GuardedType DEF TypeOK, Obj
  <1> HIDE DEF g
  <1>5. /\ base'[c] = o /\ loc'[c] = g
        /\ pc'[c] = IF o.deleting THEN DisposeFrom(o) ELSE "resolve"
    BY <1>3 DEF TypeOK
  <1>6. World'
    BY <1>1, <1>2, ShapeWorld DEF SameShape
  <1>7. pc'[c] \in {"untagip", "untagnet", "resolve"}
    BY <1>5 DEF DisposeFrom
  <1>8. Versions(c)'
    BY <1>1, <1>2, <1>5, <1>7 DEF Versions, Earlier
  <1>9. HasAddress(loc[c])'
    BY <1>1, <1>2, <1>4, <1>5 DEF Building, HasAddress, Mismatch
  <1>10. CASE o.deleting
    <2>1. o.fin
      BY <1>2, <1>10 DEF Versions, Earlier
    <2>2. KnowsNet(loc[c])' /\ KnowsVpc(loc[c])' /\ Marked' /\ VpcMarked'
      BY <1>1, <1>2, <1>4, <1>5, <2>1 DEF Building, KnowsNet, KnowsVpc, Marked, VpcMarked
    <2>3. pc'[c] \in {"untagip", "untagnet"}
      BY <1>5, <1>10 DEF DisposeFrom
    <2>4. DisposingPass(c)'
      BY <1>9, <2>2, <2>3 DEF DisposingPass
    <2>5. Disposing(c)'
      BY <1>5, <1>10, <2>3 DEF Disposing
    <2> QED
      BY <1>5, <1>6, <1>8, <1>10, <2>4, <2>5 DEF Orderly
  <1>11. CASE ~o.deleting
    <2>1. pc'[c] = "resolve" /\ loc'[c].fin /\ ~Disposing(c)'
      BY <1>4, <1>5, <1>11 DEF Disposing
    <2>2. Names(loc[c])'
      BY <1>1, <1>2, <1>4, <1>5, ObjFields DEF Names, Building, Versions, Earlier
    <2>3. base'[c].id = loc'[c].id /\ base'[c].vpc = loc'[c].vpc
      BY <1>4, <1>5
    <2>4. BuildingPass(c)'
      BY <1>9, <2>1, <2>2, <2>3 DEF BuildingPass, Provisioning, Early, WithNetwork
    <2>5. Building(c)'
      BY <1>1, <1>2, <2>1, ShapeBuilding DEF SameShape
    <2> QED
      BY <1>6, <1>8, <2>1, <2>4, <2>5 DEF Orderly
  <1> QED
    BY <1>10, <1>11

\* The object with new values of the fields that the spec patch writes.
Updated(o, f, i, v) == [o EXCEPT !.fin = f, !.id = i, !.vpc = v]

LEMMA UpdatedFields ==
    ASSUME NEW o \in Obj, NEW f \in BOOLEAN, NEW i \in Nets \cup {None},
           NEW v \in Vpcs \cup {None}
    PROVE  /\ Updated(o, f, i, v) \in Obj /\ Updated(o, f, i, v).fin = f
           /\ Updated(o, f, i, v).exists = o.exists
           /\ Updated(o, f, i, v).deleting = o.deleting
           /\ Updated(o, f, i, v).ip = o.ip
           /\ Updated(o, f, i, v).id = i /\ Updated(o, f, i, v).vpc = v
  <1>1. Updated(o, f, i, v) \in Obj
    BY DEF Updated, Obj
  <1>2. Updated(o, f, i, v).fin = f
    BY DEF Updated, Obj
  <1>3. /\ Updated(o, f, i, v).exists = o.exists
        /\ Updated(o, f, i, v).deleting = o.deleting
    BY DEF Updated, Obj
  <1>4. /\ Updated(o, f, i, v).ip = o.ip
        /\ Updated(o, f, i, v).id = i /\ Updated(o, f, i, v).vpc = v
    BY DEF Updated, Obj
  <1> QED
    BY <1>1, <1>2, <1>3, <1>4

LEMMA CollectedFields ==
    ASSUME NEW o \in Obj
    PROVE  /\ Collected(o) \in Obj
           /\ (Collected(o).exists <=> (o.exists /\ ~(o.deleting /\ ~o.fin)))
           /\ Collected(o).fin = o.fin /\ Collected(o).deleting = o.deleting
           /\ Collected(o).ip = o.ip /\ Collected(o).id = o.id /\ Collected(o).vpc = o.vpc
  <1>1. Collected(o) \in Obj
    BY CollectedType
  <1>2. Collected(o).exists <=> (o.exists /\ ~(o.deleting /\ ~o.fin))
    BY DEF Collected, Obj
  <1>3. Collected(o).fin = o.fin /\ Collected(o).deleting = o.deleting
    BY DEF Collected, Obj
  <1>4. Collected(o).ip = o.ip /\ Collected(o).id = o.id /\ Collected(o).vpc = o.vpc
    BY DEF Collected, Obj
  <1> QED
    BY <1>1, <1>2, <1>3, <1>4

\* What the patch of a pass that provisions makes of the object.
LEMMA BuiltPatch ==
    ASSUME NEW o \in Obj, NEW b \in Obj, NEW l \in Obj, o.exists, l.fin,
           b.fin => o.fin, o.deleting => o.fin
    PROVE  LET s == SpecPatch(o, b, l)
               t == StatusPatch(s, b, l)
           IN  /\ t.fin /\ t.exists /\ t.deleting = o.deleting /\ t.ip \in {o.ip, l.ip}
               /\ \/ t.id = o.id /\ t.vpc = o.vpc /\ o.fin
                  \/ /\ t.id  = IF l.id = b.id THEN o.id ELSE l.id
                     /\ t.vpc = IF l.vpc = b.vpc THEN o.vpc ELSE l.vpc
  <1> DEFINE s == SpecPatch(o, b, l)
             t == StatusPatch(s, b, l)
  <1>1. /\ s \in Obj /\ s.fin /\ s.exists /\ s.deleting = o.deleting /\ s.ip = o.ip
        /\ \/ s.id = o.id /\ s.vpc = o.vpc /\ o.fin
           \/ /\ s.id  = IF l.id = b.id THEN o.id ELSE l.id
              /\ s.vpc = IF l.vpc = b.vpc THEN o.vpc ELSE l.vpc
    <2>1. CASE l.fin /\ ~b.fin /\ o.deleting
      BY <2>1 DEF SpecPatch
    <2>2. CASE ~(l.fin /\ ~b.fin /\ o.deleting)
      <3> DEFINE i == IF l.id = b.id THEN o.id ELSE l.id
                 v == IF l.vpc = b.vpc THEN o.vpc ELSE l.vpc
                 u == Updated(o, TRUE, i, v)
      <3>1. s = Collected(u)
        <4>1. (IF l.fin = b.fin THEN o.fin ELSE l.fin) = TRUE
          BY DEF Obj
        <4>2. s = Collected(Updated(o, IF l.fin = b.fin THEN o.fin ELSE l.fin, i, v))
          BY <2>2 DEF SpecPatch, Updated
        <4> QED
          BY <4>1, <4>2
      <3>2. i \in Nets \cup {None} /\ v \in Vpcs \cup {None}
        BY DEF Obj
      <3> HIDE DEF i, v
      <3>3. /\ u \in Obj /\ u.fin /\ u.exists = o.exists /\ u.deleting = o.deleting
            /\ u.ip = o.ip /\ u.id = i /\ u.vpc = v
        <4>1. u \in Obj
          BY <3>2 DEF Updated, Obj
        <4>2. u.fin
          BY <3>2 DEF Updated, Obj
        <4>3. u.exists = o.exists /\ u.deleting = o.deleting
          BY <3>2 DEF Updated, Obj
        <4>4. u.ip = o.ip /\ u.id = i /\ u.vpc = v
          BY <3>2 DEF Updated, Obj
        <4> QED
          BY <4>1, <4>2, <4>3, <4>4
      <3> HIDE DEF u, s
      <3>4. /\ s \in Obj /\ s.fin /\ s.exists /\ s.deleting = o.deleting /\ s.ip = o.ip
            /\ s.id = i /\ s.vpc = v
        BY <3>1, <3>3, CollectedFields
      <3> QED
        BY <3>4 DEF i, v
    <2> QED
      BY <2>1, <2>2
  <1> HIDE DEF s
  <1>2. /\ t.fin = s.fin /\ t.exists = s.exists /\ t.deleting = s.deleting
        /\ t.id = s.id /\ t.vpc = s.vpc /\ t.ip \in {s.ip, l.ip}
    BY <1>1 DEF StatusPatch, Obj
  <1> QED
    BY <1>1, <1>2 DEF s

\* The patch of a pass that disposes lets the object go.
LEMMA DisposedPatch ==
    ASSUME NEW o \in Obj, NEW b \in Obj, NEW l \in Obj, ~l.fin, b.fin, o.deleting
    PROVE  ~StatusPatch(SpecPatch(o, b, l), b, l).exists
  <1> DEFINE i == IF l.id = b.id THEN o.id ELSE l.id
             v == IF l.vpc = b.vpc THEN o.vpc ELSE l.vpc
             f == IF l.fin = b.fin THEN o.fin ELSE l.fin
             u == Updated(o, f, i, v)
  <1>1. SpecPatch(o, b, l) = IF ~o.exists THEN o ELSE Collected(u)
    BY DEF SpecPatch, Updated
  <1>2. f \in BOOLEAN /\ ~f /\ i \in Nets \cup {None} /\ v \in Vpcs \cup {None}
    BY DEF Obj
  <1> HIDE DEF f, i, v
  <1>3. u \in Obj /\ ~u.fin /\ u.deleting
    BY <1>2, UpdatedFields
  <1> HIDE DEF u
  <1>4. ~Collected(u).exists
    BY <1>3, CollectedFields
  <1>5. ~SpecPatch(o, b, l).exists /\ SpecPatch(o, b, l) \in Obj
    BY <1>1, <1>4, SpecPatchType
  <1> QED
    BY <1>5, PatchKeeps

LEMMA PatchStep ==
    ASSUME TypeOK, NEW c \in Clusters, Calm(c), Orderly(c), Calm(c)', Patch(c)
    PROVE  Orderly(c)' /\ ~base[c].deleting
  <1> DEFINE t == StatusPatch(SpecPatch(obj[c], base[c], loc[c]), base[c], loc[c])
  <1>1. /\ UNCHANGED <<layout, seen, net, vpc, ip>> /\ pc[c] = "patch"
        /\ pc' = [pc EXCEPT ![c] = "idle"] /\ obj' = [obj EXCEPT ![c] = t]
    BY NoFault DEF Patch, Calm
  <1>2. obj'[c] = t /\ pc'[c] = "idle"
    BY <1>1 DEF TypeOK
  <1>3. obj[c] \in Obj /\ base[c] \in Obj /\ loc[c] \in Obj /\ Versions(c) /\ World
    BY DEF TypeOK, Orderly
  <1>4. ~base[c].deleting
    <2>1. ASSUME base[c].deleting PROVE FALSE
      <3>1. ~loc[c].fin /\ base[c].fin /\ obj[c].deleting
        BY <1>1, <1>3, <2>1, WhichPass DEF DisposingPass, Versions, Earlier
      <3>2. ~t.exists
        BY <1>3, <3>1, DisposedPatch
      <3> QED
        BY <1>2, <3>2 DEF Calm
    <2> QED
      BY <2>1
  <1>5. BuildingPass(c) /\ Building(c)
    BY <1>1, <1>4, WhichPass
  <1>6. /\ loc[c].fin /\ Names(loc[c]) /\ HasAddress(loc[c])
        /\ Settled /\ KnowsNet(loc[c]) /\ KnowsVpc(loc[c])
        /\ base[c].id # None => loc[c].id # None
        /\ base[c].vpc # None => loc[c].vpc # None
    BY <1>1, <1>5 DEF BuildingPass
  <1>7. /\ Earlier(c, base[c]) /\ Earlier(c, obj[c]) /\ Earlier(c, seen[c])
    BY <1>1, <1>3 DEF Versions
  <1>8. /\ t.fin /\ t.deleting = obj[c].deleting /\ t.ip \in {obj[c].ip, loc[c].ip}
        /\ \/ t.id = obj[c].id /\ t.vpc = obj[c].vpc /\ obj[c].fin
           \/ /\ t.id  = IF loc[c].id = base[c].id THEN obj[c].id ELSE loc[c].id
              /\ t.vpc = IF loc[c].vpc = base[c].vpc THEN obj[c].vpc ELSE loc[c].vpc
    BY <1>3, <1>6, <1>7, BuiltPatch DEF Earlier, Calm
  <1> HIDE DEF t
  <1>9. World' /\ ~Disposing(c)'
    BY <1>1, <1>2, <1>3, ShapeWorld DEF SameShape, Disposing
  <1>10. Versions(c)'
    <2>1. ASSUME obj[c].id # None PROVE t.id = obj[c].id
      BY <1>3, <1>5, <1>6, <1>8, <2>1, ObjFields DEF Building, Names, World
    <2>2. ASSUME obj[c].vpc # None PROVE t.vpc = obj[c].vpc
      BY <1>3, <1>5, <1>6, <1>8, <2>2, ObjFields DEF Building, Names, World
    <2>3. Earlier(c, seen[c])' /\ Earlier(c, obj[c])'
      BY <1>1, <1>2, <1>7, <1>8, <2>1, <2>2 DEF Earlier
    <2> QED
      BY <1>2, <2>3 DEF Versions
  <1>11. Building(c)'
    <2>1. Names(obj[c])'
      BY <1>1, <1>2, <1>5, <1>6, <1>8 DEF Building, Names
    <2>2. HasAddress(obj[c])' /\ HasAddress(seen[c])'
      BY <1>1, <1>2, <1>5, <1>6, <1>8 DEF Building, HasAddress, Mismatch
    <2>3. ASSUME NEW n \in Nets, net[n].state = "up", ~net[n].given PROVE t.id = n
      BY <1>5, <1>6, <1>7, <1>8, <2>3, NetAssumption DEF Building, KnowsNet, Earlier
    <2>4. ASSUME NEW v \in Vpcs, vpc[v].state = "up", ~vpc[v].given PROVE t.vpc = v
      BY <1>5, <1>6, <1>7, <1>8, <2>4, NetAssumption DEF Building, KnowsVpc, Earlier
    <2>5. Settled' /\ KnowsNet(obj[c])' /\ KnowsVpc(obj[c])'
      BY <1>1, <1>2, <1>6, <2>3, <2>4 DEF Settled, NoNet, NoVpc, KnowsNet, KnowsVpc
    <2>6. /\ seen'[c].fin => KnowsNet(seen[c])' /\ KnowsVpc(seen[c])'
          /\ Marked' /\ VpcMarked'
      BY <1>1, <1>5 DEF Building, KnowsNet, KnowsVpc, Marked, VpcMarked
    <2>7. /\ \A n \in Nets : net'[n].state # "gone"
          /\ \A v \in Vpcs : vpc'[v].state # "gone"
      BY <1>1, <1>5 DEF Building
    <2> QED
      BY <2>1, <2>2, <2>5, <2>6, <2>7 DEF Building
  <1> QED
    BY <1>2, <1>4, <1>9, <1>10, <1>11 DEF Orderly

\* The object is deleted, or a watch delivers.
LEMMA OthersStep ==
    ASSUME TypeOK, NEW c \in Clusters, Orderly(c), Calm(c), Calm(c)',
           DeleteRequested(c) \/ WatchNetwork(c) \/ WatchCluster(c) \/ UNCHANGED vars
    PROVE  Orderly(c)'
  <1>1. UNCHANGED <<layout, pc, base, loc, net, vpc, ip>>
    BY DEF DeleteRequested, WatchNetwork, WatchCluster, vars, objects, copies
  <1>2. /\ obj'[c].fin = obj[c].fin /\ obj'[c].id = obj[c].id /\ obj'[c].vpc = obj[c].vpc
        /\ obj'[c].ip = obj[c].ip
        /\ obj'[c].deleting = obj[c].deleting \/ (obj'[c].deleting /\ obj[c].fin)
    <2>1. CASE obj' = obj
      BY <2>1
    <2>2. CASE DeleteRequested(c)
      <3> DEFINE d == [obj[c] EXCEPT !.deleting = TRUE]
      <3>1. obj'[c] = Collected(d)
        BY <2>2 DEF DeleteRequested, TypeOK
      <3>2. /\ d \in Obj /\ d.fin = obj[c].fin /\ d.id = obj[c].id /\ d.vpc = obj[c].vpc
            /\ d.ip = obj[c].ip /\ d.deleting
        BY ObjFields DEF Obj
      <3> HIDE DEF d
      <3>3. /\ Collected(d).fin = d.fin /\ Collected(d).id = d.id /\ Collected(d).vpc = d.vpc
            /\ Collected(d).ip = d.ip /\ Collected(d).deleting
            /\ Collected(d).exists => d.fin
        BY <3>2 DEF Collected, Obj
      <3> QED
        BY <3>1, <3>2, <3>3 DEF Calm
    <2> QED
      BY <2>1, <2>2 DEF WatchNetwork, WatchCluster, vars, objects
  <1>3. seen'[c] = seen[c] \/ (seen'[c] = obj[c] /\ obj' = obj)
    BY DEF DeleteRequested, WatchNetwork, WatchCluster, vars, objects, TypeOK
  <1>4. World'
    BY <1>1, ShapeWorld DEF SameShape, Orderly
  <1>5. Versions(c)'
    BY <1>1, <1>2, <1>3 DEF Orderly, Versions, Earlier
  <1>6. /\ Disposing(c)' <=> Disposing(c)
        /\ DisposingPass(c) => DisposingPass(c)'
    BY <1>1 DEF Disposing, DisposingPass, KnowsNet, KnowsVpc, Marked, VpcMarked, HasAddress,
                Mismatch, NetsClean, VpcsClean
  <1>7. BuildingPass(c) => BuildingPass(c)'
    BY <1>1 DEF BuildingPass, Names, HasAddress, Mismatch, NoNet, NoVpc, NamesVPC, KnowsNet,
                KnowsVpc, Settled
  <1>8. Building(c) => Building(c)'
    <2> SUFFICES ASSUME Building(c) PROVE Building(c)'
      OBVIOUS
    <2>1. Names(obj[c])' /\ HasAddress(obj[c])' /\ HasAddress(seen[c])'
      BY <1>1, <1>2, <1>3 DEF Building, Names, HasAddress, Mismatch
    <2>2. /\ obj'[c].fin => Settled' /\ KnowsNet(obj[c])' /\ KnowsVpc(obj[c])'
          /\ seen'[c].fin => KnowsNet(seen[c])' /\ KnowsVpc(seen[c])'
      BY <1>1, <1>2, <1>3 DEF Building, Settled, NoNet, NoVpc, KnowsNet, KnowsVpc
    <2>3. /\ pc'[c] # "tagcreated" => Marked'
          /\ pc'[c] # "tagvpccreated" => VpcMarked'
          /\ \A n \in Nets : net'[n].state # "gone"
          /\ \A v \in Vpcs : vpc'[v].state # "gone"
      BY <1>1 DEF Building, Marked, VpcMarked
    <2> QED
      BY <2>1, <2>2, <2>3 DEF Building
  <1> QED
    BY <1>1, <1>4, <1>5, <1>6, <1>7, <1>8 DEF Orderly

(***************************************************************************)
(* The theorem.                                                            *)
(***************************************************************************)
LEMMA DisposalInit ==
    ASSUME OneGiven, Init
    PROVE  DisposalInv
  <1>1. PICK g \in SUBSET Provided, place \in [Nets -> Vpcs \cup {None}] :
          /\ \A n \in Nets : place[n] \in g \cup {None} /\ (n \notin g => place[n] = None)
          /\ net = [n \in Nets |-> [given |-> n \in g,
                                   state |-> IF n \in g THEN "up" ELSE "absent",
                                   created |-> FALSE, tags |-> {}, open |-> FALSE,
                                   vpc |-> place[n]]]
          /\ vpc = [v \in Vpcs |-> [given |-> v \in g,
                                   state |-> IF v \in g THEN "up" ELSE "absent",
                                   created |-> FALSE, tags |-> {}]]
    BY DEF Init
  <1>2. /\ \A n \in Nets : /\ net[n].given <=> n \in g
                           /\ net[n].state = IF n \in g THEN "up" ELSE "absent"
                           /\ net[n].vpc = place[n]
        /\ \A v \in Vpcs : /\ vpc[v].given <=> v \in g
                           /\ vpc[v].state = IF v \in g THEN "up" ELSE "absent"
    BY <1>1
  <1>3. \A p \in IPs : ip[p].net = None
    BY DEF Init
  <1>4. NetsClean /\ VpcsClean
    BY <1>2 DEF NetsClean, VpcsClean
  <1>5. World
    <2>1. \A x, y \in g : (x \in Nets /\ y \in Nets) \/ (x \in Vpcs /\ y \in Vpcs) => x = y
      BY NetAssumption DEF OneGiven
    <2>2. /\ \A m, n \in Nets : net[m].state = "up" /\ net[n].state = "up" => m = n
          /\ \A u, v \in Vpcs : vpc[u].state = "up" /\ vpc[v].state = "up" => u = v
      BY <1>2, <2>1
    <2>3. ASSUME NEW n \in Nets, net[n].vpc # None
          PROVE  vpc[net[n].vpc].state = "up" /\ vpc[net[n].vpc].given
      BY <1>1, <1>2, <2>3
    <2> QED
      BY <1>3, <1>4, <2>2, <2>3 DEF World, NetsClean, VpcsClean
  <1>6. ASSUME NEW c \in Clusters PROVE Orderly(c)
    <2>1. obj[c] = NewObj /\ seen[c] = NewObj /\ pc[c] = "idle"
      BY DEF Init
    <2>2. /\ ~NewObj.fin /\ ~NewObj.deleting
          /\ NewObj.id = None /\ NewObj.vpc = None /\ NewObj.ip = None
      BY DEF NewObj
    <2>3. Versions(c)
      BY <2>1, <2>2 DEF Versions, Earlier
    <2>4. Building(c)
      BY <1>2, <1>4, <2>1, <2>2 DEF Building, Names, HasAddress, Marked, VpcMarked,
                                    NetsClean, VpcsClean
    <2> QED
      BY <1>5, <2>1, <2>3, <2>4 DEF Orderly, Disposing
  <1> QED
    BY <1>6, GivenInit DEF DisposalInv

\* No step takes a disturbance back, and none brings an object back.
LEMMA FaultsStay ==
    ASSUME [Next]_vars, faults \in Nat, faults' = 0
    PROVE  faults = 0
  <1> SUFFICES faults' = faults \/ \E k \in {"error", "crash"} : Disturb(k)
    BY DEF Disturb
  <1>1. ASSUME NEW c \in Clusters, Pass(c)
        PROVE  faults' = faults \/ Disturb("error")
    <2>1. Start(c) \/ Patch(c) \/ ResolveNetwork(c) \/ ResolveVPC(c) \/ CreateVPC(c)
            \/ CreateNetwork(c) \/ AssociatePublicIPAddress(c) \/ DisassociatePublicIPAddress(c)
            \/ DeleteNetwork(c) \/ DeleteVPC(c) \/ GetOrCreateLoadBalancerRule(c)
            \/ PatchCluster(c) => faults' = faults \/ Disturb("error")
      BY DEF Start, Patch, ResolveNetwork, ResolveVPC, CreateVPC, CreateNetwork,
             AssociatePublicIPAddress, DisassociatePublicIPAddress, DeleteNetwork, DeleteVPC,
             GetOrCreateLoadBalancerRule, PatchCluster, Fails
    <2>2. Fails(c) => Disturb("error")
      BY DEF Fails
    <2>3. TagVPCCreated(c) \/ TagVPC(c) \/ TagCreated(c) \/ TagNetwork(c) \/ GetPublicIP(c)
            \/ TagIP(c) \/ TagIPCreated(c) \/ OpenFirewallRules(c) \/ UntagIP(c) \/ CheckIP(c)
            \/ UntagIPCreated(c) \/ UntagNetwork(c) \/ CheckNetwork(c) \/ UntagVPC(c)
            \/ CheckVPC(c) => faults' = faults \/ Fails(c)
      BY DEF TagVPCCreated, TagVPC, TagCreated, TagNetwork, GetPublicIP, TagIP, TagIPCreated,
             OpenFirewallRules, UntagIP, CheckIP,
             UntagIPCreated, UntagNetwork, CheckNetwork, UntagVPC, CheckVPC
    <2> QED
      BY <1>1, <2>1, <2>2, <2>3 DEF Pass
  <1>2. ASSUME NEW c \in Clusters, WatchNetwork(c) \/ WatchCluster(c) \/ DeleteRequested(c)
        PROVE  faults' = faults
    BY <1>2 DEF WatchNetwork, WatchCluster, DeleteRequested
  <1> QED
    BY <1>1, <1>2 DEF Next, Crash, vars

LEMMA CalmBefore ==
    ASSUME TypeOK, [Next]_vars, NEW c \in Clusters, Calm(c)'
    PROVE  Calm(c)
  <1>1. faults = 0
    BY FaultsStay, BoundAssumption DEF TypeOK, Calm
  <1>2. obj'[c].exists => obj[c].exists
    <2>1. ASSUME NEW d \in Clusters, Pass(d) PROVE obj'[c].exists => obj[c].exists
      <3>1. Start(d) \/ PassStep(d) => obj' = obj
        BY DEF Start, PassStep, objects
      <3>2. Patch(d) => (obj'[c].exists => obj[c].exists)
        BY PatchObj
      <3> QED
        BY <2>1, <3>1, <3>2, TypePass
    <2>2. ASSUME NEW d \in Clusters, DeleteRequested(d) PROVE obj'[c].exists => obj[c].exists
      <3>1. obj[d].exists /\ \A e \in Clusters \ {d} : obj'[e] = obj[e]
        BY <2>2 DEF DeleteRequested, TypeOK
      <3> QED
        BY <3>1
    <2>3. ASSUME NEW d \in Clusters, WatchNetwork(d) \/ WatchCluster(d) PROVE obj' = obj
      BY <2>3 DEF WatchNetwork, WatchCluster
    <2> QED
      BY <2>1, <2>2, <2>3 DEF Next, Crash, vars, objects
  <1> QED
    BY <1>1, <1>2 DEF Calm

LEMMA DisposalNext ==
    ASSUME \A c, d \in Clusters : c = d, DisposalInv, [Next]_vars
    PROVE  DisposalInv'
  <1>1. GivenInv /\ TypeOK /\ GivenInv'
    BY GivenNext DEF DisposalInv, GivenInv
  <1>2. ASSUME NEW c \in Clusters, Calm(c)' PROVE Orderly(c)'
    <2>1. Calm(c) /\ Orderly(c) /\ Clusters = {c} /\ faults = 0 /\ faults' = 0
      BY <1>1, <1>2, CalmBefore DEF DisposalInv, Calm
    <2>2. CASE Pass(c)
      <3>1. ResolveNetwork(c) \/ ResolveVPC(c) \/ CreateVPC(c) \/ TagVPCCreated(c)
              \/ CreateNetwork(c) \/ TagCreated(c) => Orderly(c)'
        BY <1>1, <2>1, ResolveStep, ResolveVPCStep, CreateVPCStep, TagVPCCreatedStep,
           CreateNetworkStep, TagCreatedStep
      <3>2. TagNetwork(c) \/ TagVPC(c) \/ OpenFirewallRules(c) \/ GetPublicIP(c)
              \/ AssociatePublicIPAddress(c) \/ TagIP(c) \/ TagIPCreated(c)
              \/ GetOrCreateLoadBalancerRule(c) \/ PatchCluster(c) => Orderly(c)'
        BY <1>1, <2>1, TagStep, GetPublicIPStep, AssociateStep, AddressStep, PatchClusterStep
      <3>3. UntagIP(c) \/ UntagIPCreated(c) \/ CheckIP(c) \/ DisassociatePublicIPAddress(c)
              \/ UntagNetwork(c) \/ CheckNetwork(c) \/ DeleteNetwork(c) => Orderly(c)'
        BY <1>1, <2>1, UntagIPStep, CheckIPStep, DisassociateStep, UntagNetworkStep,
           CheckNetworkStep, DeleteNetworkStep
      <3>4. UntagVPC(c) \/ CheckVPC(c) \/ DeleteVPC(c) => Orderly(c)'
        BY <1>1, <2>1, UntagVPCStep, CheckVPCStep, DeleteVPCStep
      <3>5. Start(c) \/ Patch(c) => Orderly(c)'
        BY <1>1, <1>2, <2>1, StartStep, PatchStep
      <3> QED
        BY <2>2, <3>1, <3>2, <3>3, <3>4, <3>5 DEF Pass
    <2>3. CASE WatchNetwork(c) \/ WatchCluster(c) \/ DeleteRequested(c) \/ UNCHANGED vars
      BY <1>1, <1>2, <2>1, <2>3, OthersStep
    <2>4. ~Crash
      BY <2>1, NoFault DEF Crash
    <2> QED
      BY <2>1, <2>2, <2>3, <2>4 DEF Next
  <1> QED
    BY <1>1, <1>2 DEF DisposalInv

\* An object lets go of its finalizer only in the patch of a pass that disposed.
LEMMA DisposedClean ==
    ASSUME TypeOK, NEW c, Clusters = {c}, Orderly(c), [Next]_vars, Disposed(c)
    PROVE  NetsClean /\ VpcsClean /\ World
  <1> DEFINE s == SpecPatch(obj[c], base[c], loc[c])
             t == StatusPatch(s, base[c], loc[c])
             u == StatusPatch(obj[c], base[c], loc[c])
  <1>1. /\ c \in Clusters /\ obj[c] \in Obj /\ base[c] \in Obj /\ loc[c] \in Obj
        /\ obj[c].exists /\ obj[c].fin /\ ~obj'[c].exists
    BY DEF TypeOK, Disposed
  <1>2. Patch(c)
    <2>1. Pass(c) => obj' = obj \/ Patch(c)
      BY <1>1, TypePass DEF Start, PassStep, objects
    <2>2. ~DeleteRequested(c)
      <3> SUFFICES ASSUME DeleteRequested(c) PROVE FALSE
        OBVIOUS
      <3> DEFINE d == [obj[c] EXCEPT !.deleting = TRUE]
      <3>1. obj'[c] = Collected(d)
        BY <1>1 DEF DeleteRequested, TypeOK
      <3>2. d \in Obj /\ d.exists /\ d.fin
        BY <1>1 DEF Obj
      <3> HIDE DEF d
      <3> QED
        BY <1>1, <3>1, <3>2, CollectedFields
    <2>3. WatchNetwork(c) \/ WatchCluster(c) \/ Crash \/ UNCHANGED vars => obj' = obj
      BY DEF WatchNetwork, WatchCluster, Crash, vars, objects
    <2>4. obj' # obj
      BY <1>1
    <2> QED
      BY <2>1, <2>2, <2>3, <2>4 DEF Next
  <1>3. pc[c] = "patch" /\ obj'[c] \in {obj[c], s, t, u}
    BY <1>1, <1>2 DEF Patch, TypeOK
  <1>4. base[c].deleting
    <2> SUFFICES ASSUME ~base[c].deleting PROVE FALSE
      OBVIOUS
    <2>1. loc[c].fin
      BY <1>1, <1>3, WhichPass DEF BuildingPass
    <2>2. t.exists
      BY <1>1, <2>1, BuiltPatch
    <2>3. s \in Obj
      BY <1>1, SpecPatchType
    <2> HIDE DEF s
    <2>4. s.exists /\ u.exists
      BY <1>1, <2>2, <2>3, PatchKeeps
    <2> HIDE DEF t, u
    <2> QED
      BY <1>1, <1>3, <2>2, <2>4
  <1>5. DisposingPass(c)
    BY <1>1, <1>3, <1>4, WhichPass
  <1> QED
    BY <1>3, <1>5 DEF DisposingPass, Orderly

\* DisposeIsoNetResources of a cluster that has its network for itself, when at
\* most one network and at most one VPC of the name were there before: unless a
\* call fails or the manager restarts, the object goes away only after every
\* network and VPC that CAPC created is deleted and, unless some were there
\* before, every public IP is given back, whatever stale copies its passes read.
THEOREM LoneClusterIsDisposedOf ==
    ASSUME \A c, d \in Clusters : c = d, OneGiven
    PROVE  Spec => UndisturbedDisposal
  <1>1. Init => DisposalInv
    BY DisposalInit
  <1>2. DisposalInv /\ [Next]_vars => DisposalInv'
    BY DisposalNext
  <1>3. ASSUME DisposalInv, [Next]_vars, NEW c \in Clusters, Disposed(c), faults = 0
        PROVE  /\ \A n \in Up : net[n].given
               /\ \A v \in VpcUp : vpc[v].given
               /\ Free = IPs \/ Up # {} \/ VpcUp # {}
    <2>1. TypeOK /\ Calm(c) /\ Orderly(c) /\ Clusters = {c}
      BY <1>3 DEF DisposalInv, GivenInv, Calm, Disposed
    <2>2. NetsClean /\ VpcsClean /\ World
      BY <1>3, <2>1, DisposedClean
    <2>3. ASSUME Up = {}, VpcUp = {}, NEW p \in IPs PROVE ip[p].net = None
      BY <2>2, <2>3 DEF World, Up, VpcUp
    <2> QED
      BY <2>2, <2>3 DEF NetsClean, VpcsClean, Up, VpcUp, Free
  <1>4. DisposalInv /\ [Next]_vars =>
          [\A c \in Clusters :
             Disposed(c) /\ faults = 0 /\ (\A d \in Clusters \ {c} : ~obj[d].exists)
               => /\ \A n \in Up : net[n].given
                  /\ \A v \in VpcUp : vpc[v].given
                  /\ Free = IPs \/ Up # {} \/ VpcUp # {}]_vars
    BY <1>3
  <1> QED
    BY <1>1, <1>2, <1>4, PTL DEF Spec, UndisturbedDisposal
=============================================================================
