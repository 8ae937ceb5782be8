---------------------- MODULE FailureDomainDrainProofs ----------------------
(***************************************************************************)
(* Proofs about FailureDomainDrain, for any failure domains, any number of *)
(* replicas and machines, and any number of disturbances.                  *)
(***************************************************************************)
EXTENDS FailureDomainDrain, FiniteSetTheorems, WellFoundedInduction, TLAPS

(***************************************************************************)
(* Names and counts.                                                       *)
(***************************************************************************)

\* The order that SmallestName needs, as a set of pairs.
LEMMA Less ==
    ASSUME NEW m \in Nat, NEW n \in Nat, n < m
    PROVE  <<n, m>> \in OpToRel(<, Nat)
  <1> DEFINE R == {ss \in Nat \X Nat : ss[1] < ss[2]}
  <1>1. <<n, m>> \in R
    OBVIOUS
  <1>2. R = OpToRel(<, Nat)
    BY Zenon DEF OpToRel
  <1> QED
    BY <1>1, <1>2

LEMMA Smallest ==
    ASSUME NEW R, IsWellFoundedOn(R, Nat),
           \A m \in Nat, n \in Nat : n < m => <<n, m>> \in R,
           NEW S \in SUBSET Nat, S # {}
    PROVE  FirstByName(S) \in S
  <1>1. PICK m \in S : \A n \in S : ~(<<n, m>> \in R)
    BY WFMin
  <1>2. ASSUME NEW n \in S PROVE m <= n
    <2>1. m \in Nat /\ n \in Nat
      OBVIOUS
    <2>2. ~(n < m)
      BY <1>1, <2>1, Zenon
    <2> QED
      BY <2>1, <2>2
  <1> QED
    BY <1>2 DEF FirstByName

LEMMA SmallestName ==
    ASSUME NEW S \in SUBSET Names, S # {}
    PROVE  FirstByName(S) \in S
  <1>1. S \in SUBSET Nat
    BY ReplicasAssumption DEF Names
  <1>2. \A m \in Nat, n \in Nat : n < m => <<n, m>> \in OpToRel(<, Nat)
    BY Less
  <1> QED
    BY <1>1, <1>2, NatLessThanWellFounded, Smallest, Zenon

LEMMA NamesType ==
    /\ IsFiniteSet(Names) /\ Cardinality(Names) = MaxMachines
    /\ \A m \in Names : m \in Nat /\ m # NoName
    /\ None \notin Domains /\ Removed \in Domains
  <1>1. IsFiniteSet(1..MaxMachines) /\ Cardinality(1..MaxMachines) = MaxMachines
    BY ReplicasAssumption, FS_Interval
  <1> QED
    BY <1>1, DomainAssumption, ReplicasAssumption DEF Names, NoName

LEMMA CountsType ==
    ASSUME NEW S \in SUBSET Names
    PROVE  IsFiniteSet(S) /\ Cardinality(S) \in Nat /\ Cardinality(S) \in Counts
  <1>1. IsFiniteSet(S) /\ Cardinality(S) <= MaxMachines
    BY NamesType, FS_Subset
  <1>2. Cardinality(S) \in Nat
    BY <1>1, FS_CardinalityType
  <1> QED
    BY <1>1, <1>2, ReplicasAssumption DEF Counts

LEMMA CountedType == Counted \in [replicas: Counts, ready: Counts]
  <1>1. Up \in SUBSET Names /\ Ready \in SUBSET Names
    BY DEF Up, Ready
  <1>2. Cardinality(Up) \in Counts /\ Cardinality(Ready) \in Counts
    BY <1>1, CountsType
  <1> QED
    BY <1>2 DEF Counted

(***************************************************************************)
(* Types.                                                                  *)
(***************************************************************************)
LEMMA AbsentType ==
    /\ Absent \in Machine /\ Absent.vm = "none" /\ Absent.capi = "none" /\ ~Absent.queued
    /\ NoGroup \in Group /\ NewGroup \in Group
  BY DEF Absent, Machine, NoGroup, NewGroup, Group

LEMMA DeletedType ==
    ASSUME NEW x \in Machine
    PROVE  /\ Deleted(x) \in Machine /\ Deleted(x).vm = x.vm /\ Deleted(x).fd = x.fd
           /\ Deleted(x).queued = x.queued /\ Deleted(x).capi # "up"
  BY DEF Deleted, Machine

LEMMA CheckedType ==
    ASSUME TypeOK, NEW m \in Names
    PROVE  /\ Checked(m) \in Machine /\ Checked(m).vm = mach[m].vm /\ Checked(m).fd = mach[m].fd
           /\ Checked(m).queued = mach[m].queued
  BY DeletedType DEF Checked, TypeOK

LEMMA DisturbType ==
    ASSUME TypeOK, NEW kind, Disturb(kind)
    PROVE  faults' \in 0..MaxFaults /\ faults' # 0
  BY BoundAssumption DEF Disturb, TypeOK

LEMMA TypeGetAll ==
    ASSUME TypeOK, NEW f \in Domains, GetAllMachines(f)
    PROVE  TypeOK'
  <1>1. UNCHANGED <<spec, specSeen, control, calm, status, mach, seen, placing, dom, group, csGroup, faults>>
    BY DEF GetAllMachines, cluster, machines, groups
  <1>2. pc[f] = "idle" /\ first[f] = NoName
    BY DEF GetAllMachines, TypeOK
  <1>3. CASE Goto(f, "delete") /\ UNCHANGED first
    BY <1>1, <1>2, <1>3 DEF Goto, TypeOK
  <1>4. CASE /\ Known(f) # {} /\ Goto(f, "clear")
             /\ first' = [first EXCEPT ![f] = FirstByName(Known(f))]
    <2>1. Known(f) \in SUBSET Names
      BY DEF Known
    <2>2. FirstByName(Known(f)) \in Names
      BY <1>4, <2>1, SmallestName
    <2>3. FirstByName(Known(f)) # NoName
      BY <2>2, NamesType
    <2> QED
      BY <1>1, <1>4, <2>2, <2>3 DEF Goto, TypeOK
  <1> QED
    BY <1>3, <1>4 DEF GetAllMachines

LEMMA ClearMachinesIs ==
    ASSUME TypeOK, NEW f \in Domains, ClearMachines(f)
    PROVE  /\ first[f] \in Names /\ pc[f] = "clear"
           /\ pc' = [pc EXCEPT ![f] = IF mach[first[f]].capi = "up" THEN "requeued" ELSE "idle"]
           /\ mach' = [mach EXCEPT ![first[f]] = Deleted(mach[first[f]])]
           /\ first' = [first EXCEPT ![f] = NoName]
           /\ UNCHANGED <<spec, specSeen, control, calm, status, seen, placing, dom, group, csGroup, faults>>
  BY DEF ClearMachines, Goto, TypeOK, cluster, groups

LEMMA TypeClear ==
    ASSUME TypeOK, NEW f \in Domains, ClearMachines(f)
    PROVE  TypeOK'
  <1>1. mach[first[f]] \in Machine /\ first[f] \in Names
    BY ClearMachinesIs DEF TypeOK
  <1>2. /\ mach' \in [Names -> Machine]
        /\ \A m \in Names : mach'[m].vm = mach[m].vm /\ mach'[m].fd = mach[m].fd
    BY <1>1, ClearMachinesIs, DeletedType DEF TypeOK
  <1>3. /\ pc' \in [Domains -> {"idle", "clear", "requeued", "delete", "owned", "remove"}]
        /\ first' \in [Domains -> Names \cup {NoName}]
        /\ \A g \in Domains : pc'[g] = "clear" <=> first'[g] # NoName
    BY ClearMachinesIs DEF TypeOK
  <1> QED
    BY <1>2, <1>3, ClearMachinesIs DEF TypeOK

LEMMA TypeOwned ==
    ASSUME TypeOK, NEW f \in Domains,
           DeleteOwnedObjects(f) \/ CheckOwnedObjectsDeleted(f) \/ RemoveFinalizer(f)
    PROVE  TypeOK'
  <1>1. UNCHANGED <<spec, specSeen, control, calm, status, mach, seen, placing, first, csGroup, faults>>
    BY DEF DeleteOwnedObjects, CheckOwnedObjectsDeleted, RemoveFinalizer, cluster, machines, groups
  <1>2. /\ pc' \in [Domains -> {"idle", "clear", "requeued", "delete", "owned", "remove"}]
        /\ \A g \in Domains : pc'[g] = "clear" <=> first'[g] # NoName
    BY DEF DeleteOwnedObjects, CheckOwnedObjectsDeleted, RemoveFinalizer, Goto, TypeOK
  <1>3. dom' \in [Domains -> {"up", "deleting", "gone"}]
    BY DEF DeleteOwnedObjects, CheckOwnedObjectsDeleted, RemoveFinalizer, TypeOK
  <1>4. group' \in [Domains -> Group]
    <2>1. DeleteGroup(group[f]) \in Group
      BY AbsentType DEF DeleteGroup, Group, TypeOK
    <2> QED
      BY <2>1 DEF DeleteOwnedObjects, CheckOwnedObjectsDeleted, RemoveFinalizer, groups, TypeOK
  <1> QED
    BY <1>1, <1>2, <1>3, <1>4 DEF TypeOK

LEMMA TypeGroup ==
    ASSUME TypeOK, NEW f \in Domains, GroupStep(f)
    PROVE  TypeOK'
  <1>1. UNCHANGED <<spec, specSeen, control, calm, status, mach, seen, placing, dom, pc, first>>
    BY DEF GroupStep, ReconcileGroup, DeleteAffinityGroup, cluster, machines, drain
  <1>2. faults' \in 0..MaxFaults
    BY DisturbType DEF GroupStep, ReconcileGroup, DeleteAffinityGroup, GetOrCreate, FetchAndDelete, TypeOK
  <1>3. csGroup' \in [Domains -> BOOLEAN]
    <2>1. csGroup' = csGroup \/ \E t \in BOOLEAN : csGroup' = [csGroup EXCEPT ![f] = t]
      BY DEF GroupStep, ReconcileGroup, DeleteAffinityGroup, GetOrCreate, FetchAndDelete, TypeOK
    <2> QED
      BY <2>1 DEF TypeOK
  <1>4. group' \in [Domains -> Group]
    <2>1. CASE ReconcileGroup(f)
      <3>1. PICK d \in BOOLEAN : group' = [group EXCEPT ![f].fin = TRUE, ![f].ready = d]
        BY <2>1 DEF ReconcileGroup
      <3> QED
        BY <3>1 DEF TypeOK, Group
    <2>2. CASE DeleteAffinityGroup(f)
      <3>1. group' = [group EXCEPT ![f] = NoGroup] \/ group' = [group EXCEPT ![f] = group[f]]
        BY <2>2 DEF DeleteAffinityGroup
      <3> QED
        BY <3>1, AbsentType DEF TypeOK
    <2> QED
      BY <2>1, <2>2 DEF GroupStep
  <1> QED
    BY <1>1, <1>2, <1>3, <1>4 DEF TypeOK

\* A machine that counts, and one that the machine controller is done with once
\* it has a VM.
Works(x) == x.capi = "up" /\ x.vm = "ready"
Quiet(x, place) == (x.queued => x.vm = "none") /\ (place # None => x.vm = "none")

\* A step of machine m turns it into x.
Becomes(m, x) ==
    /\ mach' = [mach EXCEPT ![m] = x]
    /\ x.vm # "none" => x.fd # None
    /\ Quiet(mach[m], placing[m]) => /\ Quiet(x, placing'[m])
                                     /\ Works(mach[m]) => Works(x)

LEMMA PlaceIs ==
    ASSUME TypeOK, NEW m \in Names, PlaceMachine(m)
    PROVE  /\ \E x \in Machine : Becomes(m, x)
           /\ placing' = placing \/ \E f \in Domains : placing' = [placing EXCEPT ![m] = f]
           /\ group' \in [Domains -> Group]
  <1>1. mach[m] \in Machine /\ mach[m].queued /\ placing[m] = None
        /\ (mach[m].vm # "none" => mach[m].fd # None)
    BY DEF PlaceMachine, TypeOK
  <1>2. Choices(m) \subseteq Domains
    BY <1>1 DEF Choices, TypeOK, Machine
  <1>3. PICK f \in Domains :
          \/ mach' = [mach EXCEPT ![m].fd = f] /\ UNCHANGED <<placing, group>>
          \/ /\ GetOrCreateAffinityGroup(f) /\ UNCHANGED placing
             /\ mach' = [mach EXCEPT ![m] = [Checked(m) EXCEPT !.fd = f]]
          \/ /\ mach[m].vm = "none" /\ mach' = [mach EXCEPT ![m] = Checked(m)]
             /\ placing' = [placing EXCEPT ![m] = f] /\ UNCHANGED group
          \/ /\ mach' = [mach EXCEPT ![m] = [Checked(m) EXCEPT !.queued = FALSE]]
             /\ UNCHANGED <<placing, group>>
    BY <1>2 DEF PlaceMachine
  <1>4. f # None
    BY NamesType
  <1>5. group' \in [Domains -> Group]
    BY <1>3, AbsentType DEF GetOrCreateAffinityGroup, TypeOK
  <1>6. placing' = placing \/ placing' = [placing EXCEPT ![m] = f]
    BY <1>3
  <1> DEFINE c == Checked(m)
  <1>7. /\ c \in Machine /\ c.vm = mach[m].vm /\ c.fd = mach[m].fd /\ c.queued = mach[m].queued
    BY CheckedType
  <1> HIDE DEF c
  <1>8. \E x \in Machine : /\ mach' = [mach EXCEPT ![m] = x]
                           /\ x.vm = mach[m].vm
                           /\ x.vm # "none" => x.fd # None
                           /\ placing' = placing \/ mach[m].vm = "none"
    <2>1. CASE mach' = [mach EXCEPT ![m].fd = f] /\ UNCHANGED placing
      <3> DEFINE x == [mach[m] EXCEPT !.fd = f]
      <3>1. mach' = [mach EXCEPT ![m] = x]
        BY <2>1
      <3>2. x \in Machine /\ x.vm = mach[m].vm /\ x.fd = f
        BY <1>1 DEF Machine
      <3> HIDE DEF x
      <3> QED
        BY <1>4, <2>1, <3>1, <3>2
    <2>2. CASE mach' = [mach EXCEPT ![m] = [c EXCEPT !.fd = f]] /\ UNCHANGED placing
      <3> DEFINE x == [c EXCEPT !.fd = f]
      <3>1. x \in Machine /\ x.vm = mach[m].vm /\ x.fd = f
        BY <1>7 DEF Machine
      <3>2. mach' = [mach EXCEPT ![m] = x]
        BY <2>2
      <3> HIDE DEF x
      <3> QED
        BY <1>4, <2>2, <3>1, <3>2
    <2>3. CASE mach' = [mach EXCEPT ![m] = c] /\ mach[m].vm = "none"
      BY <1>7, <2>3
    <2>4. CASE mach' = [mach EXCEPT ![m] = [c EXCEPT !.queued = FALSE]] /\ UNCHANGED placing
      <3> DEFINE x == [c EXCEPT !.queued = FALSE]
      <3>1. x \in Machine /\ x.vm = mach[m].vm /\ x.fd = mach[m].fd
        BY <1>7 DEF Machine
      <3>2. mach' = [mach EXCEPT ![m] = x]
        BY <2>4
      <3> HIDE DEF x
      <3> QED
        BY <1>1, <2>4, <3>1, <3>2
    <2> QED
      BY <1>3, <2>1, <2>2, <2>3, <2>4 DEF c
  <1>9. PICK x \in Machine : /\ mach' = [mach EXCEPT ![m] = x]
                             /\ x.vm = mach[m].vm
                             /\ x.vm # "none" => x.fd # None
    BY <1>8
  <1>10. Becomes(m, x)
    <2>1. Quiet(mach[m], placing[m]) => mach[m].vm = "none"
      BY <1>1 DEF Quiet
    <2> QED
      BY <1>9, <2>1 DEF Becomes, Quiet, Works
  <1> QED
    BY <1>5, <1>6, <1>10

LEMMA DeployIs ==
    ASSUME TypeOK, NEW m \in Names, DeployMachine(m)
    PROVE  \E x \in Machine : Becomes(m, x)
  <1> DEFINE f == placing[m]
             y == [mach[m] EXCEPT !.fd = f, !.vm = "up", !.queued = FALSE]
             z == [mach[m] EXCEPT !.fd = f]
  <1>1. f \in Domains /\ f # None /\ mach[m] \in Machine
    BY DEF DeployMachine, TypeOK
  <1>2. /\ y \in Machine /\ y.vm = "up" /\ ~y.queued /\ y.fd = f
        /\ z \in Machine /\ z.vm = mach[m].vm /\ z.fd = f
    BY <1>1 DEF Machine
  <1>3. mach' = [mach EXCEPT ![m] = y] \/ mach' = [mach EXCEPT ![m] = z]
    BY DEF DeployMachine
  <1>4. placing'[m] = None
    BY DEF DeployMachine, TypeOK
  <1> HIDE DEF y, z, f
  <1>5. Quiet(mach[m], placing[m]) => mach[m].vm = "none"
    BY <1>1 DEF Quiet, f
  <1>6. Quiet(y, placing'[m]) /\ (mach[m].vm = "none" => Quiet(z, placing'[m]) /\ ~Works(mach[m]))
    BY <1>2, <1>4 DEF Quiet, Works
  <1> QED
    BY <1>1, <1>2, <1>3, <1>5, <1>6 DEF Becomes

LEMMA MachineStepIs ==
    ASSUME TypeOK, NEW m \in Names, MachineStep(m)
    PROVE  /\ \E x \in Machine : Becomes(m, x)
           /\ placing' \in [Names -> Domains \cup {None}]
           /\ \A n \in Names \ {m} : placing'[n] = placing[n]
           /\ group' \in [Domains -> Group]
           /\ UNCHANGED <<spec, specSeen, control, calm, status, seen, dom, pc, first, csGroup, faults>>
  <1>1. UNCHANGED <<spec, specSeen, control, calm, status, seen, dom, pc, first, csGroup, faults>>
    BY DEF MachineStep, PlaceMachine, DeployMachine, DestroyMachine, NodeJoins, cluster, drain, groups
  <1>2. CASE PlaceMachine(m)
    BY <1>1, <1>2, PlaceIs DEF TypeOK
  <1>3. CASE DeployMachine(m)
    <2>1. placing' = [placing EXCEPT ![m] = None] /\ group' = group
      BY <1>3 DEF DeployMachine, groups
    <2> QED
      BY <1>1, <1>3, <2>1, DeployIs DEF TypeOK
  <1>4. CASE DestroyMachine(m)
    <2>1. /\ mach' = [mach EXCEPT ![m] = Absent] /\ mach[m].capi = "deleting"
          /\ placing' = placing /\ group' = group
      BY <1>4 DEF DestroyMachine, groups
    <2>2. Becomes(m, Absent)
      BY <2>1, AbsentType DEF Becomes, Quiet, Works
    <2> QED
      BY <1>1, <2>1, <2>2, AbsentType DEF TypeOK
  <1>5. CASE NodeJoins(m)
    <2> DEFINE x == [mach[m] EXCEPT !.vm = "ready"]
    <2>1. mach[m].vm = "up" /\ placing' = placing /\ group' = group /\ mach' = [mach EXCEPT ![m] = x]
      BY <1>5 DEF NodeJoins, groups
    <2>2. mach[m] \in Machine /\ mach[m].fd # None
      BY <2>1 DEF TypeOK
    <2>3. /\ x \in Machine /\ x.capi = mach[m].capi /\ x.vm = "ready" /\ x.fd # None
          /\ x.queued = mach[m].queued
      BY <2>2 DEF Machine
    <2> HIDE DEF x
    <2>4. Becomes(m, x)
      BY <2>1, <2>3 DEF Becomes, Quiet, Works
    <2> QED
      BY <1>1, <2>1, <2>3, <2>4 DEF TypeOK
  <1> QED
    BY <1>2, <1>3, <1>4, <1>5 DEF MachineStep

LEMMA TypeMachine ==
    ASSUME TypeOK, NEW m \in Names, MachineStep(m)
    PROVE  TypeOK'
  <1>1. PICK x \in Machine : Becomes(m, x)
    BY MachineStepIs
  <1>2. /\ mach' \in [Names -> Machine]
        /\ \A n \in Names : mach'[n].vm # "none" => mach'[n].fd # None
    BY <1>1 DEF Becomes, TypeOK
  <1> QED
    BY <1>2, MachineStepIs DEF TypeOK

LEMMA RequeueType ==
    ASSUME TypeOK, RequeueTimeout
    PROVE  /\ pc' \in [Domains -> {"idle", "clear", "requeued", "delete", "owned", "remove"}]
           /\ \A f \in Domains : /\ pc'[f] = "clear" <=> pc[f] = "clear"
                                 /\ pc'[f] # "idle" => pc[f] # "idle"
  BY DEF TypeOK, RequeueTimeout, Requeued

LEMMA TypeCount ==
    ASSUME TypeOK, CountMachines
    PROVE  TypeOK'
  <1>1. UNCHANGED <<spec, specSeen, control, calm, mach, seen, placing, dom, first, group, csGroup, faults>>
    BY DEF CountMachines, cluster, machines, groups
  <1>2. status' \in [replicas: Counts, ready: Counts] /\ RequeueTimeout
    BY CountedType DEF CountMachines
  <1> QED
    BY <1>1, <1>2, RequeueType DEF TypeOK

LEMMA CreateIs ==
    ASSUME TypeOK, CreateMachine
    PROVE  \E m \in Names, x \in Machine :
              /\ mach[m] = Absent /\ mach' = [mach EXCEPT ![m] = x] /\ x.vm = "none"
  <1>1. PICK m \in Fresh, pin \in (IF control THEN specSeen ELSE {None}) :
          mach' = [mach EXCEPT ![m] = [Absent EXCEPT !.capi = "up", !.pin = pin, !.queued = TRUE]]
    BY DEF CreateMachine
  <1>2. m \in Names /\ mach[m] = Absent /\ pin \in Domains \cup {None}
    BY DEF Fresh, TypeOK
  <1> DEFINE x == [Absent EXCEPT !.capi = "up", !.pin = pin, !.queued = TRUE]
  <1>3. x \in Machine /\ x.vm = "none"
    BY <1>2 DEF Absent, Machine
  <1> HIDE DEF x
  <1> QED
    BY <1>1, <1>2, <1>3 DEF x

LEMMA TypeCreate ==
    ASSUME TypeOK, CreateMachine
    PROVE  TypeOK'
  <1>1. UNCHANGED <<spec, specSeen, control, calm, seen, placing, dom, first, group, csGroup, faults>>
    BY DEF CreateMachine, cluster, groups
  <1>2. status' \in [replicas: Counts, ready: Counts] /\ RequeueTimeout
    BY CountedType DEF CreateMachine
  <1>3. PICK m \in Names, x \in Machine :
          mach[m] = Absent /\ mach' = [mach EXCEPT ![m] = x] /\ x.vm = "none"
    BY CreateIs
  <1>4. /\ mach' \in [Names -> Machine]
        /\ \A n \in Names : mach'[n].vm # "none" => mach'[n].fd # None
    BY <1>3 DEF TypeOK
  <1> QED
    BY <1>1, <1>2, <1>4, RequeueType DEF TypeOK

LEMMA TypeOthers ==
    ASSUME TypeOK, \/ ClusterReady \/ ClusterUnready \/ WatchSpec \/ WatchMachines \/ EditSpec
                   \/ \E f \in Domains : RemoveExtraneousFailureDomain(f)
    PROVE  TypeOK'
  <1>1. CASE ClusterReady \/ ClusterUnready
    <2>1. faults' \in 0..MaxFaults /\ calm' \in BOOLEAN
      BY <1>1, DisturbType DEF ClusterReady, ClusterUnready, TypeOK
    <2> QED
      BY <1>1, <2>1 DEF ClusterReady, ClusterUnready, TypeOK, machines, drain, groups
  <1>2. CASE WatchSpec
    BY <1>2 DEF WatchSpec, TypeOK, machines, drain, groups
  <1>3. CASE WatchMachines
    <2>1. seen' \in [Names -> Domains \cup {None}]
      BY <1>3 DEF WatchMachines, TypeOK, Machine
    <2> QED
      BY <1>3, <2>1 DEF WatchMachines, TypeOK, cluster, drain, groups
  <1>4. CASE EditSpec
    BY <1>4 DEF EditSpec, TypeOK, machines, drain, groups
  <1>5. CASE \E f \in Domains : RemoveExtraneousFailureDomain(f)
    BY <1>5 DEF RemoveExtraneousFailureDomain, TypeOK, cluster, machines, groups
  <1> QED
    BY <1>1, <1>2, <1>3, <1>4, <1>5

LEMMA QueuedType ==
    ASSUME NEW x \in Machine, NEW q \in BOOLEAN
    PROVE  /\ [x EXCEPT !.queued = q] \in Machine /\ [x EXCEPT !.queued = q].vm = x.vm
           /\ [x EXCEPT !.queued = q].fd = x.fd
  BY DEF Machine

LEMMA TypeRestart ==
    ASSUME TypeOK, Restart
    PROVE  TypeOK'
  <1>1. faults' \in 0..MaxFaults
    BY DisturbType DEF Restart
  <1>2. seen' \in [Names -> Domains \cup {None}]
    BY DEF Restart, TypeOK, Machine
  <1>3. /\ mach' \in [Names -> Machine]
        /\ \A n \in Names : mach'[n].vm # "none" => mach'[n].fd # None
    <2>1. \A m \in Names : /\ [mach[m] EXCEPT !.queued = @ \/ mach[m].pin \in Domains \ spec] \in Machine
                           /\ [mach[m] EXCEPT !.queued = @ \/ mach[m].pin \in Domains \ spec].vm = mach[m].vm
                           /\ [mach[m] EXCEPT !.queued = @ \/ mach[m].pin \in Domains \ spec].fd = mach[m].fd
      <3> TAKE m \in Names
      <3>1. mach[m] \in Machine
        BY DEF TypeOK
      <3>2. (mach[m].queued \/ mach[m].pin \in Domains \ spec) \in BOOLEAN
        OBVIOUS
      <3> QED
        BY <3>1, <3>2, QueuedType
    <2>2. \A m \in Names : mach[m].vm # "none" => mach[m].fd # None
      BY DEF TypeOK
    <2> QED
      BY <2>1, <2>2 DEF Restart
  <1> QED
    BY <1>1, <1>2, <1>3 DEF Restart, TypeOK

LEMMA TypeInit == Init => TypeOK
  <1> SUFFICES ASSUME Init PROVE TypeOK
    OBVIOUS
  <1>1. PICK place \in [1..Replicas -> Domains] :
          /\ mach = [m \in Names |->
                        IF m \notin 1..Replicas THEN Absent
                        ELSE Settled(place[m], IF control THEN place[m] ELSE None)]
          /\ csGroup = [f \in Domains |-> \E m \in 1..Replicas : place[m] = f]
          /\ seen = [m \in Names |-> mach[m].fd]
    BY DEF Init
  <1>2. \A m \in 1..Replicas : /\ Settled(place[m], IF control THEN place[m] ELSE None) \in Machine
                               /\ Settled(place[m], IF control THEN place[m] ELSE None).fd # None
    BY NamesType DEF Settled, Machine
  <1>3. /\ mach \in [Names -> Machine]
        /\ \A m \in Names : mach[m].vm # "none" => mach[m].fd # None
    BY <1>1, <1>2, AbsentType
  <1>4. seen \in [Names -> Domains \cup {None}] /\ csGroup \in [Domains -> BOOLEAN]
    BY <1>1, <1>3 DEF Machine
  <1>5. group \in [Domains -> Group]
    <2>1. [NewGroup EXCEPT !.fin = TRUE, !.ready = TRUE] \in Group
      BY AbsentType DEF Group
    <2> QED
      BY <2>1, AbsentType DEF Init
  <1>6. status \in [replicas: Counts, ready: Counts] /\ faults \in 0..MaxFaults
    BY ReplicasAssumption, BoundAssumption DEF Init, Counts
  <1> QED
    BY <1>3, <1>4, <1>5, <1>6 DEF Init, TypeOK

LEMMA TypeNext == TypeOK /\ [Next]_vars => TypeOK'
  <1> SUFFICES ASSUME TypeOK, [Next]_vars PROVE TypeOK'
    OBVIOUS
  <1>1. CASE UNCHANGED vars
    BY <1>1 DEF vars, cluster, machines, drain, groups, TypeOK
  <1>2. CASE Next
    BY <1>2, TypeGetAll, TypeClear, TypeOwned, TypeGroup, TypeMachine, TypeCount, TypeCreate,
       TypeOthers, TypeRestart DEF Next, DomainStep, Surroundings
  <1> QED
    BY <1>1, <1>2

\* Every variable has its type; a machine with a VM has a failure domain, and a
\* pass that is about to delete a machine, and no other, knows which one.
THEOREM TypeCorrect == Spec => []TypeOK
  BY TypeInit, TypeNext, PTL DEF Spec

(***************************************************************************)
(* One machine at a time.                                                  *)
(***************************************************************************)

\* Only the failure domain that was taken out of the spec is being drained.
OneDrained ==
    /\ spec \in {Domains, Domains \ {Removed}}
    /\ \A f \in Domains : dom[f] # "up" \/ pc[f] # "idle" => f = Removed

\* The status of the manager promises no more machines than are at work, except
\* between a deletion and the next count, for which the request waits; and a
\* pass on the way to a deletion has found all of them at work. It never says
\* zero, which the controller would not look at, if there are two replicas.
Counting ==
    /\ pc[Removed] # "requeued" => Cardinality(Ready) >= status.ready
    /\ pc[Removed] = "clear" => Cardinality(Ready) >= Replicas
    /\ Cardinality(Ready) + 1 >= Replicas /\ status.ready + 1 >= Replicas

\* The manager process has not restarted.
Steady == faults = 0 \/ "restart" \notin Disturbances

DrainInv ==
    /\ TypeOK /\ OneDrained
    /\ Steady => /\ \A m \in Names : Quiet(mach[m], placing[m])
                 /\ Counting

LEMMA ReadyIs ==
    /\ Ready = {m \in Names : Works(mach[m])} /\ Ready' = {m \in Names : Works(mach'[m])}
    /\ IsFiniteSet(Ready) /\ Cardinality(Ready) \in Nat
    /\ IsFiniteSet(Ready') /\ Cardinality(Ready') \in Nat
  <1>1. /\ Ready = {m \in Names : Works(mach[m])} /\ Ready' = {m \in Names : Works(mach'[m])}
    BY DEF Ready, Up, Works
  <1> QED
    BY <1>1, CountsType

LEMMA ReadyGrows ==
    ASSUME \A m \in Names : Works(mach[m]) => Works(mach'[m])
    PROVE  Cardinality(Ready) <= Cardinality(Ready')
  <1>1. Ready \subseteq Ready'
    BY ReadyIs
  <1> QED
    BY <1>1, ReadyIs, FS_Subset

LEMMA CountingKept ==
    ASSUME TypeOK, TypeOK', Counting, Cardinality(Ready) <= Cardinality(Ready'), status' = status,
           pc'[Removed] # "requeued" => pc[Removed] # "requeued",
           pc'[Removed] = "clear" => pc[Removed] = "clear"
    PROVE  Counting'
  <1>1. status.ready \in Nat /\ Replicas \in Nat
    BY ReplicasAssumption DEF TypeOK, Counts
  <1> QED
    BY <1>1, ReadyIs DEF Counting

LEMMA OneDrainedNext ==
    ASSUME TypeOK, OneDrained, Next
    PROVE  OneDrained'
  <1>1. Removed \in Domains
    BY NamesType
  <1>2. ASSUME NEW f \in Domains, DomainStep(f) PROVE OneDrained'
    <2>1. f = Removed
      BY <1>2 DEF DomainStep, GetAllMachines, ClearMachines, DeleteOwnedObjects,
                  CheckOwnedObjectsDeleted, RemoveFinalizer,
                  OneDrained
    <2>2. spec' = spec /\ \A g \in Domains \ {f} : pc'[g] = pc[g] /\ dom'[g] = dom[g]
      BY <1>2 DEF DomainStep, GetAllMachines, ClearMachines, DeleteOwnedObjects,
                  CheckOwnedObjectsDeleted, RemoveFinalizer,
                  Goto, cluster, TypeOK
    <2> QED
      BY <2>1, <2>2 DEF OneDrained
  <1>3. ASSUME NEW f \in Domains, GroupStep(f) PROVE OneDrained'
    BY <1>3 DEF GroupStep, ReconcileGroup, DeleteAffinityGroup, cluster, drain, OneDrained
  <1>4. ASSUME NEW f \in Domains, RemoveExtraneousFailureDomain(f) PROVE OneDrained'
    <2>1. f = Removed
      BY <1>4 DEF RemoveExtraneousFailureDomain, OneDrained
    <2> QED
      BY <1>4, <2>1 DEF RemoveExtraneousFailureDomain, cluster, OneDrained, TypeOK
  <1>5. ASSUME NEW m \in Names, MachineStep(m) PROVE OneDrained'
    BY <1>5, MachineStepIs DEF OneDrained
  <1>6. CASE CountMachines \/ CreateMachine
    <2>1. RequeueTimeout /\ spec' = spec /\ dom' = dom
      BY <1>6 DEF CountMachines, CreateMachine, cluster
    <2> QED
      BY <2>1, RequeueType DEF OneDrained
  <1>7. CASE ClusterReady \/ ClusterUnready \/ WatchSpec \/ WatchMachines \/ EditSpec
    BY <1>7 DEF ClusterReady, ClusterUnready, WatchSpec, WatchMachines, EditSpec, cluster, drain, OneDrained
  <1>8. CASE Restart
    BY <1>8 DEF Restart, OneDrained
  <1> QED
    BY <1>2, <1>3, <1>4, <1>5, <1>6, <1>7, <1>8 DEF Next, Surroundings

LEMMA SteadyNext ==
    ASSUME TypeOK, Next, Steady'
    PROVE  Steady /\ ~Restart
  <1> SUFFICES ASSUME "restart" \in Disturbances \/ Restart PROVE Steady /\ ~Restart
    BY DEF Steady
  <1>1. "restart" \in Disturbances /\ faults' = 0
    BY DEF Steady, Restart, Disturb
  <1>2. ~ClusterUnready /\ ~Restart
    BY <1>1, DisturbType DEF ClusterUnready, Restart
  <1>3. ASSUME NEW f \in Domains, GroupStep(f) PROVE faults = 0
    BY <1>1, <1>3, DisturbType DEF GroupStep, ReconcileGroup, DeleteAffinityGroup, GetOrCreate,
                                   FetchAndDelete
  <1>4. ASSUME NEW f \in Domains, DomainStep(f) \/ RemoveExtraneousFailureDomain(f) PROVE faults = 0
    BY <1>1, <1>4 DEF DomainStep, GetAllMachines, ClearMachines, DeleteOwnedObjects,
                      CheckOwnedObjectsDeleted, RemoveFinalizer,
                      RemoveExtraneousFailureDomain
  <1>5. ASSUME NEW m \in Names, MachineStep(m) PROVE faults = 0
    BY <1>1, <1>5, MachineStepIs
  <1>6. Surroundings \/ EditSpec => faults = 0
    BY <1>1 DEF Surroundings, CountMachines, CreateMachine, ClusterReady, WatchSpec, WatchMachines, EditSpec
  <1> QED
    BY <1>2, <1>3, <1>4, <1>5, <1>6 DEF Next, Steady

\* The step that deletes a machine takes one away, after all were found at work.
LEMMA ClearCounts ==
    ASSUME TypeOK, TypeOK', Counting, ClearMachines(Removed)
    PROVE  Counting'
  <1>1. Removed \in Domains /\ Replicas \in Nat
    BY NamesType, ReplicasAssumption
  <1> DEFINE m == first[Removed]
  <1>2. /\ m \in Names /\ pc[Removed] = "clear" /\ status' = status
        /\ pc' = [pc EXCEPT ![Removed] = IF mach[m].capi = "up" THEN "requeued" ELSE "idle"]
        /\ mach' = [mach EXCEPT ![m] = Deleted(mach[m])]
    BY <1>1, ClearMachinesIs
  <1> HIDE DEF m
  <1>3. pc'[Removed] = IF mach[m].capi = "up" THEN "requeued" ELSE "idle"
    BY <1>1, <1>2 DEF TypeOK
  <1>4. \A n \in Names : n # m => mach'[n] = mach[n]
    BY <1>2 DEF TypeOK
  <1>5. CASE mach[m].capi = "up"
    <2>1. Ready \ {m} \subseteq Ready'
      BY <1>4, ReadyIs
    <2>2. Cardinality(Ready \ {m}) <= Cardinality(Ready') /\ IsFiniteSet(Ready \ {m})
      BY <2>1, ReadyIs, FS_Subset
    <2>3. Cardinality(Ready \ {m}) = IF m \in Ready THEN Cardinality(Ready) - 1 ELSE Cardinality(Ready)
      BY ReadyIs, FS_RemoveElement
    <2>4. Cardinality(Ready) >= Replicas
      BY <1>2 DEF Counting
    <2>5. Cardinality(Ready') + 1 >= Replicas
      BY <1>1, <2>2, <2>3, <2>4, ReadyIs
    <2> QED
      BY <1>2, <1>3, <1>5, <2>5 DEF Counting
  <1>6. CASE mach[m].capi # "up"
    <2>1. \A n \in Names : Works(mach[n]) => Works(mach'[n])
      BY <1>4, <1>6 DEF Works
    <2>2. Cardinality(Ready) <= Cardinality(Ready')
      BY <2>1, ReadyGrows
    <2> QED
      BY <1>2, <1>3, <1>6, <2>2, CountingKept
  <1> QED
    BY <1>5, <1>6

LEMMA DrainNext == DrainInv /\ [Next]_vars => DrainInv'
  <1> SUFFICES ASSUME DrainInv, Next PROVE DrainInv'
    <2>1. DrainInv /\ UNCHANGED vars => DrainInv'
      <3> SUFFICES ASSUME DrainInv, UNCHANGED vars PROVE DrainInv'
        OBVIOUS
      <3>1. TypeOK'
        BY TypeNext DEF DrainInv
      <3>2. Ready' = Ready
        BY ReadyIs DEF vars, machines
      <3> QED
        BY <3>1, <3>2 DEF DrainInv, OneDrained, Counting, Steady, vars, cluster, machines, drain
    <2> QED
      BY <2>1
  <1>1. TypeOK /\ TypeOK' /\ OneDrained /\ OneDrained' /\ Removed \in Domains
    BY TypeNext, OneDrainedNext, NamesType DEF DrainInv
  <1> SUFFICES ASSUME Steady'
               PROVE  /\ \A m \in Names : Quiet(mach'[m], placing'[m])
                      /\ Counting'
    BY <1>1 DEF DrainInv
  <1>2. /\ ~Restart /\ Counting
        /\ \A m \in Names : Quiet(mach[m], placing[m])
    BY <1>1, SteadyNext DEF DrainInv
  <1> DEFINE Goal == (\A m \in Names : Quiet(mach'[m], placing'[m])) /\ Counting'
  <1>3. ASSUME mach' = mach, placing' = placing, status' = status, pc' = pc PROVE Goal
    <2>1. Cardinality(Ready) <= Cardinality(Ready')
      BY <1>3, ReadyGrows
    <2> QED
      BY <1>1, <1>2, <1>3, <2>1, CountingKept
  <1>4. ASSUME NEW f \in Domains, DomainStep(f) PROVE Goal
    <2>1. f = Removed
      BY <1>1, <1>4 DEF DomainStep, GetAllMachines, ClearMachines, DeleteOwnedObjects, CheckOwnedObjectsDeleted,
                        RemoveFinalizer, OneDrained
    <2>2. CASE ClearMachines(f)
      <3>1. Counting'
        BY <1>1, <1>2, <2>1, <2>2, ClearCounts
      <3>2. first[f] \in Names /\ mach' = [mach EXCEPT ![first[f]] = Deleted(mach[first[f]])]
            /\ placing' = placing
        BY <1>1, <2>2, ClearMachinesIs
      <3>3. mach[first[f]] \in Machine /\ mach \in [Names -> Machine]
        BY <1>1, <3>2 DEF TypeOK
      <3>4. \A m \in Names : mach'[m].vm = mach[m].vm /\ mach'[m].queued = mach[m].queued
        BY <3>2, <3>3, DeletedType
      <3> QED
        BY <1>2, <3>1, <3>2, <3>4 DEF Quiet
    <2>3. CASE ~ClearMachines(f)
      <3>1. mach' = mach /\ placing' = placing /\ status' = status
        BY <1>4, <2>3 DEF DomainStep, GetAllMachines, DeleteOwnedObjects,
                          CheckOwnedObjectsDeleted, RemoveFinalizer, machines
      <3>2. Cardinality(Ready) <= Cardinality(Ready')
        BY <3>1, ReadyGrows
      <3>3. pc[f] # "requeued"
        BY <1>4 DEF DomainStep, GetAllMachines, ClearMachines, DeleteOwnedObjects,
                    CheckOwnedObjectsDeleted, RemoveFinalizer
      <3>4. pc'[f] = "clear" => pc[f] = "idle" /\ CanBeRemoved
        BY <1>1, <1>4, <2>3 DEF DomainStep, GetAllMachines, DeleteOwnedObjects,
                                CheckOwnedObjectsDeleted, RemoveFinalizer,
                                Goto, TypeOK
      <3>5. CASE pc'[f] # "clear"
        BY <1>1, <1>2, <2>1, <3>1, <3>2, <3>3, <3>5, CountingKept
      <3>6. CASE pc'[f] = "clear"
        <4>1. status.ready = Replicas /\ Replicas \in Nat /\ Cardinality(Ready) >= Replicas
          BY <1>2, <2>1, <3>3, <3>4, <3>6, ReplicasAssumption DEF CanBeRemoved, Counting
        <4>2. Cardinality(Ready') >= Replicas
          BY <3>2, <4>1, ReadyIs
        <4> QED
          BY <1>2, <3>1, <4>1, <4>2, ReadyIs DEF Counting
      <3> QED
        BY <3>5, <3>6
    <2> QED
      BY <2>2, <2>3
  <1>5. ASSUME NEW f \in Domains, GroupStep(f) \/ RemoveExtraneousFailureDomain(f) PROVE Goal
    BY <1>3, <1>5 DEF GroupStep, ReconcileGroup, DeleteAffinityGroup,
                      RemoveExtraneousFailureDomain, machines, drain
  <1>6. ASSUME NEW m \in Names, MachineStep(m) PROVE Goal
    <2>1. PICK x \in Machine : Becomes(m, x)
      BY <1>1, <1>6, MachineStepIs
    <2>2. /\ status' = status /\ pc' = pc /\ \A n \in Names \ {m} : placing'[n] = placing[n]
      BY <1>1, <1>6, MachineStepIs
    <2>3. mach'[m] = x /\ \A n \in Names \ {m} : mach'[n] = mach[n]
      BY <1>1, <2>1 DEF Becomes, TypeOK
    <2>4. Quiet(x, placing'[m]) /\ (Works(mach[m]) => Works(x))
      BY <1>2, <2>1 DEF Becomes
    <2>5. \A n \in Names : Quiet(mach'[n], placing'[n]) /\ (Works(mach[n]) => Works(mach'[n]))
      BY <1>2, <2>2, <2>3, <2>4
    <2>6. Cardinality(Ready) <= Cardinality(Ready')
      BY <2>5, ReadyGrows
    <2> QED
      BY <1>1, <1>2, <2>2, <2>5, <2>6, CountingKept
  <1>7. ASSUME CountMachines \/ CreateMachine PROVE Goal
    <2>1. \A m \in Names : Quiet(mach'[m], placing'[m]) /\ (Works(mach[m]) => Works(mach'[m]))
      <3>1. CASE CountMachines
        BY <1>2, <3>1 DEF CountMachines, machines
      <3>2. CASE CreateMachine
        <4>1. PICK m \in Names, x \in Machine :
                mach[m] = Absent /\ mach' = [mach EXCEPT ![m] = x] /\ x.vm = "none"
          BY <1>1, <3>2, CreateIs
        <4>2. placing' = placing
          BY <3>2 DEF CreateMachine
        <4>3. mach'[m] = x /\ \A n \in Names \ {m} : mach'[n] = mach[n]
          BY <1>1, <4>1 DEF TypeOK
        <4>4. ~Works(mach[m]) /\ Quiet(mach'[m], placing'[m])
          BY <4>1, <4>3, AbsentType DEF Works, Quiet
        <4> QED
          BY <1>2, <4>2, <4>3, <4>4
      <3> QED
        BY <1>7, <3>1, <3>2
    <2>2. status'.ready = Cardinality(Ready) /\ RequeueTimeout
      <3>1. status' = Counted /\ RequeueTimeout
        BY <1>7 DEF CountMachines, CreateMachine
      <3> QED
        BY <3>1 DEF Counted
    <2>3. Cardinality(Ready) <= Cardinality(Ready')
      BY <2>1, ReadyGrows
    <2>4. pc'[Removed] = "clear" => pc[Removed] = "clear"
      BY <1>1, <2>2, RequeueType
    <2>5. Counting'
      BY <1>2, <2>2, <2>3, <2>4, ReadyIs, ReplicasAssumption DEF Counting
    <2> QED
      BY <2>1, <2>5
  <1>8. ASSUME ClusterReady \/ ClusterUnready \/ WatchSpec \/ WatchMachines \/ EditSpec PROVE Goal
    BY <1>3, <1>8 DEF ClusterReady, ClusterUnready, WatchSpec, WatchMachines, EditSpec, machines, drain
  <1> HIDE DEF Goal
  <1>9. Goal
    BY <1>2, <1>4, <1>5, <1>6, <1>7, <1>8 DEF Next, Surroundings
  <1> QED
    BY <1>9 DEF Goal

LEMMA DrainInit == Init => DrainInv
  <1> SUFFICES ASSUME Init PROVE DrainInv
    OBVIOUS
  <1>1. TypeOK /\ Removed \in Domains /\ Replicas \in Nat
    BY TypeInit, NamesType, ReplicasAssumption
  <1>2. OneDrained
    BY DEF Init, OneDrained
  <1>3. PICK place \in [1..Replicas -> Domains] :
          mach = [m \in Names |->
                    IF m \notin 1..Replicas THEN Absent
                    ELSE Settled(place[m], IF control THEN place[m] ELSE None)]
    BY DEF Init
  <1>4. \A f, p : Works(Settled(f, p)) /\ ~Settled(f, p).queued
    BY DEF Works, Settled
  <1>5. \A m \in Names : /\ m \in 1..Replicas => Works(mach[m]) /\ ~mach[m].queued
                         /\ m \notin 1..Replicas => mach[m] = Absent
    BY <1>3, <1>4
  <1>6. \A m \in Names : placing[m] = None
    BY DEF Init
  <1>7. \A m \in Names : Quiet(mach[m], placing[m])
    BY <1>5, <1>6, AbsentType DEF Quiet
  <1>8. Ready = 1..Replicas
    <2>1. 1..Replicas \subseteq Names
      BY ReplicasAssumption DEF Names
    <2>2. ~Works(Absent)
      BY AbsentType DEF Works
    <2> QED
      BY <1>5, <2>1, <2>2, ReadyIs
  <1>9. Cardinality(Ready) = Replicas
    BY <1>1, <1>8, FS_Interval
  <1>10. status.ready = Replicas
    BY DEF Init
  <1>11. Counting
    BY <1>1, <1>9, <1>10 DEF Counting
  <1> QED
    BY <1>1, <1>2, <1>7, <1>11 DEF DrainInv

\* RequeueIfMachineCannotBeRemoved and ClearMachines: as long as nothing else
\* goes wrong, draining a failure domain leaves all replicas but one at work,
\* for any number of replicas, although the controller decides on a status that
\* is counted by someone else and on machines it knows from a cache.
THEOREM DrainsOneAtATime == Spec => []OneAtATime
  <1>1. DrainInv => OneAtATime
    BY DEF DrainInv, Counting, Steady, OneAtATime
  <1> QED
    BY <1>1, DrainInit, DrainNext, PTL DEF Spec

\* The same for failed CloudStack calls and a cluster that is not ready for a
\* while: only a restart, after which a machine outside the spec deletes itself,
\* takes a second machine away.
THEOREM OnlyRestartsTakeTwo == "restart" \notin Disturbances => (Spec => []NeverTwoAway)
  <1> SUFFICES ASSUME "restart" \notin Disturbances PROVE Spec => []NeverTwoAway
    OBVIOUS
  <1>1. DrainInv => NeverTwoAway
    BY DEF DrainInv, Counting, Steady, NeverTwoAway
  <1> QED
    BY <1>1, DrainInit, DrainNext, PTL DEF Spec
=============================================================================
