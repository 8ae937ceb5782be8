------------------------- MODULE FailureDomainDrain -------------------------
(***************************************************************************)
(* Removing a failure domain that has machines: the failure domain         *)
(* controller deletes them one after the other while their manager (a      *)
(* control plane or a machine set) replaces them, the machine controller   *)
(* places the replacements, and affinity groups come and go with both.     *)
(*                                                                         *)
(* A machine's failure domain is chosen in a pass's copy and stored, with  *)
(* the label by which GetAllMachinesInFailureDomain finds it, by the       *)
(* deferred patch at the end of the pass. Typed objects are read from the  *)
(* informer cache, the manager (unstructured) from the API server.         *)
(*                                                                         *)
(* Simplifications: the machines have one manager and ask for affinity, so *)
(* there is one affinity group for each failure domain; a CAPI Machine and *)
(* its CloudStackMachine come and go together; a pass of the affinity      *)
(* group controller is one step, and the caches of affinity groups and     *)
(* failure domains are current, since a pass between PlaceMachine and      *)
(* DeployMachine already acts on old copies of them; what happens inside a *)
(* deployment or a deletion is the subject of module MachineLifecycle.     *)
(***************************************************************************)
EXTENDS Naturals, FiniteSets

CONSTANTS
    Domains,       \* failure domains
    Removed,       \* the one that is taken out of the spec
    Replicas,      \* replicas in the manager's spec
    MaxMachines,   \* bound on the number of machines at a time
    None,          \* an empty field
    Disturbances,  \* which kinds of disturbance may happen
    MaxFaults      \* bound on the number of disturbances

ASSUME DomainAssumption == None \notin Domains /\ Removed \in Domains /\ Domains # {Removed}
ASSUME ReplicasAssumption == Replicas \in Nat /\ MaxMachines \in Nat /\ Replicas <= MaxMachines
ASSUME BoundAssumption ==
    MaxFaults \in Nat /\ Disturbances \subseteq {"restart", "unready", "error"}

VARIABLES
    spec,      \* the failure domains in the CloudStackCluster's spec
    specSeen,  \* the informer cache's copy of it
    control,   \* the manager is a control plane, for which CAPI chooses
    calm,      \* the CAPI Cluster is not marked as not ready
    status,    \* the manager's status
    mach,      \* mach[m]: the stored machine
    seen,      \* seen[m]: its failure domain label in the informer cache
    placing,   \* placing[m]: the failure domain a running pass deploys m in
    dom,       \* dom[f]: the failure domain object
    pc,        \* pc[f]: the next step of the pass that deletes it
    first,     \* first[f]: the machine that pass will delete
    group,     \* group[f]: the CloudStackAffinityGroup
    csGroup,   \* csGroup[f]: the affinity group exists in CloudStack
    faults     \* disturbances so far

cluster  == <<spec, specSeen, control, calm>>
machines == <<mach, seen, placing>>
groups   == <<group, csGroup>>
drain    == <<dom, pc, first>>
vars     == <<cluster, status, machines, drain, groups, faults>>

\* Machine names are numbers, so that they can be sorted.
Names  == 1..MaxMachines
NoName == 0
Counts == 0..MaxMachines

\* pin: the failure domain CAPI gave the Machine; fd: the one that is stored
\* with the CloudStackMachine; queued: in the machine controller's queue.
Machine == [capi: {"none", "up", "deleting"}, pin: Domains \cup {None},
            fd: Domains \cup {None}, vm: {"none", "up", "ready"}, queued: BOOLEAN]

\* An affinity group object.
Group == [exists: BOOLEAN, deleting: BOOLEAN, fin: BOOLEAN, ready: BOOLEAN]

Absent == [capi |-> "none", pin |-> None, fd |-> None, vm |-> "none", queued |-> FALSE]
NoGroup == [exists |-> FALSE, deleting |-> FALSE, fin |-> FALSE, ready |-> FALSE]
NewGroup == [NoGroup EXCEPT !.exists = TRUE]

\* Every variable has its type; a machine with a VM has a failure domain, and
\* only a pass about to delete a machine knows one.
TypeOK ==
    /\ spec \in SUBSET Domains /\ specSeen \in SUBSET Domains /\ control \in BOOLEAN /\ calm \in BOOLEAN
    /\ status \in [replicas: Counts, ready: Counts]
    /\ mach \in [Names -> Machine]
    /\ \A m \in Names : mach[m].vm # "none" => mach[m].fd # None
    /\ seen \in [Names -> Domains \cup {None}] /\ placing \in [Names -> Domains \cup {None}]
    /\ dom \in [Domains -> {"up", "deleting", "gone"}]
    /\ pc \in [Domains -> {"idle", "clear", "requeued", "delete", "owned", "remove"}]
    /\ first \in [Domains -> Names \cup {NoName}]
    /\ \A f \in Domains : pc[f] = "clear" <=> first[f] # NoName
    /\ group \in [Domains -> Group]
    /\ csGroup \in [Domains -> BOOLEAN]
    /\ faults \in 0..MaxFaults

Up    == {m \in Names : mach[m].capi = "up"}
Ready == {m \in Up : mach[m].vm = "ready"}

Disturb(kind) ==
    /\ kind \in Disturbances
    /\ faults < MaxFaults
    /\ faults' = faults + 1

(***************************************************************************)
(* The failure domain controller: ReconcileDelete.                         *)
(***************************************************************************)
Goto(f, next) == pc' = [pc EXCEPT ![f] = next]
Known(f) == {m \in Names : seen[m] = f}
FirstByName(S) == CHOOSE m \in S : \A n \in S : m <= n

\* Variation of CanBeRemoved: replicas that are not ready yet count.
CanBeRemovedUnready == status.replicas = Replicas /\ Replicas >= 2

\* The manager as RequeueIfMachineCannotBeRemoved wants it. A count of ready
\* replicas that is not in the status, as a zero may be, is not looked at; the
\* manager's status.ready, if there is one, holds while a replica is ready.
CanBeRemoved ==
    status.replicas = Replicas /\ Replicas >= 2 /\ status.ready \in {0, status.replicas}

\* The stages that read: GetAllMachinesInFailureDomain,
\* RequeueIfClusterNotReady and RequeueIfMachineCannotBeRemoved. A pass that
\* is requeued changes nothing.
GetAllMachines(f) ==
    /\ dom[f] = "deleting" /\ pc[f] = "idle"
    /\ \/ /\ Known(f) = {} /\ Goto(f, "delete") /\ UNCHANGED first
       \/ /\ Known(f) # {} /\ calm /\ CanBeRemoved /\ Goto(f, "clear")
          /\ first' = [first EXCEPT ![f] = FirstByName(Known(f))]
    /\ UNCHANGED <<cluster, status, machines, dom, groups, faults>>

Deleted(m) == [m EXCEPT !.capi = IF @ = "up" THEN "deleting" ELSE @]

\* The first machine is deleted, unless it is already being deleted. Either
\* way the request is requeued.
ClearMachines(f) ==
    /\ pc[f] = "clear"
    /\ Goto(f, IF mach[first[f]].capi = "up" THEN "requeued" ELSE "idle")
    /\ mach' = [mach EXCEPT ![first[f]] = Deleted(@)]
    /\ first' = [first EXCEPT ![f] = NoName]
    /\ UNCHANGED <<cluster, status, seen, placing, dom, groups, faults>>

\* A group without its finalizer goes at once.
DeleteGroup(g) ==
    IF g.exists /\ g.fin THEN [g EXCEPT !.deleting = TRUE] ELSE NoGroup

\* Variation of DeleteOwnedObjects: affinity groups are forgotten.
DeleteOwnedNetworks(f) ==
    /\ pc[f] = "delete" /\ Goto(f, "owned")
    /\ UNCHANGED <<cluster, status, machines, dom, first, groups, faults>>

DeleteOwnedObjects(f) ==
    /\ pc[f] = "delete" /\ Goto(f, "owned")
    /\ group' = [group EXCEPT ![f] = DeleteGroup(@)]
    /\ UNCHANGED <<cluster, status, machines, dom, first, csGroup, faults>>

\* Queued again while the group is there.
CheckOwnedObjectsDeleted(f) ==
    /\ pc[f] = "owned" /\ Goto(f, IF group[f].exists THEN "idle" ELSE "remove")
    /\ UNCHANGED <<cluster, status, machines, dom, first, groups, faults>>

\* RemoveFinalizer and the deferred patch.
RemoveFinalizer(f) ==
    /\ pc[f] = "remove" /\ Goto(f, "idle")
    /\ dom' = [dom EXCEPT ![f] = "gone"]
    /\ UNCHANGED <<cluster, status, machines, first, groups, faults>>

(***************************************************************************)
(* The affinity group controller.                                          *)
(***************************************************************************)

\* The client's FetchAffinityGroup and CreateAffinityGroup: the group is there
\* afterwards, or a call fails and it may be.
GetOrCreate(f, done) ==
    \/ done /\ csGroup' = [csGroup EXCEPT ![f] = TRUE] /\ UNCHANGED faults
    \/ /\ ~done /\ Disturb("error")
       /\ \E there \in {csGroup[f], TRUE} : csGroup' = [csGroup EXCEPT ![f] = there]

\* Reconcile. The deferred patch adds the finalizer in any case.
ReconcileGroup(f) ==
    /\ group[f].exists /\ ~group[f].deleting /\ ~group[f].ready
    /\ dom[f] # "gone"
    /\ \E done \in BOOLEAN :
          /\ GetOrCreate(f, done)
          /\ group' = [group EXCEPT ![f].fin = TRUE, ![f].ready = done]
    /\ UNCHANGED <<cluster, status, machines, drain>>

\* The client's FetchAffinityGroup and DeleteAffinityGroup, as ReconcileDelete
\* takes them: an error of the former counts as "not there", an error of the
\* latter, whether or not the group is gone, is returned.
FetchAndDelete(f, done) ==
    \/ done /\ csGroup' = [csGroup EXCEPT ![f] = FALSE] /\ UNCHANGED faults
    \/ done /\ Disturb("error") /\ UNCHANGED csGroup
    \/ /\ ~done /\ Disturb("error")
       /\ \E there \in {csGroup[f], FALSE} : csGroup' = [csGroup EXCEPT ![f] = there]

\* ReconcileDelete.
DeleteAffinityGroup(f) ==
    /\ group[f].deleting /\ dom[f] # "gone"
    /\ \E done \in BOOLEAN :
          /\ FetchAndDelete(f, done)
          /\ group' = [group EXCEPT ![f] = IF done THEN NoGroup ELSE @]
    /\ UNCHANGED <<cluster, status, machines, drain>>

(***************************************************************************)
(* The machine controller.                                                 *)
(***************************************************************************)

\* SetFailureDomainOnCSMachine: the stored one, CAPI's, or any in the spec.
Choices(m) ==
    IF mach[m].fd # None THEN {mach[m].fd}
    ELSE IF mach[m].pin # None THEN {mach[m].pin} ELSE specSeen

\* DeleteMachineIfFailuredomainNotExist; the pass goes on.
Delisted(m) == mach[m].pin # None /\ mach[m].pin \notin specSeen
Checked(m) == IF Delisted(m) THEN Deleted(mach[m]) ELSE mach[m]

\* GetOrCreateAffinityGroup: created unless the cache has it or it exists.
GetOrCreateAffinityGroup(f) ==
    group' = IF group[f].exists THEN group
             ELSE [group EXCEPT ![f] = NewGroup]

\* A pass up to the deployment. Wherever it ends earlier, its patch stores the
\* failure domain; with a group that is ready the deployment comes first.
PlaceMachine(m) ==
    /\ mach[m].capi = "up" /\ mach[m].queued /\ placing[m] = None
    /\ \E f \in Choices(m) :
          \/ /\ dom[f] = "gone"
             /\ mach' = [mach EXCEPT ![m].fd = f]
             /\ UNCHANGED <<placing, group>>
          \/ /\ dom[f] # "gone" /\ ~group[f].ready
             /\ GetOrCreateAffinityGroup(f)
             /\ mach' = [mach EXCEPT ![m] = [Checked(m) EXCEPT !.fd = f]]
             /\ UNCHANGED placing
          \/ /\ dom[f] # "gone" /\ group[f].ready /\ mach[m].vm = "none"
             /\ mach' = [mach EXCEPT ![m] = Checked(m)]
             /\ placing' = [placing EXCEPT ![m] = f] /\ UNCHANGED group
          \/ /\ dom[f] # "gone" /\ group[f].ready /\ mach[m].vm # "none"
             /\ mach' = [mach EXCEPT ![m] = [Checked(m) EXCEPT !.queued = FALSE]]
             /\ UNCHANGED <<placing, group>>
    /\ UNCHANGED <<cluster, status, seen, drain, csGroup, faults>>

\* Variation of DeployMachine: the failure domain is not stored.
DeployUnlabelled(m) ==
    /\ placing[m] # None
    /\ placing' = [placing EXCEPT ![m] = None]
    /\ mach' = [mach EXCEPT ![m].vm = "up", ![m].queued = FALSE]
    /\ UNCHANGED <<cluster, status, seen, drain, groups, faults>>

\* GetOrCreateVMInstance and the deferred patch; CloudStack refuses to deploy
\* into a group that does not exist.
DeployMachine(m) ==
    LET f == placing[m]
    IN  /\ f # None
        /\ placing' = [placing EXCEPT ![m] = None]
        /\ mach' = [mach EXCEPT ![m] =
              IF csGroup[f] THEN [@ EXCEPT !.fd = f, !.vm = "up", !.queued = FALSE]
              ELSE [@ EXCEPT !.fd = f]]
        /\ UNCHANGED <<cluster, status, seen, drain, groups, faults>>

\* ReconcileDelete: a VM is destroyed with the credentials of the failure
\* domain.
DestroyMachine(m) ==
    /\ mach[m].capi = "deleting" /\ placing[m] = None
    /\ mach[m].vm # "none" => dom[mach[m].fd] # "gone"
    /\ mach' = [mach EXCEPT ![m] = Absent]
    /\ UNCHANGED <<cluster, status, seen, placing, drain, groups, faults>>

(***************************************************************************)
(* Everyone else.                                                          *)
(***************************************************************************)

\* The user takes a failure domain out of the spec; the webhook insists that
\* one of the old ones stays. The cluster controller deletes its object.
EditSpec ==
    /\ spec = Domains
    /\ spec' = Domains \ {Removed}
    /\ UNCHANGED <<specSeen, control, calm, status, machines, drain, groups, faults>>

RemoveExtraneousFailureDomain(f) ==
    /\ f \notin spec /\ dom[f] = "up"
    /\ dom' = [dom EXCEPT ![f] = "deleting"]
    /\ UNCHANGED <<cluster, status, machines, pc, first, groups, faults>>

\* A pass of the manager counts the machines that are not being deleted and
\* then replaces a missing one, which the next pass counts.
Counted == [replicas |-> Cardinality(Up), ready |-> Cardinality(Ready)]

\* A request comes back from its requeue after RequeueTimeout. An assumption on
\* time, which nothing in the code enforces: that is longer than the manager
\* needs to notice a deletion, so that it has counted before.
Requeued == {f \in Domains : pc[f] = "requeued"}
RequeueTimeout == pc' = [f \in Domains |-> IF f \in Requeued THEN "idle" ELSE pc[f]]

CountMachines ==
    /\ status # Counted \/ Requeued # {}
    /\ status' = Counted /\ RequeueTimeout
    /\ UNCHANGED <<cluster, machines, dom, first, groups, faults>>

Fresh == {m \in Names : mach[m] = Absent /\ seen[m] = None /\ \A f \in Domains : first[f] # m}

CreateMachine ==
    /\ Cardinality(Up) < Replicas
    /\ \E m \in Fresh, pin \in (IF control THEN specSeen ELSE {None}) :
          mach' = [mach EXCEPT ![m] = [Absent EXCEPT !.capi = "up", !.pin = pin, !.queued = TRUE]]
    /\ status' = Counted /\ RequeueTimeout
    /\ UNCHANGED <<cluster, seen, placing, dom, first, groups, faults>>

NodeJoins(m) ==
    /\ mach[m].vm = "up"
    /\ mach' = [mach EXCEPT ![m].vm = "ready"]
    /\ UNCHANGED <<cluster, status, seen, placing, drain, groups, faults>>

\* Events reach the caches in order.
WatchSpec ==
    /\ specSeen # spec /\ specSeen' = spec
    /\ UNCHANGED <<spec, control, calm, status, machines, drain, groups, faults>>

WatchMachines ==
    /\ seen' = [m \in Names |-> mach[m].fd] /\ seen' # seen
    /\ UNCHANGED <<cluster, status, mach, placing, drain, groups, faults>>

\* The CAPI Cluster is marked as not ready for a while.
ClusterUnready ==
    /\ Disturb("unready") /\ calm /\ calm' = FALSE
    /\ UNCHANGED <<spec, specSeen, control, status, machines, drain, groups>>

ClusterReady ==
    /\ ~calm /\ calm' = TRUE
    /\ UNCHANGED <<spec, specSeen, control, status, machines, drain, groups, faults>>

\* The manager process restarts: passes are lost, caches are filled anew, and
\* every object is queued. The pass of a machine that has its VM changes
\* nothing unless CAPI chose a failure domain that is not in the spec.
Restart ==
    /\ Disturb("restart")
    /\ specSeen' = spec /\ seen' = [m \in Names |-> mach[m].fd]
    /\ mach' = [m \in Names |-> [mach[m] EXCEPT !.queued = @ \/ mach[m].pin \in Domains \ spec]]
    /\ placing' = [m \in Names |-> None]
    /\ pc' = [f \in Domains |-> "idle"] /\ first' = [f \in Domains |-> NoName]
    /\ UNCHANGED <<spec, control, calm, status, dom, group, csGroup>>

(***************************************************************************)
(* The specification.                                                      *)
(***************************************************************************)

\* A cluster at work: all replicas are ready, one at least in the failure
\* domain that goes.
Settled(f, pin) == [capi |-> "up", pin |-> pin, fd |-> f, vm |-> "ready", queued |-> FALSE]

Init ==
    /\ spec = Domains /\ specSeen = spec /\ control \in BOOLEAN /\ calm = TRUE
    /\ status = [replicas |-> Replicas, ready |-> Replicas]
    /\ \E place \in [1..Replicas -> Domains] :
          /\ place[1] = Removed
          /\ mach = [m \in Names |->
                        IF m \notin 1..Replicas THEN Absent
                        ELSE Settled(place[m], IF control THEN place[m] ELSE None)]
          /\ csGroup = [f \in Domains |-> \E m \in 1..Replicas : place[m] = f]
          /\ seen = [m \in Names |-> mach[m].fd]
    /\ group = [f \in Domains |-> IF csGroup[f]
                                   THEN [NewGroup EXCEPT !.fin = TRUE, !.ready = TRUE]
                                   ELSE NoGroup]
    /\ placing = [m \in Names |-> None]
    /\ dom = [f \in Domains |-> "up"]
    /\ pc = [f \in Domains |-> "idle"] /\ first = [f \in Domains |-> NoName]
    /\ faults = 0

DomainStep(f) ==
    \/ GetAllMachines(f) \/ ClearMachines(f)
    \/ DeleteOwnedObjects(f) \/ CheckOwnedObjectsDeleted(f) \/ RemoveFinalizer(f)
GroupStep(f) == ReconcileGroup(f) \/ DeleteAffinityGroup(f)
MachineStep(m) == PlaceMachine(m) \/ DeployMachine(m) \/ DestroyMachine(m) \/ NodeJoins(m)
Surroundings ==
    \/ CountMachines \/ CreateMachine \/ ClusterReady
    \/ WatchSpec \/ WatchMachines

Next ==
    \/ \E f \in Domains : DomainStep(f) \/ GroupStep(f) \/ RemoveExtraneousFailureDomain(f)
    \/ \E m \in Names : MachineStep(m)
    \/ Surroundings \/ EditSpec \/ ClusterUnready \/ Restart

\* Controllers run and watches deliver as long as their managers do.
Fairness ==
    /\ \A f \in Domains : /\ WF_vars(DomainStep(f)) /\ WF_vars(GroupStep(f))
                          /\ WF_vars(RemoveExtraneousFailureDomain(f))
    /\ \A m \in Names : WF_vars(MachineStep(m))
    /\ WF_vars(CountMachines) /\ WF_vars(CreateMachine) /\ WF_vars(ClusterReady)
    /\ WF_vars(WatchSpec) /\ WF_vars(WatchMachines)

Spec == Init /\ [][Next]_vars
FairSpec == Spec /\ Fairness

(***************************************************************************)
(* Properties.                                                             *)
(***************************************************************************)

\* Draining a failure domain takes one machine away at a time: as long as
\* nothing else goes wrong, all replicas but one are at work.
OneAtATime == faults = 0 => Cardinality(Ready) + 1 >= Replicas

\* A failure domain that is taken out of the spec goes away, however its
\* machines are replaced meanwhile.
DrainCompletes == \A f \in Domains : f \notin spec ~> dom[f] = "gone"

(***************************************************************************)
(* What comments say and the code does not do.                             *)
(***************************************************************************)

\* "GetAllMachinesInFailureDomain returns all cloudstackmachines deployed in
\* this failure domain": none is left in one that is gone.
NoMachineStranded == \A m \in Names : mach[m].vm # "none" => dom[mach[m].fd] # "gone"

\* "RequeueIfMachineCannotBeRemoved checks for each machine to confirm it is
\* not risky to remove it": one machine at a time, restarts or not.
NeverTwoAway == Cardinality(Ready) + 1 >= Replicas

\* "Affinity group not found, must have been deleted": an affinity group whose
\* object is gone is gone.
GroupsDeleted ==
    [][\A f \in Domains : group[f].deleting /\ ~group'[f].exists => ~csGroup'[f]]_vars
=============================================================================
