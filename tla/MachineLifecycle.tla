-------------------------- MODULE MachineLifecycle --------------------------
(***************************************************************************)
(* The life of one CloudStackMachine object: the CloudStackMachine         *)
(* controller and, when CKS sync is enabled, the CKS machine controller,   *)
(* both reconciling the same object against the Kubernetes API and against *)
(* CloudStack.                                                             *)
(*                                                                         *)
(* One action is one call to the outside (an API-server or CloudStack      *)
(* request) with the local code up to the next one, so other actors        *)
(* interleave exactly where the Go code can be overtaken.                  *)
(*                                                                         *)
(* Simplifications:                                                        *)
(*  - the fields of the object that no decision depends on are left out;   *)
(*    "placed" stands for the placement the controller writes into the     *)
(*    spec (failure domain name and label, affinity group reference);      *)
(*  - "admitted" stands for the gates every pass goes through: base        *)
(*    objects fetched, cluster not paused, CloudStackCluster ready or      *)
(*    being deleted;                                                       *)
(*  - "bootstrap" stands for what a VM needs before it is deployed:        *)
(*    bootstrap secret, isolated network and affinity group ready;         *)
(*  - the VMs are those that carry this machine's name.                    *)
(***************************************************************************)
EXTENDS Naturals, Sequences, FiniteSets

CONSTANTS
    VMIds,         \* ids CloudStack may give to the VMs of this machine
    None,          \* no InstanceID (a nil pointer)
    Controllers,   \* "M" the machine controller, "K" the CKS machine controller
    LbNeeded,      \* control plane machine in a non-routed isolated network
    Disturbances,  \* which kinds of disturbance may happen
    MaxFaults,     \* bound on the number of disturbances
    MaxLag         \* bound on the versions pending in the watch when a pass starts

ASSUME IdAssumption == None \notin VMIds
ASSUME ControllerAssumption == "M" \in Controllers /\ Controllers \subseteq {"M", "K"}
ASSUME LbAssumption == LbNeeded \in BOOLEAN
ASSUME FaultAssumption ==
    /\ MaxFaults \in Nat /\ MaxLag \in Nat \ {0}
    /\ Disturbances \subseteq {"error", "crash", "vanish", "stop", "suspend", "delist",
                         "foreground"}

VARIABLES
    stream,     \* versions of the object from the one the informer cache holds to the stored one
    queue,      \* queue[c]: the object's key is in the work queue of controller c
    pc,         \* pc[c]: the next call of controller c's reconcile pass
    base,       \* base[c]: the object as the pass read it, remembered by the patch helper
    loc,        \* loc[c]: the pass's working copy
    retry,      \* retry[c]: the pass ends with an error or a requeue
    vm,         \* CloudStack's VMs
    lb,         \* VMs assigned to the API server load balancer rule
    checkers,   \* VMs with a CloudStackMachineStateChecker object
    cks,        \* VMs added to the CKS cluster
    admitted,   \* see above
    bootstrap,  \* see above
    listed,     \* the machine's failure domain is in the CloudStackCluster's list
    doomed,     \* the owning CAPI Machine has been deleted
    faults      \* disturbances so far

worker == <<pc, base, loc, retry>>
cloud  == <<vm, lb, cks>>
env    == <<admitted, bootstrap, listed>>
vars   == <<stream, queue, worker, cloud, checkers, env, doomed, faults>>

Ids == VMIds \cup {None}

\* The finalizers are those of the two controllers, and "F", which holds an
\* object that is deleted in the foreground until its dependents are gone.
Obj == [exists: BOOLEAN, deleting: BOOLEAN, fins: SUBSET {"M", "K", "F"},
        iid: Ids, placed: BOOLEAN, ready: BOOLEAN]

VMState == {"absent", "Starting", "Running", "Stopped", "Error",
            "Destroyed", "Expunging", "gone"}

PCs == {"idle", "gates", "fdcheck", "getvm", "deploy", "resolve", "delcapi", "lb",
        "checker", "findvm", "destroy", "confirm", "addvm", "removevm",
        "patchSpec", "patchStatus"}

TypeOK ==
    /\ stream \in Seq(Obj) /\ Len(stream) > 0
    /\ queue \in [Controllers -> BOOLEAN]
    /\ pc \in [Controllers -> PCs]
    /\ base \in [Controllers -> Obj]
    /\ loc \in [Controllers -> Obj]
    /\ retry \in [Controllers -> BOOLEAN]
    /\ vm \in [VMIds -> VMState]
    /\ lb \subseteq VMIds /\ checkers \subseteq VMIds /\ cks \subseteq VMIds
    /\ admitted \in BOOLEAN /\ bootstrap \in BOOLEAN /\ listed \in BOOLEAN
    /\ doomed \in BOOLEAN
    /\ faults \in 0..MaxFaults

(***************************************************************************)
(* The API server and the informer cache.                                  *)
(***************************************************************************)
cache == stream[1]
api   == stream[Len(stream)]

\* An object being deleted goes away with its last finalizer.
Collected(o) == [o EXCEPT !.exists = @ /\ ~(o.deleting /\ o.fins = {})]

Store(o) == stream' = IF o = api THEN stream ELSE Append(stream, o)

\* The object as it is created. Between passes base and loc hold it too: a
\* runner's copies do not outlive its pass.
NewObj == [exists |-> TRUE, deleting |-> FALSE, fins |-> {}, iid |-> None,
           placed |-> FALSE, ready |-> FALSE]

\* A patch carries only the fields the pass changed, and the finalizer list
\* as a whole; nothing ties it to the version the pass read.
Merged(b, l) ==
    [api EXCEPT !.fins   = IF l.fins = b.fins THEN @ ELSE l.fins,
                !.iid    = IF l.iid = b.iid THEN @ ELSE l.iid,
                !.placed = IF l.placed = b.placed THEN @ ELSE l.placed]

SpecChanged(b, l) == l.fins # b.fins \/ l.iid # b.iid \/ l.placed # b.placed

\* The API server refuses a patch of an object that is gone, and new
\* finalizers on one that is being deleted.
PatchAccepted(o) == api.exists /\ (api.deleting => o.fins \subseteq api.fins)

(***************************************************************************)
(* CloudStack.                                                             *)
(***************************************************************************)
Visible == {v \in VMIds : vm[v] \notin {"absent", "gone"}}

\* VMs nobody has asked CloudStack to remove.
Live == {v \in VMIds : vm[v] \in {"Starting", "Running", "Stopped", "Error"}}

\* Variation of Resolved: no lookup by name.
ResolvedById(id) == Visible \cap {id}

\* ResolveVMInstanceDetails: the VMs found by id or else by name.
Resolved(id) == IF id \in Visible THEN {id} ELSE Visible

Disturb(kind) ==
    /\ kind \in Disturbances
    /\ faults < MaxFaults
    /\ faults' = faults + 1

(***************************************************************************)
(* A reconcile pass.                                                       *)
(***************************************************************************)
Goto(c, next) == pc' = [pc EXCEPT ![c] = next]

\* Variation of Return: the requeue is lost.
ReturnForgets(c, again) ==
    /\ Goto(c, "patchSpec")
    /\ retry' = [retry EXCEPT ![c] = FALSE]

\* Every return of a pass that fetched its subject goes through the deferred patch.
Return(c, again) ==
    /\ Goto(c, "patchSpec")
    /\ retry' = [retry EXCEPT ![c] = again]

\* A call fails: the pass returns the error without further effect.
CallFails(c) ==
    /\ Disturb("error")
    /\ Return(c, TRUE)
    /\ UNCHANGED <<stream, queue, base, loc, cloud, checkers, env, doomed>>

\* Variation of Start: the finalizer is added before anything else.
StartGuarded(c) ==
    /\ pc[c] = "idle" /\ queue[c] /\ cache.exists /\ Len(stream) <= MaxLag
    /\ queue' = [queue EXCEPT ![c] = FALSE]
    /\ base' = [base EXCEPT ![c] = cache]
    /\ loc' = [loc EXCEPT ![c] = [cache EXCEPT !.fins = @ \cup {c}]]
    /\ Goto(c, "gates")
    /\ UNCHANGED <<stream, retry, cloud, checkers, env, doomed, faults>>

\* GetReconciliationSubject and SetupPatcher: read the cache; a missing
\* object ends the pass.
Start(c) ==
    /\ pc[c] = "idle" /\ queue[c] /\ Len(stream) <= MaxLag
    /\ queue' = [queue EXCEPT ![c] = FALSE]
    /\ IF cache.exists
       THEN /\ base' = [base EXCEPT ![c] = cache]
            /\ loc' = [loc EXCEPT ![c] = cache]
            /\ Goto(c, "gates")
       ELSE UNCHANGED <<base, loc, pc>>
    /\ UNCHANGED <<stream, retry, cloud, checkers, env, doomed, faults>>

\* The helper patches spec and metadata first, then the status, each of them
\* whether or not the other failed.
PatchSpec(c) ==
    LET new == Merged(base[c], loc[c])
        changed == SpecChanged(base[c], loc[c])
    IN  /\ pc[c] = "patchSpec"
        /\ Goto(c, "patchStatus")
        /\ \/ /\ changed => PatchAccepted(new)
              /\ IF changed THEN Store(Collected(new)) ELSE UNCHANGED stream
              /\ UNCHANGED <<retry, faults>>
           \/ /\ changed /\ ~PatchAccepted(new)
              /\ retry' = [retry EXCEPT ![c] = TRUE]
              /\ UNCHANGED <<stream, faults>>
           \/ /\ changed /\ Disturb("error")
              /\ retry' = [retry EXCEPT ![c] = TRUE]
              /\ UNCHANGED stream
        /\ UNCHANGED <<queue, base, loc, cloud, checkers, env, doomed>>

PatchStatus(c) ==
    LET changed == loc[c].ready # base[c].ready
        absentOk == loc[c].deleting /\ loc[c].fins = {}
    IN  /\ pc[c] = "patchStatus"
        /\ Goto(c, "idle")
        /\ \/ /\ changed => api.exists
              /\ IF changed THEN Store([api EXCEPT !.ready = loc[c].ready]) ELSE UNCHANGED stream
              /\ queue' = [queue EXCEPT ![c] = @ \/ retry[c]]
              /\ UNCHANGED faults
           \/ /\ changed /\ ~api.exists
              /\ queue' = [queue EXCEPT ![c] = @ \/ retry[c] \/ ~absentOk]
              /\ UNCHANGED <<stream, faults>>
           \/ /\ changed /\ Disturb("error")
              /\ queue' = [queue EXCEPT ![c] = TRUE]
              /\ UNCHANGED stream
        /\ retry' = [retry EXCEPT ![c] = FALSE]
        /\ base' = [base EXCEPT ![c] = NewObj]
        /\ loc' = [loc EXCEPT ![c] = NewObj]
        /\ UNCHANGED <<cloud, checkers, env, doomed>>

(***************************************************************************)
(* The machine controller.                                                 *)
(***************************************************************************)
MGates ==
    /\ pc["M"] = "gates"
    /\ \/ /\ ~admitted
          /\ Return("M", TRUE)
          /\ UNCHANGED <<loc, faults>>
       \/ /\ Disturb("error")
          /\ Return("M", TRUE)
          /\ \E p \in {loc["M"].placed, TRUE} : loc' = [loc EXCEPT !["M"].placed = p]
       \/ /\ admitted
          /\ loc' = [loc EXCEPT !["M"].placed = TRUE]
          /\ Goto("M", IF ~base["M"].deleting THEN "fdcheck"
                       ELSE IF loc["M"].iid = None THEN "findvm" ELSE "destroy")
          /\ UNCHANGED <<retry, faults>>
    /\ UNCHANGED <<stream, queue, base, cloud, checkers, env, doomed>>

\* DeleteMachineIfFailuredomainNotExist: the CAPI Machine is deleted and the
\* pass goes on.
MFailureDomainCheck ==
    /\ pc["M"] = "fdcheck"
    /\ \/ /\ doomed' = (doomed \/ ~listed)
          /\ Goto("M", "getvm")
          /\ UNCHANGED <<stream, queue, base, loc, retry, cloud, checkers, env, faults>>
       \/ CallFails("M")

\* A VM was found: its id and state are recorded, the finalizer is added.
MRecord(v) ==
    loc' = [loc EXCEPT !["M"].iid = v, !["M"].fins = @ \cup {"M"},
                       !["M"].ready = @ \/ vm[v] = "Running"]

\* Variations of MFound: a VM in Error is destroyed at once; it is waited
\* for; a machine that is Ready already needs no load balancer.
MFoundDestroys(v) ==
    /\ MRecord(v)
    /\ CASE vm[v] = "Running" -> Goto("M", "lb") /\ UNCHANGED retry
         [] vm[v] = "Error"   -> Goto("M", "destroy") /\ UNCHANGED retry
         [] OTHER             -> Return("M", TRUE)

MFoundWaits(v) ==
    /\ MRecord(v)
    /\ IF vm[v] = "Running" THEN Goto("M", "lb") /\ UNCHANGED retry ELSE Return("M", TRUE)

MFoundReady(v) ==
    /\ MRecord(v)
    /\ CASE vm[v] = "Running" /\ ~loc["M"].ready -> Goto("M", "lb") /\ UNCHANGED retry
         [] vm[v] = "Running" /\ loc["M"].ready  -> Return("M", FALSE)
         [] vm[v] = "Error"                      -> Goto("M", "delcapi") /\ UNCHANGED retry
         [] OTHER                                -> Return("M", TRUE)

\* Resolving found VM v: act on its state (RequeueIfInstanceNotRunning).
MFound(v) ==
    /\ MRecord(v)
    /\ CASE vm[v] = "Running" -> Goto("M", "lb") /\ UNCHANGED retry
         [] vm[v] = "Error"   -> Goto("M", "delcapi") /\ UNCHANGED retry
         [] OTHER             -> Return("M", TRUE)

MGetVM ==
    /\ pc["M"] = "getvm"
    /\ \/ /\ LET found == Resolved(loc["M"].iid)
             IN  \/ ~bootstrap /\ Return("M", TRUE) /\ UNCHANGED loc
                 \/ bootstrap /\ found = {} /\ Goto("M", "deploy") /\ UNCHANGED <<loc, retry>>
                 \/ bootstrap /\ \E v \in found : found = {v} /\ MFound(v)
                 \/ bootstrap /\ Cardinality(found) > 1 /\ Return("M", TRUE) /\ UNCHANGED loc
          /\ UNCHANGED <<stream, queue, base, cloud, checkers, env, doomed, faults>>
       \/ CallFails("M")

\* ResolveServiceOffering, CheckLimits, ResolveTemplate, ResolveDiskOffering
\* and buildIPToNetworkList only read; when one of them returns an error
\* nothing is deployed.
MRefused == CallFails("M")

\* DeployVM: accepted; refused; or reported as failed although the VM was
\* created, and then found or not.
MDeploy ==
    /\ pc["M"] = "deploy"
    /\ \/ /\ \E v \in VMIds :
               /\ vm[v] = "absent"
               /\ vm' = [vm EXCEPT ![v] = "Starting"]
               /\ loc' = [loc EXCEPT !["M"].iid = v]
          /\ Goto("M", "resolve")
          /\ UNCHANGED <<stream, queue, base, retry, lb, cks, checkers, env, doomed, faults>>
       \/ MRefused
       \/ /\ Disturb("error")
          /\ \E v \in VMIds, s \in {"Starting", "Error"} :
               /\ vm[v] = "absent"
               /\ vm' = [vm EXCEPT ![v] = s]
               /\ \E id \in {v, loc["M"].iid} : loc' = [loc EXCEPT !["M"].iid = id]
          /\ Return("M", TRUE)
          /\ UNCHANGED <<stream, queue, base, lb, cks, checkers, env, doomed>>

\* GetOrCreateVMInstance resolves once more after the deployment.
MResolve ==
    /\ pc["M"] = "resolve"
    /\ \/ /\ LET found == Resolved(loc["M"].iid)
             IN  \/ \E v \in found : found = {v} /\ MFound(v)
                 \/ Cardinality(found) # 1 /\ Return("M", TRUE) /\ UNCHANGED loc
          /\ UNCHANGED <<stream, queue, base, cloud, checkers, env, doomed, faults>>
       \/ CallFails("M")

\* RequeueIfInstanceNotRunning on an Error VM: delete the CAPI Machine.
MDeleteCapi ==
    /\ pc["M"] = "delcapi"
    /\ \/ /\ doomed' = TRUE
          /\ Return("M", TRUE)
          /\ UNCHANGED <<stream, queue, base, loc, cloud, checkers, env, faults>>
       \/ CallFails("M")

MAddToLB ==
    /\ pc["M"] = "lb"
    /\ \/ /\ IF ~LbNeeded \/ loc["M"].iid \in Visible
             THEN /\ lb' = IF LbNeeded THEN lb \cup {loc["M"].iid} ELSE lb
                  /\ Goto("M", "checker") /\ UNCHANGED retry
             ELSE Return("M", TRUE) /\ UNCHANGED lb
          /\ UNCHANGED <<stream, queue, base, loc, vm, cks, checkers, env, doomed, faults>>
       \/ LbNeeded /\ CallFails("M")

MStateChecker ==
    /\ pc["M"] = "checker"
    /\ \/ /\ checkers' = checkers \cup {loc["M"].iid}
          /\ Return("M", FALSE)
          /\ UNCHANGED <<stream, queue, base, loc, cloud, env, doomed, faults>>
       \/ CallFails("M")

\* ReconcileDelete without an InstanceID: resolve by name.
MFindVM ==
    /\ pc["M"] = "findvm"
    /\ \/ /\ \/ \E v \in Visible : /\ Visible = {v}
                                   /\ loc' = [loc EXCEPT !["M"].iid = v]
                                   /\ Goto("M", "destroy") /\ UNCHANGED retry
             \/ Cardinality(Visible) # 1 /\ Return("M", TRUE) /\ UNCHANGED loc
          /\ UNCHANGED <<stream, queue, base, cloud, checkers, env, doomed, faults>>
       \/ CallFails("M")

MVMDeleted ==
    /\ loc' = [loc EXCEPT !["M"].fins = @ \ {"M"}]
    /\ Return("M", FALSE)

\* DestroyVMInstance up to the destroy call. Whether CloudStack expunges at
\* once depends on its capabilities. An id it does not know counts as done.
MDestroy ==
    LET id == loc["M"].iid
        destroyed == \E s \in {"Destroyed", "Expunging"} :
                       /\ vm[id] = "Expunging" => s = "Expunging"
                       /\ vm' = [vm EXCEPT ![id] = s]
    IN  /\ pc["M"] = "destroy"
        /\ \/ /\ id \in Visible /\ destroyed
              /\ Goto("M", "confirm")
              /\ UNCHANGED <<loc, retry, faults>>
           \/ /\ id \notin Visible
              /\ \/ MVMDeleted
                 \/ Goto("M", "confirm") /\ UNCHANGED <<loc, retry>>
              /\ UNCHANGED <<vm, faults>>
           \/ /\ Disturb("error")
              /\ \/ id \in Visible /\ destroyed
                 \/ UNCHANGED vm
              /\ Return("M", TRUE) /\ UNCHANGED loc
        /\ UNCHANGED <<stream, queue, base, lb, cks, checkers, env, doomed>>

\* DestroyVMInstance after the call: done once the VM is expunging or not
\* found, by id or by name; otherwise "VM deletion in progress".
MConfirm ==
    /\ pc["M"] = "confirm"
    /\ \/ /\ LET found == Resolved(loc["M"].iid)
             IN  \/ found = {} /\ MVMDeleted
                 \/ \E v \in found :
                      /\ found = {v}
                      /\ IF vm[v] = "Expunging"
                         THEN /\ loc' = [loc EXCEPT !["M"].iid = v, !["M"].fins = @ \ {"M"}]
                              /\ Return("M", FALSE)
                         ELSE /\ loc' = [loc EXCEPT !["M"].iid = v]
                              /\ Return("M", TRUE)
                 \/ Cardinality(found) > 1 /\ Return("M", TRUE) /\ UNCHANGED loc
          /\ UNCHANGED <<stream, queue, base, cloud, checkers, env, doomed, faults>>
       \/ CallFails("M")

(***************************************************************************)
(* The CKS machine controller.                                             *)
(***************************************************************************)
\* Variation of KGates: the InstanceID is not looked at.
KGatesUnchecked ==
    /\ pc["K"] = "gates"
    /\ loc' = [loc EXCEPT !["K"].fins = @ \cup {"K"}]
    /\ Goto("K", "addvm")
    /\ UNCHANGED <<stream, queue, base, retry, cloud, checkers, env, doomed, faults>>

\* The pass needs the failure domain and, unless the object is being deleted,
\* an InstanceID. It does not look at the readiness of the CloudStackCluster,
\* so it may go on while the machine controller is held back.
KGates ==
    /\ pc["K"] = "gates"
    /\ \/ /\ LET deleting == base["K"].deleting
                 o == loc["K"]
             IN  \/ /\ deleting /\ o.placed
                    /\ Goto("K", "removevm") /\ UNCHANGED <<loc, retry>>
                 \/ /\ ~deleting /\ o.placed /\ o.iid # None
                    /\ loc' = [loc EXCEPT !["K"].fins = @ \cup {"K"}]
                    /\ Goto("K", "addvm") /\ UNCHANGED retry
                 \/ /\ ~admitted \/ ~o.placed \/ (~deleting /\ o.iid = None)
                    /\ Return("K", TRUE) /\ UNCHANGED loc
          /\ UNCHANGED <<stream, queue, base, cloud, checkers, env, doomed, faults>>
       \/ CallFails("K")

KAddVM ==
    /\ pc["K"] = "addvm"
    /\ \/ /\ cks' = cks \cup {loc["K"].iid}
          /\ Return("K", FALSE)
          /\ UNCHANGED <<stream, queue, base, loc, vm, lb, checkers, env, doomed, faults>>
       \/ CallFails("K")

\* Variations of KRemoveVM: all finalizers are taken off; none is.
KRemoveVMAll ==
    /\ pc["K"] = "removevm"
    /\ cks' = cks \ {loc["K"].iid}
    /\ loc' = [loc EXCEPT !["K"].fins = {}]
    /\ Return("K", FALSE)
    /\ UNCHANGED <<stream, queue, base, vm, lb, checkers, env, doomed, faults>>

KRemoveVMNone ==
    /\ pc["K"] = "removevm"
    /\ cks' = cks \ {loc["K"].iid}
    /\ Return("K", FALSE)
    /\ UNCHANGED <<stream, queue, base, loc, vm, lb, checkers, env, doomed, faults>>

KRemoveVM ==
    /\ pc["K"] = "removevm"
    /\ \/ /\ cks' = cks \ {loc["K"].iid}
          /\ loc' = [loc EXCEPT !["K"].fins = @ \ {"K"}]
          /\ Return("K", FALSE)
          /\ UNCHANGED <<stream, queue, base, vm, lb, checkers, env, doomed, faults>>
       \/ loc["K"].iid # None /\ CallFails("K")

(***************************************************************************)
(* Everyone else.                                                          *)
(***************************************************************************)

\* Variation of Triggers: deletions are ignored too.
TriggersNoDeletion(c, old, new) ==
    \/ c = "K"
    \/ old.exists # new.exists
    \/ old.placed # new.placed

\* The update predicate of the machine controller: changes of finalizers,
\* status, provider id and instance id are ignored. The CKS machine
\* controller has no predicate.
Triggers(c, old, new) ==
    \/ c = "K"
    \/ old.exists # new.exists
    \/ old.deleting # new.deleting
    \/ old.placed # new.placed

\* The informer delivers the next version.
WatchEvent ==
    /\ Len(stream) > 1
    /\ stream' = Tail(stream)
    /\ queue' = [c \in Controllers |-> queue[c] \/ Triggers(c, stream[1], stream[2])]
    /\ UNCHANGED <<worker, cloud, checkers, env, doomed, faults>>

\* Every sync period the informer replays an update whose old and new object are equal.
Resync ==
    /\ cache.exists
    /\ queue' = [c \in Controllers |-> queue[c] \/ Triggers(c, cache, cache)]
    /\ queue' # queue
    /\ UNCHANGED <<stream, worker, cloud, checkers, env, doomed, faults>>

\* The manager restarts: passes and queues are lost, every object is listed again.
Crash ==
    /\ Disturb("crash")
    /\ stream' = <<api>>
    /\ queue' = [c \in Controllers |-> api.exists]
    /\ pc' = [c \in Controllers |-> "idle"]
    /\ base' = [c \in Controllers |-> NewObj]
    /\ loc' = [c \in Controllers |-> NewObj]
    /\ retry' = [c \in Controllers |-> FALSE]
    /\ UNCHANGED <<cloud, checkers, env, doomed>>

\* Bootstrap data appears; the watch on CAPI Machines queues the machine.
BootstrapReady ==
    /\ ~bootstrap
    /\ bootstrap' = TRUE
    /\ queue' = [queue EXCEPT !["M"] = TRUE]
    /\ UNCHANGED <<stream, worker, cloud, checkers, admitted, listed, doomed, faults>>

Admit ==
    /\ ~admitted
    /\ admitted' = TRUE
    /\ UNCHANGED <<stream, queue, worker, cloud, checkers, bootstrap, listed, doomed, faults>>

Suspend ==
    /\ admitted /\ Disturb("suspend")
    /\ admitted' = FALSE
    /\ UNCHANGED <<stream, queue, worker, cloud, checkers, bootstrap, listed, doomed>>

FailureDomainDelisted ==
    /\ listed /\ Disturb("delist")
    /\ listed' = FALSE
    /\ UNCHANGED <<stream, queue, worker, cloud, checkers, admitted, bootstrap, doomed>>

\* A user, or a machine set scaling down, deletes the CAPI Machine.
DeleteRequested ==
    /\ ~doomed
    /\ doomed' = TRUE
    /\ UNCHANGED <<stream, queue, worker, cloud, checkers, env, faults>>

\* Cluster API deletes the infrastructure object of a deleted Machine.
CapiDeletesInfra ==
    /\ doomed /\ api.exists /\ ~api.deleting
    /\ Store(Collected([api EXCEPT !.deleting = TRUE]))
    /\ UNCHANGED <<queue, worker, cloud, checkers, env, doomed, faults>>

\* The object is deleted in the foreground, as a dependent of an owner that is.
ForegroundDeletion ==
    /\ api.exists /\ ~api.deleting /\ Disturb("foreground")
    /\ Store([api EXCEPT !.deleting = TRUE, !.fins = @ \cup {"F"}])
    /\ UNCHANGED <<queue, worker, cloud, checkers, env, doomed>>

\* The garbage collector has deleted the dependents and lets the object go.
ForegroundDone ==
    /\ "F" \in api.fins
    /\ Store(Collected([api EXCEPT !.fins = @ \ {"F"}]))
    /\ checkers' = {}
    /\ UNCHANGED <<queue, worker, cloud, env, doomed, faults>>

\* CloudStack finishes starting or expunging a VM.
VMProgress(v) ==
    /\ \/ vm[v] = "Starting" /\ \E s \in {"Running", "Error"} : vm' = [vm EXCEPT ![v] = s]
       \/ vm[v] = "Destroyed" /\ vm' = [vm EXCEPT ![v] = "Expunging"]
       \/ vm[v] = "Expunging" /\ vm' = [vm EXCEPT ![v] = "gone"]
    /\ UNCHANGED <<stream, queue, worker, lb, cks, checkers, env, doomed, faults>>

\* Somebody stops or removes a VM behind the controllers' back.
VMDisturbed(v) ==
    /\ v \in Visible
    /\ \/ vm[v] = "Running" /\ Disturb("stop") /\ vm' = [vm EXCEPT ![v] = "Stopped"]
       \/ Disturb("vanish") /\ vm' = [vm EXCEPT ![v] = "gone"]
    /\ UNCHANGED <<stream, queue, worker, lb, cks, checkers, env, doomed>>

(***************************************************************************)
(* The specification.                                                      *)
(***************************************************************************)
Init ==
    /\ stream = <<NewObj>>
    /\ queue = [c \in Controllers |-> TRUE]
    /\ pc = [c \in Controllers |-> "idle"]
    /\ base = [c \in Controllers |-> NewObj]
    /\ loc = [c \in Controllers |-> NewObj]
    /\ retry = [c \in Controllers |-> FALSE]
    /\ vm = [v \in VMIds |-> "absent"]
    /\ lb = {} /\ checkers = {} /\ cks = {}
    /\ admitted = FALSE /\ bootstrap = FALSE /\ listed = TRUE
    /\ doomed = FALSE
    /\ faults = 0

MStep ==
    \/ Start("M") \/ PatchSpec("M") \/ PatchStatus("M")
    \/ MGates \/ MFailureDomainCheck \/ MGetVM \/ MDeploy \/ MResolve
    \/ MDeleteCapi \/ MAddToLB \/ MStateChecker
    \/ MFindVM \/ MDestroy \/ MConfirm

KStep ==
    /\ "K" \in Controllers
    /\ \/ Start("K") \/ PatchSpec("K") \/ PatchStatus("K")
       \/ KGates \/ KAddVM \/ KRemoveVM

Environment ==
    \/ WatchEvent \/ Resync \/ Crash
    \/ BootstrapReady \/ Admit \/ Suspend \/ FailureDomainDelisted
    \/ DeleteRequested \/ CapiDeletesInfra \/ ForegroundDeletion \/ ForegroundDone
    \/ \E v \in VMIds : VMProgress(v) \/ VMDisturbed(v)

Next == MStep \/ KStep \/ Environment

\* The work queues and informers run until the manager stops, Cluster API
\* and the operators bring about the prerequisites, and CloudStack finishes
\* its jobs. Nothing forces a deletion or a disturbance.
Fairness ==
    /\ WF_vars(MStep) /\ WF_vars(KStep)
    /\ WF_vars(WatchEvent) /\ WF_vars(Resync)
    /\ WF_vars(BootstrapReady) /\ WF_vars(Admit) /\ WF_vars(CapiDeletesInfra)
    /\ WF_vars(ForegroundDone)
    /\ \A v \in VMIds : WF_vars(VMProgress(v))

Spec == Init /\ [][Next]_vars
FairSpec == Spec /\ Fairness

(***************************************************************************)
(* Properties.                                                             *)
(***************************************************************************)

\* Whatever is retried, restarted or lost out of band, there are never two
\* VMs for one machine: GetOrCreateVMInstance looks the VM up by id and by
\* name before it deploys.
AtMostOneVM == \A v, w \in Visible : v = w

\* A finalizer of CAPC is stored only together with an InstanceID, so it never
\* holds an object that waits for an InstanceID that will not come.
FinalizerHasInstance == api.fins \ {"F"} # {} => api.iid # None

\* The machine controller has nothing left to do for an object nobody deletes.
Settled ==
    /\ pc["M"] = "idle" /\ ~queue["M"] /\ Len(stream) = 1
    /\ api.exists /\ ~api.deleting

\* A pass that failed half way is always run again: when the machine
\* controller rests, the machine is Ready, guarded by its finalizer, has its
\* InstanceID recorded, its state checker, and its place behind the load
\* balancer.
SettledIsComplete ==
    Settled => /\ api.ready /\ "M" \in api.fins /\ api.iid \in checkers
               /\ LbNeeded => api.iid \in lb

\* CAPC destroys a VM only for an object that is being deleted, however old
\* the cached copy is that the pass works on.
DestroyOnlyWhenDeleting ==
    [][\A v \in Live : vm'[v] \in {"Destroyed", "Expunging"} => api.deleting]_vars

\* An object that carries the machine finalizer goes away only after its VM
\* has been destroyed.
GuardedUntilDestroyed ==
    []["M" \in api.fins /\ ~api'.exists => Live = {}]_vars

\* A deletion always completes: no controller waits for ever for the other,
\* for an InstanceID or for CloudStack.
DeletionCompletes == api.deleting ~> ~api.exists

\* Provisioning always comes to an end: the machine is Ready or it is deleted.
ProvisioningEnds == <>(api.ready \/ ~api.exists)

\* A machine reported Ready is eventually behind the load balancer, although
\* Ready is stored even if the assignment failed.
ReadyIsBalanced ==
    api.ready /\ LbNeeded ~> (api.iid \in lb \/ ~api.exists)

\* A machine whose VM ended in the Error state is eventually deleted, if its
\* object is not gone already.
ErrorIsReplaced ==
    (\E v \in VMIds : vm[v] = "Error")
        ~> (doomed \/ ~api.exists \/ \A v \in VMIds : vm[v] # "Error")

(***************************************************************************)
(* What comments and flags of the code say and the code does not do.       *)
(***************************************************************************)

\* "If err is not nil, it means CAPC could not get an associated VM through
\* instanceID or name, so we should not add a finalizer": an object with an
\* InstanceID has the finalizer.
InstanceHasFinalizer == api.exists /\ api.iid # None => "M" \in api.fins

\* "CloudStack Machine can be deleted before VM deployment complete.
\* ResolveVMInstanceDetails can get InstanceID by CS machine name": when the
\* object is gone and the controller rests, no live VM is left.
NoOrphanVM == ~api.exists /\ pc["M"] = "idle" /\ ~queue["M"] => Live = {}

\* "Prevent premature deletion": adding the CKS finalizer never takes the
\* machine finalizer off an object.
CksKeepsMachineFinalizer ==
    []["M" \in api.fins /\ ~api.deleting => "M" \in api'.fins]_vars

\* "The minimum interval at which watched resources are reconciled": an
\* object that stays is reconciled again and again.
ReconciledPeriodically == []<>(pc["M"] # "idle" \/ ~api.exists)
=============================================================================
