-------------------------- MODULE ClusterLifecycle --------------------------
(***************************************************************************)
(* Setting up and tearing down one cluster: the CloudStackCluster and the  *)
(* objects below it, a CloudStackFailureDomain for each failure domain of  *)
(* its spec and the CloudStackIsolatedNetwork each of these generates, all *)
(* with a controller of their own, the CAPI Cluster above it, and the      *)
(* garbage collector.                                                      *)
(*                                                                         *)
(* A worker is one controller on one object: "C" is the CloudStackCluster  *)
(* controller and "K" the CKS cluster controller, both on the cluster; a   *)
(* failure domain or a network name stands for its object and for the      *)
(* controller on it. A worker runs one pass at a time. Typed objects come  *)
(* from the informer cache, unstructured lists from the API server. A pass *)
(* is one action up to the point where it acts on a second read, and one   *)
(* for the deferred patch; a pass that changes nothing is a stuttering     *)
(* step and has no action.                                                 *)
(*                                                                         *)
(* Simplifications: the networks are isolated ones and no machine is left  *)
(* in a failure domain; what an isolated network does in CloudStack is the *)
(* subject of module IsolatedNetwork, here it is one network with one tag. *)
(***************************************************************************)
EXTENDS Naturals, FiniteSets

CONSTANTS
    Domains,       \* names of failure domains
    Nets,          \* names of networks
    Naming,        \* the ways in which the failure domains may name networks
    First,         \* the failure domains the cluster is created with
    Cks,           \* the CKS cluster controller runs and the cluster is synced
    DeleteEarly,   \* the cluster may be deleted before it has its finalizer
    Disturbances,  \* which kinds of disturbance may happen
    MaxFaults,     \* bound on the number of disturbances
    MaxEdits       \* bound on the number of changes of the cluster's spec

Keys    == {"cluster"} \cup Domains \cup Nets
Workers == {"C"} \cup (IF Cks THEN {"K"} ELSE {}) \cup Domains \cup Nets

ASSUME DomainAssumption ==
    /\ First \subseteq Domains /\ First # {}
    /\ Naming \subseteq [Domains -> Nets]
    /\ Cks \in BOOLEAN /\ DeleteEarly \in BOOLEAN
    /\ Domains \cap Nets = {} /\ {"C", "K", "cluster"} \cap (Domains \cup Nets) = {}
ASSUME BoundAssumption ==
    MaxFaults \in Nat /\ MaxEdits \in Nat /\ Disturbances \subseteq {"error", "crash"}

VARIABLES
    netOf,     \* netOf[f]: the network in the spec of failure domain f
    capi,      \* the CAPI Cluster: "up", "deleting" or "gone"
    capiSeen,  \* the informer cache has it
    obj,       \* obj[k]: the stored object of that name
    orphans,   \* the objects whose owner is gone
    seen,      \* seen[k]: the informer cache's copy of it
    queued,    \* the cluster is in the work queue of "C"
    pc,        \* pc[w]: where w's pass is
    read,      \* the cluster as the pass of "C" read it
    diff,      \* diff[w]: what the deferred patch of w's pass will change
    net,       \* net[n]: the CloudStack network
    cks,       \* the cluster's entry in CKS exists
    faults,    \* disturbances so far
    edits      \* changes of the spec so far

caches == <<capiSeen, seen>>
cloud  == <<net, cks>>
bounds == <<faults, edits>>
vars   == <<netOf, capi, obj, orphans, caches, queued, pc, read, diff, cloud, bounds>>

\* spec is the set of failure domains a cluster has and the one a network is
\* generated for; set is the endpoint host of a cluster and the zone id of a
\* failure domain.
Object == [exists: BOOLEAN, deleting: BOOLEAN, fin: SUBSET Workers,
           spec: SUBSET Domains, set: BOOLEAN, status: SUBSET {"ready", "cks"}]

\* A merge patch: the new list of finalizers if it changed ({} or {list}),
\* set if it was, the status fields added and dropped.
Diffs == [fin: SUBSET SUBSET Workers, set: BOOLEAN,
          add: SUBSET {"ready", "cks"}, drop: SUBSET {"ready", "cks"}]

Nothing == [fin |-> {}, set |-> FALSE, add |-> {}, drop |-> {}]

\* The finalizers CAPC puts on an object of each kind.
Finalizers(k) == IF k = "cluster" THEN {"C", "K"} ELSE {k}

\* Every variable has its type; an object carries the finalizers of its own
\* kind only, one being deleted has some left, and a pass at its deferred
\* patch has something to patch.
TypeOK ==
    /\ netOf \in Naming
    /\ capi \in {"up", "deleting", "gone"} /\ capiSeen \in BOOLEAN
    /\ obj \in [Keys -> Object] /\ seen \in [Keys -> Object] /\ read \in Object
    /\ \A k \in Keys :
          /\ obj[k].fin \subseteq Finalizers(k)
          /\ obj[k].deleting => obj[k].exists /\ obj[k].fin # {}
    /\ orphans \subseteq Keys
    /\ queued \in BOOLEAN
    /\ pc \in [Workers -> {"idle", "verify", "checkowned", "patch", "retry"}]
    /\ diff \in [Workers -> Diffs]
    /\ \A w \in Workers : pc[w] \in {"patch", "retry"} <=> diff[w] # Nothing
    /\ net \in [Nets -> {"absent", "tagged", "gone"}] /\ cks \in BOOLEAN
    /\ faults \in 0..MaxFaults /\ edits \in 0..MaxEdits

Absent == [exists |-> FALSE, deleting |-> FALSE, fin |-> {},
           spec |-> {}, set |-> FALSE, status |-> {}]

Created(spec) == [Absent EXCEPT !.exists = TRUE, !.spec = spec]

Subject(w) == IF w \in {"C", "K"} THEN "cluster" ELSE w

\* GetFailureDomains: what the cache has, by the cluster's label.
Listed == {f \in Domains : seen[f].exists}

Disturb(kind) ==
    /\ kind \in Disturbances
    /\ faults < MaxFaults
    /\ faults' = faults + 1

(***************************************************************************)
(* The API server and the patch helper.                                    *)
(***************************************************************************)

\* An object that is being deleted goes away with its last finalizer.
Collected(o) == IF o.deleting /\ o.fin = {} THEN Absent ELSE o
Deleted(o)   == IF o.exists THEN Collected([o EXCEPT !.deleting = TRUE]) ELSE o

\* The owner NewChildObjectMeta names.
Owners(k, o) == IF k \in Domains THEN {"cluster"} ELSE IF k \in Nets THEN o.spec ELSE {}

\* The stored objects become o. An object is an orphan once its owner has
\* gone, and for good: an owner that comes back has another uid.
Store(o) ==
    /\ obj' = o
    /\ orphans' = {k \in Keys : /\ o[k].exists
                                /\ \/ k \in orphans /\ obj[k].exists
                                   \/ \E p \in Owners(k, o[k]) : ~o[p].exists}

Diff(before, after) ==
    [fin |-> IF after.fin = before.fin THEN {} ELSE {after.fin},
     set |-> after.set /\ ~before.set,
     add |-> after.status \ before.status, drop |-> before.status \ after.status]

\* No finalizer is added to an object that is being deleted.
Rejected(o, d) == ~o.exists \/ (o.deleting /\ \E l \in d.fin : ~(l \subseteq o.fin))

\* First spec and metadata, then the status. The list of finalizers is
\* written as a whole.
SpecPatch(o, d) ==
    IF Rejected(o, d) THEN o
    ELSE Collected([o EXCEPT !.fin = IF d.fin = {} THEN @ ELSE UNION d.fin,
                             !.set = @ \/ d.set])

StatusPatch(o, d) ==
    IF ~o.exists THEN o ELSE [o EXCEPT !.status = (@ \cup d.add) \ d.drop]

(***************************************************************************)
(* A pass begins and ends.                                                 *)
(***************************************************************************)

\* w may start a pass on an object that is (not) being deleted. The base
\* stages need the CAPI Cluster and the CloudStackCluster unless the object
\* is being deleted.
Starts(w, deleting) ==
    LET o == seen[Subject(w)]
    IN  /\ pc[w] = "idle" /\ o.exists /\ o.deleting = deleting
        /\ deleting \/ (capiSeen /\ seen["cluster"].exists)
        /\ w = "C" => queued

\* The pass is over, with its copy of the object turned from before into
\* after; again says whether it asks to be queued again. What was queued
\* while the pass ran stays queued.
Ends(w, before, after, again) ==
    LET d == Diff(before, after)
    IN  /\ diff' = [diff EXCEPT ![w] = d]
        /\ pc' = [pc EXCEPT ![w] = IF d = Nothing THEN "idle"
                                   ELSE IF again THEN "retry" ELSE "patch"]
        /\ queued' = IF w = "C" THEN (pc[w] # "idle" /\ queued) \/ (again /\ d = Nothing)
                     ELSE queued
        /\ read' = IF w = "C" THEN Absent ELSE read

\* The deferred patch; either half may fail, which queues the object again.
Patch(w) ==
    LET k == Subject(w)
        o == obj[k]
        Becomes(new) == Store([obj EXCEPT ![k] = new])
    IN  /\ pc[w] \in {"patch", "retry"}
        /\ \/ /\ Becomes(StatusPatch(SpecPatch(o, diff[w]), diff[w]))
              /\ queued' = (queued \/ (w = "C" /\ (pc[w] = "retry" \/ Rejected(o, diff[w]))))
              /\ UNCHANGED faults
           \/ /\ Disturb("error")
              /\ \E new \in {o, SpecPatch(o, diff[w]), StatusPatch(o, diff[w])} : Becomes(new)
              /\ queued' = (queued \/ w = "C")
        /\ pc' = [pc EXCEPT ![w] = "idle"]
        /\ diff' = [diff EXCEPT ![w] = Nothing]
        /\ UNCHANGED <<netOf, capi, caches, read, cloud, edits>>

(***************************************************************************)
(* The CloudStackCluster controller.                                       *)
(***************************************************************************)

\* Reconcile up to CreateFailureDomains; "already exists" is no error.
CreateFailureDomains ==
    LET o == seen["cluster"]
        missing == {f \in o.spec : ~obj[f].exists}
        Creates(S) == Store([k \in Keys |-> IF k \in S THEN Created({})
                                            ELSE obj[k]])
    IN  /\ Starts("C", FALSE)
        /\ \/ /\ Creates(missing)
              /\ pc' = [pc EXCEPT !["C"] = "verify"] /\ read' = o /\ queued' = FALSE
              /\ UNCHANGED <<diff, faults>>
           \/ /\ Disturb("error") /\ Ends("C", o, o, TRUE)
              /\ \E S \in SUBSET missing : Creates(S)
        /\ UNCHANGED <<netOf, capi, caches, cloud, edits>>

\* Delete requests for the listed failure domains S, one after the other: one
\* that is gone already is an error, which leaves the rest undone.
Deletes(S) == Store([k \in Keys |-> IF k \in S THEN Deleted(obj[k]) ELSE obj[k]])
DeletesSome(S) == \E D \in SUBSET {f \in S : obj[f].exists} : Deletes(D)
AllExist(S) == \A f \in S : obj[f].exists

DomainsReady == \A f \in read.spec : f \in Listed /\ "ready" \in seen[f].status
SetReady == [read EXCEPT !.fin = @ \cup {"C"}, !.status = @ \cup {"ready"}]

\* Variation of VerifyFailureDomainCRDs: the pass ends without a requeue.
VerifyOnce ==
    IF DomainsReady THEN Ends("C", read, SetReady, FALSE) ELSE Ends("C", read, read, FALSE)

\* Queue again until every failure domain is there and ready, then SetReady.
VerifyFailureDomainCRDs ==
    IF DomainsReady THEN Ends("C", read, SetReady, FALSE) ELSE Ends("C", read, read, TRUE)

\* RemoveExtraneousFailureDomains and the stages after it.
RemoveAndVerify ==
    LET extraneous == Listed \ read.spec
    IN  /\ pc["C"] = "verify"
        /\ \/ /\ AllExist(extraneous) /\ Deletes(extraneous)
              /\ VerifyFailureDomainCRDs /\ UNCHANGED faults
           \/ /\ ~AllExist(extraneous) /\ DeletesSome(extraneous)
              /\ Ends("C", read, read, TRUE) /\ UNCHANGED faults
           \/ /\ Disturb("error") /\ DeletesSome(extraneous)
              /\ Ends("C", read, read, TRUE)
        /\ UNCHANGED <<netOf, capi, caches, cloud, edits>>

\* Variation of DeleteFailureDomains: the finalizer goes with the requests.
DeleteWithoutWaiting ==
    LET o == seen["cluster"]
    IN  /\ Starts("C", TRUE)
        /\ IF AllExist(Listed) THEN Deletes(Listed) ELSE DeletesSome(Listed)
        /\ Ends("C", o, [o EXCEPT !.fin = @ \ {"C"}], FALSE)
        /\ UNCHANGED <<netOf, capi, caches, cloud, bounds>>

\* ReconcileDelete: the finalizer goes when no failure domain is listed.
DeleteFailureDomains ==
    LET o == seen["cluster"]
    IN  /\ Starts("C", TRUE)
        /\ \/ /\ Listed = {} /\ UNCHANGED <<obj, orphans, faults>>
              /\ Ends("C", o, [o EXCEPT !.fin = @ \ {"C"}], FALSE)
           \/ /\ Listed # {} /\ Ends("C", o, o, TRUE)
              /\ IF AllExist(Listed) THEN Deletes(Listed) ELSE DeletesSome(Listed)
              /\ UNCHANGED faults
           \/ Disturb("error") /\ DeletesSome(Listed) /\ Ends("C", o, o, TRUE)
        /\ UNCHANGED <<netOf, capi, caches, cloud, edits>>

(***************************************************************************)
(* The CKS cluster controller.                                             *)
(***************************************************************************)

\* GetOrCreateCksCluster finds or creates the entry and records its id;
\* DeleteCksCluster deletes only an entry whose id is recorded.
WithCksEntry(o) == [o EXCEPT !.status = @ \cup {"cks"}]
CksEntryKept(o) == cks /\ "cks" \notin o.status

\* Reconcile does nothing without a failure domain.
GetOrCreateCksCluster ==
    LET o == seen["cluster"]
        guarded == [o EXCEPT !.fin = @ \cup {"K"}]
    IN  /\ Starts("K", FALSE) /\ Listed # {}
        /\ \/ /\ cks' = TRUE
              /\ Ends("K", o, WithCksEntry(guarded), FALSE)
              /\ UNCHANGED faults
           \/ /\ Disturb("error") /\ cks' \in {cks, TRUE}
              /\ Ends("K", o, guarded, TRUE)
        /\ UNCHANGED <<netOf, capi, obj, orphans, caches, net, edits>>

\* ReconcileDelete: if the id of the entry is recorded, the entry is deleted
\* with the credentials of a failure domain; an error without one. The id of
\* an entry that is not found is cleared or left as it is.
DeleteCksCluster ==
    LET o == seen["cluster"]
        deleted == CksEntryKept(o)
    IN  /\ Starts("K", TRUE)
        /\ "cks" \in o.status => Listed # {}
        /\ \/ /\ cks' = deleted
              /\ Ends("K", o, [o EXCEPT !.fin = @ \ {"K"}, !.status = @ \ {"cks"}], FALSE)
              /\ UNCHANGED faults
           \/ /\ ~cks /\ Ends("K", o, [o EXCEPT !.fin = @ \ {"K"}], FALSE)
              /\ UNCHANGED <<cks, faults>>
           \/ /\ Disturb("error") /\ cks' \in {cks, deleted}
              /\ Ends("K", o, o, TRUE)
        /\ UNCHANGED <<netOf, capi, obj, orphans, caches, net, edits>>

(***************************************************************************)
(* The CloudStackFailureDomain controller.                                 *)
(***************************************************************************)

\* Variation of AddDomainFinalizer: the finalizer of another kind.
AddNetworkFinalizer(o, f) == [o EXCEPT !.fin = @ \cup {netOf[f]}]

AddDomainFinalizer(o, f) == [o EXCEPT !.fin = @ \cup {f}]

\* "already exists" is no error, whoever owns the object.
GenerateIsolatedNetwork(f) ==
    Store([obj EXCEPT ![netOf[f]] = IF @.exists THEN @ ELSE Created({f})])

\* Reconcile: the finalizer and the zone are in the pass's copy only when the
\* network object is created; ready is the network in the cache.
ReconcileDomain(f) ==
    LET o == seen[f]
        n == netOf[f]
        guarded == AddDomainFinalizer(o, f)
        resolved == [guarded EXCEPT !.set = TRUE]
    IN  /\ Starts(f, FALSE)
        /\ \/ /\ GenerateIsolatedNetwork(f)
              /\ IF seen[n].exists /\ "ready" \in seen[n].status
                 THEN Ends(f, o, [resolved EXCEPT !.status = {"ready"}], FALSE)
                 ELSE Ends(f, o, resolved, TRUE)
              /\ UNCHANGED faults
           \/ /\ Disturb("error")
              /\ \/ UNCHANGED <<obj, orphans>> /\ Ends(f, o, guarded, TRUE)
                 \/ GenerateIsolatedNetwork(f) /\ Ends(f, o, resolved, TRUE)
        /\ UNCHANGED <<netOf, capi, caches, cloud, edits>>

\* Variation of OwnedBy: the network of the spec, whoever owns the object.
NamedBy(f) == {n \in Nets : obj[n].exists /\ n = netOf[f]}

\* ReconcileDelete: DeleteOwnedObjects and CheckOwnedObjectsDeleted list the
\* objects at the API server.
OwnedBy(f) == {n \in Nets : obj[n].exists /\ n \notin orphans /\ f \in obj[n].spec}

DeleteOwnedObjects(f) ==
    /\ Starts(f, TRUE)
    /\ Deletes(OwnedBy(f))
    /\ pc' = [pc EXCEPT ![f] = "checkowned"]
    /\ UNCHANGED <<netOf, capi, caches, queued, read, diff, cloud, bounds>>

\* Variation of CheckOwnedObjectsDeleted: nobody checks.
AssumeOwnedObjectsDeleted(f) ==
    /\ pc[f] = "checkowned"
    /\ Ends(f, [Absent EXCEPT !.fin = {f}], Absent, FALSE)
    /\ UNCHANGED <<netOf, capi, obj, orphans, caches, cloud, bounds>>

CheckOwnedObjectsDeleted(f) ==
    /\ pc[f] = "checkowned"
    /\ IF OwnedBy(f) = {}
       THEN Ends(f, [Absent EXCEPT !.fin = {f}], Absent, FALSE)
       ELSE Ends(f, Absent, Absent, TRUE)
    /\ UNCHANGED <<netOf, capi, obj, orphans, caches, cloud, bounds>>

(***************************************************************************)
(* The CloudStackIsolatedNetwork controller. Its passes need the failure   *)
(* domain, found by a hash of its name and of the CAPI Cluster's.          *)
(***************************************************************************)
DomainFound(n) == capiSeen /\ \E f \in seen[n].spec : seen[f].exists

\* Reconcile: wait for the zone; the network is there and tagged before the
\* endpoint goes to the CloudStackCluster, and only then it is ready. An
\* endpoint the cache does not have yet is not known to the pass, which then
\* brings another one that is not admitted.
ProvisionNetwork(n) ==
    LET o == seen[n]
        guarded == [o EXCEPT !.fin = {n}]
        zone == \E f \in o.spec : seen[f].set
        tagged == [net EXCEPT ![n] = "tagged"]
        known == seen["cluster"].set
        admitted == obj["cluster"].exists /\ ~obj["cluster"].set
    IN  /\ Starts(n, FALSE) /\ DomainFound(n)
        /\ \/ ~zone /\ Ends(n, o, guarded, TRUE) /\ UNCHANGED <<obj, orphans, net, faults>>
           \/ /\ zone /\ net' = tagged
              /\ \/ known /\ UNCHANGED <<obj, orphans>>
                 \/ ~known /\ admitted /\ Store([obj EXCEPT !["cluster"].set = TRUE])
              /\ Ends(n, o, [guarded EXCEPT !.status = {"ready"}], FALSE)
              /\ UNCHANGED faults
           \/ /\ zone /\ net' = tagged /\ ~known /\ ~admitted
              /\ Ends(n, o, guarded, TRUE) /\ UNCHANGED <<obj, orphans, faults>>
           \/ /\ zone /\ Disturb("error") /\ net' \in {net, tagged}
              /\ Ends(n, o, guarded, TRUE) /\ UNCHANGED <<obj, orphans>>
        /\ UNCHANGED <<netOf, capi, caches, cks, edits>>

\* Variation of DisposalFailed: the error is dropped.
DisposalIgnored(n, o) == Ends(n, o, [o EXCEPT !.fin = {}], FALSE)

DisposalFailed(n, o) == Ends(n, o, o, TRUE)

\* ReconcileDelete: the tag is named after the uid of the CloudStackCluster
\* the pass has read, and only a network without a tag is deleted.
DisposeNetwork(n) ==
    LET o == seen[n]
        disposed == IF net[n] = "tagged" /\ seen["cluster"].exists
                    THEN [net EXCEPT ![n] = "gone"] ELSE net
    IN  /\ Starts(n, TRUE) /\ DomainFound(n)
        /\ \/ /\ net' = disposed /\ Ends(n, o, [o EXCEPT !.fin = {}], FALSE)
              /\ UNCHANGED faults
           \/ /\ Disturb("error") /\ net' \in {net, disposed}
              /\ DisposalFailed(n, o)
        /\ UNCHANGED <<netOf, capi, obj, orphans, caches, cks, edits>>

(***************************************************************************)
(* Everyone else.                                                          *)
(***************************************************************************)

\* Variation of Triggers: a deletion time does not count either.
TriggersOnSpec(old, new) == new.exists /\ (old.spec # new.spec \/ old.set # new.set)

\* The update predicate of "C": finalizers and status do not count.
Triggers(old, new) ==
    new.exists /\ (old.spec # new.spec \/ old.set # new.set \/ old.deleting # new.deleting)

\* The events of one kind of object are delivered in order.
Watch(kind) ==
    /\ \E k \in kind : seen[k] # obj[k]
    /\ seen' = [k \in Keys |-> IF k \in kind THEN obj[k] ELSE seen[k]]
    /\ queued' = (queued \/ ("cluster" \in kind /\ Triggers(seen["cluster"], obj["cluster"])))
    /\ UNCHANGED <<netOf, capi, obj, orphans, capiSeen, pc, read, diff, cloud, bounds>>

WatchCapi ==
    /\ capiSeen /\ capi = "gone"
    /\ capiSeen' = FALSE
    /\ UNCHANGED <<netOf, capi, obj, orphans, seen, queued, pc, read, diff, cloud, bounds>>

\* The user deletes the CAPI Cluster: CAPI deletes the infrastructure cluster
\* and waits for it to go away.
DeleteRequested ==
    /\ capi = "up" /\ capi' = "deleting"
    /\ DeleteEarly \/ "C" \in obj["cluster"].fin
    /\ Store([obj EXCEPT !["cluster"] = Deleted(@)])
    /\ UNCHANGED <<netOf, caches, queued, pc, read, diff, cloud, bounds>>

CapiGone ==
    /\ capi = "deleting" /\ ~obj["cluster"].exists
    /\ capi' = "gone"
    /\ UNCHANGED <<netOf, obj, orphans, caches, queued, pc, read, diff, cloud, bounds>>

GarbageCollect(k) ==
    /\ k \in orphans /\ ~obj[k].deleting
    /\ Store([obj EXCEPT ![k] = Deleted(@)])
    /\ UNCHANGED <<netOf, capi, caches, queued, pc, read, diff, cloud, bounds>>

\* ValidateFailureDomainUpdates: at least one failure domain stays.
UpdateAdmitted(old, new) == old \cap new # {}

EditSpec ==
    /\ edits < MaxEdits /\ edits' = edits + 1
    /\ obj["cluster"].exists /\ ~obj["cluster"].deleting
    /\ \E spec \in SUBSET Domains :
          /\ spec # obj["cluster"].spec
          /\ UpdateAdmitted(obj["cluster"].spec, spec)
          /\ Store([obj EXCEPT !["cluster"].spec = spec])
    /\ UNCHANGED <<netOf, capi, caches, queued, pc, read, diff, cloud, faults>>

\* The manager restarts: passes are lost, the caches are filled anew.
Crash ==
    /\ Disturb("crash")
    /\ capiSeen' = (capi # "gone") /\ seen' = obj /\ queued' = TRUE
    /\ pc' = [w \in Workers |-> "idle"]
    /\ read' = Absent /\ diff' = [w \in Workers |-> Nothing]
    /\ UNCHANGED <<netOf, capi, obj, orphans, cloud, edits>>

(***************************************************************************)
(* The specification.                                                      *)
(***************************************************************************)
Init ==
    /\ netOf \in Naming
    /\ capi = "up" /\ capiSeen = TRUE
    /\ obj = [k \in Keys |-> IF k = "cluster" THEN Created(First) ELSE Absent]
    /\ orphans = {} /\ seen = obj /\ queued = TRUE
    /\ pc = [w \in Workers |-> "idle"]
    /\ read = Absent /\ diff = [w \in Workers |-> Nothing]
    /\ net = [n \in Nets |-> "absent"] /\ cks = FALSE
    /\ faults = 0 /\ edits = 0

ClusterStep == CreateFailureDomains \/ RemoveAndVerify \/ DeleteFailureDomains
CksStep == Cks /\ (GetOrCreateCksCluster \/ DeleteCksCluster)
DomainStep(f) == ReconcileDomain(f) \/ DeleteOwnedObjects(f) \/ CheckOwnedObjectsDeleted(f)
NetStep(n) == ProvisionNetwork(n) \/ DisposeNetwork(n)

Pass(w) ==
    \/ Patch(w)
    \/ w = "C" /\ ClusterStep
    \/ w = "K" /\ CksStep
    \/ w \in Domains /\ DomainStep(w)
    \/ w \in Nets /\ NetStep(w)

Kinds == {{"cluster"}, Domains, Nets}

Next ==
    \/ \E w \in Workers : Pass(w)
    \/ \E kind \in Kinds : Watch(kind)
    \/ \E k \in Domains \cup Nets : GarbageCollect(k)
    \/ WatchCapi \/ CapiGone
    \/ DeleteRequested \/ EditSpec \/ Crash

\* Workers run and watches deliver as long as the manager does; CAPI and the
\* garbage collector act as long as the management cluster works.
Fairness ==
    /\ \A w \in Workers : WF_vars(Pass(w))
    /\ \A kind \in Kinds : WF_vars(Watch(kind))
    /\ \A k \in Domains \cup Nets : WF_vars(GarbageCollect(k))
    /\ WF_vars(WatchCapi) /\ WF_vars(CapiGone)

Spec == Init /\ [][Next]_vars
FairSpec == Spec /\ Fairness

(***************************************************************************)
(* Properties.                                                             *)
(***************************************************************************)
Gone == capi = "gone" /\ \A k \in Keys : ~obj[k].exists

\* A cluster that is deleted while the cluster controller, and no longer the
\* CKS controller, holds it comes down completely: no object waits for another
\* one for ever.
TeardownCompletes == capi = "deleting" /\ obj["cluster"].fin = {"C"} ~> Gone

\* The cluster gets ready.
SetupCompletes == <>("ready" \in obj["cluster"].status \/ capi = "deleting")

\* A CloudStackCluster with its finalizer goes away only after all of its
\* failure domains, although it finds them in a cache.
ClusterOutlivesDomains ==
    [][ "C" \in obj["cluster"].fin /\ ~obj'["cluster"].exists
          => \A f \in Domains : ~obj[f].exists ]_vars

\* A failure domain with its finalizer goes away only after the isolated
\* networks it owns.
DomainOutlivesNetworks ==
    [][ \A f \in Domains : f \in obj[f].fin /\ ~obj'[f].exists => OwnedBy(f) = {} ]_vars

\* Failure domains that name one network share its object, which is owned by
\* the one that came first: the others may go, and it stays.
SharedNetworkKept ==
    [][ \A n \in Nets : ~obj[n].deleting /\ obj'[n].deleting
          => n \in orphans \/ \E f \in obj[n].spec : obj[f].deleting ]_vars

\* An isolated network object with its finalizer goes away only after the
\* network it stands for was released in CloudStack, as long as the cluster is
\* there.
NetworksDisposed ==
    [][ \A n \in Nets : n \in obj[n].fin /\ ~obj'[n].exists /\ obj["cluster"].exists
                          => net[n] # "tagged" ]_vars

(***************************************************************************)
(* What comments say and the code does not do.                             *)
(***************************************************************************)
\* "The base reconciliation stages will continue even if not so as to allow
\* deletion" (a CAPI Cluster or CloudStackCluster that is missing): whenever a
\* cluster is deleted, everything below it goes away.
AnyTeardownCompletes == capi = "deleting" ~> Gone
=============================================================================
