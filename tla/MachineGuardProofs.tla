------------------------- MODULE MachineGuardProofs -------------------------
(***************************************************************************)
(* The finalizer guards the VM: unless VMs are removed out of band, an     *)
(* object that carries the machine finalizer goes away only after its VM   *)
(* has been destroyed.                                                     *)
(*                                                                         *)
(* And a machine at rest is complete: a pass that failed half way is run   *)
(* again.                                                                  *)
(***************************************************************************)
EXTENDS MachineLifecycleProofs

USE DEF Goto, Return, Disturb, CallFails, Store

\* VM v has been deployed, whatever became of it.
Used(v) == vm[v] # "absent"

Removed == \E v \in VMIds : Used(v) /\ v \notin Live

\* There was only ever one VM, the one every recorded InstanceID names.
IdsInv ==
    /\ \A v, w \in VMIds : Used(v) /\ Used(w) => v = w
    /\ \A i \in 1..Len(stream) : HasId(stream[i]) => Used(stream[i].iid)
    /\ \A c \in Controllers : HasId(loc[c]) => Used(loc[c].iid)

\* Once the VM is being removed, the cache and the pass see the deletion.
RemovedInv == Removed => cache.deleting /\ (pc["M"] # "idle" => base["M"].deleting)

\* Only an object that is not being deleted is given a VM.
ProvisionInv ==
    pc["M"] \in {"fdcheck", "getvm", "deploy", "resolve"} => ~base["M"].deleting

\* A pass that has taken the finalizer off its copy leaves no live VM behind.
ReleaseInv ==
    "M" \in base["M"].fins /\ "M" \notin loc["M"].fins =>
        Live = {} /\ pc["M"] \in {"patchSpec", "patchStatus"}

GuardInv == IdsInv /\ RemovedInv /\ ProvisionInv /\ ReleaseInv

\* What is left to show of a step of a machine controller pass.
GuardStep ==
    /\ \A v \in VMIds : Used(v) => vm'[v] # "absent"
    /\ \A v, w \in VMIds : vm'[v] # "absent" /\ vm'[w] # "absent" => v = w
    /\ HasId(loc'["M"]) => vm'[loc'["M"].iid] # "absent"
    /\ Removed' => Removed \/ base["M"].deleting
    /\ pc["M"] # "idle"
    /\ ProvisionInv' /\ ReleaseInv'

LEMMA GuardPass ==
    ASSUME SafetyInv, GuardInv, PassStep("M"), GuardStep
    PROVE  GuardInv'
  <1> "M" \in Controllers
    BY ControllerAssumption
  <1>1. stream' = stream /\ base' = base
    BY DEF PassStep
  <1>2. PICK l \in Obj : loc' = [loc EXCEPT !["M"] = l]
    BY DEF PassStep
  <1>3. \A i \in 1..Len(stream) : stream[i] \in Obj
    BY DEF SafetyInv, TypeInv, TypeOK
  <1>4. \A c \in Controllers : loc[c] \in Obj
    BY DEF SafetyInv, TypeInv, TypeOK
  <1>5. \A i \in 1..Len(stream) : HasId(stream[i]) => vm'[stream[i].iid] # "absent"
    <2> TAKE i \in 1..Len(stream)
    <2> HAVE HasId(stream[i])
    <2>1. stream[i].iid \in VMIds /\ Used(stream[i].iid)
      BY <1>3 DEF HasId, Obj, Ids, GuardInv, IdsInv
    <2> QED BY <1>1, <2>1 DEF GuardStep, Used
  <1>6. \A c \in Controllers : HasId(loc'[c]) => vm'[loc'[c].iid] # "absent"
    <2> TAKE c \in Controllers
    <2> HAVE HasId(loc'[c])
    <2>1. CASE c = "M"
      BY <2>1 DEF GuardStep, HasId
    <2>2. CASE c # "M"
      <3>1. loc'[c] = loc[c]
        BY <1>2, <2>2 DEF SafetyInv, TypeInv, TypeOK
      <3>2. loc[c].iid \in VMIds /\ Used(loc[c].iid)
        BY <1>4, <3>1 DEF HasId, Obj, Ids, GuardInv, IdsInv
      <3> QED BY <3>1, <3>2 DEF GuardStep, Used
    <2> QED BY <2>1, <2>2
  <1>7. IdsInv'
    BY <1>1, <1>5, <1>6 DEF IdsInv, GuardStep, HasId, Used
  <1>8. RemovedInv'
    <2>1. cache' = cache
      BY <1>1 DEF cache
    <2>2. base["M"].deleting => cache.deleting
      BY DEF SafetyInv, CopiesInv
    <2> QED
      BY <1>1, <2>1, <2>2 DEF RemovedInv, GuardStep, GuardInv
  <1> QED
    BY <1>7, <1>8 DEF GuardInv, GuardStep

\* The part of GuardStep that is about VMs, when they stay as they are.
LEMMA GuardSameVMs ==
    ASSUME GuardInv, vm' = vm
    PROVE  /\ \A v \in VMIds : Used(v) => vm'[v] # "absent"
           /\ \A v, w \in VMIds : vm'[v] # "absent" /\ vm'[w] # "absent" => v = w
           /\ Removed' <=> Removed
           /\ Live' = Live /\ Visible' = Visible
  BY DEF GuardInv, IdsInv, Used, Removed, Live, Visible

\* Visible VMs are used; if there is no VM left to see, or the recorded one
\* is not live, no VM is live.
LEMMA LiveFacts ==
    ASSUME SafetyInv, GuardInv
    PROVE  /\ \A v \in Visible : v \in VMIds /\ Used(v) /\ v # None
           /\ Live \subseteq Visible
           /\ \A v \in VMIds : Used(v) /\ v \notin Live => Live = {}
  BY IdAssumption DEF Visible, Used, Live, GuardInv, IdsInv

LEMMA GuardCallFails ==
    ASSUME SafetyInv, GuardInv, CallFails("M"), pc["M"] # "idle"
    PROVE  GuardStep
  <1> "M" \in Controllers
    BY ControllerAssumption
  <1>1. loc' = loc /\ base' = base /\ vm' = vm /\ pc'["M"] = "patchSpec"
    BY DEF SafetyInv, TypeInv, TypeOK, cloud
  <1>2. ProvisionInv' /\ ReleaseInv'
    BY <1>1, GuardSameVMs DEF ProvisionInv, ReleaseInv, GuardInv
  <1> QED
    BY <1>1, <1>2, GuardSameVMs DEF GuardStep, GuardInv, IdsInv, HasId, Used

\* The steps before the VM is looked for.
LEMMA GuardEarly ==
    ASSUME SafetyInv, GuardInv, MGates \/ MFailureDomainCheck
    PROVE  GuardStep
  <1> "M" \in Controllers
    BY ControllerAssumption
  <1>1. /\ vm' = vm /\ base' = base /\ pc["M"] \in {"gates", "fdcheck"}
        /\ loc'["M"].fins = loc["M"].fins /\ loc'["M"].iid = loc["M"].iid
    BY OwnCopy DEF MGates, MFailureDomainCheck, SafetyInv, TypeInv, TypeOK, Obj, cloud
  <1>2. pc'["M"] \in {"fdcheck", "getvm"} => ~base["M"].deleting
    BY DEF MGates, MFailureDomainCheck, SafetyInv, TypeInv, TypeOK, GuardInv, ProvisionInv
  <1>3. pc'["M"] \notin {"deploy", "resolve"}
    BY DEF MGates, MFailureDomainCheck, SafetyInv, TypeInv, TypeOK
  <1>4. ProvisionInv' /\ ReleaseInv'
    BY <1>1, <1>2, <1>3 DEF ProvisionInv, ReleaseInv, GuardInv
  <1> QED
    BY <1>1, <1>4, GuardSameVMs DEF GuardStep, GuardInv, IdsInv, HasId, Used

\* A pass that has found its VM.
LEMMA GuardFound ==
    ASSUME SafetyInv, GuardInv, NEW v \in Visible, MFound(v),
           base' = base, vm' = vm, pc["M"] # "idle"
    PROVE  GuardStep
  <1>1. v \in VMIds /\ Used(v)
    BY LiveFacts
  <1>2. /\ loc'["M"].iid = v /\ loc'["M"].fins = loc["M"].fins \cup {"M"}
        /\ pc'["M"] \in {"lb", "delcapi", "patchSpec"}
    BY <1>1, FoundCopy
  <1>3. ProvisionInv' /\ ReleaseInv'
    BY <1>2 DEF ProvisionInv, ReleaseInv
  <1> QED
    BY <1>1, <1>2, <1>3, GuardSameVMs DEF GuardStep, HasId, Used

LEMMA GuardLookup ==
    ASSUME SafetyInv, GuardInv, MGetVM \/ MResolve
    PROVE  GuardStep
  <1> "M" \in Controllers
    BY ControllerAssumption
  <1> DEFINE found == Resolved(loc["M"].iid)
  <1>1. pc["M"] \in {"getvm", "resolve"} /\ ~base["M"].deleting
    BY DEF MGetVM, MResolve, GuardInv, ProvisionInv
  <1>2. CASE CallFails("M")
    BY <1>1, <1>2, GuardCallFails
  <1>3. CASE ~CallFails("M")
    <2>1. vm' = vm /\ base' = base
      BY <1>3 DEF MGetVM, MResolve, cloud
    <2>2. CASE \E v \in found : MFound(v)
      <3>1. PICK v \in Visible : MFound(v)
        BY <2>2 DEF Resolved
      <3> QED BY <1>1, <2>1, <3>1, GuardFound
    <2>3. CASE ~\E v \in found : MFound(v)
      <3>1. loc' = loc
        BY <1>3, <2>3 DEF MGetVM, MResolve
      <3>2. ProvisionInv' /\ ReleaseInv'
        BY <1>1, <2>1, <3>1 DEF ProvisionInv, ReleaseInv, GuardInv
      <3> QED
        BY <1>1, <2>1, <3>1, <3>2, GuardSameVMs DEF GuardStep, GuardInv, IdsInv, HasId, Used
    <2> QED BY <2>2, <2>3
  <1> QED BY <1>2, <1>3

LEMMA GuardDeploy ==
    ASSUME SafetyInv, GuardInv, MDeploy
    PROVE  GuardStep
  <1> "M" \in Controllers
    BY ControllerAssumption
  <1>1. pc["M"] = "deploy" /\ ~base["M"].deleting /\ Visible = {}
    BY DEF MDeploy, MRefused, GuardInv, ProvisionInv, SafetyInv, PassInv
  <1>2. CASE CallFails("M")
    BY <1>1, <1>2, GuardCallFails
  <1>3. CASE ~CallFails("M")
    <2>1. PICK v \in VMIds, s \in {"Starting", "Error"}, id \in Ids :
            /\ vm' = [vm EXCEPT ![v] = s] /\ loc' = [loc EXCEPT !["M"].iid = id]
            /\ id = v \/ id = loc["M"].iid
      BY <1>3, OwnCopy DEF MDeploy, MRefused, Obj, Ids
    <2>2. base' = base /\ pc'["M"] \in {"resolve", "patchSpec"}
      BY <1>3 DEF MDeploy, MRefused, SafetyInv, TypeInv, TypeOK
    <2>3. loc'["M"].iid = id /\ loc'["M"].fins = loc["M"].fins
      BY <2>1, OwnCopy DEF SafetyInv, TypeInv, TypeOK, Obj
    <2>4. \A w \in VMIds : ~Used(w)
      <3>1. Live = {}
        BY <1>1, LiveFacts
      <3>2. ~Removed
        BY <1>1 DEF GuardInv, RemovedInv
      <3> QED BY <3>1, <3>2 DEF Removed
    <2>5. \A w \in VMIds : vm'[w] = IF w = v THEN s ELSE "absent"
      BY <2>1, <2>4 DEF Used, SafetyInv, TypeInv, TypeOK
    <2>6. HasId(loc'["M"]) => vm'[loc'["M"].iid] # "absent"
      <3>1. ~HasId(loc["M"])
        BY <2>4, OwnCopy DEF GuardInv, IdsInv, HasId, Obj, Ids
      <3> QED BY <2>1, <2>3, <2>5, <3>1 DEF HasId
    <2>7. ~Removed'
      <3>1. v \in Live'
        BY <2>5 DEF Live
      <3> QED BY <2>5, <3>1 DEF Removed, Used
    <2>8. ProvisionInv' /\ ReleaseInv'
      BY <1>1, <2>2, <2>3 DEF ProvisionInv, ReleaseInv, GuardInv
    <2> QED
      BY <1>1, <2>4, <2>5, <2>6, <2>7, <2>8 DEF GuardStep
  <1> QED BY <1>2, <1>3

LEMMA GuardQuiet ==
    ASSUME SafetyInv, GuardInv, MDeleteCapi \/ MAddToLB \/ MStateChecker
    PROVE  GuardStep
  <1> "M" \in Controllers
    BY ControllerAssumption
  <1>1. loc' = loc /\ base' = base /\ vm' = vm
    BY SafeQuietStep
  <1>2. pc["M"] \in {"delcapi", "lb", "checker"} /\ pc'["M"] \in {"checker", "patchSpec"}
    BY DEF MDeleteCapi, MAddToLB, MStateChecker, SafetyInv, TypeInv, TypeOK
  <1>3. ProvisionInv' /\ ReleaseInv'
    BY <1>1, <1>2 DEF ProvisionInv, ReleaseInv, GuardInv
  <1> QED
    BY <1>1, <1>2, <1>3, GuardSameVMs DEF GuardStep, GuardInv, IdsInv, HasId, Used

LEMMA GuardFindVM ==
    ASSUME SafetyInv, GuardInv, MFindVM
    PROVE  GuardStep
  <1> "M" \in Controllers
    BY ControllerAssumption
  <1>1. pc["M"] = "findvm"
    BY DEF MFindVM
  <1>2. CASE CallFails("M")
    BY <1>1, <1>2, GuardCallFails
  <1>3. CASE ~CallFails("M")
    <2>1. vm' = vm /\ base' = base
      BY <1>3 DEF MFindVM, cloud
    <2>2. /\ loc' = loc \/ \E v \in Visible : loc' = [loc EXCEPT !["M"].iid = v]
          /\ pc'["M"] \in {"destroy", "patchSpec"}
      BY <1>3 DEF MFindVM, SafetyInv, TypeInv, TypeOK
    <2>3. /\ loc'["M"].fins = loc["M"].fins
          /\ loc'["M"].iid = loc["M"].iid \/ loc'["M"].iid \in Visible
      BY <2>2, OwnCopy DEF SafetyInv, TypeInv, TypeOK, Obj
    <2>4. HasId(loc'["M"]) => vm'[loc'["M"].iid] # "absent"
      BY <2>1, <2>3, LiveFacts DEF HasId, Used, GuardInv, IdsInv
    <2>5. ProvisionInv' /\ ReleaseInv'
      BY <1>1, <2>1, <2>2, <2>3 DEF ProvisionInv, ReleaseInv, GuardInv
    <2> QED
      BY <1>1, <2>1, <2>4, <2>5, GuardSameVMs DEF GuardStep
  <1> QED BY <1>2, <1>3

LEMMA GuardDestroy ==
    ASSUME SafetyInv, GuardInv, MDestroy
    PROVE  GuardStep
  <1> DEFINE id == loc["M"].iid
  <1> "M" \in Controllers
    BY ControllerAssumption
  <1>1. pc["M"] = "destroy" /\ base["M"].deleting /\ HasId(loc["M"]) /\ base' = base
    BY DEF MDestroy, SafetyInv, PassInv
  <1>2. id \in VMIds /\ Used(id)
    BY <1>1, OwnCopy DEF HasId, Obj, Ids, GuardInv, IdsInv
  <1>3. \/ vm' = vm
        \/ \E s \in {"Destroyed", "Expunging"} : vm' = [vm EXCEPT ![id] = s]
    BY DEF MDestroy
  <1>4. \A v \in VMIds : (vm'[v] # "absent") <=> Used(v)
    BY <1>2, <1>3 DEF Used, SafetyInv, TypeInv, TypeOK
  <1>5. /\ pc'["M"] \in {"confirm", "patchSpec"}
        /\ \/ loc' = loc
           \/ /\ loc' = [loc EXCEPT !["M"].fins = @ \ {"M"}]
              /\ pc'["M"] = "patchSpec" /\ id \notin Visible /\ vm' = vm
    BY DEF MDestroy, MVMDeleted, SafetyInv, TypeInv, TypeOK
  <1>6. loc'["M"].iid = id
    BY <1>5, OwnCopy DEF SafetyInv, TypeInv, TypeOK, Obj
  <1>7. ProvisionInv'
    BY <1>5 DEF ProvisionInv
  <1>8. ReleaseInv'
    <2>1. CASE loc' = loc
      BY <1>1, <2>1 DEF ReleaseInv, GuardInv
    <2>2. CASE loc' # loc
      <3>1. Live = {}
        BY <1>2, <1>5, <2>2, LiveFacts
      <3>2. Live' = {}
        BY <1>5, <2>2, <3>1 DEF Live
      <3> QED BY <1>5, <2>2, <3>2 DEF ReleaseInv
    <2> QED BY <2>1, <2>2
  <1> QED
    BY <1>1, <1>2, <1>4, <1>6, <1>7, <1>8 DEF GuardStep, GuardInv, IdsInv

LEMMA GuardConfirm ==
    ASSUME SafetyInv, GuardInv, MConfirm
    PROVE  GuardStep
  <1> "M" \in Controllers
    BY ControllerAssumption
  <1>1. pc["M"] = "confirm" /\ HasId(loc["M"])
    BY DEF MConfirm, SafetyInv, PassInv
  <1>2. CASE CallFails("M")
    BY <1>1, <1>2, GuardCallFails
  <1>3. CASE ~CallFails("M")
    <2>1. vm' = vm /\ base' = base
      BY <1>3 DEF MConfirm, cloud
    <2>2. /\ pc'["M"] = "patchSpec"
          /\ \/ loc' = loc
             \/ loc' = [loc EXCEPT !["M"].fins = @ \ {"M"}] /\ Visible = {}
             \/ \E v \in Visible : loc' = [loc EXCEPT !["M"].iid = v]
             \/ \E v \in Visible : /\ loc' = [loc EXCEPT !["M"].iid = v, !["M"].fins = @ \ {"M"}]
                                   /\ vm[v] = "Expunging"
      BY <1>3 DEF MConfirm, MVMDeleted, Resolved, SafetyInv, TypeInv, TypeOK
    <2>3. /\ loc'["M"].iid = loc["M"].iid \/ loc'["M"].iid \in Visible
          /\ \/ loc'["M"].fins = loc["M"].fins
             \/ Visible = {}
             \/ \E v \in Visible : vm[v] = "Expunging"
      <3> USE OwnCopy DEF SafetyInv, TypeInv, TypeOK, Obj
      <3>1. CASE loc' = loc
        BY <3>1
      <3>2. CASE loc' = [loc EXCEPT !["M"].fins = @ \ {"M"}] /\ Visible = {}
        BY <3>2
      <3>3. CASE \E v \in Visible : loc' = [loc EXCEPT !["M"].iid = v]
        BY <3>3
      <3>4. CASE \E v \in Visible : /\ loc' = [loc EXCEPT !["M"].iid = v, !["M"].fins = @ \ {"M"}]
                                    /\ vm[v] = "Expunging"
        BY <3>4
      <3> QED BY <2>2, <3>1, <3>2, <3>3, <3>4
    <2>4. HasId(loc'["M"]) => vm'[loc'["M"].iid] # "absent"
      BY <1>1, <2>1, <2>3, LiveFacts DEF HasId, Used, GuardInv, IdsInv
    <2>5. loc'["M"].fins = loc["M"].fins \/ Live = {}
      <3>1. \A v \in Visible : vm[v] = "Expunging" => v \notin Live
        BY DEF Live
      <3> QED BY <2>3, <3>1, LiveFacts
    <2>6. ProvisionInv' /\ ReleaseInv'
      BY <2>1, <2>2, <2>5, GuardSameVMs DEF ProvisionInv, ReleaseInv, GuardInv
    <2> QED
      BY <1>1, <2>1, <2>4, <2>6, GuardSameVMs DEF GuardStep
  <1> QED BY <1>2, <1>3

LEMMA GuardMPass ==
    ASSUME SafetyInv, GuardInv, MPass
    PROVE  GuardInv'
  <1>1. PassStep("M")
    BY SafeMPass DEF PassSafe
  <1>2. GuardStep
    BY GuardEarly, GuardLookup, GuardDeploy, GuardQuiet, GuardFindVM, GuardDestroy,
       GuardConfirm DEF MPass
  <1> QED BY <1>1, <1>2, GuardPass

(***************************************************************************)
(* The other steps.                                                        *)
(***************************************************************************)

\* The CKS machine controller's pass.
LEMMA GuardKPass ==
    ASSUME SafetyInv, GuardInv, "K" \in Controllers, KGates \/ KAddVM \/ KRemoveVM
    PROVE  GuardInv'
  <1>1. /\ PassStep("K") /\ vm' = vm /\ base' = base
        /\ loc'["M"] = loc["M"] /\ pc'["M"] = pc["M"] /\ loc'["K"].iid = loc["K"].iid
    BY SafeKPass DEF PassSafe
  <1>2. stream' = stream /\ cache' = cache
    BY <1>1 DEF PassStep, cache
  <1>3. \A c \in Controllers : loc'[c].iid = loc[c].iid
    BY <1>1, ControllerAssumption
  <1>4. IdsInv'
    BY <1>1, <1>2, <1>3 DEF GuardInv, IdsInv, Used, HasId
  <1> QED
    BY <1>1, <1>2, <1>4, GuardSameVMs DEF GuardInv, RemovedInv, ProvisionInv, ReleaseInv

LEMMA GuardStart ==
    ASSUME SafetyInv, GuardInv, NEW c \in Controllers, Start(c)
    PROVE  GuardInv'
  <1> "M" \in Controllers
    BY ControllerAssumption
  <1>1. stream' = stream /\ vm' = vm /\ cache' = cache
    BY DEF Start, cloud, cache
  <1>2. CASE ~cache.exists
    <2>1. base' = base /\ loc' = loc /\ pc' = pc
      BY <1>2 DEF Start
    <2> QED
      BY <1>1, <2>1, GuardSameVMs
      DEF GuardInv, IdsInv, RemovedInv, ProvisionInv, ReleaseInv, Used, HasId
  <1>3. CASE cache.exists
    <2>1. /\ base' = [base EXCEPT ![c] = cache] /\ loc' = [loc EXCEPT ![c] = cache]
          /\ pc' = [pc EXCEPT ![c] = "gates"]
      BY <1>3 DEF Start
    <2>2. /\ \A d \in Controllers : loc'[d] = IF d = c THEN cache ELSE loc[d]
          /\ base'["M"] = IF c = "M" THEN cache ELSE base["M"]
          /\ pc'["M"] = IF c = "M" THEN "gates" ELSE pc["M"]
      BY <2>1 DEF SafetyInv, TypeInv, TypeOK
    <2>3. HasId(cache) => Used(cache.iid)
      BY DEF GuardInv, IdsInv, cache, SafetyInv, TypeInv, TypeOK
    <2>4. IdsInv'
      BY <1>1, <2>2, <2>3 DEF GuardInv, IdsInv, Used, HasId
    <2>5. RemovedInv' /\ ProvisionInv' /\ ReleaseInv'
      BY <1>1, <2>2, GuardSameVMs DEF GuardInv, RemovedInv, ProvisionInv, ReleaseInv
    <2> QED BY <2>4, <2>5 DEF GuardInv
  <1> QED BY <1>2, <1>3

\* The InstanceID a patch stores is one the pass or the object already had.
LEMMA PatchId ==
    ASSUME SafetyInv, NEW c \in Controllers
    PROVE  Merged(base[c], loc[c]).iid \in {loc[c].iid, api.iid}
  BY VersionType DEF Merged, Obj, SafetyInv, TypeInv, TypeOK

\* A write whose InstanceID is a used one.
LEMMA GuardStore ==
    ASSUME SafetyInv, GuardInv, NEW o \in Obj, Store(o), vm' = vm,
           HasId(o) => Used(o.iid)
    PROVE  /\ \A i \in 1..Len(stream') : HasId(stream'[i]) => vm'[stream'[i].iid] # "absent"
           /\ cache' = cache
  <1>1. stream \in Seq(Obj) /\ Len(stream) \in Nat /\ Len(stream) > 0
    BY DEF SafetyInv, TypeInv, TypeOK
  <1>2. \A i \in 1..Len(stream) : HasId(stream[i]) => vm'[stream[i].iid] # "absent"
    BY DEF GuardInv, IdsInv, Used
  <1>3. CASE stream' = stream
    BY <1>2, <1>3 DEF cache
  <1>4. CASE stream' = Append(stream, o)
    <2>1. /\ Len(stream') = Len(stream) + 1
          /\ \A i \in 1..Len(stream') :
               IF i = Len(stream) + 1 THEN stream'[i] = o
               ELSE i \in 1..Len(stream) /\ stream'[i] = stream[i]
      BY <1>1, <1>4
    <2>2. cache' = cache
      BY <1>1, <1>4 DEF cache
    <2> QED BY <1>2, <2>1, <2>2 DEF Used, HasId
  <1> QED BY <1>3, <1>4

LEMMA StoredIdUsed ==
    ASSUME SafetyInv, GuardInv
    PROVE  /\ HasId(api) => Used(api.iid)
           /\ api \in Obj
  BY VersionType DEF GuardInv, IdsInv, api, SafetyInv, TypeInv, TypeOK

LEMMA GuardPatchSpec ==
    ASSUME SafetyInv, GuardInv, NEW c \in Controllers, PatchSpec(c)
    PROVE  GuardInv'
  <1> DEFINE new == Merged(base[c], loc[c])
  <1> "M" \in Controllers
    BY ControllerAssumption
  <1>1. /\ vm' = vm /\ base' = base /\ loc' = loc
        /\ pc["M"] = "idle" <=> pc'["M"] = "idle"
        /\ pc'["M"] = pc["M"] \/ (pc["M"] = "patchSpec" /\ pc'["M"] = "patchStatus")
    BY DEF PatchSpec, cloud, SafetyInv, TypeInv, TypeOK
  <1>2. new \in Obj /\ Collected(new) \in Obj /\ Collected(new).iid = new.iid
    <2>1. new \in Obj /\ Collected(new) \in Obj
      BY PatchType, StoredIdUsed, OwnCopy
    <2> QED BY <2>1 DEF Collected, Obj
  <1>3. HasId(Collected(new)) => Used(Collected(new).iid)
    BY <1>2, PatchId, StoredIdUsed DEF HasId, GuardInv, IdsInv
  <1>4. /\ \A i \in 1..Len(stream') : HasId(stream'[i]) => vm'[stream'[i].iid] # "absent"
        /\ cache' = cache
    <2>1. CASE stream' = stream
      BY <1>1, <2>1 DEF GuardInv, IdsInv, Used, cache
    <2>2. CASE stream' # stream
      <3>1. Store(Collected(new))
        BY <2>2 DEF PatchSpec
      <3> QED BY <1>1, <1>2, <1>3, <3>1, GuardStore
    <2> QED BY <2>1, <2>2
  <1>5. IdsInv'
    BY <1>1, <1>4 DEF GuardInv, IdsInv, Used, HasId
  <1>6. RemovedInv' /\ ProvisionInv' /\ ReleaseInv'
    BY <1>1, <1>4, GuardSameVMs DEF GuardInv, RemovedInv, ProvisionInv, ReleaseInv
  <1> QED BY <1>5, <1>6 DEF GuardInv

LEMMA GuardPatchStatus ==
    ASSUME SafetyInv, GuardInv, NEW c \in Controllers, PatchStatus(c)
    PROVE  GuardInv'
  <1> DEFINE new == [api EXCEPT !.ready = loc[c].ready]
  <1> "M" \in Controllers
    BY ControllerAssumption
  <1>1. vm' = vm
    BY DEF PatchStatus, cloud
  <1>2. /\ \A d \in Controllers : loc'[d] = IF d = c THEN NewObj ELSE loc[d]
        /\ base'["M"] = IF c = "M" THEN NewObj ELSE base["M"]
        /\ pc'["M"] = IF c = "M" THEN "idle" ELSE pc["M"]
    BY DEF PatchStatus, SafetyInv, TypeInv, TypeOK
  <1>3. new \in Obj /\ new.iid = api.iid
    BY StoredIdUsed, OwnCopy DEF Obj
  <1>4. /\ \A i \in 1..Len(stream') : HasId(stream'[i]) => vm'[stream'[i].iid] # "absent"
        /\ cache' = cache
    <2>1. CASE stream' = stream
      BY <1>1, <2>1 DEF GuardInv, IdsInv, Used, cache
    <2>2. CASE stream' # stream
      <3>1. Store(new)
        BY <2>2 DEF PatchStatus
      <3>2. HasId(new) => Used(new.iid)
        BY <1>3, StoredIdUsed DEF HasId
      <3> QED BY <1>1, <1>3, <3>1, <3>2, GuardStore
    <2> QED BY <2>1, <2>2
  <1>5. ~HasId(NewObj) /\ NewObj.fins = {}
    BY DEF NewObj, HasId
  <1>6. IdsInv'
    BY <1>1, <1>2, <1>4, <1>5 DEF GuardInv, IdsInv, Used, HasId
  <1>7. RemovedInv' /\ ProvisionInv' /\ ReleaseInv'
    BY <1>1, <1>2, <1>4, <1>5, GuardSameVMs
    DEF GuardInv, RemovedInv, ProvisionInv, ReleaseInv
  <1> QED BY <1>6, <1>7 DEF GuardInv

\* CloudStack's own steps and the out-of-band ones, removals excepted.
LEMMA GuardVMs ==
    ASSUME SafetyInv, GuardInv, "vanish" \notin Disturbances,
           \E v \in VMIds : VMProgress(v) \/ VMDisturbed(v)
    PROVE  GuardInv'
  <1> PICK v \in VMIds : VMProgress(v) \/ VMDisturbed(v)
    OBVIOUS
  <1>1. stream' = stream /\ pc' = pc /\ base' = base /\ loc' = loc /\ cache' = cache
    BY DEF VMProgress, VMDisturbed, worker, cache
  <1>2. PICK s \in VMState :
          /\ vm' = [vm EXCEPT ![v] = s] /\ s # "absent" /\ vm[v] # "absent"
          /\ s \in {"Starting", "Running", "Stopped", "Error"} <=>
               vm[v] \in {"Starting", "Running", "Stopped", "Error"}
    BY DEF VMProgress, VMDisturbed, VMState
  <1>3. \A w \in VMIds : (vm'[w] # "absent") <=> Used(w)
    BY <1>2 DEF Used, SafetyInv, TypeInv, TypeOK
  <1>4. Live' = Live
    BY <1>2 DEF Live, SafetyInv, TypeInv, TypeOK
  <1>5. Removed' <=> Removed
    BY <1>3, <1>4 DEF Removed, Used
  <1>6. /\ \A i \in 1..Len(stream) : HasId(stream[i]) => stream[i].iid \in VMIds
        /\ \A c \in Controllers : HasId(loc[c]) => loc[c].iid \in VMIds
    <2>1. \A o \in Obj : HasId(o) => o.iid \in VMIds
      BY DEF Obj, Ids, HasId
    <2> QED BY <2>1 DEF SafetyInv, TypeInv, TypeOK
  <1>7. IdsInv'
    BY <1>1, <1>3, <1>6 DEF GuardInv, IdsInv, Used, HasId
  <1> QED
    BY <1>1, <1>4, <1>5, <1>7 DEF GuardInv, RemovedInv, ProvisionInv, ReleaseInv

LEMMA GuardEnvironment ==
    ASSUME SafetyInv, GuardInv, "vanish" \notin Disturbances, Environment
    PROVE  GuardInv'
  <1> "M" \in Controllers
    BY ControllerAssumption
  <1>1. CASE \E v \in VMIds : VMProgress(v) \/ VMDisturbed(v)
    BY <1>1, GuardVMs
  <1>2. CASE Crash
    <2>1. /\ vm' = vm /\ Len(stream') = 1 /\ stream'[1] = api /\ cache' = api
          /\ \A c \in Controllers : base'[c] = NewObj /\ loc'[c] = NewObj /\ pc'[c] = "idle"
      BY <1>2 DEF Crash, cloud, cache
    <2>2. ~HasId(NewObj) /\ NewObj.fins = {}
      BY DEF NewObj, HasId
    <2>3. IdsInv'
      BY <2>1, <2>2, StoredIdUsed DEF GuardInv, IdsInv, Used, HasId
    <2>4. cache.deleting => api.deleting
      BY DEF SafetyInv, VersionsInv, cache, TypeInv, TypeOK
    <2> QED
      BY <2>1, <2>2, <2>3, <2>4, GuardSameVMs
      DEF GuardInv, RemovedInv, ProvisionInv, ReleaseInv
  <1>3. CASE ~Crash /\ ~\E v \in VMIds : VMProgress(v) \/ VMDisturbed(v)
    <2>1. pc' = pc /\ base' = base /\ loc' = loc /\ vm' = vm
      BY <1>3 DEF Environment, WatchEvent, Resync, BootstrapReady, Admit, Suspend,
                  FailureDomainDelisted, DeleteRequested, CapiDeletesInfra,
                  ForegroundDeletion, ForegroundDone, worker, cloud
    <2>2. /\ \A i \in 1..Len(stream') : HasId(stream'[i]) => vm'[stream'[i].iid] # "absent"
          /\ cache.deleting => cache'.deleting
      <3>1. CASE WatchEvent
        <4>1. /\ Len(stream') = Len(stream) - 1 /\ Len(stream) \in Nat
              /\ \A i \in 1..Len(stream') : stream'[i] = stream[i + 1]
          BY <3>1 DEF WatchEvent, SafetyInv, TypeInv, TypeOK
        <4>2. Forward
          BY <3>1, DeliverVersion DEF SafetyInv
        <4>3. \A i \in 1..Len(stream') : i + 1 \in 1..Len(stream)
          BY <4>1
        <4> QED BY <2>1, <4>1, <4>2, <4>3 DEF Forward, GuardInv, IdsInv, Used, HasId
      <3>2. CASE CapiDeletesInfra
        <4> DEFINE o == Collected([api EXCEPT !.deleting = TRUE])
        <4>1. Store(o) /\ o \in Obj /\ o.iid = api.iid
          BY <3>2, StoredIdUsed DEF CapiDeletesInfra, Collected, Obj
        <4>2. HasId(o) => Used(o.iid)
          BY <4>1, StoredIdUsed DEF HasId
        <4> QED BY <2>1, <4>1, <4>2, GuardStore
      <3>3. CASE ForegroundDeletion \/ ForegroundDone
        <4>1. PICK o \in Obj : Store(o) /\ o.iid = api.iid
          <5> DEFINE d == [api EXCEPT !.deleting = TRUE, !.fins = @ \cup {"F"}]
          <5> DEFINE r == Collected([api EXCEPT !.fins = @ \ {"F"}])
          <5>1. d \in Obj /\ d.iid = api.iid /\ r \in Obj /\ r.iid = api.iid
            BY StoredIdUsed DEF Collected, Obj
          <5>2. Store(d) \/ Store(r)
            BY <3>3 DEF ForegroundDeletion, ForegroundDone
          <5> HIDE DEF d, r
          <5> QED BY <5>1, <5>2
        <4>2. HasId(o) => Used(o.iid)
          BY <4>1, StoredIdUsed DEF HasId
        <4> QED BY <2>1, <4>1, <4>2, GuardStore
      <3>4. CASE ~WatchEvent /\ ~CapiDeletesInfra /\ ~ForegroundDeletion /\ ~ForegroundDone
        <4>1. stream' = stream
          BY <1>3, <3>4 DEF Environment, Resync, BootstrapReady, Admit, Suspend,
                            FailureDomainDelisted, DeleteRequested
        <4> QED BY <2>1, <4>1 DEF GuardInv, IdsInv, Used, cache
      <3> QED BY <3>1, <3>2, <3>3, <3>4
    <2>3. IdsInv'
      BY <2>1, <2>2 DEF GuardInv, IdsInv, Used, HasId
    <2> QED
      BY <2>1, <2>2, <2>3, GuardSameVMs DEF GuardInv, RemovedInv, ProvisionInv, ReleaseInv
  <1> QED BY <1>1, <1>2, <1>3

(***************************************************************************)
(* The theorem.                                                            *)
(***************************************************************************)
LEMMA GuardInit == Init => GuardInv
  <1> SUFFICES ASSUME Init PROVE GuardInv
    OBVIOUS
  <1>1. "M" \in Controllers /\ Len(stream) = 1 /\ stream[1] = NewObj
    BY ControllerAssumption DEF Init
  <1>2. \A c \in Controllers : base[c] = NewObj /\ loc[c] = NewObj /\ pc[c] = "idle"
    BY DEF Init
  <1>3. \A v \in VMIds : ~Used(v)
    BY DEF Init, Used
  <1>4. ~HasId(NewObj) /\ NewObj.fins = {}
    BY DEF NewObj, HasId
  <1> QED
    BY <1>1, <1>2, <1>3, <1>4
    DEF GuardInv, IdsInv, RemovedInv, Removed, ProvisionInv, ReleaseInv

LEMMA GuardNext ==
    ASSUME "vanish" \notin Disturbances
    PROVE  SafetyInv /\ GuardInv /\ [Next]_vars => GuardInv'
  <1> SUFFICES ASSUME SafetyInv, GuardInv, [Next]_vars PROVE GuardInv'
    OBVIOUS
  <1>1. CASE MStep
    <2>1. MPass \/ Start("M") \/ PatchSpec("M") \/ PatchStatus("M")
      BY <1>1 DEF MStep, MPass
    <2> QED
      BY <2>1, GuardMPass, GuardStart, GuardPatchSpec, GuardPatchStatus, ControllerAssumption
  <1>2. CASE KStep
    BY <1>2, GuardKPass, GuardStart, GuardPatchSpec, GuardPatchStatus DEF KStep
  <1>3. CASE Environment
    BY <1>3, GuardEnvironment
  <1>4. CASE UNCHANGED vars
    BY <1>4 DEF vars, worker, cloud, GuardInv, IdsInv, RemovedInv, Removed, ProvisionInv,
                ReleaseInv, Used, HasId, Live, cache
  <1> QED
    BY <1>1, <1>2, <1>3, <1>4 DEF Next

\* A write keeps an object that exists unless it takes the last finalizer off
\* one being deleted: what that says of the pass that writes.
LEMMA LastFinalizer ==
    ASSUME SafetyInv, GuardInv, NEW c \in Controllers, PatchSpec(c),
           "M" \in api.fins, ~api'.exists
    PROVE  Live = {}
  <1> DEFINE new == Merged(base[c], loc[c])
  <1>1. api \in Obj /\ base[c] \in Obj /\ loc[c] \in Obj /\ "M" \in Controllers
    BY StoredIdUsed, OwnCopy, ControllerAssumption
  <1>2. api.exists
    BY <1>1 DEF SafetyInv, VersionsInv, api, TypeInv, TypeOK
  <1>3. PatchAccepted(new) /\ Store(Collected(new))
    BY <1>2 DEF PatchSpec, api
  <1>4. new \in Obj /\ Collected(new) \in Obj
    BY <1>1, PatchType
  <1>5. api' = Collected(new)
    BY <1>3, <1>4, PatchVersion, StoreVersion DEF SafetyInv
  <1>6. /\ new.exists = api.exists /\ new.deleting = api.deleting
        /\ new.fins = IF loc[c].fins = base[c].fins THEN api.fins ELSE loc[c].fins
    BY <1>1 DEF Merged, Obj
  <1>7. Collected(new).exists = (new.exists /\ ~(new.deleting /\ new.fins = {}))
    BY <1>4 DEF Collected, Obj
  <1>8. new.fins = {}
    BY <1>2, <1>5, <1>6, <1>7
  <1>9. loc[c].fins = {} /\ base[c].fins # {}
    BY <1>6, <1>8
  <1>10. "M" \in base[c].fins /\ base[c].fins \subseteq {c}
    BY <1>9 DEF SafetyInv, CopiesInv
  <1> QED
    BY <1>9, <1>10 DEF GuardInv, ReleaseInv

\* Unless VMs are removed out of band, an object with the machine finalizer
\* goes away only after its VM has been destroyed.
THEOREM FinalizerGuards ==
    ASSUME "vanish" \notin Disturbances
    PROVE  Spec => GuardedUntilDestroyed
  <1>1. Init => GuardInv
    BY GuardInit
  <1>2. SafetyInv /\ GuardInv /\ [Next]_vars => GuardInv'
    BY GuardNext
  <1>3. SafetyInv /\ GuardInv /\ [Next]_vars =>
          ["M" \in api.fins /\ ~api'.exists => Live = {}]_vars
    <2> SUFFICES ASSUME SafetyInv, GuardInv, [Next]_vars, "M" \in api.fins, ~api'.exists
                 PROVE  Live = {}
      OBVIOUS
    <2>1. api \in Obj /\ api.exists
      BY StoredIdUsed DEF SafetyInv, VersionsInv, api, TypeInv, TypeOK
    <2>2. api' # api
      BY <2>1
    <2>3. CASE \E c \in Controllers : PatchSpec(c)
      BY <2>3, LastFinalizer
    <2>4. CASE \E c \in Controllers : PatchStatus(c)
      <3> PICK c \in Controllers : PatchStatus(c)
        BY <2>4
      <3> DEFINE new == [api EXCEPT !.ready = loc[c].ready]
      <3>1. Store(new)
        BY <2>2 DEF PatchStatus, api
      <3>2. new \in Obj /\ new.exists = api.exists
        BY <2>1, OwnCopy DEF Obj
      <3>3. api' = new
        BY <3>1, <3>2 DEF api, SafetyInv, TypeInv, TypeOK
      <3> QED BY <2>1, <3>2, <3>3
    <2>5. CASE CapiDeletesInfra
      <3> DEFINE new == Collected([api EXCEPT !.deleting = TRUE])
      <3>1. new \in Obj /\ new.exists = (api.exists /\ ~(api.fins = {}))
        BY <2>1 DEF Collected, Obj
      <3>2. Store(new)
        BY <2>5 DEF CapiDeletesInfra
      <3>3. api' = new
        BY <3>1, <3>2 DEF api, SafetyInv, TypeInv, TypeOK
      <3> QED BY <2>1, <3>1, <3>3
    <2>6. CASE ForegroundDeletion
      <3> DEFINE new == [api EXCEPT !.deleting = TRUE, !.fins = @ \cup {"F"}]
      <3>1. new \in Obj /\ new.exists = api.exists
        BY <2>1 DEF Obj
      <3>2. Store(new)
        BY <2>6 DEF ForegroundDeletion
      <3>3. api' = new
        BY <3>1, <3>2 DEF api, SafetyInv, TypeInv, TypeOK
      <3> QED BY <2>1, <3>1, <3>3
    <2>7. CASE ForegroundDone
      <3> DEFINE new == Collected([api EXCEPT !.fins = @ \ {"F"}])
      <3>1. new \in Obj /\ new.exists = (api.exists /\ ~(api.deleting /\ api.fins \ {"F"} = {}))
        BY <2>1 DEF Collected, Obj
      <3>2. Store(new)
        BY <2>7 DEF ForegroundDone
      <3>3. api' = new
        BY <3>1, <3>2 DEF api, SafetyInv, TypeInv, TypeOK
      <3>4. api.fins \ {"F"} # {}
        OBVIOUS
      <3> HIDE DEF new
      <3> QED BY <2>1, <3>1, <3>3, <3>4
    <2>8. CASE WatchEvent
      BY <2>2, <2>8, DeliverVersion DEF SafetyInv
    <2>9. CASE Crash
      <3>1. api' = api
        BY <2>1, <2>9 DEF Crash, api
      <3> QED BY <2>2, <3>1
    <2>10. CASE /\ ~\E c \in Controllers : PatchSpec(c) \/ PatchStatus(c)
               /\ ~CapiDeletesInfra /\ ~ForegroundDeletion /\ ~ForegroundDone
               /\ ~WatchEvent /\ ~Crash
      <3>1. stream' = stream
        <4>1. CASE MStep
          <5>1. MPass \/ Start("M")
            BY <2>10, <4>1, ControllerAssumption DEF MStep, MPass
          <5> QED BY <5>1, SafeMPass DEF PassSafe, PassStep, Start
        <4>2. CASE KStep
          <5>1. "K" \in Controllers /\ (KGates \/ KAddVM \/ KRemoveVM \/ Start("K"))
            BY <2>10, <4>2 DEF KStep
          <5> QED BY <5>1, SafeKPass DEF PassSafe, PassStep, Start
        <4>3. CASE Environment
          BY <2>10, <4>3 DEF Environment, Resync, BootstrapReady, Admit, Suspend,
                            FailureDomainDelisted, DeleteRequested, VMProgress, VMDisturbed
        <4>4. CASE UNCHANGED vars
          BY <4>4 DEF vars
        <4> QED BY <4>1, <4>2, <4>3, <4>4 DEF Next
      <3> QED BY <2>2, <3>1 DEF api
    <2> QED BY <2>3, <2>4, <2>5, <2>8, <2>9, <2>10, <2>6, <2>7
  <1> QED
    BY <1>1, <1>2, <1>3, SafetyInvariant, PTL DEF Spec, GuardedUntilDestroyed

(***************************************************************************)
(* At rest the machine is complete. RestInv says what every stage of a     *)
(* pass has achieved, so that a pass that is not run again has achieved    *)
(* everything.                                                             *)
(***************************************************************************)

\* CKS sync is off: no other controller writes the finalizers.
Alone == "K" \notin Controllers

\* o is a version that a is not behind of, in a world with VMs s: readiness
\* and the machine finalizer are kept, and an InstanceID is given up only when
\* its VM is gone for good.
Before(o, a, s) ==
    /\ o.ready => a.ready
    /\ Alone /\ "M" \in o.fins => "M" \in a.fins \/ a.deleting
    /\ HasId(o) => s[o.iid] # "absent" /\ (o.iid = a.iid \/ s[o.iid] = "gone")
    /\ "F" \in o.fins => o.deleting
    /\ a.exists => o.exists

\* The stored object is ahead of every version and of every pass's base copy.
OrderInv ==
    /\ \A i \in 1..Len(stream) : Before(stream[i], api, vm)
    /\ \A c \in Controllers : Before(base[c], api, vm)

\* The CKS machine controller changes nothing but finalizers.
CksCopyInv ==
    ~Alone => /\ loc["K"].iid = base["K"].iid /\ loc["K"].ready = base["K"].ready
              /\ loc["K"].fins \subseteq base["K"].fins \cup {"K"}

\* The machine controller's working copy: what it has found replaces only what is gone.
WorkingCopyInv ==
    /\ loc["M"].fins \subseteq base["M"].fins \cup {"M"}
    /\ base["M"].ready => loc["M"].ready
    /\ HasId(loc["M"]) => vm[loc["M"].iid] # "absent"
    /\ HasId(loc["M"]) /\ loc["M"].iid # base["M"].iid /\ HasId(api) =>
         api.iid = loc["M"].iid \/ vm[api.iid] = "gone"

\* The pass will not be run again although nobody deletes the object.
Succeeds == ~retry["M"] /\ ~api.deleting
Patching == pc["M"] \in {"patchSpec", "patchStatus"} /\ Succeeds

\* Such a pass has found the VM running, assigned it to the load balancer and
\* created its state checker, and what it stores says so.
FoundInv ==
    pc["M"] \in {"lb", "checker"} \/ (pc["M"] = "patchSpec" /\ Succeeds) =>
        /\ loc["M"].ready /\ "M" \in loc["M"].fins
        /\ loc["M"].iid = base["M"].iid => api.iid = loc["M"].iid
BalancedInv == pc["M"] = "checker" \/ Patching => (LbNeeded => loc["M"].iid \in lb)
CheckedInv  == Patching => loc["M"].iid \in checkers
StoredInv ==
    pc["M"] = "patchStatus" /\ Succeeds =>
        loc["M"].ready /\ api.iid = loc["M"].iid /\ (Alone => "M" \in api.fins)

WorkInv == WorkingCopyInv /\ FoundInv /\ BalancedInv /\ CheckedInv /\ StoredInv

\* So the controller stops only when there is nothing left to do.
IdleInv ==
    pc["M"] = "idle" /\ ~queue["M"] /\ api.exists /\ ~api.deleting =>
        /\ api.ready /\ api.iid \in checkers /\ (LbNeeded => api.iid \in lb)
        /\ Alone => "M" \in api.fins

RestInv == OrderInv /\ CksCopyInv /\ WorkInv /\ IdleInv

\* VMs once deployed stay known, and those that are gone stay gone.
VMsForward(s, t) ==
    \A v \in VMIds : (s[v] # "absent" => t[v] # "absent") /\ (s[v] = "gone" => t[v] = "gone")

LEMMA BeforeAdvances ==
    ASSUME NEW o \in Obj, NEW a \in Obj, NEW b \in Obj, NEW s, NEW t,
           Before(o, a, s), Before(a, b, t), a.deleting => b.deleting, VMsForward(s, t)
    PROVE  Before(o, b, t)
  <1>1. HasId(o) => o.iid \in VMIds
    BY DEF HasId, Obj, Ids
  <1> QED
    BY <1>1 DEF Before, VMsForward, HasId

\* The stored object and the base copies, as objects and in order.
LEMMA RestFacts ==
    ASSUME SafetyInv, RestInv
    PROVE  /\ "M" \in Controllers
           /\ api \in Obj /\ Before(api, api, vm)
           /\ cache \in Obj /\ Before(cache, api, vm)
           /\ \A c \in Controllers : /\ base[c] \in Obj /\ loc[c] \in Obj
                                     /\ Before(base[c], api, vm)
                                     /\ base[c].deleting => api.deleting
           /\ \A i \in 1..Len(stream) : stream[i] \in Obj
           /\ Len(stream) \in Nat /\ Len(stream) > 0
  <1>1. /\ stream \in Seq(Obj) /\ Len(stream) \in Nat /\ Len(stream) > 0
        /\ \A c \in Controllers : base[c] \in Obj /\ loc[c] \in Obj
    BY DEF SafetyInv, TypeInv, TypeOK
  <1>2. \A i \in 1..Len(stream) : stream[i] \in Obj /\ Before(stream[i], api, vm)
    BY <1>1 DEF RestInv, OrderInv
  <1>3. api \in Obj /\ Before(api, api, vm) /\ cache \in Obj /\ Before(cache, api, vm)
    BY <1>1, <1>2 DEF api, cache
  <1>4. cache.deleting => api.deleting
    BY <1>1 DEF SafetyInv, VersionsInv, cache
  <1> QED
    BY <1>1, <1>2, <1>3, <1>4, ControllerAssumption
    DEF RestInv, OrderInv, SafetyInv, CopiesInv

\* The order when the object stays and VMs move forward.
LEMMA OrderFrame ==
    ASSUME SafetyInv, RestInv, stream' = stream, base' = base, VMsForward(vm, vm')
    PROVE  OrderInv' /\ api' = api
  <1>1. api' = api
    BY DEF api
  <1>2. Before(api, api, vm')
    <2>1. HasId(api) => api.iid \in VMIds
      BY RestFacts DEF HasId, Obj, Ids
    <2> QED BY <2>1, RestFacts DEF Before, VMsForward
  <1>3. \A o \in Obj : Before(o, api, vm) => Before(o, api, vm')
    BY <1>2, RestFacts, BeforeAdvances
  <1>4. \A i \in 1..Len(stream) : Before(stream[i], api, vm')
    BY <1>3, RestFacts DEF RestInv, OrderInv
  <1>5. \A c \in Controllers : Before(base[c], api, vm')
    BY <1>3, RestFacts
  <1> QED BY <1>1, <1>4, <1>5 DEF OrderInv

\* The order when o is stored.
LEMMA OrderStore ==
    ASSUME SafetyInv, RestInv, NEW o \in Obj, Store(o), vm' = vm,
           Before(api, o, vm), Before(o, o, vm), api.deleting => o.deleting
    PROVE  /\ api' = o /\ cache' = cache
           /\ \A i \in 1..Len(stream') : Before(stream'[i], api', vm')
           /\ \A p \in Obj : Before(p, api, vm) => Before(p, api', vm')
  <1>1. stream \in Seq(Obj) /\ Len(stream) \in Nat /\ Len(stream) > 0
    BY DEF SafetyInv, TypeInv, TypeOK
  <1>2. VMsForward(vm, vm)
    BY DEF VMsForward
  <1>3. \A p \in Obj : Before(p, api, vm) => Before(p, o, vm)
    BY <1>2, RestFacts, BeforeAdvances
  <1>4. \A i \in 1..Len(stream) : Before(stream[i], o, vm)
    BY <1>3, RestFacts DEF RestInv, OrderInv
  <1>5. CASE o = api
    <2>1. stream' = stream
      BY <1>5
    <2>2. api' = api /\ cache' = cache
      BY <2>1 DEF api, cache
    <2> QED BY <1>3, <1>4, <1>5, <2>1, <2>2
  <1>6. CASE o # api
    <2>1. /\ stream' = Append(stream, o) /\ Len(stream') = Len(stream) + 1
          /\ \A i \in 1..Len(stream') :
               IF i = Len(stream) + 1 THEN stream'[i] = o
               ELSE i \in 1..Len(stream) /\ stream'[i] = stream[i]
      BY <1>1, <1>6
    <2>2. api' = o /\ cache' = cache
      BY <1>1, <2>1 DEF api, cache
    <2> QED BY <1>3, <1>4, <2>1, <2>2
  <1> QED BY <1>5, <1>6

(***************************************************************************)
(* The machine controller's pass.                                          *)
(***************************************************************************)

\* What is left to show of a step of a pass.
RestStep == pc'["M"] # "idle" /\ VMsForward(vm, vm') /\ WorkInv'

LEMMA RestPass ==
    ASSUME SafetyInv, RestInv, PassStep("M"), RestStep
    PROVE  RestInv'
  <1>1. stream' = stream /\ base' = base /\ \E l \in Obj : loc' = [loc EXCEPT !["M"] = l]
    BY DEF PassStep
  <1>2. OrderInv'
    BY <1>1, OrderFrame DEF RestStep
  <1>3. ~Alone => loc'["K"] = loc["K"]
    BY <1>1 DEF Alone, SafetyInv, TypeInv, TypeOK
  <1>4. CksCopyInv'
    BY <1>1, <1>3 DEF CksCopyInv, RestInv
  <1> QED
    BY <1>2, <1>4 DEF RestInv, RestStep, IdleInv

\* A step that leaves the pass unfinished, or ends it with a retry or for an
\* object being deleted, has only its working copy to answer for.
LEMMA RestUnfinished ==
    ASSUME SafetyInv, RestInv, PassStep("M"), VMsForward(vm, vm'), WorkingCopyInv',
           \/ pc'["M"] \in {"fdcheck", "getvm", "deploy", "resolve", "delcapi",
                            "findvm", "destroy", "confirm"}
           \/ pc'["M"] = "patchSpec" /\ (retry'["M"] \/ base["M"].deleting)
    PROVE  RestStep
  <1>1. api' = api
    BY DEF PassStep, api
  <1>2. base["M"].deleting => api.deleting
    BY RestFacts
  <1>3. pc'["M"] = "patchSpec" => ~Succeeds'
    BY <1>1, <1>2 DEF Succeeds
  <1> QED
    BY <1>3 DEF RestStep, WorkInv, FoundInv, BalancedInv, CheckedInv, StoredInv, Patching

\* The working copy's part when it keeps its InstanceID and readiness.
LEMMA SameCopy ==
    ASSUME SafetyInv, RestInv, stream' = stream, base' = base, VMsForward(vm, vm'),
           loc'["M"].iid = loc["M"].iid, loc'["M"].ready = loc["M"].ready,
           loc'["M"].fins \subseteq loc["M"].fins \cup {"M"}
    PROVE  WorkingCopyInv'
  <1>1. api' = api
    BY DEF api
  <1>2. /\ HasId(loc["M"]) => loc["M"].iid \in VMIds
        /\ HasId(api) => api.iid \in VMIds
    BY RestFacts DEF HasId, Obj, Ids
  <1> QED
    BY <1>1, <1>2 DEF WorkingCopyInv, WorkInv, RestInv, VMsForward, HasId

\* The working copy's part when it is given the id of a VM that is there or
\* has just been deployed because none was.
LEMMA NewCopy ==
    ASSUME SafetyInv, RestInv, stream' = stream, base' = base, VMsForward(vm, vm'),
           NEW v \in VMIds, vm'[v] # "absent",
           v \in Visible \/ Visible = {},
           loc'["M"].iid = v, loc["M"].ready => loc'["M"].ready,
           loc'["M"].fins \subseteq loc["M"].fins \cup {"M"}
    PROVE  WorkingCopyInv'
  <1>1. api' = api
    BY DEF api
  <1>2. HasId(api) => api.iid \in VMIds /\ vm[api.iid] # "absent"
    BY RestFacts DEF HasId, Obj, Ids, Before
  <1>3. HasId(api) /\ api.iid # v => vm[api.iid] = "gone"
    <2> HAVE HasId(api) /\ api.iid # v
    <2>1. api.iid \notin Visible
      BY DEF SafetyInv, AtMostOneVM
    <2> QED BY <1>2, <2>1 DEF Visible
  <1> QED
    BY <1>1, <1>2, <1>3 DEF WorkingCopyInv, WorkInv, RestInv, VMsForward, HasId

LEMMA SameVMs == VMsForward(vm, vm)
  BY DEF VMsForward

LEMMA RestCallFails ==
    ASSUME SafetyInv, RestInv, CallFails("M")
    PROVE  RestStep
  <1> "M" \in Controllers
    BY ControllerAssumption
  <1>1. PassStep("M")
    BY PassFails DEF SafetyInv
  <1>2. /\ stream' = stream /\ loc' = loc /\ base' = base /\ vm' = vm
        /\ pc'["M"] = "patchSpec" /\ retry'["M"]
    BY DEF SafetyInv, TypeInv, TypeOK, cloud
  <1> QED
    BY <1>1, <1>2, SameVMs, SameCopy, RestUnfinished

\* The steps before the VM is looked for, and the deletion of the CAPI Machine.
LEMMA RestEarly ==
    ASSUME SafetyInv, RestInv, MGates \/ MFailureDomainCheck \/ MDeleteCapi
    PROVE  RestStep
  <1> "M" \in Controllers
    BY ControllerAssumption
  <1>1. PassStep("M")
    BY PassMGates, PassMFailureDomainCheck, PassMDeleteCapi DEF SafetyInv
  <1>2. stream' = stream /\ base' = base /\ vm' = vm
    BY DEF MGates, MFailureDomainCheck, MDeleteCapi, cloud
  <1>3. /\ loc'["M"].iid = loc["M"].iid /\ loc'["M"].ready = loc["M"].ready
        /\ loc'["M"].fins = loc["M"].fins
    <2>1. loc' = loc \/ \E p \in BOOLEAN : loc' = [loc EXCEPT !["M"].placed = p]
      BY RestFacts DEF MGates, MFailureDomainCheck, MDeleteCapi, Obj
    <2> QED BY <2>1, RestFacts DEF Obj, SafetyInv, TypeInv, TypeOK
  <1>4. \/ pc'["M"] \in {"fdcheck", "getvm", "findvm", "destroy"}
        \/ pc'["M"] = "patchSpec" /\ retry'["M"]
    BY DEF MGates, MFailureDomainCheck, MDeleteCapi, SafetyInv, TypeInv, TypeOK
  <1>5. WorkingCopyInv'
    BY <1>2, <1>3, SameVMs, SameCopy
  <1> QED
    BY <1>1, <1>2, <1>4, <1>5, SameVMs, RestUnfinished

\* A VM was found. If the id is the one the pass read, it is the stored one:
\* had another been stored since, this VM would be gone.
LEMMA RestFound ==
    ASSUME SafetyInv, RestInv, NEW v \in Visible, MFound(v), PassStep("M"), vm' = vm
    PROVE  RestStep
  <1> USE RestFacts
  <1>1. v \in VMIds /\ vm[v] # "absent" /\ vm[v] # "gone" /\ v # None
    BY IdAssumption DEF Visible
  <1>2. stream' = stream /\ base' = base /\ api' = api
    BY DEF PassStep, api
  <1>3. /\ loc'["M"].iid = v /\ loc'["M"].fins = loc["M"].fins \cup {"M"}
        /\ loc'["M"].ready = (loc["M"].ready \/ vm[v] = "Running")
    BY DEF MFound, MRecord, SafetyInv, TypeInv, TypeOK, Obj
  <1>4. WorkingCopyInv'
    BY <1>1, <1>2, <1>3, SameVMs, NewCopy
  <1>5. \/ pc'["M"] = "lb" /\ vm[v] = "Running"
        \/ pc'["M"] = "delcapi"
        \/ pc'["M"] = "patchSpec" /\ retry'["M"]
    BY DEF MFound, MRecord, SafetyInv, TypeInv, TypeOK
  <1>6. CASE pc'["M"] = "lb" /\ vm[v] = "Running"
    <2>1. base["M"].iid = v => api.iid = v
      BY <1>1 DEF Before, HasId
    <2>2. FoundInv'
      BY <1>2, <1>3, <1>6, <2>1 DEF FoundInv
    <2> QED
      BY <1>4, <1>6, <2>2, SameVMs DEF RestStep, WorkInv, BalancedInv, CheckedInv, StoredInv,
                                       Patching
  <1>7. CASE pc'["M"] # "lb"
    BY <1>4, <1>5, <1>7, SameVMs, RestUnfinished
  <1> QED BY <1>5, <1>6, <1>7

LEMMA RestLookup ==
    ASSUME SafetyInv, RestInv, MGetVM \/ MResolve
    PROVE  RestStep
  <1> "M" \in Controllers
    BY ControllerAssumption
  <1> DEFINE found == Resolved(loc["M"].iid)
  <1>1. PassStep("M")
    BY PassMGetVM, PassMResolve DEF SafetyInv
  <1>2. CASE CallFails("M")
    BY <1>2, RestCallFails
  <1>3. CASE ~CallFails("M")
    <2>1. vm' = vm /\ base' = base /\ stream' = stream
      BY <1>3 DEF MGetVM, MResolve, cloud
    <2>2. CASE \E v \in found : MFound(v)
      <3>1. PICK v \in Visible : MFound(v)
        BY <2>2 DEF Resolved
      <3> QED BY <1>1, <2>1, <3>1, RestFound
    <2>3. CASE ~\E v \in found : MFound(v)
      <3>1. /\ loc' = loc
            /\ pc'["M"] = "deploy" \/ (pc'["M"] = "patchSpec" /\ retry'["M"])
        BY <1>3, <2>3 DEF MGetVM, MResolve, SafetyInv, TypeInv, TypeOK
      <3> QED BY <1>1, <2>1, <3>1, SameVMs, SameCopy, RestUnfinished
    <2> QED BY <2>2, <2>3
  <1> QED BY <1>2, <1>3

LEMMA RestDeploy ==
    ASSUME SafetyInv, RestInv, MDeploy
    PROVE  RestStep
  <1> "M" \in Controllers
    BY ControllerAssumption
  <1>1. PassStep("M") /\ Visible = {}
    BY PassMDeploy DEF MDeploy, SafetyInv, PassInv
  <1>2. CASE CallFails("M")
    BY <1>2, RestCallFails
  <1>3. CASE ~CallFails("M")
    <2>1. PICK v \in VMIds, s \in {"Starting", "Error"}, id \in Ids :
            /\ vm[v] = "absent" /\ vm' = [vm EXCEPT ![v] = s]
            /\ loc' = [loc EXCEPT !["M"].iid = id]
            /\ id = v \/ id = loc["M"].iid
      BY <1>3, OwnCopy DEF MDeploy, MRefused, Obj, Ids
    <2>2. /\ base' = base /\ stream' = stream
          /\ pc'["M"] = "resolve" \/ (pc'["M"] = "patchSpec" /\ retry'["M"])
      BY <1>3 DEF MDeploy, MRefused, SafetyInv, TypeInv, TypeOK
    <2>3. /\ loc'["M"].iid = id /\ loc'["M"].fins = loc["M"].fins
          /\ loc'["M"].ready = loc["M"].ready
      BY <2>1, OwnCopy DEF SafetyInv, TypeInv, TypeOK, Obj
    <2>4. VMsForward(vm, vm') /\ vm'[v] # "absent"
      BY <2>1 DEF VMsForward, SafetyInv, TypeInv, TypeOK
    <2>5. WorkingCopyInv'
      <3>1. CASE id = v
        BY <1>1, <2>2, <2>3, <2>4, <3>1, NewCopy
      <3>2. CASE id = loc["M"].iid
        BY <2>2, <2>3, <2>4, <3>2, SameCopy
      <3> QED BY <2>1, <3>1, <3>2
    <2> QED BY <1>1, <2>2, <2>4, <2>5, RestUnfinished
  <1> QED BY <1>2, <1>3

LEMMA RestAddToLB ==
    ASSUME SafetyInv, RestInv, MAddToLB
    PROVE  RestStep
  <1> "M" \in Controllers
    BY ControllerAssumption
  <1>1. PassStep("M")
    BY PassMAddToLB DEF SafetyInv
  <1>2. /\ loc' = loc /\ base' = base /\ vm' = vm /\ stream' = stream /\ pc["M"] = "lb"
    BY DEF MAddToLB, cloud
  <1>3. WorkingCopyInv'
    BY <1>2, SameVMs, SameCopy
  <1>4. CASE pc'["M"] = "checker"
    <2>1. LbNeeded => loc["M"].iid \in lb'
      BY <1>4 DEF MAddToLB, SafetyInv, TypeInv, TypeOK
    <2>2. api' = api
      BY <1>2 DEF api
    <2>3. FoundInv' /\ BalancedInv'
      BY <1>2, <1>4, <2>1, <2>2 DEF FoundInv, BalancedInv, RestInv, WorkInv
    <2> QED
      BY <1>2, <1>3, <1>4, <2>3, SameVMs DEF RestStep, WorkInv, CheckedInv, StoredInv, Patching
  <1>5. CASE pc'["M"] # "checker"
    <2>1. pc'["M"] = "patchSpec" /\ retry'["M"]
      BY <1>5 DEF MAddToLB, SafetyInv, TypeInv, TypeOK
    <2> QED BY <1>1, <1>2, <1>3, <2>1, SameVMs, RestUnfinished
  <1> QED BY <1>4, <1>5

\* The only way to end a pass without a retry for an object nobody deletes.
LEMMA RestStateChecker ==
    ASSUME SafetyInv, RestInv, MStateChecker
    PROVE  RestStep
  <1> "M" \in Controllers
    BY ControllerAssumption
  <1>1. CASE CallFails("M")
    BY <1>1, RestCallFails
  <1>2. CASE ~CallFails("M")
    <2>1. /\ loc' = loc /\ base' = base /\ vm' = vm /\ lb' = lb /\ stream' = stream
          /\ pc["M"] = "checker" /\ pc'["M"] = "patchSpec"
          /\ checkers' = checkers \cup {loc["M"].iid}
      BY <1>2 DEF MStateChecker, cloud, SafetyInv, TypeInv, TypeOK
    <2>2. WorkingCopyInv'
      BY <2>1, SameVMs, SameCopy
    <2>3. api' = api
      BY <2>1 DEF api
    <2>4. FoundInv' /\ BalancedInv' /\ CheckedInv' /\ StoredInv'
      BY <2>1, <2>3 DEF FoundInv, BalancedInv, CheckedInv, StoredInv, RestInv, WorkInv
    <2> QED
      BY <2>1, <2>2, <2>4, SameVMs DEF RestStep, WorkInv
  <1> QED BY <1>1, <1>2

\* The delete path is taken only for an object being deleted.
LEMMA RestDelete ==
    ASSUME SafetyInv, RestInv, MFindVM \/ MDestroy \/ MConfirm
    PROVE  RestStep
  <1> USE RestFacts
  <1>1. PassStep("M")
    BY PassMFindVM, PassMDestroy, PassMConfirm DEF SafetyInv
  <1>2. base["M"].deleting /\ stream' = stream /\ base' = base
    BY DEF MFindVM, MDestroy, MConfirm, SafetyInv, PassInv
  <1>3. pc'["M"] \in {"destroy", "confirm", "patchSpec"}
    BY DEF MFindVM, MDestroy, MConfirm, MVMDeleted, SafetyInv, TypeInv, TypeOK
  <1>4. VMsForward(vm, vm')
    <2>1. \/ vm' = vm
          \/ /\ loc["M"].iid \in Visible
             /\ \E s \in {"Destroyed", "Expunging"} : vm' = [vm EXCEPT ![loc["M"].iid] = s]
      BY DEF MFindVM, MDestroy, MConfirm, cloud
    <2> QED BY <2>1 DEF VMsForward, Visible, SafetyInv, TypeInv, TypeOK
  <1>5. WorkingCopyInv'
    <2>1. CASE loc' = loc \/ loc' = [loc EXCEPT !["M"].fins = @ \ {"M"}]
      <3>1. /\ loc'["M"].iid = loc["M"].iid /\ loc'["M"].ready = loc["M"].ready
            /\ loc'["M"].fins \subseteq loc["M"].fins
        BY <2>1 DEF SafetyInv, TypeInv, TypeOK, Obj
      <3> QED BY <1>2, <1>4, <3>1, SameCopy
    <2>2. CASE \E v \in Visible : \/ loc' = [loc EXCEPT !["M"].iid = v]
                                  \/ loc' = [loc EXCEPT !["M"].iid = v, !["M"].fins = @ \ {"M"}]
      <3> PICK v \in Visible : \/ loc' = [loc EXCEPT !["M"].iid = v]
                               \/ loc' = [loc EXCEPT !["M"].iid = v, !["M"].fins = @ \ {"M"}]
        BY <2>2
      <3>1. v \in VMIds /\ vm'[v] # "absent"
        BY <1>4 DEF Visible, VMsForward
      <3>2. /\ loc'["M"].iid = v /\ loc'["M"].ready = loc["M"].ready
            /\ loc'["M"].fins \subseteq loc["M"].fins
        <4>1. CASE loc' = [loc EXCEPT !["M"].iid = v]
          BY <4>1 DEF SafetyInv, TypeInv, TypeOK, Obj
        <4>2. CASE loc' = [loc EXCEPT !["M"].iid = v, !["M"].fins = @ \ {"M"}]
          BY <4>2 DEF SafetyInv, TypeInv, TypeOK, Obj
        <4> QED BY <4>1, <4>2
      <3> QED BY <1>2, <1>4, <3>1, <3>2, NewCopy
    <2> QED BY <2>1, <2>2 DEF MFindVM, MDestroy, MConfirm, MVMDeleted, Resolved
  <1> QED
    BY <1>1, <1>2, <1>3, <1>4, <1>5, RestUnfinished

LEMMA RestMPass ==
    ASSUME SafetyInv, RestInv, MPass
    PROVE  RestInv'
  <1>1. PassStep("M")
    BY SafeMPass DEF PassSafe
  <1>2. RestStep
    BY RestEarly, RestLookup, RestDeploy, RestAddToLB, RestStateChecker, RestDelete DEF MPass
  <1> QED BY <1>1, <1>2, RestPass

(***************************************************************************)
(* The other steps.                                                        *)
(***************************************************************************)

\* Steps of others: the machine controller's pass stays where it is, and the
\* stored object, if it changes, keeps its InstanceID.
LEMMA MachineFrame ==
    ASSUME SafetyInv, RestInv,
           pc'["M"] = pc["M"], loc'["M"] = loc["M"], base'["M"] = base["M"],
           retry'["M"] = retry["M"], queue["M"] => queue'["M"], VMsForward(vm, vm'), lb' = lb,
           Before(api, api', vm'), api'.iid = api.iid, api.deleting => api'.deleting,
           checkers' = checkers \/ api.deleting
    PROVE  WorkInv' /\ IdleInv'
  <1>1. /\ HasId(loc["M"]) => loc["M"].iid \in VMIds
        /\ HasId(api) => api.iid \in VMIds
    BY RestFacts DEF HasId, Obj, Ids
  <1>2. WorkingCopyInv'
    BY <1>1 DEF WorkingCopyInv, WorkInv, RestInv, VMsForward, HasId
  <1>3. Succeeds' => Succeeds /\ checkers' = checkers
    BY DEF Succeeds
  <1>4. FoundInv' /\ BalancedInv' /\ CheckedInv'
    BY <1>3 DEF FoundInv, BalancedInv, CheckedInv, Patching, WorkInv, RestInv
  <1>5. StoredInv'
    BY <1>3 DEF StoredInv, WorkInv, RestInv, Before, Succeeds
  <1>6. IdleInv'
    BY DEF IdleInv, RestInv, Before
  <1> QED BY <1>2, <1>4, <1>5, <1>6 DEF WorkInv

LEMMA RestKPass ==
    ASSUME SafetyInv, RestInv, "K" \in Controllers, KGates \/ KAddVM \/ KRemoveVM
    PROVE  RestInv'
  <1> USE RestFacts
  <1>1. /\ PassStep("K") /\ vm' = vm /\ base' = base
        /\ loc'["M"] = loc["M"] /\ pc'["M"] = pc["M"] /\ loc'["K"].iid = loc["K"].iid
    BY SafeKPass DEF PassSafe
  <1>2. stream' = stream /\ queue' = queue /\ retry'["M"] = retry["M"] /\ api' = api
    BY <1>1 DEF PassStep, SafetyInv, TypeInv, TypeOK, api
  <1>3. lb' = lb /\ checkers' = checkers
    BY DEF KGates, KAddVM, KRemoveVM, cloud
  <1>4. OrderInv'
    BY <1>1, <1>2, SameVMs, OrderFrame
  <1>5. CksCopyInv'
    <2>1. \/ loc' = loc
          \/ loc' = [loc EXCEPT !["K"].fins = @ \cup {"K"}]
          \/ loc' = [loc EXCEPT !["K"].fins = @ \ {"K"}]
      BY DEF KGates, KAddVM, KRemoveVM
    <2>2. /\ loc'["K"].iid = loc["K"].iid /\ loc'["K"].ready = loc["K"].ready
          /\ loc'["K"].fins \subseteq loc["K"].fins \cup {"K"}
      BY <2>1 DEF SafetyInv, TypeInv, TypeOK, Obj
    <2> QED BY <1>1, <2>2 DEF CksCopyInv, RestInv
  <1>6. WorkInv' /\ IdleInv'
    BY <1>1, <1>2, <1>3, SameVMs, MachineFrame
  <1> QED BY <1>4, <1>5, <1>6 DEF RestInv

LEMMA RestStart ==
    ASSUME SafetyInv, RestInv, NEW c \in Controllers, Start(c)
    PROVE  RestInv'
  <1> USE RestFacts
  <1>1. /\ stream' = stream /\ vm' = vm /\ lb' = lb /\ checkers' = checkers /\ retry' = retry
        /\ api' = api
    BY DEF Start, cloud, api
  <1>2. CASE ~cache.exists
    <2>1. base' = base /\ loc' = loc /\ pc' = pc /\ ~api.exists
      BY <1>2 DEF Start, Before
    <2>2. OrderInv'
      BY <1>1, <2>1, SameVMs, OrderFrame
    <2>3. CksCopyInv' /\ WorkInv' /\ IdleInv'
      BY <1>1, <2>1
      DEF RestInv, CksCopyInv, WorkInv, WorkingCopyInv, FoundInv, BalancedInv, CheckedInv,
          StoredInv, IdleInv, Succeeds, Patching, HasId
    <2> QED BY <2>2, <2>3 DEF RestInv
  <1>3. CASE cache.exists
    <2>1. /\ \A d \in Controllers : /\ base'[d] = IF d = c THEN cache ELSE base[d]
                                    /\ loc'[d] = IF d = c THEN cache ELSE loc[d]
                                    /\ pc'[d] = IF d = c THEN "gates" ELSE pc[d]
                                    /\ d # c => queue'[d] = queue[d]
      BY <1>3 DEF Start, SafetyInv, TypeInv, TypeOK
    <2>2. OrderInv'
      BY <1>1, <2>1 DEF OrderInv, RestInv
    <2>3. CksCopyInv'
      BY <2>1 DEF CksCopyInv, RestInv, Alone
    <2>4. CASE c = "M"
      <3>1. base'["M"] = cache /\ loc'["M"] = cache /\ pc'["M"] = "gates"
        BY <2>1, <2>4
      <3>2. HasId(cache) => vm[cache.iid] # "absent"
        BY DEF Before
      <3>3. WorkingCopyInv'
        BY <1>1, <3>1, <3>2 DEF WorkingCopyInv, HasId
      <3>4. FoundInv' /\ BalancedInv' /\ CheckedInv' /\ StoredInv' /\ IdleInv'
        BY <3>1 DEF FoundInv, BalancedInv, CheckedInv, StoredInv, IdleInv, Patching
      <3> QED BY <2>2, <2>3, <3>3, <3>4 DEF RestInv, WorkInv
    <2>5. CASE c # "M"
      <3>1. /\ base'["M"] = base["M"] /\ loc'["M"] = loc["M"] /\ pc'["M"] = pc["M"]
            /\ queue'["M"] = queue["M"] /\ retry'["M"] = retry["M"]
        BY <1>1, <2>1, <2>5
      <3>2. WorkInv' /\ IdleInv'
        BY <1>1, <3>1, SameVMs, MachineFrame
      <3> QED BY <2>2, <2>3, <3>2 DEF RestInv
    <2> QED BY <2>4, <2>5
  <1> QED BY <1>2, <1>3

\* What an accepted patch makes of the stored object.
LEMMA PatchOrder ==
    ASSUME SafetyInv, RestInv, NEW c \in Controllers, PatchAccepted(Merged(base[c], loc[c])),
           NEW o, o = Collected(Merged(base[c], loc[c]))
    PROVE  /\ o \in Obj
           /\ o.deleting = api.deleting /\ o.ready = api.ready
           /\ o.iid = IF loc[c].iid = base[c].iid THEN api.iid ELSE loc[c].iid
           /\ o.fins = IF loc[c].fins = base[c].fins THEN api.fins ELSE loc[c].fins
           /\ Before(api, o, vm) /\ Before(o, o, vm)
  <1> USE RestFacts
  <1> DEFINE m == Merged(base[c], loc[c])
  <1>1. /\ m \in Obj
        /\ m.fins = IF loc[c].fins = base[c].fins THEN api.fins ELSE loc[c].fins
        /\ m.iid = IF loc[c].iid = base[c].iid THEN api.iid ELSE loc[c].iid
        /\ m.deleting = api.deleting /\ m.ready = api.ready /\ m.exists = api.exists
    <2>1. m \in Obj
      BY PatchType
    <2>2. api \in Obj /\ base[c] \in Obj /\ loc[c] \in Obj
      OBVIOUS
    <2> QED BY ONLY <2>1, <2>2 DEF Merged, Obj
  <1>2. /\ o \in Obj /\ o.fins = m.fins /\ o.iid = m.iid /\ o.deleting = m.deleting
        /\ o.ready = m.ready /\ (o.exists => m.exists)
    <2> HIDE DEF m
    <2>1. o = Collected(m)
      BY DEF m
    <2> QED BY <1>1, <2>1 DEF Collected, Obj
  <1> HIDE DEF m
  <1>3. loc[c].fins \subseteq base[c].fins \cup {c}
    BY ControllerAssumption DEF RestInv, CksCopyInv, WorkInv, WorkingCopyInv, Alone
  <1>4. "F" \in o.fins => o.deleting
    <2>1. c # "F"
      BY ControllerAssumption
    <2>2. "F" \in loc[c].fins => api.deleting
      BY <1>3, <2>1 DEF Before
    <2> QED BY <1>1, <1>2, <2>2 DEF Before
  <1>5. Alone /\ "M" \in api.fins => "M" \in o.fins \/ o.deleting
    <2> HAVE Alone /\ "M" \in api.fins
    <2>1. c = "M"
      BY ControllerAssumption DEF Alone
    <2>2. CASE base[c].deleting
      BY <1>1, <1>2, <2>2
    <2>3. CASE ~base[c].deleting
      <3>1. base[c].fins \subseteq loc[c].fins
        BY <2>3 DEF SafetyInv, CopiesInv
      <3>2. loc[c].fins # base[c].fins => "M" \in loc[c].fins
        BY <1>3, <2>1, <3>1
      <3> QED BY <1>1, <1>2, <3>2
    <2> QED BY <2>2, <2>3
  <1>6. /\ HasId(o) => vm[o.iid] # "absent"
        /\ HasId(api) => o.iid = api.iid \/ vm[api.iid] = "gone"
    <2>1. CASE loc[c].iid = base[c].iid
      BY <1>1, <1>2, <2>1 DEF Before, HasId
    <2>2. CASE loc[c].iid # base[c].iid
      <3>1. c = "M"
        BY <2>2, ControllerAssumption DEF RestInv, CksCopyInv, Alone
      <3>2. HasId(loc[c])
        BY <2>2 DEF SafetyInv, CopiesInv, HasId
      <3> QED
        BY <1>1, <1>2, <2>2, <3>1, <3>2 DEF RestInv, WorkInv, WorkingCopyInv, HasId
    <2> QED BY <2>1, <2>2
  <1>7. HasId(api) => vm[api.iid] # "absent"
    BY DEF Before
  <1> QED
    BY <1>1, <1>2, <1>4, <1>5, <1>6, <1>7 DEF Before

\* The other copies when o has been stored or the object is as it was.
LEMMA OrderBase ==
    ASSUME SafetyInv, RestInv, NEW c \in Controllers,
           \A i \in 1..Len(stream') : Before(stream'[i], api', vm'),
           \A p \in Obj : Before(p, api, vm) => Before(p, api', vm'),
           \A d \in Controllers : base'[d] \in {base[d], NewObj}
    PROVE  OrderInv'
  <1>1. \A d \in Controllers : Before(base[d], api', vm')
    BY RestFacts
  <1>2. Before(NewObj, api', vm')
    BY DEF Before, NewObj, HasId
  <1>3. \A d \in Controllers : Before(base'[d], api', vm')
    BY <1>1, <1>2
  <1> QED BY <1>3 DEF OrderInv

LEMMA RestPatchSpec ==
    ASSUME SafetyInv, RestInv, NEW c \in Controllers, PatchSpec(c)
    PROVE  RestInv'
  <1> USE RestFacts
  <1> DEFINE l == loc[c]
             b == base[c]
  <1>1. /\ base' = base /\ loc' = loc /\ vm' = vm /\ lb' = lb /\ checkers' = checkers
        /\ queue' = queue
        /\ \A d \in Controllers : /\ pc'[d] = IF d = c THEN "patchStatus" ELSE pc[d]
                                  /\ d # c => retry'[d] = retry[d]
        /\ pc[c] = "patchSpec"
    BY DEF PatchSpec, cloud, SafetyInv, TypeInv, TypeOK
  <1>2. \/ /\ stream' = stream
           /\ retry'[c] \/ (retry'[c] = retry[c] /\ ~SpecChanged(b, l))
        \/ /\ PatchAccepted(Merged(b, l)) /\ Store(Collected(Merged(b, l)))
           /\ retry' = retry
    BY DEF PatchSpec, SafetyInv, TypeInv, TypeOK
  <1>3. /\ \A i \in 1..Len(stream') : Before(stream'[i], api', vm')
        /\ \A p \in Obj : Before(p, api, vm) => Before(p, api', vm')
        /\ api'.deleting = api.deleting /\ api'.ready = api.ready
        /\ Before(api, api', vm')
        /\ \/ retry'[c] /\ api' = api
           \/ /\ retry'[c] = retry[c]
              /\ api'.iid = IF l.iid = b.iid THEN api.iid ELSE l.iid
              /\ api'.fins = IF l.fins = b.fins THEN api.fins ELSE l.fins
    <2>1. CASE stream' = stream /\ (retry'[c] \/ (retry'[c] = retry[c] /\ ~SpecChanged(b, l)))
      <3>1. api' = api
        BY <2>1 DEF api
      <3> QED BY <1>1, <2>1, <3>1 DEF RestInv, OrderInv, SpecChanged
    <2>2. CASE /\ PatchAccepted(Merged(b, l)) /\ Store(Collected(Merged(b, l)))
               /\ retry' = retry
      <3>1. PICK o : o = Collected(Merged(b, l))
        OBVIOUS
      <3>2. /\ o \in Obj
            /\ o.deleting = api.deleting /\ o.ready = api.ready
            /\ o.iid = IF l.iid = b.iid THEN api.iid ELSE l.iid
            /\ o.fins = IF l.fins = b.fins THEN api.fins ELSE l.fins
            /\ Before(api, o, vm) /\ Before(o, o, vm)
        BY <2>2, <3>1, PatchOrder
      <3>3. Store(o)
        BY <2>2, <3>1
      <3>4. /\ api' = o
            /\ \A i \in 1..Len(stream') : Before(stream'[i], api', vm')
            /\ \A p \in Obj : Before(p, api, vm) => Before(p, api', vm')
        <4> HIDE DEF l, b
        <4> QED BY <1>1, <3>2, <3>3, OrderStore
      <3> QED BY <1>1, <2>2, <3>2, <3>4
    <2> QED BY <1>2, <2>1, <2>2
  <1>4. OrderInv'
    BY <1>1, <1>3, OrderBase
  <1>5. CksCopyInv'
    BY <1>1 DEF CksCopyInv, RestInv
  <1>6. CASE c # "M"
    <2>1. /\ pc'["M"] = pc["M"] /\ retry'["M"] = retry["M"]
      BY <1>1, <1>6
    <2>2. api'.iid = api.iid
      <3>1. l.iid = b.iid
        BY <1>6, ControllerAssumption DEF RestInv, CksCopyInv, Alone
      <3> QED BY <1>3, <3>1
    <2>3. VMsForward(vm, vm')
      BY <1>1, SameVMs
    <2>4. WorkInv' /\ IdleInv'
      BY <1>1, <1>3, <2>1, <2>2, <2>3, MachineFrame
    <2> QED BY <1>4, <1>5, <2>4 DEF RestInv
  <1>7. CASE c = "M"
    <2>1. pc'["M"] = "patchStatus"
      BY <1>1, <1>7
    <2>2. WorkingCopyInv'
      BY <1>1, <1>3, <1>7 DEF WorkingCopyInv, WorkInv, RestInv, HasId
    <2>3. Succeeds' => /\ Succeeds /\ retry'["M"] = retry["M"]
                       /\ api'.iid = IF l.iid = b.iid THEN api.iid ELSE l.iid
                       /\ api'.fins = IF l.fins = b.fins THEN api.fins ELSE l.fins
      BY <1>3, <1>7 DEF Succeeds
    <2>4. BalancedInv' /\ CheckedInv'
      BY <1>1, <1>7, <2>3 DEF BalancedInv, CheckedInv, Patching, WorkInv, RestInv
    <2>5. StoredInv'
      <3> SUFFICES ASSUME Succeeds'
                   PROVE  loc["M"].ready /\ api'.iid = loc["M"].iid /\ (Alone => "M" \in api'.fins)
        BY <1>1 DEF StoredInv
      <3>1. /\ l.ready /\ "M" \in l.fins
            /\ l.iid = b.iid => api.iid = l.iid
        BY <1>1, <1>7, <2>3 DEF FoundInv, WorkInv, RestInv
      <3>2. Alone /\ l.fins = b.fins => "M" \in api.fins
        BY <2>3, <3>1 DEF Before, Succeeds
      <3> QED BY <1>7, <2>3, <3>1, <3>2
    <2>6. FoundInv' /\ IdleInv'
      BY <2>1 DEF FoundInv, IdleInv
    <2> QED BY <1>4, <1>5, <2>2, <2>4, <2>5, <2>6 DEF RestInv, WorkInv
  <1> QED BY <1>6, <1>7

LEMMA RestPatchStatus ==
    ASSUME SafetyInv, RestInv, NEW c \in Controllers, PatchStatus(c)
    PROVE  RestInv'
  <1> USE RestFacts
  <1> DEFINE new == [api EXCEPT !.ready = loc[c].ready]
  <1>1. /\ vm' = vm /\ lb' = lb /\ checkers' = checkers
        /\ \A d \in Controllers : /\ pc'[d] = IF d = c THEN "idle" ELSE pc[d]
                                  /\ base'[d] = IF d = c THEN NewObj ELSE base[d]
                                  /\ loc'[d] = IF d = c THEN NewObj ELSE loc[d]
                                  /\ retry'[d] = IF d = c THEN FALSE ELSE retry[d]
                                  /\ queue[d] => queue'[d]
        /\ pc[c] = "patchStatus" /\ (retry[c] => queue'[c])
    BY DEF PatchStatus, cloud, SafetyInv, TypeInv, TypeOK
  <1>2. \/ loc[c].ready = base[c].ready /\ stream' = stream
        \/ loc[c].ready # base[c].ready /\ Store(new)
        \/ ~api.exists /\ stream' = stream
        \/ queue'[c] /\ stream' = stream
    BY DEF PatchStatus, SafetyInv, TypeInv, TypeOK
  <1>3. base[c].ready => loc[c].ready
    BY ControllerAssumption DEF RestInv, CksCopyInv, WorkInv, WorkingCopyInv, Alone
  <1>4. /\ \A i \in 1..Len(stream') : Before(stream'[i], api', vm')
        /\ \A p \in Obj : Before(p, api, vm) => Before(p, api', vm')
        /\ Before(api, api', vm')
        /\ api'.deleting = api.deleting /\ api'.iid = api.iid /\ api'.fins = api.fins
        /\ api'.exists = api.exists
        /\ loc[c].ready /\ api'.exists /\ ~queue'[c] => api'.ready
    <2>1. CASE stream' = stream
      <3>1. api' = api
        BY <2>1 DEF api
      <3>2. loc[c].ready = base[c].ready /\ loc[c].ready => api.ready
        BY DEF Before
      <3>3. stream' = stream /\ Store(new) => new = api
        BY DEF SafetyInv, TypeInv, TypeOK
      <3>4. new.ready = loc[c].ready
        BY DEF Obj
      <3> HIDE DEF new
      <3> QED BY <1>1, <1>2, <2>1, <3>1, <3>2, <3>3, <3>4 DEF RestInv, OrderInv
    <2>2. CASE stream' # stream
      <3>1. PICK o : o = new
        OBVIOUS
      <3>2. /\ o \in Obj /\ o.ready = loc[c].ready
            /\ o.deleting = api.deleting /\ o.iid = api.iid /\ o.fins = api.fins
            /\ o.exists = api.exists
        BY <3>1 DEF Obj
      <3>3. Store(o) /\ o.ready
        BY <1>2, <1>3, <2>2, <3>1, <3>2 DEF Obj
      <3>4. Before(api, o, vm) /\ Before(o, o, vm)
        BY <3>2, <3>3 DEF Before, HasId
      <3> HIDE DEF new
      <3>5. /\ api' = o
            /\ \A i \in 1..Len(stream') : Before(stream'[i], api', vm')
            /\ \A p \in Obj : Before(p, api, vm) => Before(p, api', vm')
        BY <1>1, <3>2, <3>3, <3>4, OrderStore
      <3> QED BY <1>1, <3>2, <3>3, <3>4, <3>5
    <2> QED BY <2>1, <2>2
  <1>5. OrderInv'
    BY <1>1, <1>4, OrderBase
  <1>6. CksCopyInv'
    BY <1>1 DEF CksCopyInv, RestInv, Alone
  <1>7. CASE c # "M"
    <2>1. WorkInv' /\ IdleInv'
      BY <1>1, <1>4, <1>7, SameVMs, MachineFrame
    <2> QED BY <1>5, <1>6, <2>1 DEF RestInv
  <1>8. CASE c = "M"
    <2>1. pc'["M"] = "idle" /\ base'["M"] = NewObj /\ loc'["M"] = NewObj
      BY <1>1, <1>8
    <2>2. WorkInv'
      BY <2>1 DEF WorkInv, WorkingCopyInv, FoundInv, BalancedInv, CheckedInv, StoredInv, Patching,
                  NewObj, HasId
    <2>3. IdleInv'
      <3> SUFFICES ASSUME ~queue'["M"], api'.exists, ~api'.deleting
                   PROVE  /\ api'.ready /\ api'.iid \in checkers' /\ (LbNeeded => api'.iid \in lb')
                          /\ Alone => "M" \in api'.fins
        BY DEF IdleInv
      <3>1. Succeeds /\ pc["M"] = "patchStatus"
        BY <1>1, <1>4, <1>8 DEF Succeeds
      <3>2. /\ loc["M"].ready /\ api.iid = loc["M"].iid /\ (Alone => "M" \in api.fins)
            /\ loc["M"].iid \in checkers /\ (LbNeeded => loc["M"].iid \in lb)
        BY <3>1 DEF RestInv, WorkInv, StoredInv, BalancedInv, CheckedInv, Patching
      <3> QED BY <1>1, <1>4, <1>8, <3>2
    <2> QED BY <1>5, <1>6, <2>2, <2>3 DEF RestInv
  <1> QED BY <1>7, <1>8

\* A deletion is stored, or its last finalizer but the controllers' own taken off.
LEMMA RestDeletion ==
    ASSUME SafetyInv, RestInv, CapiDeletesInfra \/ ForegroundDeletion \/ ForegroundDone
    PROVE  RestInv'
  <1> USE RestFacts
  <1>1. /\ pc' = pc /\ base' = base /\ loc' = loc /\ retry' = retry /\ queue' = queue
        /\ vm' = vm /\ lb' = lb
    BY DEF CapiDeletesInfra, ForegroundDeletion, ForegroundDone, worker, cloud
  <1>2. checkers' = checkers \/ api.deleting
    BY DEF CapiDeletesInfra, ForegroundDeletion, ForegroundDone, Before
  <1>3. PICK o \in Obj :
          /\ Store(o) /\ o.iid = api.iid /\ o.ready = api.ready /\ o.deleting
          /\ "M" \in api.fins => "M" \in o.fins
          /\ o.exists => api.exists
    <2> DEFINE d == Collected([api EXCEPT !.deleting = TRUE])
               f == [api EXCEPT !.deleting = TRUE, !.fins = @ \cup {"F"}]
               r == Collected([api EXCEPT !.fins = @ \ {"F"}])
    <2>1. CASE CapiDeletesInfra
      <3>1. /\ d \in Obj /\ d.iid = api.iid /\ d.ready = api.ready /\ d.deleting
            /\ d.fins = api.fins /\ (d.exists => api.exists)
        BY DEF Collected, Obj
      <3>2. Store(d)
        BY <2>1 DEF CapiDeletesInfra
      <3> HIDE DEF d
      <3> QED BY <3>1, <3>2
    <2>2. CASE ForegroundDeletion
      <3>1. /\ f \in Obj /\ f.iid = api.iid /\ f.ready = api.ready /\ f.deleting
            /\ f.fins = api.fins \cup {"F"} /\ f.exists = api.exists
        BY DEF Obj
      <3>2. Store(f)
        BY <2>2 DEF ForegroundDeletion
      <3> HIDE DEF f
      <3> QED BY <3>1, <3>2
    <2>3. CASE ForegroundDone
      <3>1. api.deleting
        BY <2>3 DEF ForegroundDone, Before
      <3>2. /\ r \in Obj /\ r.iid = api.iid /\ r.ready = api.ready /\ r.deleting
            /\ r.fins = api.fins \ {"F"} /\ (r.exists => api.exists)
        BY <3>1 DEF Collected, Obj
      <3>3. Store(r)
        BY <2>3 DEF ForegroundDone
      <3> HIDE DEF r
      <3> QED BY <3>2, <3>3
    <2> QED BY <2>1, <2>2, <2>3
  <1>4. Before(api, o, vm) /\ Before(o, o, vm)
    BY <1>3 DEF Before, HasId
  <1>5. /\ api' = o
        /\ \A i \in 1..Len(stream') : Before(stream'[i], api', vm')
        /\ \A p \in Obj : Before(p, api, vm) => Before(p, api', vm')
    BY <1>1, <1>3, <1>4, OrderStore
  <1>6. OrderInv'
    BY <1>1, <1>5, OrderBase
  <1>7. CksCopyInv'
    BY <1>1 DEF CksCopyInv, RestInv
  <1>8. WorkInv' /\ IdleInv'
    BY <1>1, <1>2, <1>3, <1>4, <1>5, SameVMs, MachineFrame
  <1> QED BY <1>6, <1>7, <1>8 DEF RestInv

LEMMA RestWatchEvent ==
    ASSUME SafetyInv, RestInv, WatchEvent
    PROVE  RestInv'
  <1> USE RestFacts
  <1>1. /\ pc' = pc /\ base' = base /\ loc' = loc /\ retry' = retry
        /\ vm' = vm /\ lb' = lb /\ checkers' = checkers /\ (queue["M"] => queue'["M"])
    BY DEF WatchEvent, worker, cloud
  <1>2. /\ Len(stream') = Len(stream) - 1 /\ Len(stream) > 1
        /\ \A i \in 1..Len(stream') : stream'[i] = stream[i + 1]
    BY DEF WatchEvent, SafetyInv, TypeInv, TypeOK
  <1>3. api' = api
    BY <1>2 DEF api
  <1>4. \A i \in 1..Len(stream') : Before(stream'[i], api, vm)
    <2>1. \A i \in 1..Len(stream') : i + 1 \in 1..Len(stream)
      BY <1>2
    <2> QED BY <1>2, <2>1 DEF RestInv, OrderInv
  <1>5. OrderInv'
    BY <1>1, <1>3, <1>4, OrderBase
  <1>6. CksCopyInv'
    BY <1>1 DEF CksCopyInv, RestInv
  <1>7. WorkInv' /\ IdleInv'
    BY <1>1, <1>3, SameVMs, MachineFrame
  <1> QED BY <1>5, <1>6, <1>7 DEF RestInv

\* A restart queues the object, whatever the lost pass had done.
LEMMA RestCrash ==
    ASSUME SafetyInv, RestInv, Crash
    PROVE  RestInv'
  <1> USE RestFacts
  <1>1. /\ vm' = vm /\ Len(stream') = 1 /\ stream'[1] = api /\ api' = api
        /\ queue'["M"] = api.exists
        /\ \A c \in Controllers : base'[c] = NewObj /\ loc'[c] = NewObj /\ pc'[c] = "idle"
    BY DEF Crash, cloud, api
  <1>2. \A i \in 1..Len(stream') : Before(stream'[i], api', vm')
    BY <1>1
  <1>3. OrderInv'
    BY <1>1, <1>2, OrderBase
  <1>4. CksCopyInv'
    BY <1>1 DEF CksCopyInv, Alone
  <1>5. WorkInv'
    BY <1>1 DEF WorkInv, WorkingCopyInv, FoundInv, BalancedInv, CheckedInv, StoredInv, Patching,
                NewObj, HasId
  <1>6. IdleInv'
    BY <1>1 DEF IdleInv
  <1> QED BY <1>3, <1>4, <1>5, <1>6 DEF RestInv

LEMMA RestEnvironment ==
    ASSUME SafetyInv, RestInv, Environment
    PROVE  RestInv'
  <1> USE RestFacts
  <1>1. CASE Crash
    BY <1>1, RestCrash
  <1>2. CASE WatchEvent
    BY <1>2, RestWatchEvent
  <1>3. CASE CapiDeletesInfra \/ ForegroundDeletion \/ ForegroundDone
    BY <1>3, RestDeletion
  <1>4. CASE /\ ~Crash /\ ~WatchEvent
             /\ ~CapiDeletesInfra /\ ~ForegroundDeletion /\ ~ForegroundDone
    <2>1. /\ stream' = stream /\ pc' = pc /\ base' = base /\ loc' = loc /\ retry' = retry
          /\ lb' = lb /\ checkers' = checkers
      BY <1>4 DEF Environment, Resync, BootstrapReady, Admit, Suspend, FailureDomainDelisted,
                  DeleteRequested, VMProgress, VMDisturbed, worker, cloud
    <2>2. queue["M"] => queue'["M"]
      BY <1>4 DEF Environment, Resync, BootstrapReady, Admit, Suspend, FailureDomainDelisted,
                  DeleteRequested, VMProgress, VMDisturbed, SafetyInv, TypeInv, TypeOK
    <2>3. VMsForward(vm, vm')
      <3>1. CASE \E v \in VMIds : VMProgress(v) \/ VMDisturbed(v)
        <4> PICK v \in VMIds : VMProgress(v) \/ VMDisturbed(v)
          BY <3>1
        <4>1. \E s \in VMState \ {"absent"} : /\ vm' = [vm EXCEPT ![v] = s]
                                              /\ vm[v] \notin {"absent", "gone"}
          BY DEF VMProgress, VMDisturbed, Visible, VMState
        <4> QED BY <4>1 DEF VMsForward, SafetyInv, TypeInv, TypeOK
      <3>2. CASE ~\E v \in VMIds : VMProgress(v) \/ VMDisturbed(v)
        <4>1. vm' = vm
          BY <1>4, <3>2 DEF Environment, Resync, BootstrapReady, Admit, Suspend,
                            FailureDomainDelisted, DeleteRequested, cloud
        <4> QED BY <4>1, SameVMs
      <3> QED BY <3>1, <3>2
    <2>4. OrderInv' /\ api' = api
      BY <2>1, <2>3, OrderFrame
    <2>5. Before(api, api', vm')
      <3>1. stream'[Len(stream')] = api /\ Len(stream') \in 1..Len(stream')
        BY <2>1 DEF api
      <3> QED BY <2>4, <3>1 DEF OrderInv
    <2>6. CksCopyInv'
      BY <2>1 DEF CksCopyInv, RestInv
    <2>7. WorkInv' /\ IdleInv'
      BY <2>1, <2>2, <2>3, <2>4, <2>5, MachineFrame
    <2> QED BY <2>4, <2>6, <2>7 DEF RestInv
  <1> QED BY <1>1, <1>2, <1>3, <1>4

LEMMA RestInit == Init => RestInv
  <1> SUFFICES ASSUME Init PROVE RestInv
    OBVIOUS
  <1>1. /\ Len(stream) = 1 /\ stream[1] = NewObj /\ api = NewObj
        /\ "M" \in Controllers /\ queue["M"]
    BY ControllerAssumption DEF Init, api
  <1>2. \A c \in Controllers : base[c] = NewObj /\ loc[c] = NewObj /\ pc[c] = "idle"
    BY DEF Init
  <1>3. Before(NewObj, NewObj, vm)
    BY DEF Before, NewObj, HasId
  <1>4. OrderInv
    BY <1>1, <1>2, <1>3 DEF OrderInv
  <1>5. CksCopyInv /\ IdleInv
    BY <1>1, <1>2 DEF CksCopyInv, IdleInv, Alone
  <1>6. WorkInv
    BY <1>1, <1>2 DEF WorkInv, WorkingCopyInv, FoundInv, BalancedInv, CheckedInv, StoredInv,
                      Patching, NewObj, HasId
  <1> QED BY <1>4, <1>5, <1>6 DEF RestInv

LEMMA RestNext == SafetyInv /\ RestInv /\ [Next]_vars => RestInv'
  <1> SUFFICES ASSUME SafetyInv, RestInv, [Next]_vars PROVE RestInv'
    OBVIOUS
  <1>1. CASE MStep
    <2>1. MPass \/ Start("M") \/ PatchSpec("M") \/ PatchStatus("M")
      BY <1>1 DEF MStep, MPass
    <2> QED
      BY <2>1, RestMPass, RestStart, RestPatchSpec, RestPatchStatus, ControllerAssumption
  <1>2. CASE KStep
    BY <1>2, RestKPass, RestStart, RestPatchSpec, RestPatchStatus DEF KStep
  <1>3. CASE Environment
    BY <1>3, RestEnvironment
  <1>4. CASE UNCHANGED vars
    BY <1>4 DEF vars, worker, cloud, RestInv, OrderInv, CksCopyInv, WorkInv, WorkingCopyInv,
                FoundInv, BalancedInv, CheckedInv, StoredInv, IdleInv, Succeeds, Patching, api,
                HasId
  <1> QED
    BY <1>1, <1>2, <1>3, <1>4 DEF Next

\* Whichever controllers run, whatever call failed and whenever the manager
\* was restarted: when the machine controller rests on an object nobody
\* deletes, the machine is Ready and its recorded VM has its state checker and
\* its place behind the load balancer.
THEOREM SettledIsServed ==
    Spec => [](Settled => /\ api.ready /\ api.iid \in checkers
                          /\ LbNeeded => api.iid \in lb)
  <1>1. RestInv => (Settled => /\ api.ready /\ api.iid \in checkers
                               /\ LbNeeded => api.iid \in lb)
    BY DEF RestInv, IdleInv, Settled
  <1> QED BY <1>1, RestInit, RestNext, SafetyInvariant, PTL DEF Spec

\* Without the CKS machine controller, which overwrites the finalizer list, the
\* object at rest also carries the machine finalizer.
THEOREM SettledMachine ==
    ASSUME "K" \notin Controllers
    PROVE  Spec => []SettledIsComplete
  <1>1. RestInv => SettledIsComplete
    BY DEF RestInv, IdleInv, Settled, SettledIsComplete, Alone
  <1> QED BY <1>1, RestInit, RestNext, SafetyInvariant, PTL DEF Spec

=============================================================================
