---------------------- MODULE MachineRefinementProofs ----------------------
(***************************************************************************)
(* MachineLifecycle implements MachineContract: every step of the two      *)
(* controllers and their environment is a step of the contract or leaves   *)
(* what the contract is about alone.                                       *)
(***************************************************************************)
EXTENDS MachineGuardProofs, MachineRefinement

USE DEF Goto, Return, Disturb, CallFails, Store

\* The invariant behind the mapping: the guard needs VMs that stay.
MapInv == SafetyInv /\ ("vanish" \notin Disturbances => GuardInv)

LEMMA MapInit == Init => MapInv
  BY SafetyInit, GuardInit DEF MapInv

LEMMA MapNext == MapInv /\ [Next]_vars => MapInv'
  <1> SUFFICES ASSUME MapInv, [Next]_vars PROVE MapInv'
    OBVIOUS
  <1>1. SafetyInv'
    BY SafetyNext DEF MapInv
  <1>2. ASSUME "vanish" \notin Disturbances PROVE GuardInv'
    BY <1>2, GuardNext DEF MapInv
  <1> QED
    BY <1>1, <1>2 DEF MapInv

\* The steps that write the object.
Writes ==
    \/ \E c \in Controllers : PatchSpec(c) \/ PatchStatus(c)
    \/ CapiDeletesInfra \/ ForegroundDeletion \/ ForegroundDone

\* The steps that change VMs.
Changes == MDeploy \/ MDestroy \/ \E v \in VMIds : VMProgress(v) \/ VMDisturbed(v)

\* Every other step leaves the stored object as it is.
LEMMA OtherObject ==
    ASSUME SafetyInv, [Next]_vars, ~Writes
    PROVE  api' = api
  <1>1. CASE WatchEvent
    BY <1>1, DeliverVersion DEF SafetyInv
  <1>2. CASE Crash
    <2>1. api \in Obj
      BY VersionType DEF SafetyInv, TypeInv, TypeOK
    <2> QED BY <1>2, <2>1 DEF Crash, api
  <1>3. CASE ~WatchEvent /\ ~Crash
    <2>1. CASE MStep
      <3>1. MPass \/ Start("M")
        BY <2>1, ControllerAssumption DEF MStep, MPass, Writes
      <3>2. stream' = stream
        BY <3>1, SafeMPass DEF PassSafe, PassStep, Start
      <3> QED BY <3>2 DEF api
    <2>2. CASE KStep
      <3>1. "K" \in Controllers /\ (KGates \/ KAddVM \/ KRemoveVM \/ Start("K"))
        BY <2>2 DEF KStep, Writes
      <3>2. stream' = stream
        BY <3>1, SafeKPass DEF PassSafe, PassStep, Start
      <3> QED BY <3>2 DEF api
    <2>3. CASE Environment
      BY <1>3, <2>3 DEF Environment, Writes, Resync, BootstrapReady, Admit, Suspend, api,
                        FailureDomainDelisted, DeleteRequested, VMProgress, VMDisturbed
    <2>4. CASE UNCHANGED vars
      BY <2>4 DEF vars, api
    <2> QED BY <2>1, <2>2, <2>3, <2>4 DEF Next
  <1> QED BY <1>1, <1>2, <1>3

\* Every other step leaves the VMs as they are.
LEMMA OtherVMs ==
    ASSUME [Next]_vars, ~Changes
    PROVE  vm' = vm
  <1>1. CASE MStep
    BY <1>1 DEF MStep, Changes, Start, PatchSpec, PatchStatus, MGates, MFailureDomainCheck,
                MGetVM, MResolve, MDeleteCapi, MAddToLB, MStateChecker, MFindVM, MConfirm, cloud
  <1>2. CASE KStep
    BY <1>2 DEF KStep, Start, PatchSpec, PatchStatus, KGates, KAddVM, KRemoveVM, cloud
  <1>3. CASE Environment
    BY <1>3 DEF Environment, Changes, WatchEvent, Resync, Crash, BootstrapReady, Admit,
                Suspend, FailureDomainDelisted, DeleteRequested, CapiDeletesInfra,
                ForegroundDeletion, ForegroundDone, cloud
  <1>4. CASE UNCHANGED vars
    BY <1>4 DEF vars, cloud
  <1> QED BY <1>1, <1>2, <1>3, <1>4 DEF Next

\* A step that writes the object changes no VM, and the other way round.
LEMMA WritesAlone == Writes => vm' = vm
  BY DEF Writes, PatchSpec, PatchStatus, CapiDeletesInfra, ForegroundDeletion,
         ForegroundDone, cloud

LEMMA ChangesAlone == Changes => api' = api
  <1> SUFFICES ASSUME Changes PROVE stream' = stream
    BY DEF api
  <1> QED
    BY DEF Changes, MDeploy, MRefused, MDestroy, VMProgress, VMDisturbed

(***************************************************************************)
(* The VMs.                                                                *)
(***************************************************************************)

\* One VM moves on: so does its life.
LEMMA OneLife ==
    ASSUME SafetyInv, NEW v \in VMIds, NEW s \in VMState, vm' = [vm EXCEPT ![v] = s]
    PROVE  [w \in VMIds |-> LifeOf(vm[w])]'
             = [[w \in VMIds |-> LifeOf(vm[w])] EXCEPT ![v] = LifeOf(s)]
  <1>1. vm \in [VMIds -> VMState]
    BY DEF SafetyInv, TypeInv, TypeOK
  <1>2. \A w \in VMIds : vm'[w] = IF w = v THEN s ELSE vm[w]
    BY <1>1
  <1>3. [w \in VMIds |-> LifeOf(vm[w])]' = [w \in VMIds |-> LifeOf(IF w = v THEN s ELSE vm[w])]
    BY <1>2 DEF LifeOf
  <1> QED
    BY <1>3 DEF LifeOf

LEMMA Lives ==
    /\ LifeOf("absent") = "none" /\ LifeOf("gone") = "gone"
    /\ \A s \in {"Starting", "Running", "Stopped", "Error"} : LifeOf(s) = "live"
    /\ \A s \in {"Destroyed", "Expunging"} : LifeOf(s) = "ending"
  BY DEF LifeOf

LEMMA DeployRefines ==
    ASSUME MapInv, MDeploy, vm' # vm
    PROVE  \E v \in VMIds : Contract!Deploy(v)
  <1>1. PICK v \in VMIds, s \in {"Starting", "Error"} :
          vm[v] = "absent" /\ vm' = [vm EXCEPT ![v] = s]
    BY DEF MDeploy, MRefused, cloud
  <1>2. SafetyInv /\ pc["M"] = "deploy" /\ Visible = {}
    BY DEF MapInv, MDeploy, SafetyInv, PassInv
  <1>3. \A w \in VMIds : vm[w] \in {"absent", "gone"}
    BY <1>2 DEF Visible
  <1>4. ASSUME "vanish" \notin Disturbances, NEW w \in VMIds PROVE vm[w] = "absent"
    <2>1. ~base["M"].deleting /\ GuardInv
      BY <1>2, <1>4 DEF MapInv, GuardInv, ProvisionInv
    <2>2. ~Removed
      BY <1>2, <2>1 DEF GuardInv, RemovedInv
    <2> QED
      BY <1>3, <1>4, <2>2 DEF Removed, Used, Live
  <1>5. api' = api
    BY ChangesAlone DEF Changes
  <1>6. s \in VMState
    BY DEF VMState
  <1>7. Contract!Deploy(v)
    <2>1. [w \in VMIds |-> LifeOf(vm[w])]'
            = [[w \in VMIds |-> LifeOf(vm[w])] EXCEPT ![v] = "live"]
      <3>1. LifeOf(s) = "live"
        BY <1>1, Lives
      <3>2. [w \in VMIds |-> LifeOf(vm[w])]'
              = [[w \in VMIds |-> LifeOf(vm[w])] EXCEPT ![v] = LifeOf(s)]
        BY <1>1, <1>2, <1>6, OneLife
      <3> QED BY <3>1, <3>2
    <2>2. \A w \in VMIds : LifeOf(vm[w]) = "none"
                            \/ ("vanish" \in Disturbances /\ LifeOf(vm[w]) = "gone")
      BY <1>3, <1>4, Lives
    <2>3. LifeOf(vm[v]) = "none"
      BY <1>1, Lives
    <2> QED
      BY <1>5, <2>1, <2>2, <2>3 DEF Contract!Deploy, Phase
  <1> QED BY <1>7

\* The life of a VM that only changes its state stays the same.
LEMMA SameLife ==
    ASSUME SafetyInv, NEW v \in VMIds, NEW s \in VMState, vm' = [vm EXCEPT ![v] = s],
           LifeOf(s) = LifeOf(vm[v])
    PROVE  [w \in VMIds |-> LifeOf(vm[w])]' = [w \in VMIds |-> LifeOf(vm[w])]
  <1>1. [w \in VMIds |-> LifeOf(vm[w])]'
          = [[w \in VMIds |-> LifeOf(vm[w])] EXCEPT ![v] = LifeOf(s)]
    BY OneLife
  <1> QED
    BY <1>1

LEMMA DestroyRefines ==
    ASSUME MapInv, [Next]_vars, MDestroy, vm' # vm
    PROVE  [Contract!Next]_(Contract!vars)
  <1>1. PICK v \in VMIds, s \in {"Destroyed", "Expunging"} :
          v \in Visible /\ vm' = [vm EXCEPT ![v] = s]
    BY DEF MDestroy, Visible
  <1>2. SafetyInv /\ s \in VMState /\ api' = api
    BY ChangesAlone DEF MapInv, Changes, VMState
  <1>3. CASE v \in Live
    <2>1. vm'[v] \in {"Destroyed", "Expunging"}
      BY <1>1, <1>2 DEF SafetyInv, TypeInv, TypeOK
    <2>2. "M" \in Controllers /\ base["M"].deleting
      BY <1>2, SafeMDestroy, ControllerAssumption
    <2>3. cache.deleting
      BY <1>2, <2>2 DEF SafetyInv, CopiesInv
    <2>4. api.deleting
      BY <1>2, <2>3 DEF SafetyInv, VersionsInv, cache, TypeInv, TypeOK
    <2>5. Contract!Destroy(v)
      BY <1>1, <1>2, <1>3, <2>4, OneLife, Lives DEF Contract!Destroy, Phase, Live
    <2> QED BY <2>5 DEF Contract!Next
  <1>4. CASE v \notin Live
    <2>1. vm[v] \in {"Destroyed", "Expunging"}
      BY <1>1, <1>2, <1>4 DEF Live, Visible, SafetyInv, TypeInv, TypeOK, VMState
    <2>2. [w \in VMIds |-> LifeOf(vm[w])]' = [w \in VMIds |-> LifeOf(vm[w])]
      BY <1>1, <1>2, <2>1, SameLife, Lives
    <2> QED BY <1>2, <2>2 DEF Contract!vars
  <1> QED BY <1>3, <1>4

LEMMA ProgressRefines ==
    ASSUME MapInv, NEW v \in VMIds, VMProgress(v) \/ VMDisturbed(v)
    PROVE  [Contract!Next]_(Contract!vars)
  <1>1. SafetyInv /\ api' = api
    BY ChangesAlone DEF MapInv, Changes
  <1>2. CASE /\ vm' = [vm EXCEPT ![v] = "gone"]
             /\ vm[v] = "Expunging" \/ ("vanish" \in Disturbances /\ v \in Live)
    <2>1. "gone" \in VMState
      BY DEF VMState
    <2>2. Contract!Expunge(v)
      BY <1>1, <1>2, <2>1, OneLife, Lives DEF Contract!Expunge, Live
    <2> QED BY <2>2 DEF Contract!Next
  <1>3. CASE \E s \in VMState : vm' = [vm EXCEPT ![v] = s] /\ LifeOf(s) = LifeOf(vm[v])
    <2>1. [w \in VMIds |-> LifeOf(vm[w])]' = [w \in VMIds |-> LifeOf(vm[w])]
      BY <1>1, <1>3, SameLife
    <2> QED BY <1>1, <2>1 DEF Contract!vars
  <1>4. CASE VMProgress(v)
    <2>1. CASE vm[v] = "Starting"
      BY <1>3, <1>4, <2>1, Lives DEF VMProgress, VMState
    <2>2. CASE vm[v] = "Destroyed"
      BY <1>3, <1>4, <2>2, Lives DEF VMProgress, VMState
    <2>3. CASE vm[v] = "Expunging"
      BY <1>2, <1>4, <2>3 DEF VMProgress
    <2> QED BY <1>4, <2>1, <2>2, <2>3 DEF VMProgress
  <1>5. CASE VMDisturbed(v)
    <2>1. CASE vm[v] = "Running" /\ vm' = [vm EXCEPT ![v] = "Stopped"]
      BY <1>3, <2>1, Lives DEF VMState
    <2>2. CASE "vanish" \in Disturbances /\ vm' = [vm EXCEPT ![v] = "gone"]
      <3>1. v \in Live \/ vm[v] \in {"Destroyed", "Expunging"}
        BY <1>1, <1>5 DEF VMDisturbed, Visible, Live, SafetyInv, TypeInv, TypeOK, VMState
      <3>2. "gone" \in VMState
        BY DEF VMState
      <3>3. Contract!Expunge(v)
        BY <1>1, <2>2, <3>1, <3>2, OneLife, Lives DEF Contract!Expunge, Live
      <3> QED BY <3>3 DEF Contract!Next
    <2> QED BY <1>5, <2>1, <2>2 DEF VMDisturbed
  <1> QED BY <1>4, <1>5

(***************************************************************************)
(* The object.                                                             *)
(***************************************************************************)

\* The four ways a write may change the object.
Kept == Phase(api') = Phase(api) /\ ("M" \in api'.fins <=> "M" \in api.fins)

Edited ==
    /\ Phase(api') = Phase(api) /\ api.exists
    /\ "M" \in api'.fins /\ "M" \notin api.fins => ~api.deleting

Requested ==
    /\ Phase(api) = "present" /\ Phase(api') \in {"deleting", "gone"}
    /\ Phase(api') = "gone" => "M" \notin api.fins
    /\ "M" \in api'.fins <=> "M" \in api.fins

Released ==
    /\ Phase(api) = "deleting" /\ Phase(api') = "gone" /\ "M" \notin api'.fins
    /\ "M" \in api.fins /\ "vanish" \notin Disturbances => Live = {}

\* Each of them is a step of the contract.
LEMMA WriteRefines ==
    ASSUME vm \in [VMIds -> VMState], vm' = vm, Kept \/ Edited \/ Requested \/ Released
    PROVE  [Contract!Next]_(Contract!vars)
  <1>1. [w \in VMIds |-> LifeOf(vm[w])]' = [w \in VMIds |-> LifeOf(vm[w])]
    OBVIOUS
  <1>2. CASE Kept
    <2>1. ("M" \in api'.fins) = ("M" \in api.fins) /\ Phase(api)' = Phase(api)
      BY <1>2 DEF Kept, Phase
    <2> QED BY <1>1, <2>1 DEF Contract!vars
  <1>3. CASE Edited /\ ~Kept
    <2>1. Phase(api)' = Phase(api) /\ Phase(api) # "gone"
      BY <1>3 DEF Edited, Phase
    <2>2. CASE "M" \in api'.fins
      <3>1. Contract!Guard
        BY <1>1, <1>3, <2>1, <2>2 DEF Edited, Kept, Phase, Contract!Guard
      <3> QED BY <3>1 DEF Contract!Next
    <2>3. CASE "M" \notin api'.fins
      <3>1. Contract!Unguard
        BY <1>1, <2>1, <2>3 DEF Contract!Unguard
      <3> QED BY <3>1 DEF Contract!Next
    <2> QED BY <2>2, <2>3
  <1>4. CASE Requested
    <2>1. Phase(api)' \in {"deleting", "gone"} /\ ("M" \in api'.fins) = ("M" \in api.fins)
      BY <1>4 DEF Requested, Phase
    <2>2. Phase(api)' = "gone" => "M" \notin api.fins
      BY <1>4 DEF Requested, Phase
    <2>3. Contract!Request
      BY <1>1, <1>4, <2>1, <2>2 DEF Requested, Contract!Request
    <2> QED BY <2>3 DEF Contract!Next
  <1>5. CASE Released
    <2>1. Phase(api)' = "gone" /\ ("M" \in api'.fins) = FALSE
      BY <1>5 DEF Released, Phase
    <2>2. Live = {} => \A w \in VMIds : LifeOf(vm[w]) # "live"
      BY DEF Live, LifeOf, VMState
    <2>3. Contract!Release
      BY <1>1, <1>5, <2>1, <2>2 DEF Released, Contract!Release, Contract!NoneLive
    <2> QED BY <2>3 DEF Contract!Next
  <1> QED BY <1>2, <1>3, <1>4, <1>5

\* A write of o leaves o stored.
LEMMA Stored ==
    ASSUME SafetyInv, NEW o \in Obj, Store(o)
    PROVE  api' = o
  <1>1. stream \in Seq(Obj) /\ Len(stream) \in Nat /\ Len(stream) > 0
    BY DEF SafetyInv, TypeInv, TypeOK
  <1>2. CASE o = api
    BY <1>2 DEF api
  <1>3. CASE o # api
    BY <1>1, <1>3 DEF api
  <1> QED BY <1>2, <1>3

LEMMA PatchSpecWrites ==
    ASSUME MapInv, NEW c \in Controllers, PatchSpec(c)
    PROVE  Kept \/ Edited \/ Released
  <1> DEFINE new == Merged(base[c], loc[c])
  <1> SafetyInv
    BY DEF MapInv
  <1>1. api \in Obj /\ base[c] \in Obj /\ loc[c] \in Obj
    BY VersionType, OwnCopy DEF SafetyInv, TypeInv, TypeOK
  <1>2. CASE stream' = stream
    BY <1>2 DEF Kept, Phase, api
  <1>3. CASE stream' # stream
    <2>1. PatchAccepted(new) /\ Store(Collected(new))
      BY <1>3 DEF PatchSpec
    <2>2. new \in Obj /\ Collected(new) \in Obj
      BY <1>1, PatchType
    <2>3. api' = Collected(new)
      BY <2>1, <2>2, Stored
    <2>4. new.exists = api.exists /\ new.deleting = api.deleting
      BY <1>1 DEF Merged, Obj
    <2>5. /\ Collected(new).fins = new.fins /\ Collected(new).deleting = new.deleting
          /\ Collected(new).exists = (new.exists /\ ~(new.deleting /\ new.fins = {}))
      BY <2>2 DEF Collected, Obj
    <2>6. api.exists /\ (api.deleting => new.fins \subseteq api.fins)
      BY <2>1 DEF PatchAccepted
    <2>7. CASE api'.exists
      <3>1. Phase(api') = Phase(api)
        BY <2>3, <2>4, <2>5, <2>6, <2>7 DEF Phase
      <3>2. "M" \in api'.fins /\ "M" \notin api.fins => ~api.deleting
        BY <2>3, <2>5, <2>6
      <3> QED BY <2>6, <3>1, <3>2 DEF Edited
    <2>8. CASE ~api'.exists
      <3>1. api.deleting /\ api'.fins = {}
        BY <2>3, <2>4, <2>5, <2>6, <2>8
      <3>2. Phase(api) = "deleting" /\ Phase(api') = "gone"
        BY <2>6, <2>8, <3>1 DEF Phase
      <3>3. "M" \in api.fins /\ "vanish" \notin Disturbances => Live = {}
        BY <2>8, LastFinalizer DEF MapInv
      <3> QED BY <3>1, <3>2, <3>3 DEF Released
    <2> QED BY <2>7, <2>8
  <1> QED BY <1>2, <1>3

LEMMA PatchStatusWrites ==
    ASSUME MapInv, NEW c \in Controllers, PatchStatus(c)
    PROVE  Kept
  <1> DEFINE new == [api EXCEPT !.ready = loc[c].ready]
  <1> SafetyInv
    BY DEF MapInv
  <1>1. api \in Obj /\ loc[c] \in Obj
    BY VersionType, OwnCopy DEF SafetyInv, TypeInv, TypeOK
  <1>2. CASE stream' = stream
    BY <1>2 DEF Kept, Phase, api
  <1>3. CASE stream' # stream
    <2>1. Store(new)
      BY <1>3 DEF PatchStatus
    <2>2. new \in Obj
      BY <1>1 DEF Obj
    <2>3. api' = new
      BY <2>1, <2>2, Stored
    <2>4. new.exists = api.exists /\ new.deleting = api.deleting /\ new.fins = api.fins
      BY <1>1 DEF Obj
    <2> QED BY <2>3, <2>4 DEF Kept, Phase
  <1> QED BY <1>2, <1>3

LEMMA DeletionWrites ==
    ASSUME MapInv, CapiDeletesInfra \/ ForegroundDeletion
    PROVE  Requested
  <1> DEFINE d == [api EXCEPT !.deleting = TRUE]
             f == [api EXCEPT !.deleting = TRUE, !.fins = @ \cup {"F"}]
  <1> SafetyInv
    BY DEF MapInv
  <1>1. api \in Obj
    BY VersionType DEF SafetyInv, TypeInv, TypeOK
  <1>2. api.exists /\ ~api.deleting
    BY DEF CapiDeletesInfra, ForegroundDeletion
  <1>3. Phase(api) = "present"
    BY <1>2 DEF Phase
  <1>4. CASE CapiDeletesInfra
    <2>1. Store(Collected(d)) /\ Collected(d) \in Obj
      BY <1>1, <1>4 DEF CapiDeletesInfra, Collected, Obj
    <2>2. api' = Collected(d)
      BY <2>1, Stored
    <2>3. /\ api'.fins = api.fins /\ api'.deleting
          /\ ~api'.exists => api.fins = {}
      BY <1>1, <1>2, <2>2 DEF Collected, Obj
    <2> QED BY <1>3, <2>3 DEF Requested, Phase
  <1>5. CASE ForegroundDeletion
    <2>1. Store(f) /\ f \in Obj
      BY <1>1, <1>5 DEF ForegroundDeletion, Obj
    <2>2. api' = f
      BY <2>1, Stored
    <2>3. api'.fins = api.fins \cup {"F"} /\ api'.deleting /\ api'.exists = api.exists
      BY <1>1, <2>2 DEF Obj
    <2> QED BY <1>2, <1>3, <2>3 DEF Requested, Phase
  <1> QED BY <1>4, <1>5

LEMMA ForegroundWrites ==
    ASSUME MapInv, ForegroundDone
    PROVE  Kept \/ Released
  <1> DEFINE r == [api EXCEPT !.fins = @ \ {"F"}]
  <1> SafetyInv
    BY DEF MapInv
  <1>1. api \in Obj
    BY VersionType DEF SafetyInv, TypeInv, TypeOK
  <1>2. Store(Collected(r)) /\ Collected(r) \in Obj
    BY <1>1 DEF ForegroundDone, Collected, Obj
  <1>3. api' = Collected(r)
    BY <1>2, Stored
  <1>4. /\ api'.fins = api.fins \ {"F"} /\ api'.deleting = api.deleting
        /\ api'.exists = (api.exists /\ ~(api.deleting /\ api.fins \ {"F"} = {}))
    BY <1>1, <1>3 DEF Collected, Obj
  <1>5. CASE api'.exists = api.exists
    BY <1>4, <1>5 DEF Kept, Phase
  <1>6. CASE api'.exists # api.exists
    <2>1. api.exists /\ ~api'.exists /\ api.deleting /\ api'.fins = {} /\ "M" \notin api.fins
      BY <1>1, <1>4, <1>6 DEF Obj
    <2> QED BY <2>1 DEF Released, Phase
  <1> QED BY <1>5, <1>6

(***************************************************************************)
(* The theorem.                                                            *)
(***************************************************************************)
LEMMA ContractStep ==
    MapInv /\ [Next]_vars => [Contract!Next]_(Contract!vars)
  <1> SUFFICES ASSUME MapInv, [Next]_vars PROVE [Contract!Next]_(Contract!vars)
    OBVIOUS
  <1> vm \in [VMIds -> VMState] /\ SafetyInv
    BY DEF MapInv, SafetyInv, TypeInv, TypeOK
  <1>1. CASE Writes
    <2>1. Kept \/ Edited \/ Requested \/ Released
      BY <1>1, PatchSpecWrites, PatchStatusWrites, DeletionWrites, ForegroundWrites DEF Writes
    <2> QED BY <1>1, <2>1, WritesAlone, WriteRefines
  <1>2. CASE ~Writes /\ vm' = vm
    <2>1. api' = api
      BY <1>2, OtherObject
    <2>2. Kept
      BY <2>1 DEF Kept
    <2> QED BY <1>2, <2>2, WriteRefines
  <1>3. CASE ~Writes /\ vm' # vm
    <2>1. Changes
      BY <1>3, OtherVMs
    <2>2. CASE MDeploy
      <3>1. \E v \in VMIds : Contract!Deploy(v)
        BY <1>3, <2>2, DeployRefines
      <3> QED BY <3>1 DEF Contract!Next
    <2>3. CASE MDestroy
      BY <1>3, <2>3, DestroyRefines
    <2>4. CASE \E v \in VMIds : VMProgress(v) \/ VMDisturbed(v)
      BY <2>4, ProgressRefines
    <2> QED BY <2>1, <2>2, <2>3, <2>4 DEF Changes
  <1> QED BY <1>1, <1>2, <1>3

LEMMA ContractInit == Init => Contract!Init
  <1> SUFFICES ASSUME Init PROVE Contract!Init
    OBVIOUS
  <1>1. api = NewObj
    BY DEF Init, api
  <1>2. Phase(api) = "present" /\ "M" \notin api.fins
    BY <1>1 DEF Phase, NewObj
  <1>3. [v \in VMIds |-> LifeOf(vm[v])] = [v \in VMIds |-> "none"]
    BY Lives DEF Init
  <1> QED BY <1>2, <1>3 DEF Contract!Init

\* The two controllers and their environment implement the contract of one
\* machine and its VM: for any set of VM ids, controllers, disturbances and
\* bounds, every behaviour of MachineLifecycle is one of MachineContract.
THEOREM MachineImplementsContract == Spec => ImplementsContract
  <1>1. Init => MapInv /\ Contract!Init
    BY MapInit, ContractInit
  <1>2. MapInv /\ [Next]_vars => MapInv'
    BY MapNext
  <1>3. MapInv /\ [Next]_vars => [Contract!Next]_(Contract!vars)
    BY ContractStep
  <1> QED
    BY <1>1, <1>2, <1>3, PTL DEF Spec, ImplementsContract, Contract!Spec
=============================================================================
