----------------------- MODULE MachineLifecycleProofs -----------------------
(***************************************************************************)
(* Proofs about MachineLifecycle, for every set of VM ids, both sets of    *)
(* controllers, every choice and number of disturbances and every lag of   *)
(* the informer. First the type invariant; then the safety properties: at  *)
(* most one VM, finalizers only with an InstanceID, no destruction without *)
(* a deletion. SafetyInv is the inductive invariant behind them.           *)
(***************************************************************************)
EXTENDS MachineLifecycle, TLAPS

\* What the steps that use an InstanceID know about it.
IdInHand ==
    /\ pc["M"] \in {"lb", "checker"} => loc["M"].iid # None
    /\ \A c \in Controllers : pc[c] = "addvm" => loc[c].iid # None

TypeInv == TypeOK /\ IdInHand

USE DEF Goto, Return, Disturb, CallFails, Store

\* A stored version keeps the shape of the stream.
LEMMA StoreType ==
    ASSUME stream \in Seq(Obj), Len(stream) > 0, NEW o \in Obj, Store(o)
    PROVE  stream' \in Seq(Obj) /\ Len(stream') > 0
  OBVIOUS

\* The cached and the stored version are versions.
LEMMA VersionType ==
    ASSUME stream \in Seq(Obj), Len(stream) > 0
    PROVE  cache \in Obj /\ api \in Obj
  BY DEF cache, api

LEMMA NewObjType == NewObj \in Obj
  BY DEF NewObj, Obj, Ids

\* Collecting and merging give objects.
LEMMA PatchType ==
    ASSUME NEW b \in Obj, NEW l \in Obj, api \in Obj
    PROVE  Merged(b, l) \in Obj /\ Collected(Merged(b, l)) \in Obj
  BY DEF Merged, Collected, Obj

LEMMA TypeInit == Init => TypeInv
  <1> SUFFICES ASSUME Init PROVE TypeInv
    OBVIOUS
  <1>1. stream \in Seq(Obj) /\ Len(stream) > 0
    BY NewObjType DEF Init
  <1>2. /\ base \in [Controllers -> Obj] /\ loc \in [Controllers -> Obj]
        /\ pc \in [Controllers -> PCs] /\ vm \in [VMIds -> VMState]
    BY NewObjType DEF Init, VMState, PCs
  <1>3. queue \in [Controllers -> BOOLEAN] /\ retry \in [Controllers -> BOOLEAN]
    BY DEF Init
  <1>4. faults \in 0..MaxFaults
    BY FaultAssumption DEF Init
  <1>5. IdInHand
    BY ControllerAssumption DEF Init, IdInHand
  <1> QED
    BY <1>1, <1>2, <1>3, <1>4, <1>5 DEF Init, TypeInv, TypeOK

LEMMA TypeStart ==
    ASSUME TypeInv, NEW c \in Controllers, Start(c)
    PROVE  TypeInv'
  <1>1. cache \in Obj
    BY VersionType DEF TypeInv, TypeOK
  <1>2. base' \in [Controllers -> Obj] /\ loc' \in [Controllers -> Obj] /\ pc' \in [Controllers -> PCs]
    BY <1>1 DEF Start, TypeInv, TypeOK, PCs
  <1>3. queue' \in [Controllers -> BOOLEAN]
    BY DEF Start, TypeInv, TypeOK
  <1>4. IdInHand'
    BY <1>2, ControllerAssumption DEF Start, TypeInv, TypeOK, IdInHand
  <1>5. UNCHANGED <<stream, retry, vm, lb, cks, checkers, admitted, bootstrap, listed, doomed, faults>>
    BY DEF Start, cloud, env
  <1> QED
    BY <1>2, <1>3, <1>4, <1>5 DEF TypeInv, TypeOK

LEMMA TypePatchSpec ==
    ASSUME TypeInv, NEW c \in Controllers, PatchSpec(c)
    PROVE  TypeInv'
  <1> DEFINE new == Merged(base[c], loc[c])
  <1>1. api \in Obj /\ new \in Obj /\ Collected(new) \in Obj
    BY VersionType, PatchType DEF TypeInv, TypeOK
  <1>2. stream' \in Seq(Obj) /\ Len(stream') > 0
    BY <1>1, StoreType DEF TypeInv, TypeOK, PatchSpec
  <1>3. UNCHANGED <<queue, base, loc, vm, lb, cks, checkers, admitted, bootstrap, listed, doomed>>
    BY DEF PatchSpec, cloud, env
  <1>4. pc' = [pc EXCEPT ![c] = "patchStatus"]
    BY DEF PatchSpec
  <1>5. retry' \in [Controllers -> BOOLEAN]
    <2>1. retry \in [Controllers -> BOOLEAN]
      BY DEF TypeInv, TypeOK
    <2>2. retry' = retry \/ retry' = [retry EXCEPT ![c] = TRUE]
      BY DEF PatchSpec
    <2> QED BY <2>1, <2>2
  <1>6. faults' \in 0..MaxFaults
    <2>1. faults' = faults \/ (faults < MaxFaults /\ faults' = faults + 1)
      BY DEF PatchSpec
    <2> QED BY <2>1, FaultAssumption DEF TypeInv, TypeOK
  <1>7. pc' \in [Controllers -> PCs]
    BY <1>4 DEF TypeInv, TypeOK, PCs
  <1>8. IdInHand'
    BY <1>3, <1>4, ControllerAssumption DEF TypeInv, TypeOK, IdInHand
  <1> QED
    BY <1>2, <1>3, <1>5, <1>6, <1>7, <1>8 DEF TypeInv, TypeOK

LEMMA TypePatchStatus ==
    ASSUME TypeInv, NEW c \in Controllers, PatchStatus(c)
    PROVE  TypeInv'
  <1> DEFINE new == [api EXCEPT !.ready = loc[c].ready]
  <1>1. new \in Obj
    BY VersionType DEF TypeInv, TypeOK, Obj
  <1>2. stream' \in Seq(Obj) /\ Len(stream') > 0
    BY <1>1, StoreType DEF TypeInv, TypeOK, PatchStatus
  <1>3. UNCHANGED <<vm, lb, cks, checkers, admitted, bootstrap, listed, doomed>>
    BY DEF PatchStatus, cloud, env
  <1>4. /\ pc' = [pc EXCEPT ![c] = "idle"]
        /\ base' = [base EXCEPT ![c] = NewObj]
        /\ loc' = [loc EXCEPT ![c] = NewObj]
    BY DEF PatchStatus
  <1>5. retry' \in [Controllers -> BOOLEAN] /\ queue' \in [Controllers -> BOOLEAN]
    BY DEF PatchStatus, TypeInv, TypeOK
  <1>6. faults' \in 0..MaxFaults
    <2>1. faults' = faults \/ (faults < MaxFaults /\ faults' = faults + 1)
      BY DEF PatchStatus
    <2> QED BY <2>1, FaultAssumption DEF TypeInv, TypeOK
  <1>7. /\ pc' \in [Controllers -> PCs]
        /\ base' \in [Controllers -> Obj] /\ loc' \in [Controllers -> Obj]
    BY <1>4, NewObjType DEF TypeInv, TypeOK, PCs
  <1>8. IdInHand'
    BY <1>4, ControllerAssumption DEF TypeInv, TypeOK, IdInHand
  <1> QED
    BY <1>2, <1>3, <1>5, <1>6, <1>7, <1>8 DEF TypeInv, TypeOK

(***************************************************************************)
(* A step inside a pass leaves the object, the queues and the pass's base  *)
(* copy alone. The lemma collects what is then left to show.               *)
(***************************************************************************)
PassStep(c) ==
    /\ UNCHANGED <<stream, queue, base, admitted, bootstrap, listed>>
    /\ \E p \in PCs : pc' = [pc EXCEPT ![c] = p]
    /\ \E l \in Obj : loc' = [loc EXCEPT ![c] = l]
    /\ \E r \in BOOLEAN : retry' = [retry EXCEPT ![c] = r]
    /\ faults' = faults \/ (faults < MaxFaults /\ faults' = faults + 1)
    /\ vm' \in [VMIds -> VMState]
    /\ lb' \subseteq VMIds /\ checkers' \subseteq VMIds /\ cks' \subseteq VMIds
    /\ doomed' \in BOOLEAN
    /\ pc'[c] \in {"lb", "checker", "addvm"} => loc'[c].iid # None

LEMMA TypePassStep ==
    ASSUME TypeInv, NEW c \in Controllers, PassStep(c)
    PROVE  TypeInv'
  <1>1. /\ pc' \in [Controllers -> PCs] /\ loc' \in [Controllers -> Obj]
        /\ retry' \in [Controllers -> BOOLEAN]
    BY DEF PassStep, TypeInv, TypeOK
  <1>2. faults' \in 0..MaxFaults
    BY FaultAssumption DEF PassStep, TypeInv, TypeOK
  <1>3. IdInHand'
    BY <1>1, ControllerAssumption DEF PassStep, TypeInv, TypeOK, IdInHand
  <1> QED
    BY <1>1, <1>2, <1>3 DEF PassStep, TypeInv, TypeOK

\* Writing one's own value back changes nothing.
LEMMA SameEntry ==
    ASSUME NEW S, NEW T, NEW f \in [S -> T], NEW c \in S
    PROVE  f = [f EXCEPT ![c] = f[c]] /\ f[c] \in T
  OBVIOUS

LEMMA PassFails ==
    ASSUME TypeInv, NEW c \in Controllers, CallFails(c)
    PROVE  PassStep(c)
  <1>1. loc' = [loc EXCEPT ![c] = loc[c]] /\ loc[c] \in Obj
    BY SameEntry DEF TypeInv, TypeOK
  <1>2. pc'[c] = "patchSpec"
    BY DEF TypeInv, TypeOK
  <1>3. "patchSpec" \in PCs
    BY DEF PCs
  <1> QED
    BY <1>1, <1>2, <1>3 DEF PassStep, TypeInv, TypeOK, cloud, env

\* Facts every step of the machine controller's pass starts from.
LEMMA MPassFacts ==
    ASSUME TypeInv
    PROVE  /\ "M" \in Controllers
           /\ loc["M"] \in Obj /\ loc = [loc EXCEPT !["M"] = loc["M"]]
           /\ retry["M"] \in BOOLEAN /\ retry = [retry EXCEPT !["M"] = retry["M"]]
           /\ pc["M"] \in PCs
           /\ vm \in [VMIds -> VMState]
  BY ControllerAssumption, SameEntry DEF TypeInv, TypeOK

LEMMA PassMGates ==
    ASSUME TypeInv, MGates
    PROVE  PassStep("M")
  <1> USE MPassFacts
  <1>1. \E l \in Obj : loc' = [loc EXCEPT !["M"] = l]
    <2>1. \/ loc' = loc
          \/ \E p \in BOOLEAN : loc' = [loc EXCEPT !["M"].placed = p]
      BY DEF MGates, Obj
    <2>2. \A p \in BOOLEAN : [loc["M"] EXCEPT !.placed = p] \in Obj
      BY DEF Obj
    <2> QED BY <2>1, <2>2
  <1>2. /\ \E p \in PCs : pc' = [pc EXCEPT !["M"] = p]
        /\ pc'["M"] \notin {"lb", "checker", "addvm"}
    BY DEF MGates, PCs, TypeInv, TypeOK
  <1>3. \E r \in BOOLEAN : retry' = [retry EXCEPT !["M"] = r]
    BY DEF MGates
  <1> QED
    BY <1>1, <1>2, <1>3 DEF MGates, PassStep, TypeInv, TypeOK, cloud, env

LEMMA PassMFailureDomainCheck ==
    ASSUME TypeInv, MFailureDomainCheck
    PROVE  PassStep("M")
  <1> USE MPassFacts
  <1>1. CASE CallFails("M")
    BY <1>1, PassFails
  <1>2. CASE ~CallFails("M")
    <2>1. pc' = [pc EXCEPT !["M"] = "getvm"] /\ "getvm" \in PCs /\ pc'["M"] = "getvm"
      BY <1>2 DEF MFailureDomainCheck, PCs, TypeInv, TypeOK
    <2>2. doomed' \in BOOLEAN
      BY <1>2 DEF MFailureDomainCheck
    <2> QED
      BY <1>2, <2>1, <2>2 DEF MFailureDomainCheck, PassStep, TypeInv, TypeOK, cloud, env
  <1> QED BY <1>1, <1>2

\* The local part of a pass that has resolved VM v.
LEMMA FoundEffect ==
    ASSUME TypeInv, NEW v \in VMIds, MFound(v)
    PROVE  /\ \E l \in Obj : loc' = [loc EXCEPT !["M"] = l]
           /\ \E p \in {"lb", "delcapi", "patchSpec"} : pc' = [pc EXCEPT !["M"] = p]
           /\ \E r \in BOOLEAN : retry' = [retry EXCEPT !["M"] = r]
           /\ loc'["M"].iid = v
  <1> USE MPassFacts
  <1> DEFINE l == [loc["M"] EXCEPT !.iid = v, !.fins = @ \cup {"M"},
                                   !.ready = @ \/ vm[v] = "Running"]
  <1>1. l \in Obj /\ l.iid = v
    BY DEF Obj, Ids
  <1>2. loc' = [loc EXCEPT !["M"] = l]
    BY DEF MFound, MRecord, TypeInv, TypeOK
  <1>3. loc'["M"] = l
    BY <1>2 DEF TypeInv, TypeOK
  <1>4. \/ pc' = [pc EXCEPT !["M"] = "lb"] /\ retry' = retry
        \/ pc' = [pc EXCEPT !["M"] = "delcapi"] /\ retry' = retry
        \/ pc' = [pc EXCEPT !["M"] = "patchSpec"] /\ retry' = [retry EXCEPT !["M"] = TRUE]
    BY DEF MFound, MRecord
  <1>5. \E p \in {"lb", "delcapi", "patchSpec"} : pc' = [pc EXCEPT !["M"] = p]
    BY <1>4
  <1>6. \E r \in BOOLEAN : retry' = [retry EXCEPT !["M"] = r]
    BY <1>4
  <1> QED
    BY <1>1, <1>2, <1>3, <1>5, <1>6

LEMMA PassMGetVM ==
    ASSUME TypeInv, MGetVM
    PROVE  PassStep("M")
  <1> USE MPassFacts
  <1>1. CASE CallFails("M")
    BY <1>1, PassFails
  <1>2. CASE ~CallFails("M")
    <2> DEFINE found == Resolved(loc["M"].iid)
    <2>1. UNCHANGED <<stream, queue, base, vm, lb, cks, checkers, admitted, bootstrap, listed, doomed, faults>>
      BY <1>2 DEF MGetVM, cloud, env
    <2>2. CASE \E v \in found : MFound(v)
      <3>1. PICK v \in VMIds : MFound(v)
        BY <2>2 DEF Resolved, Visible
      <3> QED
        BY <2>1, <3>1, FoundEffect, IdAssumption DEF PassStep, TypeInv, TypeOK, PCs
    <2>3. CASE ~\E v \in found : MFound(v)
      <3>1. \/ pc' = [pc EXCEPT !["M"] = "deploy"] /\ retry' = retry
            \/ pc' = [pc EXCEPT !["M"] = "patchSpec"] /\ retry' = [retry EXCEPT !["M"] = TRUE]
        BY <1>2, <2>3 DEF MGetVM
      <3>2. loc' = loc
        BY <1>2, <2>3 DEF MGetVM
      <3>3. pc'["M"] \in {"deploy", "patchSpec"} /\ \E p \in PCs : pc' = [pc EXCEPT !["M"] = p]
        BY <3>1 DEF TypeInv, TypeOK, PCs
      <3>4. \E r \in BOOLEAN : retry' = [retry EXCEPT !["M"] = r]
        BY <3>1
      <3> QED
        BY <2>1, <3>2, <3>3, <3>4 DEF PassStep, TypeInv, TypeOK
    <2> QED BY <2>2, <2>3
  <1> QED BY <1>1, <1>2

LEMMA PassMDeploy ==
    ASSUME TypeInv, MDeploy
    PROVE  PassStep("M")
  <1> USE MPassFacts
  <1>1. CASE CallFails("M")
    BY <1>1, PassFails
  <1>2. CASE ~CallFails("M")
    <2>1. /\ UNCHANGED <<stream, queue, base, lb, cks, checkers, admitted, bootstrap, listed, doomed>>
          /\ faults' = faults \/ (faults < MaxFaults /\ faults' = faults + 1)
      BY <1>2 DEF MDeploy, MRefused, cloud, env
    <2>2. PICK v \in VMIds, s \in {"Starting", "Error"}, id \in Ids :
            vm' = [vm EXCEPT ![v] = s] /\ loc' = [loc EXCEPT !["M"].iid = id]
      BY <1>2 DEF MDeploy, MRefused, Obj, Ids
    <2>3. vm' \in [VMIds -> VMState]
      BY <2>2 DEF VMState
    <2>4. [loc["M"] EXCEPT !.iid = id] \in Obj
      BY <2>2 DEF Obj, Ids
    <2>5. \/ pc' = [pc EXCEPT !["M"] = "resolve"] /\ retry' = retry
          \/ pc' = [pc EXCEPT !["M"] = "patchSpec"] /\ retry' = [retry EXCEPT !["M"] = TRUE]
      BY <1>2 DEF MDeploy, MRefused
    <2>6. pc'["M"] \in {"resolve", "patchSpec"} /\ \E p \in PCs : pc' = [pc EXCEPT !["M"] = p]
      BY <2>5 DEF TypeInv, TypeOK, PCs
    <2>7. \E r \in BOOLEAN : retry' = [retry EXCEPT !["M"] = r]
      BY <2>5
    <2> QED
      BY <2>1, <2>2, <2>3, <2>4, <2>6, <2>7 DEF PassStep, TypeInv, TypeOK
  <1> QED BY <1>1, <1>2

LEMMA PassMResolve ==
    ASSUME TypeInv, MResolve
    PROVE  PassStep("M")
  <1> USE MPassFacts
  <1>1. CASE CallFails("M")
    BY <1>1, PassFails
  <1>2. CASE ~CallFails("M")
    <2> DEFINE found == Resolved(loc["M"].iid)
    <2>1. UNCHANGED <<stream, queue, base, vm, lb, cks, checkers, admitted, bootstrap, listed, doomed, faults>>
      BY <1>2 DEF MResolve, cloud, env
    <2>2. CASE \E v \in found : MFound(v)
      <3>1. PICK v \in VMIds : MFound(v)
        BY <2>2 DEF Resolved, Visible
      <3> QED
        BY <2>1, <3>1, FoundEffect, IdAssumption DEF PassStep, TypeInv, TypeOK, PCs
    <2>3. CASE ~\E v \in found : MFound(v)
      <3>1. /\ pc' = [pc EXCEPT !["M"] = "patchSpec"] /\ retry' = [retry EXCEPT !["M"] = TRUE]
            /\ loc' = loc
        BY <1>2, <2>3 DEF MResolve
      <3>2. pc'["M"] = "patchSpec" /\ "patchSpec" \in PCs
        BY <3>1 DEF TypeInv, TypeOK, PCs
      <3> QED
        BY <2>1, <3>1, <3>2 DEF PassStep, TypeInv, TypeOK
    <2> QED BY <2>2, <2>3
  <1> QED BY <1>1, <1>2

LEMMA PassMDeleteCapi ==
    ASSUME TypeInv, MDeleteCapi
    PROVE  PassStep("M")
  <1> USE MPassFacts
  <1>1. CASE CallFails("M")
    BY <1>1, PassFails
  <1>2. CASE ~CallFails("M")
    <2>1. pc' = [pc EXCEPT !["M"] = "patchSpec"] /\ "patchSpec" \in PCs /\ pc'["M"] = "patchSpec"
      BY <1>2 DEF MDeleteCapi, PCs, TypeInv, TypeOK
    <2> QED
      BY <1>2, <2>1 DEF MDeleteCapi, PassStep, TypeInv, TypeOK, cloud, env
  <1> QED BY <1>1, <1>2

LEMMA PassMAddToLB ==
    ASSUME TypeInv, MAddToLB
    PROVE  PassStep("M")
  <1> USE MPassFacts
  <1>1. CASE CallFails("M")
    BY <1>1, PassFails
  <1>2. CASE ~CallFails("M")
    <2>1. /\ UNCHANGED <<stream, queue, base, loc, vm, cks, checkers, admitted, bootstrap, listed, doomed, faults>>
          /\ lb' \subseteq VMIds
      BY <1>2 DEF MAddToLB, cloud, env, Visible, TypeInv, TypeOK
    <2>2. \/ pc' = [pc EXCEPT !["M"] = "checker"] /\ retry' = retry
          \/ pc' = [pc EXCEPT !["M"] = "patchSpec"] /\ retry' = [retry EXCEPT !["M"] = TRUE]
      BY <1>2 DEF MAddToLB
    <2>3. \E p \in PCs : pc' = [pc EXCEPT !["M"] = p]
      BY <2>2 DEF PCs
    <2>4. \E r \in BOOLEAN : retry' = [retry EXCEPT !["M"] = r]
      BY <2>2
    <2>5. loc'["M"].iid # None
      BY <2>1 DEF MAddToLB, TypeInv, IdInHand
    <2> QED
      BY <2>1, <2>3, <2>4, <2>5 DEF PassStep, TypeInv, TypeOK
  <1> QED BY <1>1, <1>2

LEMMA PassMStateChecker ==
    ASSUME TypeInv, MStateChecker
    PROVE  PassStep("M")
  <1> USE MPassFacts
  <1>1. CASE CallFails("M")
    BY <1>1, PassFails
  <1>2. CASE ~CallFails("M")
    <2>1. loc["M"].iid \in VMIds
      BY DEF MStateChecker, TypeInv, IdInHand, Obj, Ids
    <2>2. /\ UNCHANGED <<stream, queue, base, loc, vm, lb, cks, admitted, bootstrap, listed, doomed, faults>>
          /\ checkers' \subseteq VMIds
      BY <1>2, <2>1 DEF MStateChecker, cloud, env, TypeInv, TypeOK
    <2>3. pc' = [pc EXCEPT !["M"] = "patchSpec"] /\ "patchSpec" \in PCs /\ pc'["M"] = "patchSpec"
      BY <1>2 DEF MStateChecker, PCs, TypeInv, TypeOK
    <2>4. \E r \in BOOLEAN : retry' = [retry EXCEPT !["M"] = r]
      BY <1>2 DEF MStateChecker
    <2> QED
      BY <2>2, <2>3, <2>4 DEF PassStep, TypeInv, TypeOK
  <1> QED BY <1>1, <1>2

LEMMA PassMFindVM ==
    ASSUME TypeInv, MFindVM
    PROVE  PassStep("M")
  <1> USE MPassFacts
  <1>1. CASE CallFails("M")
    BY <1>1, PassFails
  <1>2. CASE ~CallFails("M")
    <2>1. UNCHANGED <<stream, queue, base, vm, lb, cks, checkers, admitted, bootstrap, listed, doomed, faults>>
      BY <1>2 DEF MFindVM, cloud, env
    <2>2. \/ /\ \E v \in VMIds : loc' = [loc EXCEPT !["M"].iid = v]
             /\ pc' = [pc EXCEPT !["M"] = "destroy"] /\ retry' = retry
          \/ /\ loc' = loc
             /\ pc' = [pc EXCEPT !["M"] = "patchSpec"] /\ retry' = [retry EXCEPT !["M"] = TRUE]
      BY <1>2 DEF MFindVM, Visible
    <2>3. \A v \in VMIds : [loc["M"] EXCEPT !.iid = v] \in Obj
      BY DEF Obj, Ids
    <2>4. \E l \in Obj : loc' = [loc EXCEPT !["M"] = l]
      BY <2>2, <2>3
    <2>5. pc'["M"] \in {"destroy", "patchSpec"} /\ \E p \in PCs : pc' = [pc EXCEPT !["M"] = p]
      BY <2>2 DEF TypeInv, TypeOK, PCs
    <2>6. \E r \in BOOLEAN : retry' = [retry EXCEPT !["M"] = r]
      BY <2>2
    <2> QED
      BY <2>1, <2>4, <2>5, <2>6 DEF PassStep, TypeInv, TypeOK
  <1> QED BY <1>1, <1>2

LEMMA PassMDestroy ==
    ASSUME TypeInv, MDestroy
    PROVE  PassStep("M")
  <1> USE MPassFacts
  <1>1. /\ UNCHANGED <<stream, queue, base, lb, cks, checkers, admitted, bootstrap, listed, doomed>>
        /\ faults' = faults \/ (faults < MaxFaults /\ faults' = faults + 1)
    BY DEF MDestroy, cloud, env
  <1>2. vm' \in [VMIds -> VMState]
    <2>1. \/ vm' = vm
          \/ \E s \in {"Destroyed", "Expunging"} : vm' = [vm EXCEPT ![loc["M"].iid] = s]
      BY DEF MDestroy
    <2> QED BY <2>1 DEF VMState
  <1>3. /\ loc' = loc \/ loc' = [loc EXCEPT !["M"].fins = @ \ {"M"}]
        /\ \/ pc' = [pc EXCEPT !["M"] = "confirm"] /\ retry' = retry
           \/ pc' = [pc EXCEPT !["M"] = "patchSpec"] /\ retry' = [retry EXCEPT !["M"] = FALSE]
           \/ pc' = [pc EXCEPT !["M"] = "patchSpec"] /\ retry' = [retry EXCEPT !["M"] = TRUE]
    BY DEF MDestroy, MVMDeleted
  <1>4. \E l \in Obj : loc' = [loc EXCEPT !["M"] = l]
    <2>1. [loc["M"] EXCEPT !.fins = @ \ {"M"}] \in Obj
      BY DEF Obj
    <2> QED BY <1>3, <2>1
  <1>5. pc'["M"] \in {"confirm", "patchSpec"} /\ \E p \in PCs : pc' = [pc EXCEPT !["M"] = p]
    BY <1>3 DEF TypeInv, TypeOK, PCs
  <1>6. \E r \in BOOLEAN : retry' = [retry EXCEPT !["M"] = r]
    BY <1>3
  <1> QED
    BY <1>1, <1>2, <1>4, <1>5, <1>6 DEF PassStep, TypeInv, TypeOK

LEMMA PassMConfirm ==
    ASSUME TypeInv, MConfirm
    PROVE  PassStep("M")
  <1> USE MPassFacts
  <1>1. CASE CallFails("M")
    BY <1>1, PassFails
  <1>2. CASE ~CallFails("M")
    <2>1. UNCHANGED <<stream, queue, base, vm, lb, cks, checkers, admitted, bootstrap, listed, doomed, faults>>
      BY <1>2 DEF MConfirm, cloud, env
    <2>2. /\ \/ loc' = loc
             \/ loc' = [loc EXCEPT !["M"].fins = @ \ {"M"}]
             \/ \E v \in VMIds : loc' = [loc EXCEPT !["M"].iid = v]
             \/ \E v \in VMIds : loc' = [loc EXCEPT !["M"].iid = v, !["M"].fins = @ \ {"M"}]
          /\ pc' = [pc EXCEPT !["M"] = "patchSpec"]
          /\ \E r \in BOOLEAN : retry' = [retry EXCEPT !["M"] = r]
      BY <1>2 DEF MConfirm, MVMDeleted, Resolved, Visible
    <2>3. /\ [loc["M"] EXCEPT !.fins = @ \ {"M"}] \in Obj
          /\ \A v \in VMIds : [loc["M"] EXCEPT !.iid = v] \in Obj
          /\ \A v \in VMIds : [loc["M"] EXCEPT !.iid = v, !.fins = @ \ {"M"}] \in Obj
      BY DEF Obj, Ids
    <2>4. \E l \in Obj : loc' = [loc EXCEPT !["M"] = l]
      <3>1. \A v \in VMIds : [loc EXCEPT !["M"].iid = v, !["M"].fins = @ \ {"M"}]
                = [loc EXCEPT !["M"] = [loc["M"] EXCEPT !.iid = v, !.fins = @ \ {"M"}]]
        BY DEF TypeInv, TypeOK
      <3>2. CASE \E v \in VMIds : loc' = [loc EXCEPT !["M"].iid = v, !["M"].fins = @ \ {"M"}]
        <4>1. PICK v \in VMIds : loc' = [loc EXCEPT !["M"].iid = v, !["M"].fins = @ \ {"M"}]
          BY <3>2
        <4> DEFINE l == [loc["M"] EXCEPT !.iid = v, !.fins = @ \ {"M"}]
        <4>2. loc' = [loc EXCEPT !["M"] = l]
          BY <3>1, <4>1
        <4>3. l \in Obj
          BY <2>3
        <4> HIDE DEF l
        <4> QED BY <4>2, <4>3
      <3>3. CASE \E v \in VMIds : loc' = [loc EXCEPT !["M"].iid = v]
        BY <2>3, <3>3
      <3>4. CASE loc' = loc \/ loc' = [loc EXCEPT !["M"].fins = @ \ {"M"}]
        BY <2>3, <3>4
      <3> QED BY <2>2, <3>2, <3>3, <3>4
    <2>5. pc'["M"] = "patchSpec" /\ "patchSpec" \in PCs
      BY <2>2 DEF TypeInv, TypeOK, PCs
    <2> QED
      BY <2>1, <2>2, <2>4, <2>5 DEF PassStep, TypeInv, TypeOK
  <1> QED BY <1>1, <1>2

\* The same for the CKS machine controller.
LEMMA KPassFacts ==
    ASSUME TypeInv, "K" \in Controllers
    PROVE  /\ loc["K"] \in Obj /\ loc = [loc EXCEPT !["K"] = loc["K"]]
           /\ retry["K"] \in BOOLEAN /\ retry = [retry EXCEPT !["K"] = retry["K"]]
           /\ vm \in [VMIds -> VMState]
  BY SameEntry DEF TypeInv, TypeOK

LEMMA PassKGates ==
    ASSUME TypeInv, "K" \in Controllers, KGates
    PROVE  PassStep("K")
  <1> USE KPassFacts
  <1>1. CASE CallFails("K")
    BY <1>1, PassFails
  <1>2. CASE ~CallFails("K")
    <2>1. UNCHANGED <<stream, queue, base, vm, lb, cks, checkers, admitted, bootstrap, listed, doomed, faults>>
      BY <1>2 DEF KGates, cloud, env
    <2>2. \/ pc' = [pc EXCEPT !["K"] = "removevm"] /\ loc' = loc /\ retry' = retry
          \/ /\ loc["K"].iid # None
             /\ loc' = [loc EXCEPT !["K"].fins = @ \cup {"K"}]
             /\ pc' = [pc EXCEPT !["K"] = "addvm"] /\ retry' = retry
          \/ /\ pc' = [pc EXCEPT !["K"] = "patchSpec"] /\ loc' = loc
             /\ retry' = [retry EXCEPT !["K"] = TRUE]
      BY <1>2 DEF KGates
    <2>3. \E l \in Obj : loc' = [loc EXCEPT !["K"] = l]
      <3>1. [loc["K"] EXCEPT !.fins = @ \cup {"K"}] \in Obj
        BY DEF Obj
      <3> QED BY <2>2, <3>1
    <2>4. /\ pc'["K"] \in {"removevm", "addvm", "patchSpec"}
          /\ \E p \in PCs : pc' = [pc EXCEPT !["K"] = p]
      BY <2>2 DEF TypeInv, TypeOK, PCs
    <2>5. pc'["K"] = "addvm" => loc'["K"].iid # None
      BY <2>2 DEF TypeInv, TypeOK, Obj
    <2>6. \E r \in BOOLEAN : retry' = [retry EXCEPT !["K"] = r]
      BY <2>2
    <2> QED
      BY <2>1, <2>3, <2>4, <2>5, <2>6 DEF PassStep, TypeInv, TypeOK
  <1> QED BY <1>1, <1>2

LEMMA PassKAddVM ==
    ASSUME TypeInv, "K" \in Controllers, KAddVM
    PROVE  PassStep("K")
  <1> USE KPassFacts
  <1>1. CASE CallFails("K")
    BY <1>1, PassFails
  <1>2. CASE ~CallFails("K")
    <2>1. loc["K"].iid \in VMIds
      BY DEF KAddVM, TypeInv, IdInHand, Obj, Ids
    <2>2. /\ UNCHANGED <<stream, queue, base, loc, vm, lb, checkers, admitted, bootstrap, listed, doomed, faults>>
          /\ cks' \subseteq VMIds
      BY <1>2, <2>1 DEF KAddVM, cloud, env, TypeInv, TypeOK
    <2>3. pc' = [pc EXCEPT !["K"] = "patchSpec"] /\ "patchSpec" \in PCs /\ pc'["K"] = "patchSpec"
      BY <1>2 DEF KAddVM, PCs, TypeInv, TypeOK
    <2>4. \E r \in BOOLEAN : retry' = [retry EXCEPT !["K"] = r]
      BY <1>2 DEF KAddVM
    <2> QED
      BY <2>2, <2>3, <2>4 DEF PassStep, TypeInv, TypeOK
  <1> QED BY <1>1, <1>2

LEMMA PassKRemoveVM ==
    ASSUME TypeInv, "K" \in Controllers, KRemoveVM
    PROVE  PassStep("K")
  <1> USE KPassFacts
  <1>1. CASE CallFails("K")
    BY <1>1, PassFails
  <1>2. CASE ~CallFails("K")
    <2>1. /\ UNCHANGED <<stream, queue, base, vm, lb, checkers, admitted, bootstrap, listed, doomed, faults>>
          /\ cks' \subseteq VMIds
      BY <1>2 DEF KRemoveVM, cloud, env, TypeInv, TypeOK
    <2>2. loc' = [loc EXCEPT !["K"].fins = @ \ {"K"}] /\ [loc["K"] EXCEPT !.fins = @ \ {"K"}] \in Obj
      BY <1>2 DEF KRemoveVM, Obj
    <2>3. pc' = [pc EXCEPT !["K"] = "patchSpec"] /\ "patchSpec" \in PCs /\ pc'["K"] = "patchSpec"
      BY <1>2 DEF KRemoveVM, PCs, TypeInv, TypeOK
    <2>4. \E r \in BOOLEAN : retry' = [retry EXCEPT !["K"] = r]
      BY <1>2 DEF KRemoveVM
    <2> QED
      BY <2>1, <2>2, <2>3, <2>4 DEF PassStep, TypeInv, TypeOK
  <1> QED BY <1>1, <1>2

(***************************************************************************)
(* The steps of the environment.                                           *)
(***************************************************************************)
LEMMA TypeEnvironment ==
    ASSUME TypeInv, Environment
    PROVE  TypeInv'
  <1> USE DEF TypeInv, TypeOK, IdInHand, worker, cloud, env
  <1>1. CASE WatchEvent
    BY <1>1 DEF WatchEvent
  <1>2. CASE Resync
    BY <1>2 DEF Resync
  <1>3. CASE Crash
    <2>1. stream' \in Seq(Obj) /\ Len(stream') > 0
      BY <1>3, VersionType DEF Crash
    <2>2. /\ base' \in [Controllers -> Obj] /\ loc' \in [Controllers -> Obj]
          /\ pc' \in [Controllers -> PCs]
      BY <1>3, NewObjType DEF Crash, PCs
    <2>3. queue' \in [Controllers -> BOOLEAN] /\ retry' \in [Controllers -> BOOLEAN]
      <3>1. api.exists \in BOOLEAN
        BY VersionType DEF Obj
      <3> QED BY <1>3, <3>1 DEF Crash
    <2>4. faults' \in 0..MaxFaults
      BY <1>3, FaultAssumption DEF Crash
    <2>5. IdInHand'
      BY <1>3, ControllerAssumption DEF Crash
    <2> QED BY <1>3, <2>1, <2>2, <2>3, <2>4, <2>5 DEF Crash
  <1>4. CASE BootstrapReady
    BY <1>4 DEF BootstrapReady
  <1>5. CASE Admit
    BY <1>5 DEF Admit
  <1>6. CASE Suspend
    <2>1. faults' \in 0..MaxFaults
      BY <1>6, FaultAssumption DEF Suspend
    <2> QED BY <1>6, <2>1 DEF Suspend
  <1>7. CASE FailureDomainDelisted
    <2>1. faults' \in 0..MaxFaults
      BY <1>7, FaultAssumption DEF FailureDomainDelisted
    <2> QED BY <1>7, <2>1 DEF FailureDomainDelisted
  <1>8. CASE DeleteRequested
    BY <1>8 DEF DeleteRequested
  <1>9. CASE CapiDeletesInfra
    <2>1. Collected([api EXCEPT !.deleting = TRUE]) \in Obj
      BY VersionType DEF Collected, Obj
    <2>2. stream' \in Seq(Obj) /\ Len(stream') > 0
      BY <1>9, <2>1, StoreType DEF CapiDeletesInfra
    <2> QED BY <1>9, <2>2 DEF CapiDeletesInfra
  <1>10. CASE ForegroundDeletion
    <2>1. [api EXCEPT !.deleting = TRUE, !.fins = @ \cup {"F"}] \in Obj
      BY VersionType DEF Obj
    <2>2. stream' \in Seq(Obj) /\ Len(stream') > 0
      BY <1>10, <2>1, StoreType DEF ForegroundDeletion
    <2>3. faults' \in 0..MaxFaults
      BY <1>10, FaultAssumption DEF ForegroundDeletion
    <2> QED BY <1>10, <2>2, <2>3 DEF ForegroundDeletion
  <1>11. CASE ForegroundDone
    <2>1. Collected([api EXCEPT !.fins = @ \ {"F"}]) \in Obj
      BY VersionType DEF Collected, Obj
    <2>2. stream' \in Seq(Obj) /\ Len(stream') > 0
      BY <1>11, <2>1, StoreType DEF ForegroundDone
    <2> QED BY <1>11, <2>2 DEF ForegroundDone
  <1>12. CASE \E v \in VMIds : VMProgress(v) \/ VMDisturbed(v)
    <2> PICK v \in VMIds : VMProgress(v) \/ VMDisturbed(v)
      BY <1>12
    <2>1. vm' \in [VMIds -> VMState]
      BY DEF VMProgress, VMDisturbed, VMState
    <2>2. faults' \in 0..MaxFaults
      BY FaultAssumption DEF VMProgress, VMDisturbed
    <2> QED BY <2>1, <2>2 DEF VMProgress, VMDisturbed
  <1> QED
    BY <1>1, <1>2, <1>3, <1>4, <1>5, <1>6, <1>7, <1>8, <1>9, <1>12,
       <1>10, <1>11 DEF Environment

LEMMA TypeNext == TypeInv /\ [Next]_vars => TypeInv'
  <1> SUFFICES ASSUME TypeInv, [Next]_vars PROVE TypeInv'
    OBVIOUS
  <1>1. CASE MStep
    <2> "M" \in Controllers
      BY ControllerAssumption
    <2> QED
      BY <1>1, TypeStart, TypePatchSpec, TypePatchStatus, TypePassStep, PassMGates,
         PassMFailureDomainCheck, PassMGetVM, PassMDeploy, PassMResolve, PassMDeleteCapi,
         PassMAddToLB, PassMStateChecker, PassMFindVM, PassMDestroy, PassMConfirm
      DEF MStep
  <1>2. CASE KStep
    BY <1>2, TypeStart, TypePatchSpec, TypePatchStatus, TypePassStep, PassKGates,
       PassKAddVM, PassKRemoveVM
    DEF KStep
  <1>3. CASE Environment
    BY <1>3, TypeEnvironment
  <1>4. CASE UNCHANGED vars
    BY <1>4 DEF vars, worker, cloud, env, TypeInv, TypeOK, IdInHand
  <1> QED
    BY <1>1, <1>2, <1>3, <1>4 DEF Next

\* The type invariant, with what the steps of a pass know about their
\* InstanceID: the load balancer, the state checker and CKS are never handed
\* a missing one.
THEOREM TypeInvariant == Spec => []TypeInv
  BY TypeInit, TypeNext, PTL DEF Spec

\* The type invariant proper.
THEOREM TypeCorrect == Spec => []TypeOK
  <1>1. TypeInv => TypeOK
    BY DEF TypeInv
  <1> QED
    BY <1>1, TypeInvariant, PTL

----------------------------------------------------------------------------
\* The safety properties.


HasId(o) == o.iid # None

\* Of the versions between the cache and the store: a finalizer comes with an
\* InstanceID; InstanceIDs and deletions are never taken back; finalizers are
\* not added during a deletion; an object that is gone has none.
VersionsInv ==
    /\ \A i \in 1..Len(stream) :
         /\ stream[i].fins \ {"F"} # {} => HasId(stream[i])
         /\ HasId(stream[i]) => HasId(api)
         /\ stream[i].deleting => api.deleting /\ api.fins \subseteq stream[i].fins
         /\ ~stream[i].exists => stream[i].fins = {}
    /\ \A i, j \in 1..Len(stream) : i <= j /\ stream[i].deleting => stream[j].deleting

\* Of the copies a pass works on: the stored object is at least as far as the
\* copy the pass read; a working copy has an InstanceID if the base copy has
\* one or if it carries a finalizer; a controller takes off only its own
\* finalizer, and only in a deletion.
CopiesInv ==
    \A c \in Controllers :
        /\ HasId(base[c]) => HasId(api) /\ HasId(loc[c])
        /\ loc[c].fins \ {"F"} # {} => HasId(loc[c])
        /\ base[c].deleting => cache.deleting /\ api.fins \subseteq base[c].fins
        /\ base[c].fins \ {c} \subseteq loc[c].fins
        /\ ~base[c].deleting => base[c].fins \subseteq loc[c].fins

\* Of the machine controller's pass: it deploys only when no VM is left, and
\* enters the delete path, with an InstanceID, only for an object being deleted.
PassInv ==
    /\ pc["M"] = "deploy" => Visible = {}
    /\ pc["M"] \in {"findvm", "destroy", "confirm"} => base["M"].deleting
    /\ pc["M"] \in {"destroy", "confirm"} => HasId(loc["M"])

\* Of the CKS machine controller's pass: likewise for its delete path.
CksPassInv == "K" \in Controllers /\ pc["K"] = "removevm" => base["K"].deleting

SafetyInv ==
    /\ TypeInv /\ VersionsInv /\ CopiesInv
    /\ PassInv /\ CksPassInv
    /\ AtMostOneVM

(***************************************************************************)
(* Versions.                                                               *)
(***************************************************************************)

\* What an accepted write may be.
GoodVersion(o) ==
    /\ o.fins \ {"F"} # {} => HasId(o)
    /\ HasId(api) => HasId(o)
    /\ api.deleting => o.deleting /\ o.fins \subseteq api.fins
    /\ ~o.exists => o.fins = {}

\* How the ends of the stream may move.
Forward ==
    /\ HasId(api) => HasId(api')
    /\ api.deleting => api'.deleting /\ api'.fins \subseteq api.fins
    /\ cache.deleting => cache'.deleting

\* An accepted write is the stored version and keeps the order of versions.
LEMMA StoreVersion ==
    ASSUME TypeInv, VersionsInv, NEW o \in Obj, GoodVersion(o), Store(o)
    PROVE  VersionsInv' /\ Forward /\ api' = o /\ cache' = cache
  <1> DEFINE n == Len(stream)
  <1> stream \in Seq(Obj) /\ n \in Nat /\ n > 0
    BY DEF TypeInv, TypeOK
  <1>1. CASE o = api
    <2>1. stream' = stream
      BY <1>1
    <2> QED BY <1>1, <2>1 DEF VersionsInv, Forward, api, cache, HasId
  <1>2. CASE o # api
    <2>1. /\ stream' = Append(stream, o) /\ Len(stream') = n + 1
          /\ stream'[n + 1] = o /\ \A i \in 1..n : stream'[i] = stream[i]
      BY <1>2
    <2>2. api' = o /\ cache' = cache
      BY <2>1 DEF api, cache
    <2>3. \A i \in 1..Len(stream') : i = n + 1 \/ i \in 1..n
      BY <2>1
    <2>4. \A i \in 1..Len(stream') :
            /\ stream'[i].fins \ {"F"} # {} => HasId(stream'[i])
            /\ HasId(stream'[i]) => HasId(api')
            /\ stream'[i].deleting => api'.deleting /\ api'.fins \subseteq stream'[i].fins
            /\ ~stream'[i].exists => stream'[i].fins = {}
      BY <2>1, <2>2, <2>3 DEF VersionsInv, GoodVersion
    <2>5. \A i, j \in 1..Len(stream') : i <= j /\ stream'[i].deleting => stream'[j].deleting
      BY <2>1, <2>2, <2>3, <2>4 DEF VersionsInv
    <2> QED
      BY <2>2, <2>4, <2>5 DEF VersionsInv, Forward, GoodVersion, HasId
  <1> QED BY <1>1, <1>2

\* A patch of a pass whose copies are in order is such a write.
LEMMA PatchVersion ==
    ASSUME SafetyInv, NEW c \in Controllers, PatchAccepted(Merged(base[c], loc[c]))
    PROVE  GoodVersion(Collected(Merged(base[c], loc[c])))
  <1> DEFINE m == Merged(base[c], loc[c])
  <1> api \in Obj /\ base[c] \in Obj /\ loc[c] \in Obj
    BY VersionType DEF SafetyInv, TypeInv, TypeOK
  <1>1. /\ m.fins = IF loc[c].fins = base[c].fins THEN api.fins ELSE loc[c].fins
        /\ m.iid = IF loc[c].iid = base[c].iid THEN api.iid ELSE loc[c].iid
        /\ m.deleting = api.deleting /\ m.exists = api.exists
    BY DEF Merged, Obj
  <1>2. /\ HasId(base[c]) => HasId(api) /\ HasId(loc[c])
        /\ loc[c].fins \ {"F"} # {} => HasId(loc[c])
        /\ api.fins \ {"F"} # {} => HasId(api)
    BY DEF SafetyInv, CopiesInv, VersionsInv, api, TypeInv, TypeOK
  <1>3. HasId(api) => HasId(m)
    BY <1>1, <1>2 DEF HasId
  <1>4. m.fins \ {"F"} # {} => HasId(m)
    BY <1>1, <1>2 DEF HasId
  <1>5. api.deleting => m.fins \subseteq api.fins
    BY DEF PatchAccepted
  <1>6. m \in Obj
    BY PatchType
  <1>7. /\ Collected(m).fins = m.fins /\ Collected(m).iid = m.iid
        /\ Collected(m).deleting = m.deleting
        /\ Collected(m).exists = (m.exists /\ ~(m.deleting /\ m.fins = {}))
    BY <1>6 DEF Collected, Obj
  <1>8. m.exists = TRUE
    BY <1>1, VersionType DEF PatchAccepted, Obj
  <1> QED
    BY <1>1, <1>3, <1>4, <1>5, <1>7, <1>8 DEF GoodVersion, HasId

(***************************************************************************)
(* Copies.                                                                 *)
(***************************************************************************)

\* What a pass may turn its working copy into.
GoodCopy(c, l) ==
    /\ HasId(base[c]) => HasId(l)
    /\ l.fins \ {"F"} # {} => HasId(l)
    /\ base[c].fins \ {c} \subseteq l.fins
    /\ ~base[c].deleting => base[c].fins \subseteq l.fins

LEMMA CopiesStep ==
    ASSUME TypeInv, VersionsInv, CopiesInv, Forward,
           NEW c \in Controllers, NEW l \in Obj, GoodCopy(c, l),
           base' = base, loc' = [loc EXCEPT ![c] = l]
    PROVE  CopiesInv'
  <1>1. stream[1] = cache /\ 1 \in 1..Len(stream)
    BY DEF cache, TypeInv, TypeOK
  <1>2. cache.deleting => api.deleting
    BY <1>1 DEF VersionsInv
  <1> SUFFICES ASSUME NEW d \in Controllers
               PROVE  /\ HasId(base[d]) => HasId(api') /\ HasId(loc'[d])
                      /\ loc'[d].fins \ {"F"} # {} => HasId(loc'[d])
                      /\ base[d].deleting => cache'.deleting /\ api'.fins \subseteq base[d].fins
                      /\ base[d].fins \ {d} \subseteq loc'[d].fins
                      /\ ~base[d].deleting => base[d].fins \subseteq loc'[d].fins
    BY DEF CopiesInv, HasId
  <1>3. loc'[d] = IF d = c THEN l ELSE loc[d]
    BY DEF TypeInv, TypeOK
  <1> QED
    BY <1>2, <1>3 DEF CopiesInv, Forward, GoodCopy

\* The same when the working copies stay as they are.
LEMMA CopiesFrame ==
    ASSUME TypeInv, VersionsInv, CopiesInv, Forward, base' = base, loc' = loc
    PROVE  CopiesInv'
  <1>1. stream[1] = cache /\ 1 \in 1..Len(stream)
    BY DEF cache, TypeInv, TypeOK
  <1>2. cache.deleting => api.deleting
    BY <1>1 DEF VersionsInv
  <1> QED
    BY <1>2 DEF CopiesInv, Forward, HasId

\* The stream at rest.
LEMMA StreamFrame ==
    ASSUME VersionsInv, stream' = stream
    PROVE  VersionsInv' /\ Forward /\ api' = api /\ cache' = cache
  BY DEF VersionsInv, Forward, api, cache, HasId

(***************************************************************************)
(* The steps of a machine controller pass.                                 *)
(***************************************************************************)

\* What is left to show of a step inside a pass of controller c.
PassSafe(c) ==
    /\ PassStep(c)
    /\ GoodCopy(c, loc'[c])
    /\ PassInv'
    /\ c = "K" /\ pc'[c] = "removevm" => base[c].deleting
    /\ AtMostOneVM'

LEMMA PassSafeStep ==
    ASSUME SafetyInv, NEW c \in Controllers, PassSafe(c)
    PROVE  SafetyInv'
  <1> USE DEF SafetyInv
  <1>1. TypeInv'
    BY TypePassStep DEF PassSafe
  <1>2. VersionsInv' /\ Forward
    BY StreamFrame DEF PassSafe, PassStep
  <1>3. PICK l \in Obj : loc' = [loc EXCEPT ![c] = l]
    BY DEF PassSafe, PassStep
  <1>4. loc'[c] = l /\ base' = base
    BY <1>3 DEF PassSafe, PassStep, TypeInv, TypeOK
  <1>5. CopiesInv'
    BY <1>2, <1>3, <1>4, CopiesStep DEF PassSafe
  <1>6. CksPassInv'
    <2>1. PICK p \in PCs : pc' = [pc EXCEPT ![c] = p]
      BY DEF PassSafe, PassStep
    <2> QED BY <1>4, <2>1 DEF PassSafe, CksPassInv, TypeInv, TypeOK
  <1> QED
    BY <1>1, <1>2, <1>5, <1>6 DEF PassSafe

\* A controller's own working copy is in order.
LEMMA OwnCopy ==
    ASSUME SafetyInv, NEW c \in Controllers
    PROVE  GoodCopy(c, loc[c]) /\ loc[c] \in Obj /\ base[c] \in Obj
  BY DEF SafetyInv, CopiesInv, GoodCopy, TypeInv, TypeOK

\* VMs other than by deployment only become fewer.
LEMMA FewerVMs ==
    ASSUME AtMostOneVM, Visible' \subseteq Visible
    PROVE  AtMostOneVM'
  BY DEF AtMostOneVM

LEMMA SafeCallFails ==
    ASSUME SafetyInv, CallFails("M")
    PROVE  PassSafe("M")
  <1> "M" \in Controllers
    BY ControllerAssumption
  <1>1. PassStep("M")
    BY PassFails DEF SafetyInv
  <1>2. loc' = loc /\ base' = base /\ vm' = vm /\ pc'["M"] = "patchSpec"
    BY DEF SafetyInv, TypeInv, TypeOK, cloud
  <1>3. AtMostOneVM'
    BY <1>2 DEF SafetyInv, AtMostOneVM, Visible
  <1> QED
    BY <1>1, <1>2, <1>3, OwnCopy DEF PassSafe, PassInv

LEMMA SafeMGates ==
    ASSUME SafetyInv, MGates
    PROVE  PassSafe("M")
  <1> "M" \in Controllers
    BY ControllerAssumption
  <1>1. PassStep("M")
    BY PassMGates DEF SafetyInv
  <1>2. /\ vm' = vm /\ base' = base
        /\ loc'["M"].fins = loc["M"].fins /\ loc'["M"].iid = loc["M"].iid
    BY OwnCopy DEF MGates, SafetyInv, TypeInv, TypeOK, Obj, cloud
  <1>3. \/ pc'["M"] \in {"patchSpec", "fdcheck"}
        \/ pc'["M"] = "findvm" /\ base["M"].deleting
        \/ pc'["M"] = "destroy" /\ base["M"].deleting /\ HasId(loc["M"])
    BY DEF MGates, SafetyInv, TypeInv, TypeOK, HasId
  <1>4. PassInv'
    BY <1>2, <1>3 DEF PassInv, HasId
  <1>5. AtMostOneVM'
    BY <1>2 DEF SafetyInv, AtMostOneVM, Visible
  <1>6. GoodCopy("M", loc'["M"])
    BY <1>2, OwnCopy DEF GoodCopy, HasId
  <1> QED
    BY <1>1, <1>4, <1>5, <1>6 DEF PassSafe

LEMMA SafeMFailureDomainCheck ==
    ASSUME SafetyInv, MFailureDomainCheck
    PROVE  PassSafe("M")
  <1> "M" \in Controllers
    BY ControllerAssumption
  <1>1. PassStep("M")
    BY PassMFailureDomainCheck DEF SafetyInv
  <1>2. vm' = vm /\ base' = base /\ loc' = loc /\ pc'["M"] \in {"getvm", "patchSpec"}
    BY DEF MFailureDomainCheck, SafetyInv, TypeInv, TypeOK, cloud
  <1>3. PassInv' /\ AtMostOneVM'
    BY <1>2 DEF PassInv, SafetyInv, AtMostOneVM, Visible
  <1> QED
    BY <1>1, <1>2, <1>3, OwnCopy DEF PassSafe

\* The copy of a pass that has resolved VM v.
LEMMA FoundCopy ==
    ASSUME SafetyInv, NEW v \in VMIds, MFound(v), base' = base, vm' = vm
    PROVE  /\ GoodCopy("M", loc'["M"]) /\ PassInv' /\ AtMostOneVM'
           /\ loc'["M"].iid = v /\ loc'["M"].fins = loc["M"].fins \cup {"M"}
           /\ pc'["M"] \in {"lb", "delcapi", "patchSpec"}
  <1> "M" \in Controllers
    BY ControllerAssumption
  <1>1. /\ loc'["M"].iid = v
        /\ loc'["M"].fins = loc["M"].fins \cup {"M"}
    BY OwnCopy DEF MFound, MRecord, SafetyInv, TypeInv, TypeOK, Obj
  <1>2. pc'["M"] \in {"lb", "delcapi", "patchSpec"}
    BY FoundEffect DEF SafetyInv, TypeInv, TypeOK
  <1>3. PassInv' /\ AtMostOneVM'
    BY <1>2 DEF PassInv, SafetyInv, AtMostOneVM, Visible
  <1>4. GoodCopy("M", loc'["M"])
    BY <1>1, OwnCopy, IdAssumption DEF GoodCopy, HasId
  <1> QED BY <1>1, <1>2, <1>3, <1>4

LEMMA SafeMGetVM ==
    ASSUME SafetyInv, MGetVM
    PROVE  PassSafe("M")
  <1> "M" \in Controllers
    BY ControllerAssumption
  <1>1. PassStep("M")
    BY PassMGetVM DEF SafetyInv
  <1>2. CASE CallFails("M")
    BY <1>2, SafeCallFails
  <1>3. CASE ~CallFails("M")
    <2> DEFINE found == Resolved(loc["M"].iid)
    <2>1. vm' = vm /\ base' = base
      BY <1>3 DEF MGetVM, cloud
    <2>2. CASE \E v \in found : MFound(v)
      <3>1. PICK v \in VMIds : MFound(v)
        BY <2>2 DEF Resolved, Visible
      <3> QED
        BY <1>1, <2>1, <3>1, FoundCopy DEF PassSafe
    <2>3. CASE ~\E v \in found : MFound(v)
      <3>1. /\ loc' = loc
            /\ pc'["M"] = "patchSpec" \/ (pc'["M"] = "deploy" /\ found = {})
        BY <1>3, <2>3 DEF MGetVM, SafetyInv, TypeInv, TypeOK
      <3>2. found = {} => Visible = {}
        BY DEF Resolved
      <3>3. PassInv' /\ AtMostOneVM'
        BY <2>1, <3>1, <3>2 DEF PassInv, SafetyInv, AtMostOneVM, Visible
      <3> QED
        BY <1>1, <2>1, <3>1, <3>3, OwnCopy DEF PassSafe
    <2> QED BY <2>2, <2>3
  <1> QED BY <1>2, <1>3

LEMMA SafeMDeploy ==
    ASSUME SafetyInv, MDeploy
    PROVE  PassSafe("M")
  <1> "M" \in Controllers
    BY ControllerAssumption
  <1>1. PassStep("M")
    BY PassMDeploy DEF SafetyInv
  <1>2. CASE CallFails("M")
    BY <1>2, SafeCallFails
  <1>3. CASE ~CallFails("M")
    <2>1. PICK v \in VMIds, s \in {"Starting", "Error"}, id \in Ids :
            /\ vm' = [vm EXCEPT ![v] = s] /\ loc' = [loc EXCEPT !["M"].iid = id]
            /\ id = v \/ id = loc["M"].iid
      BY <1>3, OwnCopy DEF MDeploy, MRefused, Obj, Ids
    <2>2. base' = base /\ pc'["M"] \in {"resolve", "patchSpec"}
      BY <1>3 DEF MDeploy, MRefused, SafetyInv, TypeInv, TypeOK
    <2>3. loc'["M"].iid = id /\ loc'["M"].fins = loc["M"].fins
      BY <2>1, OwnCopy DEF SafetyInv, TypeInv, TypeOK, Obj
    <2>4. GoodCopy("M", loc'["M"])
      BY <2>1, <2>3, OwnCopy, IdAssumption DEF GoodCopy, HasId
    <2>5. PassInv'
      BY <2>2 DEF PassInv
    <2>6. AtMostOneVM'
      <3>1. Visible = {}
        BY DEF MDeploy, MRefused, SafetyInv, PassInv
      <3>2. \A w \in Visible' : w = v
        BY <2>1, <3>1 DEF Visible, SafetyInv, TypeInv, TypeOK
      <3> QED BY <3>2 DEF AtMostOneVM
    <2> QED BY <1>1, <2>4, <2>5, <2>6 DEF PassSafe
  <1> QED BY <1>2, <1>3

LEMMA SafeMResolve ==
    ASSUME SafetyInv, MResolve
    PROVE  PassSafe("M")
  <1> "M" \in Controllers
    BY ControllerAssumption
  <1>1. PassStep("M")
    BY PassMResolve DEF SafetyInv
  <1>2. CASE CallFails("M")
    BY <1>2, SafeCallFails
  <1>3. CASE ~CallFails("M")
    <2> DEFINE found == Resolved(loc["M"].iid)
    <2>1. vm' = vm /\ base' = base
      BY <1>3 DEF MResolve, cloud
    <2>2. CASE \E v \in found : MFound(v)
      <3>1. PICK v \in VMIds : MFound(v)
        BY <2>2 DEF Resolved, Visible
      <3> QED
        BY <1>1, <2>1, <3>1, FoundCopy DEF PassSafe
    <2>3. CASE ~\E v \in found : MFound(v)
      <3>1. loc' = loc /\ pc'["M"] = "patchSpec"
        BY <1>3, <2>3 DEF MResolve, SafetyInv, TypeInv, TypeOK
      <3>2. PassInv' /\ AtMostOneVM'
        BY <2>1, <3>1 DEF PassInv, SafetyInv, AtMostOneVM, Visible
      <3> QED
        BY <1>1, <2>1, <3>1, <3>2, OwnCopy DEF PassSafe
    <2> QED BY <2>2, <2>3
  <1> QED BY <1>2, <1>3

\* Steps that touch neither the working copy nor a VM.
LEMMA SafeQuietStep ==
    ASSUME SafetyInv, MDeleteCapi \/ MAddToLB \/ MStateChecker
    PROVE  PassSafe("M") /\ loc' = loc /\ base' = base /\ vm' = vm
  <1> "M" \in Controllers
    BY ControllerAssumption
  <1>1. PassStep("M")
    BY PassMDeleteCapi, PassMAddToLB, PassMStateChecker DEF SafetyInv
  <1>2. vm' = vm /\ base' = base /\ loc' = loc
    BY DEF MDeleteCapi, MAddToLB, MStateChecker, cloud
  <1>3. pc'["M"] \in {"checker", "patchSpec"}
    BY DEF MDeleteCapi, MAddToLB, MStateChecker, SafetyInv, TypeInv, TypeOK
  <1>4. PassInv' /\ AtMostOneVM'
    BY <1>2, <1>3 DEF PassInv, SafetyInv, AtMostOneVM, Visible
  <1> QED
    BY <1>1, <1>2, <1>4, OwnCopy DEF PassSafe

LEMMA SafeMFindVM ==
    ASSUME SafetyInv, MFindVM
    PROVE  PassSafe("M")
  <1> "M" \in Controllers
    BY ControllerAssumption
  <1>1. PassStep("M")
    BY PassMFindVM DEF SafetyInv
  <1>2. CASE CallFails("M")
    BY <1>2, SafeCallFails
  <1>3. CASE ~CallFails("M")
    <2>1. vm' = vm /\ base' = base /\ base["M"].deleting
      BY <1>3 DEF MFindVM, cloud, SafetyInv, PassInv
    <2>2. \/ \E v \in VMIds : loc' = [loc EXCEPT !["M"].iid = v] /\ pc'["M"] = "destroy"
          \/ loc' = loc /\ pc'["M"] = "patchSpec"
      BY <1>3 DEF MFindVM, Visible, SafetyInv, TypeInv, TypeOK
    <2>3. /\ loc'["M"].fins = loc["M"].fins
          /\ loc'["M"].iid = loc["M"].iid \/ HasId(loc'["M"])
          /\ pc'["M"] = "patchSpec" \/ (pc'["M"] = "destroy" /\ HasId(loc'["M"]))
      BY <2>2, OwnCopy, IdAssumption DEF SafetyInv, TypeInv, TypeOK, Obj, HasId
    <2>4. GoodCopy("M", loc'["M"])
      BY <2>3, OwnCopy DEF GoodCopy, HasId
    <2>5. PassInv' /\ AtMostOneVM'
      BY <2>1, <2>3 DEF PassInv, SafetyInv, AtMostOneVM, Visible, HasId
    <2> QED BY <1>1, <2>4, <2>5 DEF PassSafe
  <1> QED BY <1>2, <1>3

LEMMA SafeMDestroy ==
    ASSUME SafetyInv, MDestroy
    PROVE  PassSafe("M") /\ base["M"].deleting
  <1> "M" \in Controllers
    BY ControllerAssumption
  <1>1. PassStep("M")
    BY PassMDestroy DEF SafetyInv
  <1>2. base["M"].deleting /\ HasId(loc["M"])
    BY DEF MDestroy, SafetyInv, PassInv
  <1>3. base' = base /\ pc'["M"] \in {"confirm", "patchSpec"}
    BY DEF MDestroy, MVMDeleted, SafetyInv, TypeInv, TypeOK
  <1>4. /\ loc'["M"].iid = loc["M"].iid
        /\ loc["M"].fins \ {"M"} \subseteq loc'["M"].fins
        /\ loc'["M"].fins \subseteq loc["M"].fins
    <2>1. loc' = loc \/ loc' = [loc EXCEPT !["M"].fins = @ \ {"M"}]
      BY DEF MDestroy, MVMDeleted
    <2> QED BY <2>1, OwnCopy DEF SafetyInv, TypeInv, TypeOK, Obj
  <1>5. Visible' \subseteq Visible
    <2>1. \/ vm' = vm
          \/ /\ loc["M"].iid \in Visible
             /\ \E s \in {"Destroyed", "Expunging"} : vm' = [vm EXCEPT ![loc["M"].iid] = s]
      BY DEF MDestroy
    <2> QED BY <2>1 DEF Visible, SafetyInv, TypeInv, TypeOK
  <1>6. GoodCopy("M", loc'["M"])
    BY <1>2, <1>4, OwnCopy DEF GoodCopy, HasId
  <1>7. PassInv'
    BY <1>2, <1>3, <1>4 DEF PassInv, HasId
  <1>8. AtMostOneVM'
    BY <1>5, FewerVMs DEF SafetyInv
  <1> QED
    BY <1>1, <1>2, <1>6, <1>7, <1>8 DEF PassSafe

LEMMA SafeMConfirm ==
    ASSUME SafetyInv, MConfirm
    PROVE  PassSafe("M")
  <1> "M" \in Controllers
    BY ControllerAssumption
  <1>1. PassStep("M")
    BY PassMConfirm DEF SafetyInv
  <1>2. CASE CallFails("M")
    BY <1>2, SafeCallFails
  <1>3. CASE ~CallFails("M")
    <2>1. vm' = vm /\ base' = base /\ base["M"].deleting /\ HasId(loc["M"])
      BY <1>3 DEF MConfirm, cloud, SafetyInv, PassInv
    <2>2. \/ loc' = loc
          \/ loc' = [loc EXCEPT !["M"].fins = @ \ {"M"}]
          \/ \E v \in VMIds : loc' = [loc EXCEPT !["M"].iid = v]
          \/ \E v \in VMIds : loc' = [loc EXCEPT !["M"].iid = v, !["M"].fins = @ \ {"M"}]
      BY <1>3 DEF MConfirm, MVMDeleted, Resolved, Visible
    <2>3. pc'["M"] = "patchSpec"
      BY <1>3 DEF MConfirm, MVMDeleted, SafetyInv, TypeInv, TypeOK
    <2>4. /\ HasId(loc'["M"])
          /\ loc["M"].fins \ {"M"} \subseteq loc'["M"].fins
      <3> USE <2>1, OwnCopy, IdAssumption DEF SafetyInv, TypeInv, TypeOK, Obj, HasId
      <3>1. CASE loc' = loc
        BY <3>1
      <3>2. CASE loc' = [loc EXCEPT !["M"].fins = @ \ {"M"}]
        BY <3>2
      <3>3. CASE \E v \in VMIds : loc' = [loc EXCEPT !["M"].iid = v]
        BY <3>3
      <3>4. CASE \E v \in VMIds : loc' = [loc EXCEPT !["M"].iid = v, !["M"].fins = @ \ {"M"}]
        BY <3>4
      <3> QED BY <2>2, <3>1, <3>2, <3>3, <3>4
    <2>5. GoodCopy("M", loc'["M"])
      BY <2>1, <2>4, OwnCopy DEF GoodCopy
    <2>6. PassInv' /\ AtMostOneVM'
      BY <2>1, <2>3 DEF PassInv, SafetyInv, AtMostOneVM, Visible
    <2> QED BY <1>1, <2>5, <2>6 DEF PassSafe
  <1> QED BY <1>2, <1>3

(***************************************************************************)
(* The CKS machine controller's pass.                                      *)
(***************************************************************************)

\* Its steps leave the machine controller's pass and the VMs alone.
LEMMA SafeKPass ==
    ASSUME SafetyInv, "K" \in Controllers, KGates \/ KAddVM \/ KRemoveVM
    PROVE  /\ PassSafe("K") /\ vm' = vm /\ base' = base
           /\ loc'["M"] = loc["M"] /\ pc'["M"] = pc["M"]
           /\ loc'["K"].iid = loc["K"].iid
  <1>1. PassStep("K")
    BY PassKGates, PassKAddVM, PassKRemoveVM DEF SafetyInv
  <1>2. vm' = vm /\ base' = base
    BY DEF KGates, KAddVM, KRemoveVM, cloud
  <1>3. "M" \in Controllers /\ pc'["M"] = pc["M"] /\ loc'["M"] = loc["M"]
    BY <1>1, ControllerAssumption DEF PassStep, SafetyInv, TypeInv, TypeOK
  <1>4. /\ \/ loc' = loc
           \/ HasId(loc["K"]) /\ loc' = [loc EXCEPT !["K"].fins = @ \cup {"K"}]
           \/ base["K"].deleting /\ loc' = [loc EXCEPT !["K"].fins = @ \ {"K"}]
        /\ pc'["K"] = "removevm" => base["K"].deleting
    BY DEF KGates, KAddVM, KRemoveVM, HasId, SafetyInv, CksPassInv, TypeInv, TypeOK
  <1>5. GoodCopy("K", loc'["K"]) /\ loc'["K"].iid = loc["K"].iid
    BY <1>4, OwnCopy DEF SafetyInv, TypeInv, TypeOK, Obj, GoodCopy, HasId
  <1>6. PassInv' /\ AtMostOneVM'
    BY <1>2, <1>3 DEF PassInv, SafetyInv, AtMostOneVM, Visible, HasId
  <1> QED
    BY <1>1, <1>2, <1>3, <1>4, <1>5, <1>6 DEF PassSafe

(***************************************************************************)
(* Starting and ending a pass.                                             *)
(***************************************************************************)
LEMMA SafeStart ==
    ASSUME SafetyInv, NEW c \in Controllers, Start(c)
    PROVE  SafetyInv'
  <1> USE DEF SafetyInv
  <1>1. TypeInv'
    BY TypeStart
  <1>2. stream' = stream /\ vm' = vm
    BY DEF Start, cloud
  <1>3. VersionsInv' /\ api' = api /\ cache' = cache
    BY <1>2, StreamFrame
  <1>4. AtMostOneVM'
    BY <1>2 DEF AtMostOneVM, Visible
  <1>5. CASE ~cache.exists
    <2>1. base' = base /\ loc' = loc /\ pc' = pc
      BY <1>5 DEF Start
    <2> QED
      BY <1>1, <1>2, <1>3, <1>4, <2>1 DEF CopiesInv, PassInv, CksPassInv, HasId, Visible
  <1>6. CASE cache.exists
    <2>1. /\ base' = [base EXCEPT ![c] = cache] /\ loc' = [loc EXCEPT ![c] = cache]
          /\ pc' = [pc EXCEPT ![c] = "gates"]
      BY <1>6 DEF Start
    <2>2. /\ cache.fins \ {"F"} # {} => HasId(cache)
          /\ HasId(cache) => HasId(api)
          /\ cache.deleting => api.fins \subseteq cache.fins
      BY DEF VersionsInv, cache, TypeInv, TypeOK
    <2>3. CopiesInv'
      <3> SUFFICES ASSUME NEW d \in Controllers
                   PROVE  /\ HasId(base'[d]) => HasId(api) /\ HasId(loc'[d])
                          /\ loc'[d].fins \ {"F"} # {} => HasId(loc'[d])
                          /\ base'[d].deleting => cache.deleting /\ api.fins \subseteq base'[d].fins
                          /\ base'[d].fins \ {d} \subseteq loc'[d].fins
                          /\ ~base'[d].deleting => base'[d].fins \subseteq loc'[d].fins
        BY <1>3 DEF CopiesInv, HasId
      <3>1. CASE d = c
        <4>1. base'[d] = cache /\ loc'[d] = cache
          BY <2>1, <3>1 DEF TypeInv, TypeOK
        <4> QED BY <2>2, <4>1
      <3>2. CASE d # c
        <4>1. base'[d] = base[d] /\ loc'[d] = loc[d]
          BY <2>1, <3>2 DEF TypeInv, TypeOK
        <4> QED BY <4>1 DEF CopiesInv
      <3> QED BY <3>1, <3>2
    <2>4. "M" \in Controllers
      BY ControllerAssumption
    <2>5. PassInv'
      BY <1>2, <2>1, <2>4 DEF PassInv, TypeInv, TypeOK, HasId, Visible
    <2>6. CksPassInv'
      BY <2>1 DEF CksPassInv, TypeInv, TypeOK
    <2> QED
      BY <1>1, <1>3, <1>4, <2>3, <2>5, <2>6
  <1> QED BY <1>5, <1>6

LEMMA SafePatchSpec ==
    ASSUME SafetyInv, NEW c \in Controllers, PatchSpec(c)
    PROVE  SafetyInv'
  <1> USE DEF SafetyInv
  <1> DEFINE new == Merged(base[c], loc[c])
  <1>1. TypeInv'
    BY TypePatchSpec
  <1>2. /\ vm' = vm /\ base' = base /\ loc' = loc
        /\ pc' = [pc EXCEPT ![c] = "patchStatus"]
    BY DEF PatchSpec, cloud
  <1>3. VersionsInv' /\ Forward
    <2>1. CASE stream' = stream
      BY <2>1, StreamFrame
    <2>2. CASE stream' # stream
      <3>1. PatchAccepted(new) /\ Store(Collected(new))
        BY <2>2 DEF PatchSpec
      <3>2. Collected(new) \in Obj
        BY VersionType, PatchType DEF TypeInv, TypeOK
      <3> QED
        BY <3>1, <3>2, PatchVersion, StoreVersion
    <2> QED BY <2>1, <2>2
  <1>4. CopiesInv'
    BY <1>2, <1>3, CopiesFrame
  <1>5. "M" \in Controllers
    BY ControllerAssumption
  <1>6. PassInv' /\ CksPassInv' /\ AtMostOneVM'
    BY <1>2, <1>5 DEF PassInv, CksPassInv, AtMostOneVM, TypeInv, TypeOK, HasId, Visible
  <1> QED
    BY <1>1, <1>3, <1>4, <1>6

LEMMA SafePatchStatus ==
    ASSUME SafetyInv, NEW c \in Controllers, PatchStatus(c)
    PROVE  SafetyInv'
  <1> USE DEF SafetyInv
  <1> DEFINE new == [api EXCEPT !.ready = loc[c].ready]
  <1>1. TypeInv'
    BY TypePatchStatus
  <1>2. /\ vm' = vm
        /\ base' = [base EXCEPT ![c] = NewObj] /\ loc' = [loc EXCEPT ![c] = NewObj]
        /\ pc' = [pc EXCEPT ![c] = "idle"]
    BY DEF PatchStatus, cloud
  <1>3. VersionsInv' /\ Forward
    <2>1. CASE stream' = stream
      BY <2>1, StreamFrame
    <2>2. CASE stream' # stream
      <3>1. Store(new)
        BY <2>2 DEF PatchStatus
      <3>2. /\ new \in Obj
            /\ new.fins = api.fins /\ new.iid = api.iid
            /\ new.deleting = api.deleting /\ new.exists = api.exists
        BY VersionType DEF TypeInv, TypeOK, Obj
      <3>3. GoodVersion(new)
        BY <3>2 DEF GoodVersion, VersionsInv, api, TypeInv, TypeOK, HasId
      <3> QED
        BY <3>1, <3>2, <3>3, StoreVersion
    <2> QED BY <2>1, <2>2
  <1>4. CopiesInv'
    <2>1. stream[1] = cache /\ 1 \in 1..Len(stream)
      BY DEF cache, TypeInv, TypeOK
    <2>2. cache.deleting => api.deleting
      BY <2>1 DEF VersionsInv
    <2> SUFFICES ASSUME NEW d \in Controllers
                 PROVE  /\ HasId(base'[d]) => HasId(api') /\ HasId(loc'[d])
                        /\ loc'[d].fins \ {"F"} # {} => HasId(loc'[d])
                        /\ base'[d].deleting => cache'.deleting /\ api'.fins \subseteq base'[d].fins
                        /\ base'[d].fins \ {d} \subseteq loc'[d].fins
                        /\ ~base'[d].deleting => base'[d].fins \subseteq loc'[d].fins
      BY DEF CopiesInv, HasId
    <2>3. CASE d = c
      <3>1. base'[d] = NewObj /\ loc'[d] = NewObj
        BY <1>2, <2>3 DEF TypeInv, TypeOK
      <3> QED BY <3>1 DEF NewObj, HasId
    <2>4. CASE d # c
      <3>1. base'[d] = base[d] /\ loc'[d] = loc[d]
        BY <1>2, <2>4 DEF TypeInv, TypeOK
      <3> QED BY <1>3, <2>2, <3>1 DEF CopiesInv, Forward
    <2> QED BY <2>3, <2>4
  <1>5. "M" \in Controllers
    BY ControllerAssumption
  <1>6. PassInv' /\ CksPassInv' /\ AtMostOneVM'
    BY <1>2, <1>5 DEF PassInv, CksPassInv, AtMostOneVM, TypeInv, TypeOK, HasId, Visible
  <1> QED
    BY <1>1, <1>3, <1>4, <1>6

(***************************************************************************)
(* Everyone else.                                                          *)
(***************************************************************************)

\* Delivering a version moves the cache forward.
LEMMA DeliverVersion ==
    ASSUME TypeInv, VersionsInv, WatchEvent
    PROVE  VersionsInv' /\ Forward /\ api' = api
  <1> DEFINE n == Len(stream)
  <1>1. stream \in Seq(Obj) /\ n \in Nat /\ n > 1 /\ stream' = Tail(stream)
    BY DEF WatchEvent, TypeInv, TypeOK
  <1>2. Len(stream') = n - 1 /\ \A i \in 1..(n - 1) : stream'[i] = stream[i + 1]
    BY <1>1
  <1>3. api' = api /\ cache' = stream[2] /\ cache = stream[1]
    BY <1>1, <1>2 DEF api, cache
  <1>4. \A i \in 1..Len(stream') : i + 1 \in 1..n
    BY <1>1, <1>2
  <1>5. VersionsInv'
    BY <1>1, <1>2, <1>3, <1>4 DEF VersionsInv, HasId
  <1>6. stream[1].deleting => stream[2].deleting
    BY <1>1 DEF VersionsInv
  <1> QED
    BY <1>3, <1>5, <1>6 DEF Forward, HasId

\* Cluster API's deletion is a good version.
LEMMA DeletedVersion ==
    ASSUME TypeInv, VersionsInv, CapiDeletesInfra
    PROVE  VersionsInv' /\ Forward /\ cache' = cache
  <1> DEFINE o == [api EXCEPT !.deleting = TRUE]
  <1>1. api \in Obj /\ Store(Collected(o)) /\ ~api.deleting
    BY VersionType DEF CapiDeletesInfra, TypeInv, TypeOK
  <1>2. /\ Collected(o) \in Obj
        /\ Collected(o).fins = api.fins /\ Collected(o).iid = api.iid
        /\ ~Collected(o).exists => ~api.exists \/ api.fins = {}
    BY <1>1 DEF Collected, Obj
  <1>3. (api.fins \ {"F"} # {} => HasId(api)) /\ (~api.exists => api.fins = {})
    BY DEF VersionsInv, api, TypeInv, TypeOK
  <1>4. GoodVersion(Collected(o))
    BY <1>1, <1>2, <1>3 DEF GoodVersion, HasId
  <1> QED BY <1>1, <1>2, <1>4, StoreVersion

\* So are the steps of a deletion in the foreground.
LEMMA ForegroundVersion ==
    ASSUME TypeInv, VersionsInv, ForegroundDeletion \/ ForegroundDone
    PROVE  VersionsInv' /\ Forward /\ cache' = cache
  <1>1. /\ api \in Obj
        /\ (api.fins \ {"F"} # {} => HasId(api)) /\ (~api.exists => api.fins = {})
    BY VersionType DEF VersionsInv, api, TypeInv, TypeOK
  <1>2. CASE ForegroundDeletion
    <2> DEFINE o == [api EXCEPT !.deleting = TRUE, !.fins = @ \cup {"F"}]
    <2>1. Store(o) /\ ~api.deleting /\ api.exists
      BY <1>2 DEF ForegroundDeletion
    <2>2. o \in Obj /\ o.fins = api.fins \cup {"F"} /\ o.iid = api.iid /\ o.exists = api.exists
      BY <1>1 DEF Obj
    <2>3. GoodVersion(o)
      BY <1>1, <2>1, <2>2 DEF GoodVersion, HasId
    <2> QED BY <2>1, <2>2, <2>3, StoreVersion
  <1>3. CASE ForegroundDone
    <2> DEFINE o == Collected([api EXCEPT !.fins = @ \ {"F"}])
    <2>1. Store(o)
      BY <1>3 DEF ForegroundDone
    <2>2. /\ o \in Obj /\ o.fins = api.fins \ {"F"} /\ o.iid = api.iid
          /\ o.deleting = api.deleting
          /\ o.exists = (api.exists /\ ~(api.deleting /\ api.fins \ {"F"} = {}))
      BY <1>1 DEF Collected, Obj
    <2>3. GoodVersion(o)
      BY <1>1, <2>2 DEF GoodVersion, HasId
    <2> QED BY <2>1, <2>2, <2>3, StoreVersion
  <1> QED BY <1>2, <1>3

\* A restart forgets the passes and delivers the stored version.
LEMMA SafeCrash ==
    ASSUME SafetyInv, Crash
    PROVE  SafetyInv'
  <1> USE DEF SafetyInv
  <1>1. TypeInv'
    BY TypeEnvironment DEF Environment
  <1>2. api \in Obj /\ stream' = <<api>> /\ vm' = vm
    BY VersionType DEF Crash, TypeInv, TypeOK, cloud
  <1>3. Len(stream') = 1 /\ stream'[1] = api /\ api' = api /\ cache' = api
    BY <1>2 DEF api, cache
  <1>4. (api.fins \ {"F"} # {} => HasId(api)) /\ (~api.exists => api.fins = {})
    BY DEF VersionsInv, api, TypeInv, TypeOK
  <1>5. VersionsInv'
    BY <1>3, <1>4 DEF VersionsInv, HasId
  <1>6. \A c \in Controllers : base'[c] = NewObj /\ loc'[c] = NewObj /\ pc'[c] = "idle"
    BY DEF Crash
  <1>7. CopiesInv'
    BY <1>6 DEF CopiesInv, NewObj, HasId
  <1>8. PassInv' /\ CksPassInv' /\ AtMostOneVM'
    BY <1>2, <1>6, ControllerAssumption DEF PassInv, CksPassInv, AtMostOneVM, Visible
  <1> QED BY <1>1, <1>5, <1>7, <1>8

LEMMA SafeEnvironment ==
    ASSUME SafetyInv, Environment
    PROVE  SafetyInv'
  <1> USE DEF SafetyInv
  <1>1. TypeInv'
    BY TypeEnvironment
  <1>2. CASE Crash
    BY <1>2, SafeCrash
  <1>3. CASE ~Crash
    <2>1. pc' = pc /\ base' = base /\ loc' = loc
      BY <1>3 DEF Environment, WatchEvent, Resync, BootstrapReady, Admit, Suspend,
                  FailureDomainDelisted, DeleteRequested, CapiDeletesInfra,
                  ForegroundDeletion, ForegroundDone, VMProgress, VMDisturbed, worker
    <2>2. VersionsInv' /\ Forward
      <3>1. CASE WatchEvent
        BY <3>1, DeliverVersion
      <3>2. CASE CapiDeletesInfra
        BY <3>2, DeletedVersion
      <3>3. CASE ForegroundDeletion \/ ForegroundDone
        BY <3>3, ForegroundVersion
      <3>4. CASE ~WatchEvent /\ ~CapiDeletesInfra /\ ~ForegroundDeletion /\ ~ForegroundDone
        <4>1. stream' = stream
          BY <1>3, <3>4 DEF Environment, Resync, BootstrapReady, Admit, Suspend,
                            FailureDomainDelisted, DeleteRequested, VMProgress, VMDisturbed
        <4> QED BY <4>1, StreamFrame
      <3> QED BY <3>1, <3>2, <3>3, <3>4
    <2>3. Visible' \subseteq Visible
      <3>1. CASE \E v \in VMIds : VMProgress(v) \/ VMDisturbed(v)
        <4> PICK v \in VMIds : VMProgress(v) \/ VMDisturbed(v)
          BY <3>1
        <4>1. v \in Visible /\ \E s \in VMState : vm' = [vm EXCEPT ![v] = s]
          BY DEF VMProgress, VMDisturbed, Visible, VMState
        <4> QED BY <4>1 DEF Visible, TypeInv, TypeOK
      <3>2. CASE ~\E v \in VMIds : VMProgress(v) \/ VMDisturbed(v)
        <4>1. vm' = vm
          BY <1>3, <3>2 DEF Environment, WatchEvent, Resync, BootstrapReady, Admit, Suspend,
                            FailureDomainDelisted, DeleteRequested, CapiDeletesInfra,
                            ForegroundDeletion, ForegroundDone, cloud
        <4> QED BY <4>1 DEF Visible
      <3> QED BY <3>1, <3>2
    <2>4. CopiesInv'
      BY <2>1, <2>2, CopiesFrame
    <2>5. AtMostOneVM'
      BY <2>3, FewerVMs
    <2>6. PassInv' /\ CksPassInv'
      BY <2>1, <2>3 DEF PassInv, CksPassInv, HasId
    <2> QED BY <1>1, <2>2, <2>4, <2>5, <2>6
  <1> QED BY <1>2, <1>3

(***************************************************************************)
(* The theorems.                                                           *)
(***************************************************************************)
LEMMA SafetyInit == Init => SafetyInv
  <1> SUFFICES ASSUME Init PROVE SafetyInv
    OBVIOUS
  <1>1. TypeInv
    BY TypeInit
  <1>2. Len(stream) = 1 /\ stream[1] = NewObj /\ api = NewObj
    BY DEF Init, api
  <1>3. VersionsInv
    BY <1>2 DEF VersionsInv, NewObj, HasId
  <1>4. \A c \in Controllers : base[c] = NewObj /\ loc[c] = NewObj /\ pc[c] = "idle"
    BY DEF Init
  <1>5. CopiesInv
    BY <1>4 DEF CopiesInv, NewObj, HasId
  <1>6. PassInv /\ CksPassInv
    BY <1>4, ControllerAssumption DEF PassInv, CksPassInv
  <1>7. AtMostOneVM
    BY DEF Init, AtMostOneVM, Visible
  <1> QED BY <1>1, <1>3, <1>5, <1>6, <1>7 DEF SafetyInv

\* A step inside a machine controller pass.
MPass ==
    \/ MGates \/ MFailureDomainCheck \/ MGetVM \/ MDeploy \/ MResolve
    \/ MDeleteCapi \/ MAddToLB \/ MStateChecker
    \/ MFindVM \/ MDestroy \/ MConfirm

LEMMA SafeMPass ==
    ASSUME SafetyInv, MPass
    PROVE  PassSafe("M")
  BY SafeMGates, SafeMFailureDomainCheck, SafeMGetVM, SafeMDeploy, SafeMResolve,
     SafeQuietStep, SafeMFindVM, SafeMDestroy, SafeMConfirm DEF MPass

LEMMA SafetyNext == SafetyInv /\ [Next]_vars => SafetyInv'
  <1> SUFFICES ASSUME SafetyInv, [Next]_vars PROVE SafetyInv'
    OBVIOUS
  <1>1. CASE MStep
    <2> "M" \in Controllers
      BY ControllerAssumption
    <2>1. MPass \/ Start("M") \/ PatchSpec("M") \/ PatchStatus("M")
      BY <1>1 DEF MStep, MPass
    <2> QED
      BY <2>1, SafeMPass, PassSafeStep, SafeStart, SafePatchSpec, SafePatchStatus
  <1>2. CASE KStep
    <2>1. "K" \in Controllers
      BY <1>2 DEF KStep
    <2>2. \/ KGates \/ KAddVM \/ KRemoveVM
          \/ Start("K") \/ PatchSpec("K") \/ PatchStatus("K")
      BY <1>2 DEF KStep
    <2> QED
      BY <2>1, <2>2, SafeKPass, PassSafeStep, SafeStart, SafePatchSpec, SafePatchStatus
  <1>3. CASE Environment
    BY <1>3, SafeEnvironment
  <1>4. CASE UNCHANGED vars
    BY <1>4, TypeNext DEF SafetyInv, vars, worker, cloud, VersionsInv, CopiesInv, PassInv,
                CksPassInv, AtMostOneVM, Visible, HasId, api, cache
  <1> QED
    BY <1>1, <1>2, <1>3, <1>4 DEF Next

THEOREM SafetyInvariant == Spec => []SafetyInv
  BY SafetyInit, SafetyNext, PTL DEF Spec

\* There are never two VMs for one machine.
THEOREM OneVM == Spec => []AtMostOneVM
  <1>1. SafetyInv => AtMostOneVM
    BY DEF SafetyInv
  <1> QED BY <1>1, SafetyInvariant, PTL

\* A stored finalizer comes with an InstanceID.
THEOREM FinalizerInstance == Spec => []FinalizerHasInstance
  <1>1. SafetyInv => FinalizerHasInstance
    BY DEF SafetyInv, VersionsInv, FinalizerHasInstance, HasId, api, TypeInv, TypeOK
  <1> QED BY <1>1, SafetyInvariant, PTL

\* Of all steps only DestroyVMInstance asks CloudStack to remove a live VM.
LEMMA DestroyStep ==
    ASSUME SafetyInv, [Next]_vars, NEW v \in Live, vm'[v] \in {"Destroyed", "Expunging"}
    PROVE  MDestroy
  <1>1. vm' # vm /\ v \in VMIds /\ vm[v] \in {"Starting", "Running", "Stopped", "Error"}
    BY DEF Live
  <1>2. CASE MDestroy
    BY <1>2
  <1>3. CASE MDeploy
    <2>1. vm' = vm \/ \E w \in VMIds, s \in {"Starting", "Error"} : vm' = [vm EXCEPT ![w] = s]
      BY <1>3 DEF MDeploy, MRefused, cloud
    <2> QED BY <1>1, <2>1 DEF SafetyInv, TypeInv, TypeOK
  <1>4. CASE \E w \in VMIds : VMProgress(w) \/ VMDisturbed(w)
    <2> PICK w \in VMIds : VMProgress(w) \/ VMDisturbed(w)
      BY <1>4
    <2> QED BY <1>1 DEF VMProgress, VMDisturbed, SafetyInv, TypeInv, TypeOK
  <1>5. CASE MStep /\ ~MDestroy /\ ~MDeploy
    <2>1. vm' = vm
      BY <1>5 DEF MStep, Start, PatchSpec, PatchStatus, MGates, MFailureDomainCheck, MGetVM,
                  MResolve, MDeleteCapi, MAddToLB, MStateChecker, MFindVM, MConfirm, cloud
    <2> QED BY <1>1, <2>1
  <1>6. CASE KStep
    BY <1>1, <1>6 DEF KStep, Start, PatchSpec, PatchStatus, KGates, KAddVM, KRemoveVM, cloud
  <1>7. CASE Environment /\ ~\E w \in VMIds : VMProgress(w) \/ VMDisturbed(w)
    BY <1>1, <1>7 DEF Environment, WatchEvent, Resync, Crash, BootstrapReady, Admit, Suspend,
                      FailureDomainDelisted, DeleteRequested, CapiDeletesInfra,
                            ForegroundDeletion, ForegroundDone, cloud
  <1>8. CASE UNCHANGED vars
    BY <1>1, <1>8 DEF vars, cloud
  <1> QED
    BY <1>2, <1>3, <1>4, <1>5, <1>6, <1>7, <1>8 DEF Next

\* A VM is destroyed only for an object whose stored version is being deleted.
THEOREM DestroyDeleting == Spec => DestroyOnlyWhenDeleting
  <1>1. SafetyInv /\ [Next]_vars =>
          [\A v \in Live : vm'[v] \in {"Destroyed", "Expunging"} => api.deleting]_vars
    <2> SUFFICES ASSUME SafetyInv, [Next]_vars,
                        NEW v \in Live, vm'[v] \in {"Destroyed", "Expunging"}
                 PROVE  api.deleting
      OBVIOUS
    <2>1. "M" \in Controllers /\ base["M"].deleting
      BY DestroyStep, SafeMDestroy, ControllerAssumption
    <2>2. cache.deleting
      BY <2>1 DEF SafetyInv, CopiesInv
    <2> QED
      BY <2>2 DEF SafetyInv, VersionsInv, cache, TypeInv, TypeOK
  <1> QED
    BY <1>1, SafetyInvariant, PTL DEF Spec, DestroyOnlyWhenDeleting

=============================================================================
