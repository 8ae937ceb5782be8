-------------------------- MODULE MachineContract --------------------------
(***************************************************************************)
(* What CAPC promises of one CloudStackMachine and its VM, without         *)
(* controllers, passes, caches and patches. MachineRefinement shows that   *)
(* MachineLifecycle implements it.                                         *)
(***************************************************************************)
CONSTANTS
    VMIds,  \* ids of VMs
    Lossy   \* VMs may be removed out of band

VARIABLES
    phase,    \* the object: "present", "deleting" or "gone"
    guarded,  \* the object carries the machine finalizer
    life      \* life[v]: "none", "live", "ending" or "gone"

vars == <<phase, guarded, life>>

NoneLive == \A v \in VMIds : life[v] # "live"

Init ==
    /\ phase = "present" /\ guarded = FALSE
    /\ life = [v \in VMIds |-> "none"]

\* Every machine gets one VM; another one only when that was lost.
Deploy(v) ==
    /\ life[v] = "none"
    /\ \A w \in VMIds : life[w] = "none" \/ (Lossy /\ life[w] = "gone")
    /\ life' = [life EXCEPT ![v] = "live"]
    /\ UNCHANGED <<phase, guarded>>

\* A VM is not removed under an object that stays.
Destroy(v) ==
    /\ life[v] = "live" /\ phase # "present"
    /\ life' = [life EXCEPT ![v] = "ending"]
    /\ UNCHANGED <<phase, guarded>>

Expunge(v) ==
    /\ life[v] = "ending" \/ (Lossy /\ life[v] = "live")
    /\ life' = [life EXCEPT ![v] = "gone"]
    /\ UNCHANGED <<phase, guarded>>

\* The finalizer comes only to an object that is not being deleted.
Guard ==
    /\ phase = "present" /\ guarded' = TRUE
    /\ UNCHANGED <<phase, life>>

Unguard ==
    /\ phase # "gone" /\ guarded' = FALSE
    /\ UNCHANGED <<phase, life>>

\* The object is deleted, and goes away at once if nothing holds it.
Request ==
    /\ phase = "present" /\ phase' \in {"deleting", "gone"}
    /\ phase' = "gone" => ~guarded
    /\ UNCHANGED <<guarded, life>>

\* The object goes away for good, a guarded one only without its VM.
Release ==
    /\ phase = "deleting" /\ phase' = "gone"
    /\ guarded /\ ~Lossy => NoneLive
    /\ guarded' = FALSE
    /\ UNCHANGED life

Next ==
    \/ \E v \in VMIds : Deploy(v) \/ Destroy(v) \/ Expunge(v)
    \/ Guard \/ Unguard \/ Request \/ Release

Spec == Init /\ [][Next]_vars
=============================================================================
