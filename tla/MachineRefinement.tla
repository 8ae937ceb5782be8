------------------------- MODULE MachineRefinement -------------------------
(***************************************************************************)
(* MachineLifecycle implements MachineContract: the stored object gives    *)
(* the phase and the guard, CloudStack's VMs give their lives.             *)
(***************************************************************************)
EXTENDS MachineLifecycle

Phase(o) == IF ~o.exists THEN "gone" ELSE IF o.deleting THEN "deleting" ELSE "present"

LifeOf(s) ==
    CASE s = "absent" -> "none"
      [] s \in {"Destroyed", "Expunging"} -> "ending"
      [] s = "gone" -> "gone"
      [] OTHER -> "live"

Contract == INSTANCE MachineContract
            WITH Lossy   <- "vanish" \in Disturbances,
                 phase   <- Phase(api),
                 guarded <- "M" \in api.fins,
                 life    <- [v \in VMIds |-> LifeOf(vm[v])]

\* The two controllers, with all their retries, restarts and stale copies, do
\* nothing to the object and its VM but what the contract allows: one VM per
\* machine, destroyed only in a deletion; the finalizer is added only before
\* one, and an object that carries it goes away only without its VM.
ImplementsContract == Contract!Spec
=============================================================================
