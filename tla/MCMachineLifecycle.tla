------------------------- MODULE MCMachineLifecycle -------------------------
(* Model checking MachineLifecycle: the VM ids are interchangeable. *)
EXTENDS MachineRefinement, TLC

VMSymmetry == Permutations(VMIds)
=============================================================================
