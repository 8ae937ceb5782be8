-------------------------- MODULE MCIsolatedNetwork --------------------------
(* Model checking IsolatedNetwork: clusters, addresses, and the networks and *)
(* VPCs that are not there yet are interchangeable.                          *)
EXTENDS IsolatedNetwork, TLC

Symmetry ==
    Permutations(Clusters) \cup Permutations(IPs)
      \cup Permutations(Nets \ Provided) \cup Permutations(Vpcs \ Provided)
=============================================================================
