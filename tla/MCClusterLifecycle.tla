------------------------- MODULE MCClusterLifecycle -------------------------
(* Instances of ClusterLifecycle for TLC. *)
EXTENDS ClusterLifecycle

\* Every failure domain names a network of its own, or all the same one.
OwnNets == {[f \in Domains |-> IF f = "f1" THEN "n1" ELSE "n2"]}
OwnOrSharedNets == OwnNets \cup {[f \in Domains |-> "n1"]}
=============================================================================
