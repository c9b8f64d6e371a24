--------------------------- MODULE MCClusterPrimary ---------------------------
(* Instances of ClusterPrimary for TLC. *)
EXTENDS ClusterPrimary, TLC

\* Worker is not symmetric with Slot; each is symmetric in itself.
Symmetry == Permutations(Worker) \cup Permutations(Slot)
=============================================================================
