----------------------------- MODULE MCReplica -----------------------------
(* Instances of Replica for TLC. *)
EXTENDS Replica, TLC

Symmetry == Permutations(Probes)

=============================================================================
