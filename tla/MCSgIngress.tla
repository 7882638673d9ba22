---------------------------- MODULE MCSgIngress ----------------------------
(* Instances of SgIngress for TLC. *)
EXTENDS SgIngress, TLC

Symmetry == Permutations(Runs) \cup Permutations(Cidr)
=============================================================================
