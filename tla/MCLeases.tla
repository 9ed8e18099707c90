------------------------------ MODULE MCLeases ------------------------------
(* Finite instances of Leases for TLC. *)
EXTENDS Leases, TLC

Symmetry == Permutations(Agents)
=============================================================================
