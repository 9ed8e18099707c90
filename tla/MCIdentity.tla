----------------------------- MODULE MCIdentity -----------------------------
(* Finite instances of Identity for TLC. *)
EXTENDS Identity, TLC

Symmetry ==
    Permutations(Agents) \cup Permutations(Creds) \cup Permutations(Connections)
        \cup Permutations(Updates) \cup Permutations(Bases)
=============================================================================
