-------------------------- MODULE MCTaskLifecycle --------------------------
(* Finite instances of TaskLifecycle for TLC. *)
EXTENDS TaskLifecycle, TLC

Symmetry ==
    Permutations(Agents) \cup Permutations(Tasks) \cup Permutations(Messages)
        \cup Permutations(UpdateIds) \cup Permutations(Tokens)
============================================================================
