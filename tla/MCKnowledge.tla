---------------------------- MODULE MCKnowledge ----------------------------
(* Finite instances of Knowledge for TLC. *)
EXTENDS Knowledge, TLC

CONSTANTS a1, a2, p1, project, task, global

MCAgents == {a1, a2}

\* The scope of a closed project, that of a task in it, and the global one.
MCScopes == {project, task, global}
MCHome == project :> p1 @@ task :> p1 @@ global :> NULL

Symmetry == Permutations(MCAgents) \cup Permutations(Entries) \cup Permutations(Connections)
=============================================================================
