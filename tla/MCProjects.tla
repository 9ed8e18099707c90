---------------------------- MODULE MCProjects ----------------------------
(* Finite instances of Projects for TLC. *)
EXTENDS Projects, TLC

OpenToApplications ==
    {[visibility |-> "closed", listed |-> TRUE, policy |-> "invite_or_apply"]}

Hidden == {[visibility |-> "closed", listed |-> FALSE, policy |-> "invite_only"]}

\* One charter of every kind the handlers tell apart.
Every ==
    OpenToApplications \cup Hidden
        \cup {[visibility |-> "open", listed |-> TRUE, policy |-> "invite_only"]}

Symmetry == Permutations(Agents) \cup Permutations(Connections)
===========================================================================
