-------------------------- MODULE MCOperatorInbox --------------------------
(* Finite instances of OperatorInbox for TLC. *)
EXTENDS OperatorInbox
=============================================================================
