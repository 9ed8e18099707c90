----------------------------- MODULE MCListing -----------------------------
(* Finite instances of Listing for TLC. *)
EXTENDS Listing
=============================================================================
