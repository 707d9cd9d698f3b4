---------------------------- MODULE MCOwnership ----------------------------
(* Two documents in the state and two with the caller, in every way of sharing. *)
EXTENDS Ownership
=============================================================================
