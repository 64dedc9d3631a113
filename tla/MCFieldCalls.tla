----------------------------- MODULE MCFieldCalls -----------------------------
(* FieldCalls for TLC: every constant gets its value in the .cfg. *)
EXTENDS FieldCalls
===============================================================================
