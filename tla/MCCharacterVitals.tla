------------------------- MODULE MCCharacterVitals -------------------------
(* CharacterVitals for TLC: every constant gets its value in the .cfg. *)
EXTENDS CharacterVitals
=============================================================================
