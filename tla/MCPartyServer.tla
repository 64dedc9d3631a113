--------------------------- MODULE MCPartyServer ---------------------------
(* PartyServer for TLC.  Characters are interchangeable. *)
EXTENDS PartyServer, TLC

Symmetry == Permutations(Character)
=============================================================================
