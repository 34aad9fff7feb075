------------------------- MODULE MCExtendedTraps -------------------------
(* ExtendedTraps for TLC; the cfg gives every constant its value. *)
EXTENDS ExtendedTraps
=============================================================================
