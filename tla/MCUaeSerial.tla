---------------------------- MODULE MCUaeSerial ----------------------------
(* A few requests at one unit. *)
EXTENDS UaeSerial
=============================================================================
