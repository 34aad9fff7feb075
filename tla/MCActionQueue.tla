--------------------------- MODULE MCActionQueue ---------------------------
(* A queue and a result store of two, and more actions than both hold. *)
EXTENDS ActionQueue
=============================================================================
