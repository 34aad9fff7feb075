----------------------------- MODULE MCCommPipe -----------------------------
(* Small rings for TLC: the constants get their values in the cfg files. *)
EXTENDS CommPipe
=============================================================================
