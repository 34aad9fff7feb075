-------------------------- MODULE MCActionEffects --------------------------
(* ActionEffects for TLC: two state files tell a load from a redirected one. *)
EXTENDS ActionEffects
=============================================================================
