--------------------------- MODULE MCNative2Amiga ---------------------------
(* Two host threads that call into the Amiga through a small pipe; one of them
   calls twice. *)
EXTENDS Native2Amiga, TLC

CONSTANTS s1, s2
MCSenders == {s1, s2}
MCMaxMsgs == s1 :> 2 @@ s2 :> 1
OneSender == {s1}
MCMaxMsgsOfOne == s1 :> 2
=============================================================================
