----------------------------- MODULE TrapFrames -----------------------------
(***************************************************************************)
(* What an Amiga program and a trap handler rely on (the comments of       *)
(* traps.cpp 190-620): a trap is a subroutine call.  Every task has its    *)
(* own stack of trap frames.  While a handler runs the tasks stand still;  *)
(* while it waits for a 68k function they take turns, and each return goes *)
(* to the newest frame of the task that makes it.                          *)
(***************************************************************************)
EXTENDS Naturals, Sequences, SequencesExt

CONSTANTS Tasks, Contexts, None

VARIABLES
    cur,      \* the task that runs
    frames,   \* of each task: its trap contexts, oldest first
    running   \* the context whose handler runs, or None

vars == <<cur, frames, running>>

Init == cur \in Tasks /\ frames = [t \in Tasks |-> <<>>] /\ running = None

Switch(t) == running = None /\ cur' = t /\ UNCHANGED <<frames, running>>

Trap(c) ==
    /\ running = None /\ \A t \in Tasks : c \notin ToSet(frames[t])
    /\ running' = c /\ frames' = [frames EXCEPT ![cur] = Append(@, c)]
    /\ UNCHANGED cur

Call68k == running # None /\ running' = None /\ UNCHANGED <<cur, frames>>

Return68k ==
    /\ running = None /\ frames[cur] # <<>>
    /\ running' = Last(frames[cur])
    /\ UNCHANGED <<cur, frames>>

Exit ==
    /\ running # None /\ running = Last(frames[cur])
    /\ running' = None /\ frames' = [frames EXCEPT ![cur] = Front(@)]
    /\ UNCHANGED cur

\* The Amiga starts anew; what the tasks had on their stacks is gone.
Reset ==
    /\ cur' \in Tasks /\ frames' = [t \in Tasks |-> <<>>] /\ running' = None

Next ==
    \/ \E t \in Tasks : Switch(t)
    \/ \E c \in Contexts : Trap(c)
    \/ Call68k \/ Return68k \/ Exit \/ Reset

Spec == Init /\ [][Next]_vars
=============================================================================
