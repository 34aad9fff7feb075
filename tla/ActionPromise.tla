--------------------------- MODULE ActionPromise ---------------------------
(***************************************************************************)
(* What amiberry_actions.h promises a front end: an accepted action is     *)
(* pending until it has executed, actions execute in posting order, then   *)
(* exactly one poll sees its result, and the results of the most recent    *)
(* completions can still be polled.                                        *)
(***************************************************************************)
EXTENDS Naturals, Sequences

CONSTANTS
    MaxResults,  \* completions whose results are kept
    PolledIds    \* the ids a front end may ask for, assigned or not

VARIABLES
    accepted,   \* actions posted; their ids are 1..accepted
    outcome,    \* what the executor returned, in the order of execution
    pollable,   \* finished actions whose result can still be polled
    answer      \* what the last poll was told: <<id, result>>

vars == <<accepted, outcome, pollable, answer>>

Result(id) ==
    IF id \in pollable THEN IF outcome[id] THEN "done" ELSE "failed"
    ELSE IF Len(outcome) < id /\ id <= accepted THEN "pending"
    ELSE "unknown"

Init == accepted = 0 /\ outcome = <<>> /\ pollable = {} /\ answer = <<0, "unknown">>

Accept == accepted' = accepted + 1 /\ UNCHANGED <<outcome, pollable, answer>>

\* The oldest unfinished action finishes.  Its result is kept, unless memory
\* runs out; of the others only those older than MaxResults may go.
Finish(ok) ==
    LET id == Len(outcome) + 1 IN
    /\ id <= accepted
    /\ outcome' = Append(outcome, ok)
    /\ \/ pollable' = pollable
       \/ /\ pollable' \subseteq pollable \cup {id}
          /\ \A i \in (pollable \cup {id}) \ pollable' : i + MaxResults <= id
    /\ UNCHANGED <<accepted, answer>>

Poll(id) ==
    /\ answer' = <<id, Result(id)>>
    /\ pollable' = pollable \ {id}
    /\ UNCHANGED <<accepted, outcome>>

Next ==
    \/ Accept
    \/ \E ok \in BOOLEAN : Finish(ok)
    \/ \E id \in PolledIds : Poll(id)

Spec == Init /\ [][Next]_vars
=============================================================================
