---------------------------- MODULE ActionQueue ----------------------------
(***************************************************************************)
(* action_queue (settings_actions_queue.h): front ends post runtime        *)
(* actions and poll their results from any thread; the emulator's main     *)
(* thread executes them in passes.  Every method takes mutex_, so each is  *)
(* one step, and run_pending is one step for each time it holds it: the    *)
(* executor runs with the queue unlocked.                                  *)
(***************************************************************************)
EXTENDS Naturals, Sequences, Functions

CONSTANTS
    MaxPending,  \* max_pending, 1024
    MaxResults,  \* max_results, 1024
    MaxPosts     \* bound of the model: actions posted in all

ASSUME LimitAssumption ==
    MaxPending \in Nat \ {0} /\ MaxResults \in Nat \ {0} /\ MaxPosts \in Nat

VARIABLES
    pending,         \* the ids of pending_
    next_id, last_assigned, retired_below,
    results, consumed, done_order,
    main,            \* main thread: "idle", "pass" or "execute" (executing_)
    last, r,         \* of run_pending: the last id of the pass, its request
    outcome,         \* history: what the executor returned, in its order
    passed,          \* history: actions executed in this pass
    answer           \* history: the last poll and its result

PolledIds == 0..(MaxPosts + 1)

ids == <<next_id, last_assigned>>
retained == <<retired_below, results, consumed, done_order>>
pass == <<main, last, r>>
vars == <<pending, ids, retained, pass, outcome, passed, answer>>

Init ==
    /\ pending = <<>> /\ next_id = 1 /\ last_assigned = 0
    /\ retired_below = 0 /\ results = <<>> /\ consumed = {} /\ done_order = <<>>
    /\ main = "idle" /\ last = 0 /\ r = 0
    /\ outcome = <<>> /\ passed = 0 /\ answer = <<0, "unknown">>

\* mutant: the request goes to the front
PostFront ==
    /\ next_id <= MaxPosts
    /\ Len(pending) < MaxPending
    /\ pending' = <<next_id>> \o pending
    /\ last_assigned' = next_id /\ next_id' = next_id + 1
    /\ UNCHANGED <<retained, pass, outcome, passed, answer>>

\* mutant: the queue is never full
PostUnlimited ==
    /\ next_id <= MaxPosts
    /\ pending' = Append(pending, next_id)
    /\ last_assigned' = next_id /\ next_id' = next_id + 1
    /\ UNCHANGED <<retained, pass, outcome, passed, answer>>

\* A full queue, or no memory for the request, returns 0 and changes nothing.
Post ==
    /\ next_id <= MaxPosts
    /\ Len(pending) < MaxPending
    /\ pending' = Append(pending, next_id)
    /\ last_assigned' = next_id /\ next_id' = next_id + 1
    /\ UNCHANGED <<retained, pass, outcome, passed, answer>>

-----------------------------------------------------------------------------
(* run_pending, on the main thread. *)

\* mutant: off by one
BeginPassShort ==
    /\ main = "idle"
    /\ main' = "pass" /\ passed' = 0
    /\ last' = IF last_assigned = 0 THEN 0 ELSE last_assigned - 1
    /\ UNCHANGED <<pending, ids, retained, r, outcome, answer>>

\* A call from inside the executor finds executing_ set and returns 0.
BeginPass ==
    /\ main = "idle"
    /\ main' = "pass" /\ last' = last_assigned /\ passed' = 0
    /\ UNCHANGED <<pending, ids, retained, r, outcome, answer>>

\* mutant: a pass goes on until the queue is empty
HasNextAny == pending # <<>>

HasNext == pending # <<>> /\ Head(pending) <= last

Pop ==
    /\ main = "pass" /\ HasNext
    /\ r' = Head(pending) /\ pending' = Tail(pending)
    /\ main' = "execute" /\ passed' = passed + 1
    /\ UNCHANGED <<ids, retained, last, outcome, answer>>

Retire(id) == retired_below' = IF retired_below < id THEN id ELSE retired_below

\* results_.emplace
Stored(id, ok) ==
    [i \in DOMAIN results \cup {id} |->
        IF i \in DOMAIN results THEN results[i] ELSE ok]

\* mutant: the mark that the result was polled stays
TrimKeepConsumed(id, ok) ==
    LET order == Append(done_order, id)
        kept == IF Len(order) <= MaxResults THEN order ELSE Tail(order)
    IN  /\ done_order' = kept
        /\ results' = Restrict(Stored(id, ok), Range(kept))
        /\ retired_below' = IF kept = order THEN retired_below ELSE Head(order)
        /\ UNCHANGED consumed

\* finish: the result is stored and the oldest one goes when there are more
\* than max_results; one goes at most, since one comes.
StoreResult(id, ok) ==
    LET order == Append(done_order, id)
        oldest == Head(order)
    IN  IF Len(order) <= MaxResults
        THEN /\ results' = Stored(id, ok) /\ done_order' = order
             /\ UNCHANGED <<retired_below, consumed>>
        ELSE /\ results' = Restrict(Stored(id, ok), (DOMAIN results \cup {id}) \ {oldest})
             /\ done_order' = Tail(order)
             /\ consumed' = consumed \ {oldest}
             /\ Retire(oldest)

\* finish: bad_alloc, the action is retired without a result.
LoseResult(id) ==
    /\ Retire(id)
    /\ UNCHANGED <<results, consumed, done_order>>

Finish(ok) ==
    /\ main = "execute"
    /\ StoreResult(r, ok) \/ LoseResult(r)
    /\ outcome' = Append(outcome, ok)
    /\ main' = "pass"
    /\ UNCHANGED <<pending, ids, last, r, passed, answer>>

EndPass ==
    /\ main = "pass" /\ ~HasNext
    /\ main' = "idle"
    /\ UNCHANGED <<pending, ids, retained, last, r, outcome, passed, answer>>

-----------------------------------------------------------------------------
\* mutant: a result can be polled again
ResultAgain(id) ==
    IF id \in DOMAIN results THEN IF results[id] THEN "done" ELSE "failed"
    ELSE IF id = 0 \/ id > last_assigned \/ id <= retired_below THEN "unknown"
    ELSE "pending"

Result(id) ==
    IF id \in DOMAIN results
    THEN IF id \in consumed THEN "unknown"
         ELSE IF results[id] THEN "done" ELSE "failed"
    ELSE IF id = 0 \/ id > last_assigned \/ id <= retired_below THEN "unknown"
    ELSE "pending"

Poll(id) ==
    /\ answer' = <<id, Result(id)>>
    /\ consumed' = IF id \in DOMAIN results THEN consumed \cup {id} ELSE consumed
    /\ UNCHANGED <<pending, ids, retired_below, results, done_order, pass, outcome,
                   passed>>

MainStep == BeginPass \/ Pop \/ (\E ok \in BOOLEAN : Finish(ok)) \/ EndPass

Next ==
    \/ Post
    \/ MainStep
    \/ \E id \in PolledIds : Poll(id)

Spec == Init /\ [][Next]_vars

\* The main thread calls run_pending between frames, again and again.
FairSpec == Spec /\ WF_vars(MainStep)

-----------------------------------------------------------------------------
(* Type correctness. *)
TypeOK ==
    /\ pending \in Seq(Nat) /\ Len(pending) <= MaxPending
    /\ next_id \in Nat /\ last_assigned \in Nat /\ retired_below \in Nat
    /\ DOMAIN results \subseteq Nat /\ results \in [DOMAIN results -> BOOLEAN]
    /\ consumed \subseteq Nat /\ done_order \in Seq(Nat)
    /\ main \in {"idle", "pass", "execute"} /\ last \in Nat /\ r \in Nat
    /\ outcome \in Seq(BOOLEAN) /\ passed \in Nat
    /\ answer \in Nat \X {"pending", "done", "failed", "unknown"}

Begun == Len(outcome) + (IF main = "execute" THEN 1 ELSE 0)

(* Every accepted action is executed once, in posting order: what waits are
   exactly the actions after the ones the executor has begun. *)
ExecutedInOrder ==
    /\ main = "execute" => r = Begun
    /\ \A i \in 1..Len(pending) : pending[i] = Begun + i
    /\ last_assigned = Begun + Len(pending)

(* A pass runs no more than what was queued when it started, however fast
   front ends post meanwhile. *)
PassIsBounded == main # "idle" => passed <= MaxPending

Ascending(d) == \A i, j \in 1..Len(d) : i < j => d[i] < d[j]

(* Only the latest completions are remembered, in order of completion, and a
   polled mark goes with its result: the bookkeeping of a long session stays
   small. *)
RetainedIsBounded ==
    /\ Range(done_order) = DOMAIN results
    /\ Ascending(done_order)
    /\ consumed \subseteq DOMAIN results
    /\ Len(done_order) <= MaxResults

\* Counted from its end, the entries of d are the latest up to n.
Recent(d, n) == \A i \in 1..Len(d) : d[i] + (Len(d) - i) <= n

(* The inductive invariant: what the queue knows of an action is what became of
   it.  An id the store does not hold is unfinished exactly when it lies above
   retired_below; the entries of done_order are recent, counted from its end; and
   a pass has begun no more than it may. *)
QueueInv ==
    /\ TypeOK /\ ExecutedInOrder /\ RetainedIsBounded
    /\ next_id = last_assigned + 1
    /\ \A id \in DOMAIN results : id \in 1..Len(outcome) /\ results[id] = outcome[id]
    /\ \A id \in 1..Len(outcome) : id \in DOMAIN results \/ id <= retired_below
    /\ retired_below <= Len(outcome)
    /\ Recent(done_order, Len(outcome))
    /\ main # "idle" =>
            Begun <= last /\ last <= last_assigned /\ passed + last <= MaxPending + Begun

(* The queue keeps the promise of amiberry_actions.h: answers to polls, order,
   retention of results. *)
Promise == INSTANCE ActionPromise WITH
    accepted <- last_assigned, pollable <- DOMAIN results \ consumed

KeepsPromise == Promise!Spec

(* Every accepted action is executed in the end. *)
EveryActionFinishes ==
    \A id \in 1..MaxPosts : (last_assigned >= id) ~> (Len(outcome) >= id)
=============================================================================
