---------------------------- MODULE FifoChannel ----------------------------
(***************************************************************************)
(* What a communication pipe promises to the two threads that use it: a    *)
(* bounded queue from which the words come out once, unaltered and in the  *)
(* order in which they were written.  The k-th word written is the number  *)
(* k, so a lost, repeated or reordered word shows in `last'.               *)
(***************************************************************************)
EXTENDS Naturals, Sequences

CONSTANT Capacity

VARIABLES
    queue,  \* words written and not yet read
    put,    \* number of words written so far
    last    \* the last word read, 0 before the first

abstractVars == <<queue, put, last>>

Init ==
    /\ queue = <<>>
    /\ put = 0
    /\ last = 0

Put ==
    /\ Len(queue) < Capacity
    /\ queue' = Append(queue, put + 1)
    /\ put' = put + 1
    /\ UNCHANGED last

Get ==
    /\ queue # <<>>
    /\ last' = Head(queue)
    /\ queue' = Tail(queue)
    /\ UNCHANGED put

Next == Put \/ Get

Spec == Init /\ [][Next]_abstractVars
=============================================================================
