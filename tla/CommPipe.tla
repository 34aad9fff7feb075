------------------------------ MODULE CommPipe ------------------------------
(***************************************************************************)
(* The pipe of include/commpipe.h that connects a host thread with the     *)
(* emulator thread: a ring buffer, one lock and two semaphores.  A writer  *)
(* that sees the reader asleep takes a fast path WITHOUT the lock and      *)
(* without looking whether the ring is full.                               *)
(*                                                                         *)
(* One reader and one writer: every pipe of the emulator has one reading   *)
(* thread, and its writers are serialised by a mutex of their own.  Each   *)
(* action is one access to shared memory or one semaphore operation.  The  *)
(* k-th word written is the number k.                                      *)
(***************************************************************************)
EXTENDS Naturals, Sequences

CONSTANTS
    Size,      \* slots of the ring (one of them always stays free)
    Chunks,    \* buffered words after which a sleeping reader is woken
    MaxWords   \* bound: words written in a behaviour

\* Every call of init_comm_pipe in the emulator satisfies this.
ASSUME SizeAssumption == Size \in Nat /\ Size >= 2
ASSUME ChunksAssumption == Chunks \in 1..(Size - 1)
ASSUME MaxWordsAssumption == MaxWords \in Nat

VARIABLES
    lock, reader_wait, writer_wait,   \* semaphore counts
    data, rdp, wrp,                   \* the ring
    writer_waiting, reader_waiting,   \* the volatile flags
    wpc, locked, nxwrp, no_buffer,    \* writer: place, holds lock, locals
    rpc, word,                        \* reader: place, local
    sent, recv, flushed, got          \* history: words published, consumed,
                                      \* published with no_buffer, last read

sems == <<lock, reader_wait, writer_wait>>
ring == <<data, rdp, wrp>>
flags == <<writer_waiting, reader_waiting>>
writer == <<wpc, locked, nxwrp, no_buffer>>
reader == <<rpc, word>>
history == <<sent, recv, flushed, got>>
vars == <<sems, ring, flags, writer, reader, history>>

Slots == 0..(Size - 1)

\* (wrp - rdp + size) % size
Fill == (wrp + Size - rdp) % Size

Init ==
    /\ lock = 1 /\ reader_wait = 0 /\ writer_wait = 0
    /\ data = [s \in Slots |-> 0]
    /\ rdp = 0 /\ wrp = 0
    /\ writer_waiting = FALSE /\ reader_waiting = FALSE
    /\ wpc = "idle" /\ locked = FALSE /\ nxwrp = 0 /\ no_buffer = FALSE
    /\ rpc = "idle" /\ word = 0
    /\ sent = 0 /\ recv = 0 /\ flushed = 0 /\ got = 0

-----------------------------------------------------------------------------
(* write_comm_pipe_pt *)

\* The call: nxwrp is computed before anything else is looked at.
WriteCall ==
    /\ wpc = "idle" /\ sent < MaxWords
    /\ nxwrp' = (wrp + 1) % Size
    /\ no_buffer' \in BOOLEAN
    /\ wpc' = "check"
    /\ UNCHANGED <<sems, ring, flags, locked, reader, history>>

\* mutant: the fast path is taken when the ring is empty, not when the reader
\* has said that it waits
WriteCheckEmpty ==
    /\ wpc = "check"
    /\ wpc' = IF rdp = wrp THEN "store" ELSE "lock"
    /\ UNCHANGED <<sems, ring, flags, locked, nxwrp, no_buffer, reader, history>>

\* if (p->reader_waiting), read without the lock
WriteCheck ==
    /\ wpc = "check"
    /\ wpc' = IF reader_waiting THEN "store" ELSE "lock"
    /\ UNCHANGED <<sems, ring, flags, locked, nxwrp, no_buffer, reader, history>>

\* mutant: the full ring is not noticed
WriteLockUntested ==
    /\ wpc = "lock" /\ lock > 0
    /\ lock' = lock - 1
    /\ locked' = TRUE
    /\ wpc' = "store"
    /\ UNCHANGED <<reader_wait, writer_wait, ring, flags, nxwrp, no_buffer, reader,
                   history>>

WriteLock ==
    /\ wpc = "lock" /\ lock > 0
    /\ lock' = lock - 1
    /\ locked' = TRUE
    /\ wpc' = IF nxwrp = rdp THEN "full" ELSE "store"
    /\ UNCHANGED <<reader_wait, writer_wait, ring, flags, nxwrp, no_buffer, reader,
                   history>>

WriteFull ==
    /\ wpc = "full"
    /\ writer_waiting' = TRUE
    /\ wpc' = "release"
    /\ UNCHANGED <<sems, ring, reader_waiting, locked, nxwrp, no_buffer, reader,
                   history>>

WriteRelease ==
    /\ wpc = "release"
    /\ lock' = lock + 1
    /\ locked' = FALSE
    /\ wpc' = "sleep"
    /\ UNCHANGED <<reader_wait, writer_wait, ring, flags, nxwrp, no_buffer, reader,
                   history>>

WriteSleep ==
    /\ wpc = "sleep" /\ writer_wait > 0
    /\ writer_wait' = writer_wait - 1
    /\ wpc' = "relock"
    /\ UNCHANGED <<lock, reader_wait, ring, flags, locked, nxwrp, no_buffer, reader,
                   history>>

\* Back under the lock; the ring is not tested again.
WriteRelock ==
    /\ wpc = "relock" /\ lock > 0
    /\ lock' = lock - 1
    /\ locked' = TRUE
    /\ wpc' = "store"
    /\ UNCHANGED <<reader_wait, writer_wait, ring, flags, nxwrp, no_buffer, reader,
                   history>>

\* mutant: the word goes to the slot after wrp
WriteStoreAhead ==
    /\ wpc = "store"
    /\ data' = [data EXCEPT ![nxwrp] = sent + 1]
    /\ wpc' = "advance"
    /\ UNCHANGED <<sems, rdp, wrp, flags, locked, nxwrp, no_buffer, reader,
                   history>>

WriteStore ==
    /\ wpc = "store"
    /\ data' = [data EXCEPT ![wrp] = sent + 1]
    /\ wpc' = "advance"
    /\ UNCHANGED <<sems, rdp, wrp, flags, locked, nxwrp, no_buffer, reader,
                   history>>

WriteAdvance ==
    /\ wpc = "advance"
    /\ wrp' = nxwrp
    /\ sent' = sent + 1
    /\ flushed' = IF no_buffer THEN sent + 1 ELSE flushed
    /\ wpc' = "test"
    /\ UNCHANGED <<sems, data, rdp, flags, locked, nxwrp, no_buffer, reader, recv,
                   got>>

\* mutant: the end of a message does not wake the reader
WakeReaderWhenFull == reader_waiting /\ Fill >= Chunks

\* The condition of maybe_wake_reader.
WakeReader == reader_waiting /\ (no_buffer \/ Fill >= Chunks)

AfterWake == IF locked THEN "unlock" ELSE "idle"

WriteTest ==
    /\ wpc = "test"
    /\ wpc' = IF WakeReader THEN "clear" ELSE AfterWake
    /\ UNCHANGED <<sems, ring, flags, locked, nxwrp, no_buffer, reader, history>>

\* mutant: the flag stays set after the wake-up
WriteClearForgotten ==
    /\ wpc = "clear"
    /\ wpc' = "wake"
    /\ UNCHANGED <<sems, ring, flags, locked, nxwrp, no_buffer, reader, history>>

WriteClear ==
    /\ wpc = "clear"
    /\ reader_waiting' = FALSE
    /\ wpc' = "wake"
    /\ UNCHANGED <<sems, ring, writer_waiting, locked, nxwrp, no_buffer, reader,
                   history>>

WriteWake ==
    /\ wpc = "wake"
    /\ reader_wait' = reader_wait + 1
    /\ wpc' = AfterWake
    /\ UNCHANGED <<lock, writer_wait, ring, flags, locked, nxwrp, no_buffer, reader,
                   history>>

WriteUnlock ==
    /\ wpc = "unlock"
    /\ lock' = lock + 1
    /\ locked' = FALSE
    /\ wpc' = "idle"
    /\ UNCHANGED <<reader_wait, writer_wait, ring, flags, nxwrp, no_buffer, reader,
                   history>>

-----------------------------------------------------------------------------
(* read_comm_pipe_pt_blocking and comm_pipe_has_data *)

\* A thread that only blocks (the serial worker) calls without polling.
ReadCall ==
    /\ rpc = "idle"
    /\ rpc' = "lock"
    /\ UNCHANGED <<sems, ring, flags, writer, word, history>>

HasData == rdp # wrp

\* A thread that polls calls only when there is data.
PollTrue ==
    /\ rpc = "idle" /\ HasData
    /\ rpc' = "polled"
    /\ UNCHANGED <<sems, ring, flags, writer, word, history>>

ReadLock ==
    /\ rpc \in {"lock", "polled"} /\ lock > 0
    /\ lock' = lock - 1
    /\ rpc' = IF rdp = wrp THEN "empty" ELSE "load"
    /\ UNCHANGED <<reader_wait, writer_wait, ring, flags, writer, word, history>>

ReadEmpty ==
    /\ rpc = "empty"
    /\ reader_waiting' = TRUE
    /\ rpc' = "release"
    /\ UNCHANGED <<sems, ring, writer_waiting, writer, word, history>>

ReadRelease ==
    /\ rpc = "release"
    /\ lock' = lock + 1
    /\ rpc' = "sleep"
    /\ UNCHANGED <<reader_wait, writer_wait, ring, flags, writer, word, history>>

ReadSleep ==
    /\ rpc = "sleep" /\ reader_wait > 0
    /\ reader_wait' = reader_wait - 1
    /\ rpc' = "relock"
    /\ UNCHANGED <<lock, writer_wait, ring, flags, writer, word, history>>

\* Back under the lock; the ring is not tested again.
ReadRelock ==
    /\ rpc = "relock" /\ lock > 0
    /\ lock' = lock - 1
    /\ rpc' = "load"
    /\ UNCHANGED <<reader_wait, writer_wait, ring, flags, writer, word, history>>

ReadLoad ==
    /\ rpc = "load"
    /\ word' = data[rdp]
    /\ rpc' = "advance"
    /\ UNCHANGED <<sems, ring, flags, writer, history>>

ReadAdvance ==
    /\ rpc = "advance"
    /\ rdp' = (rdp + 1) % Size
    /\ recv' = recv + 1
    /\ got' = word
    /\ rpc' = "test"
    /\ UNCHANGED <<sems, data, wrp, flags, writer, word, sent, flushed>>

\* mutant: the reader never wakes the writer
ReadTestNoWake ==
    /\ rpc = "test"
    /\ rpc' = "unlock"
    /\ UNCHANGED <<sems, ring, flags, writer, word, history>>

ReadTest ==
    /\ rpc = "test"
    /\ rpc' = IF writer_waiting THEN "wake" ELSE "unlock"
    /\ writer_waiting' = FALSE
    /\ UNCHANGED <<sems, ring, reader_waiting, writer, word, history>>

ReadWake ==
    /\ rpc = "wake"
    /\ writer_wait' = writer_wait + 1
    /\ rpc' = "unlock"
    /\ UNCHANGED <<lock, reader_wait, ring, flags, writer, word, history>>

ReadUnlock ==
    /\ rpc = "unlock"
    /\ lock' = lock + 1
    /\ rpc' = "idle"
    /\ UNCHANGED <<reader_wait, writer_wait, ring, flags, writer, word, history>>

-----------------------------------------------------------------------------
WriterStep ==
    \/ WriteCheck \/ WriteLock \/ WriteFull \/ WriteRelease \/ WriteSleep
    \/ WriteRelock \/ WriteStore \/ WriteAdvance \/ WriteTest \/ WriteClear
    \/ WriteWake \/ WriteUnlock

ReaderStep ==
    \/ ReadCall \/ PollTrue \/ ReadLock \/ ReadEmpty \/ ReadRelease
    \/ ReadSleep \/ ReadRelock \/ ReadLoad \/ ReadAdvance \/ ReadTest
    \/ ReadWake \/ ReadUnlock

Next == WriteCall \/ WriterStep \/ ReaderStep

Spec == Init /\ [][Next]_vars

(* A thread that can take its next step takes it: the host schedules both
   threads.  A semaphore is granted to a thread that waits for it over and
   over (SF on the two lock waits).  Nothing forces a further write.       *)
FairSpec ==
    /\ Spec
    /\ WF_vars(WriterStep) /\ WF_vars(ReaderStep)
    /\ SF_vars(WriteLock \/ WriteRelock)
    /\ SF_vars(ReadLock)

-----------------------------------------------------------------------------
(* Type correctness. *)
WriterPlaces == {"idle", "check", "lock", "full", "release", "sleep", "relock",
                 "store", "advance", "test", "clear", "wake", "unlock"}
ReaderPlaces == {"idle", "lock", "polled", "empty", "release", "sleep",
                 "relock", "load", "advance", "test", "wake", "unlock"}

TypeOK ==
    /\ lock \in {0, 1} /\ reader_wait \in {0, 1} /\ writer_wait \in {0, 1}
    /\ data \in [Slots -> 0..MaxWords]
    /\ rdp \in Slots /\ wrp \in Slots
    /\ writer_waiting \in BOOLEAN /\ reader_waiting \in BOOLEAN
    /\ wpc \in WriterPlaces /\ locked \in BOOLEAN
    /\ nxwrp \in Slots /\ no_buffer \in BOOLEAN
    /\ rpc \in ReaderPlaces /\ word \in 0..MaxWords
    /\ sent \in 0..MaxWords /\ recv \in 0..sent /\ flushed \in 0..sent
    /\ got \in 0..MaxWords

(* Between its two accesses to the ring the writer has it for itself although
   the fast path holds no lock, and so has the reader: the two never touch the
   ring at the same time. *)
WriterInRing == wpc \in {"store", "advance"}
ReaderInRing == rpc \in {"load", "advance", "test", "wake", "unlock"}

RingExclusive == ~(WriterInRing /\ ReaderInRing)

(* The ring holds exactly the words published and not yet consumed, in order,
   so the unguarded store of the fast path never overwrites a pending word and
   a woken reader never reads an empty ring. *)
Pending(i) == data[(rdp + i) % Size]

RingHoldsPending ==
    /\ Fill = sent - recv
    /\ \A i \in 0..(Size - 1) : i < Fill => Pending(i) = recv + i + 1

(* The n-th read call returns the n-th word of the writer. *)
InOrder == got = recv

(* The unlocked comm_pipe_has_data is a promise: a thread that polls first
   does not go to sleep in the read that follows. *)
PollIsPromise == rpc = "polled" => rdp # wrp

(* The writer asleep on a full ring and the reader asleep on an empty one:
   each would wait for the other for ever. *)
WriterAsleep == wpc = "sleep" /\ writer_wait = 0
ReaderAsleep == rpc = "sleep" /\ reader_wait = 0

NeverBothAsleep == ~(WriterAsleep /\ ReaderAsleep)

(* A token left on a semaphore is for the thread that announced itself: no
   stale token can end a later wait early. *)
NoStaleToken ==
    /\ reader_wait = 1 => rpc \in {"release", "sleep"}
    /\ writer_wait = 1 => wpc = "sleep"

(* A reader that sleeps with Chunks words or more pending, or with the last
   word of a message pending, is about to be woken by the writer. *)
NoLostWakeup ==
    (ReaderAsleep /\ wpc \notin {"test", "clear", "wake"})
        => recv >= flushed /\ sent - recv < Chunks

(* Every word up to the last one written with no_buffer reaches the reader,
   whatever is or is not written after it. *)
FlushedIsDelivered ==
    \A k \in 1..MaxWords : (flushed >= k) ~> (recv >= k)

(* A writer inside a call gets out of it. *)
WriteReturns == (wpc # "idle") ~> (wpc = "idle")

-----------------------------------------------------------------------------
(* The inductive strengthening of the safety properties, without `%': Wrap
   reduces an index that is at most one turn ahead. *)
Wrap(i) == IF i < Size THEN i ELSE i - Size
Count == sent - recv

WriterBefore == {"check", "lock", "full", "release", "sleep", "relock", "store",
                 "advance"}
ReaderHolds == rpc \in {"empty", "release", "load", "advance", "test", "wake",
                        "unlock"}

\* The lock is free, or held by exactly one of the threads.
LockInv ==
    /\ lock = IF locked \/ ReaderHolds THEN 0 ELSE 1
    /\ ~(locked /\ ReaderHolds)
    /\ locked => wpc \in {"full", "release", "store", "advance", "test",
                          "clear", "wake", "unlock"}
    /\ wpc \in {"full", "release", "unlock"} => locked

\* The slots from rdp on hold the words recv + 1, recv + 2, ... sent.
RingInv ==
    /\ Count \in 0..(Size - 1)
    /\ wrp = Wrap(rdp + Count)
    /\ \A i \in 0..(Size - 1) : i < Count => data[Wrap(rdp + i)] = recv + i + 1
    /\ wpc \in WriterBefore => nxwrp = Wrap(wrp + 1) /\ sent < MaxWords
    /\ wpc = "advance" => data[wrp] = sent + 1
    /\ rpc = "advance" => word = recv + 1
    /\ got = recv

\* Where the writer is when the ring is full, and who owes it a token.
FullInv ==
    /\ wpc \in {"relock", "store", "advance"} => Count < Size - 1
    /\ wpc \in {"full", "release"} => Count = Size - 1
    /\ wpc = "release" => writer_waiting
    /\ writer_waiting => /\ wpc \in {"release", "sleep"}
                         /\ rpc # "test" => Count = Size - 1
    /\ wpc = "sleep" => \/ writer_waiting
                        \/ (Count < Size - 1 /\ (writer_wait = 1 \/ rpc = "wake"))
    /\ rpc = "wake" => wpc = "sleep"
    /\ writer_waiting \/ rpc = "wake" => writer_wait = 0
    /\ writer_waiting => rpc # "wake"
    /\ writer_wait = 1 => wpc = "sleep"
    /\ rpc = "test" => Count < Size - 1

\* Where the reader is when the ring is empty, and who owes it a token.
EmptyInv ==
    /\ rpc \in {"polled", "relock", "load", "advance"} => Count > 0
    /\ rpc = "empty" => Count = 0
    /\ rpc \in {"release", "sleep"}
        => \/ reader_waiting
           \/ (Count > 0 /\ (reader_wait = 1 \/ wpc = "wake"))
    /\ reader_waiting =>
        /\ rpc \in {"release", "sleep"}
        /\ wpc \notin {"test", "clear"} => Count < Chunks /\ flushed <= recv
        /\ wpc = "test" /\ ~no_buffer => flushed <= recv
    /\ reader_waiting \/ wpc = "wake" => reader_wait = 0
    /\ reader_waiting => wpc # "wake"
    /\ reader_wait = 1 => rpc \in {"release", "sleep"}
    /\ wpc \in {"test", "clear"} => Count > 0
    /\ wpc = "clear" => reader_waiting
    /\ wpc = "wake" => rpc \in {"release", "sleep"}
    /\ wpc \in {"store", "advance", "test"} /\ ~locked => reader_waiting

PipeInv == TypeOK /\ LockInv /\ RingInv /\ FullInv /\ EmptyInv

-----------------------------------------------------------------------------
(* The pipe implements the abstract channel: the queue is what lies in the
   ring between rdp and wrp. *)
ringQueue == [i \in 1..Fill |-> Pending(i - 1)]

Channel == INSTANCE FifoChannel WITH
    Capacity <- Size - 1, queue <- ringQueue, put <- sent, last <- got

ImplementsChannel == Channel!Spec
=============================================================================
