---------------------------- MODULE Native2Amiga ----------------------------
(***************************************************************************)
(* How host threads call exec.library: native2amiga.cpp puts a command     *)
(* word and its arguments into native2amiga_pending and requests the       *)
(* interrupt; on the Amiga side the interrupt server wakes the task        *)
(* exter_task (filesys.asm), which calls exter_int_helper (filesys.cpp)    *)
(* until it has nothing left, one exec call per answer.                    *)
(*                                                                         *)
(* The pipe is the channel CommPipe implements: a bounded queue of words   *)
(* whose writer, once asleep on a full ring, is woken by the next read.    *)
(***************************************************************************)
EXTENDS Naturals, Sequences, FiniteSets

CONSTANTS
    Senders,    \* host threads that call uae_Signal, uae_PutMsg, ...
    MaxMsgs,    \* of each sender, a bound: messages it sends
    Capacity,   \* words the pipe holds (299 in the emulator)
    MaxResets,  \* bound: resets of the Amiga
    Indirect    \* currprefs.uaeboard > 1: helper on a thread of its own

\* The longest message fits: a full pipe holds words of an earlier message, whose
\* interrupt has been requested.
ASSUME CapacityAssumption == Capacity \in Nat /\ Capacity >= 4
ASSUME MaxMsgsAssumption == MaxMsgs \in [Senders -> Nat]
ASSUME IndirectAssumption == Indirect \in BOOLEAN

(* Commands by what the two sides do with them: the words they take and, for
   a shell command, that the helper may go on without an exec call. *)
Kinds == {"ReplyMsg", "PutMsg", "SignalFunc", "ShellExecute"}

WordsOf(kind) ==
    CASE kind \in {"ReplyMsg", "ShellExecute"} -> 2
      [] kind = "PutMsg" -> 3
      [] kind = "SignalFunc" -> 4

VARIABLES
    queue,           \* native2amiga_pending, oldest word first
    writer_waiting,  \* the flag of the pipe
    writer_wait,     \* the semaphore of the pipe
    n2asem,          \* count of the mutex of the senders
    spc, msg, next,  \* sender: place, message it writes, its next word
    posted,          \* messages each sender has begun
    intreq,          \* bit 0 of uae_int_requested
    signal,          \* SIGF_DOS pending for exter_task
    tpc, n, cur,     \* exter_task: place, D0 of the call, words decoded
    single,          \* count of singlethread_int_sem
    vsync,           \* the emulation thread is inside filesys_vsync
    delivered,       \* history: messages decoded, as sequences of words
    refused,         \* history: the last call with D0 = 10 was refused
    resets           \* history: resets so far

pipe == <<queue, writer_waiting, writer_wait>>
sender == <<spc, msg, next, posted>>
task == <<tpc, n, cur>>
history == <<delivered, refused, resets>>
vars == <<pipe, n2asem, sender, intreq, signal, task, single, vsync,
          history>>

Word(m, i) == [s |-> m.s, id |-> m.id, kind |-> m.kind, i |-> i]

Init ==
    /\ queue = <<>> /\ writer_waiting = FALSE /\ writer_wait = 0
    /\ n2asem = 1
    /\ spc = [s \in Senders |-> "idle"]
    /\ msg = [s \in Senders |-> [s |-> s, id |-> 0, kind |-> "ReplyMsg"]]
    /\ next = [s \in Senders |-> 1]
    /\ posted = [s \in Senders |-> 0]
    /\ intreq = FALSE /\ signal = FALSE
    /\ tpc = "wait" /\ n = 10 /\ cur = <<>>
    /\ single = 1 /\ vsync = FALSE
    /\ delivered = <<>> /\ refused = FALSE /\ resets = 0

-----------------------------------------------------------------------------
(* uae_ReplyMsg, uae_PutMsg, uae_Signal_with_Func, uae_ShellExecute, ... *)

Goto(s, place) == spc' = [spc EXCEPT ![s] = place]

Call(s) ==
    /\ spc[s] = "idle" /\ posted[s] < MaxMsgs[s]
    /\ \E kind \in Kinds :
          msg' = [msg EXCEPT ![s] = [s |-> s, id |-> posted[s] + 1, kind |-> kind]]
    /\ posted' = [posted EXCEPT ![s] = @ + 1]
    /\ next' = [next EXCEPT ![s] = 1]
    /\ Goto(s, "lock")
    /\ UNCHANGED <<pipe, n2asem, intreq, signal, task, single, vsync, history>>

\* mutant: two senders write at the same time
NativesemNoWait(s) ==
    /\ spc[s] = "lock"
    /\ Goto(s, "write")
    /\ UNCHANGED <<pipe, n2asem, msg, next, posted, intreq, signal, task, single,
                   vsync, history>>

NativesemWait(s) ==
    /\ spc[s] = "lock" /\ n2asem > 0
    /\ n2asem' = n2asem - 1
    /\ Goto(s, "write")
    /\ UNCHANGED <<pipe, msg, next, posted, intreq, signal, task, single, vsync,
                   history>>

\* The word is in the pipe; after the last one the interrupt is requested.
Written(s) ==
    /\ queue' = Append(queue, Word(msg[s], next[s]))
    /\ next' = [next EXCEPT ![s] = @ + 1]
    /\ Goto(s, IF next[s] = WordsOf(msg[s].kind) THEN "request" ELSE "write")

Write(s) ==
    /\ spc[s] = "write" /\ Len(queue) < Capacity
    /\ Written(s)
    /\ UNCHANGED <<writer_waiting, writer_wait, n2asem, msg, posted, intreq, signal,
                   task, single, vsync, history>>

WriteFull(s) ==
    /\ spc[s] = "write" /\ Len(queue) >= Capacity
    /\ writer_waiting' = TRUE
    /\ Goto(s, "sleep")
    /\ UNCHANGED <<queue, writer_wait, n2asem, msg, next, posted, intreq, signal,
                   task, single, vsync, history>>

WriteWoken(s) ==
    /\ spc[s] = "sleep" /\ writer_wait > 0
    /\ writer_wait' = writer_wait - 1
    /\ Written(s)
    /\ UNCHANGED <<writer_waiting, n2asem, msg, posted, intreq, signal, task,
                   single, vsync, history>>

\* mutant: a message that fills the ring is not announced
RequestSometimes(s) ==
    /\ spc[s] = "request"
    /\ intreq' = (intreq \/ Len(queue) < Capacity)
    /\ Goto(s, "unlock")
    /\ UNCHANGED <<pipe, n2asem, msg, next, posted, signal, task, single, vsync,
                   history>>

\* mutant: a message found still unread is sent once more
RequestAgain(s) ==
    /\ spc[s] = "request"
    /\ intreq' = TRUE
    /\ IF intreq THEN Goto(s, "write") /\ next' = [next EXCEPT ![s] = 1]
                 ELSE Goto(s, "unlock") /\ UNCHANGED next
    /\ UNCHANGED <<pipe, n2asem, msg, posted, signal, task, single, vsync, history>>

\* do_uae_int_requested
Request(s) ==
    /\ spc[s] = "request"
    /\ intreq' = TRUE
    /\ Goto(s, "unlock")
    /\ UNCHANGED <<pipe, n2asem, msg, next, posted, signal, task, single, vsync,
                   history>>

NativesemPost(s) ==
    /\ spc[s] = "unlock"
    /\ n2asem' = n2asem + 1
    /\ Goto(s, "idle")
    /\ UNCHANGED <<pipe, msg, next, posted, intreq, signal, task, single, vsync,
                   history>>

SenderStep(s) ==
    \/ NativesemWait(s) \/ Write(s) \/ WriteFull(s) \/ WriteWoken(s)
    \/ Request(s) \/ NativesemPost(s)

-----------------------------------------------------------------------------
(* The Amiga side. *)

\* exter_server_new reads and clears the request and signals exter_task.
ExterServer ==
    /\ intreq /\ tpc # "booting"
    /\ intreq' = FALSE /\ signal' = TRUE
    /\ UNCHANGED <<pipe, n2asem, sender, task, single, vsync, history>>

ExterTaskWait ==
    /\ tpc = "wait" /\ signal
    /\ signal' = FALSE
    /\ tpc' = "call" /\ n' = 10
    /\ UNCHANGED <<pipe, n2asem, sender, intreq, cur, single, vsync, history>>

\* exter_int_helper, entered with D0 = 11, or with D0 = 10 and the semaphore.
HelperEnter ==
    /\ tpc = "call"
    /\ n = 10 => single > 0
    /\ single' = IF n = 10 THEN single - 1 ELSE single
    /\ refused' = FALSE
    /\ tpc' = "poll"
    /\ UNCHANGED <<pipe, n2asem, sender, intreq, signal, n, cur, vsync, delivered,
                   resets>>

\* "Pretend it isn't for us": the interrupt is requested again.
HelperRefused ==
    /\ tpc = "call" /\ n = 10 /\ single = 0
    /\ intreq' = TRUE /\ refused' = TRUE
    /\ tpc' = "wait"
    /\ UNCHANGED <<pipe, n2asem, sender, signal, n, cur, single, vsync, delivered,
                   resets>>

HelperPoll ==
    /\ tpc = "poll"
    /\ tpc' = IF queue # <<>> THEN "read" ELSE "end"
    /\ UNCHANGED <<pipe, n2asem, sender, intreq, signal, n, cur, single, vsync,
                   history>>

\* read_comm_pipe_pt_blocking: a writer asleep on the full ring is woken.
TakeWord ==
    /\ queue # <<>>
    /\ queue' = Tail(queue)
    /\ writer_waiting' = FALSE
    /\ writer_wait' = IF writer_waiting THEN writer_wait + 1 ELSE writer_wait

(* What the helper takes a word for when it expects a command.  A word that is
   not one (the rest of a message cut in two) is decoded as anything. *)
Decoded(word) ==
    IF word.i = 1 THEN {word.kind} ELSE Kinds \cup {"unknown"}

HelperReadCmd ==
    /\ tpc = "read" /\ cur = <<>>
    /\ TakeWord
    /\ \E kind \in Decoded(Head(queue)) :
          IF kind = "unknown"
          THEN cur' = <<>> /\ tpc' = "poll"
          ELSE cur' = <<[Head(queue) EXCEPT !.kind = kind]>> /\ UNCHANGED tpc
    /\ UNCHANGED <<n2asem, sender, intreq, signal, n, single, vsync, history>>

\* mutant: the callback word of uae_Signal_with_Func is not read
HelperReadArgShort ==
    /\ tpc = "read" /\ cur # <<>>
    /\ TakeWord
    /\ IF Len(cur) + 1 = (IF cur[1].kind = "ReplyMsg" THEN 2 ELSE 3)
       THEN /\ delivered' = Append(delivered, Append(cur, Head(queue)))
            /\ cur' = <<>> /\ n' = 11 /\ tpc' = "call"
       ELSE cur' = Append(cur, Head(queue)) /\ UNCHANGED <<delivered, n, tpc>>
    /\ UNCHANGED <<n2asem, sender, intreq, signal, single, vsync, refused, resets>>

(* An argument; with the last one the helper returns and exter_task makes the
   exec call, then calls again with D0 = 11.  A shell command whose process is
   not there yet is only queued and the helper goes on reading. *)
HelperReadArg ==
    /\ tpc = "read" /\ cur # <<>>
    /\ TakeWord
    /\ IF Len(cur) + 1 = WordsOf(cur[1].kind)
       THEN /\ delivered' = Append(delivered, Append(cur, Head(queue)))
            /\ cur' = <<>>
            /\ \/ n' = 11 /\ tpc' = "call"
               \/ cur[1].kind = "ShellExecute" /\ tpc' = "poll" /\ UNCHANGED n
       ELSE cur' = Append(cur, Head(queue)) /\ UNCHANGED <<delivered, n, tpc>>
    /\ UNCHANGED <<n2asem, sender, intreq, signal, single, vsync, refused, resets>>

\* mutant: the semaphore is kept when there is nothing left to do
HelperEndKeepsSem ==
    /\ tpc = "end"
    /\ tpc' = "wait"
    /\ UNCHANGED <<pipe, n2asem, sender, intreq, signal, n, cur, single, vsync,
                   history>>

\* Nothing left: the helper releases the semaphore and returns 0.
HelperEnd ==
    /\ tpc = "end"
    /\ single' = single + 1
    /\ tpc' = "wait"
    /\ UNCHANGED <<pipe, n2asem, sender, intreq, signal, n, cur, vsync, history>>

TaskStep ==
    \/ ExterTaskWait \/ HelperEnter \/ HelperRefused \/ HelperPoll
    \/ HelperReadCmd \/ HelperReadArg \/ HelperEnd

(* filesys_vsync, with the helper on a thread of its own: under the semaphore
   it looks for words in the pipe without a pending request. *)
VsyncEnter ==
    /\ Indirect /\ ~vsync /\ ~intreq /\ single > 0 /\ tpc # "booting"
    /\ single' = single - 1 /\ vsync' = TRUE
    /\ UNCHANGED <<pipe, n2asem, sender, intreq, signal, task, history>>

VsyncLeave ==
    /\ vsync
    /\ intreq' = (intreq \/ queue # <<>>)
    /\ single' = single + 1 /\ vsync' = FALSE
    /\ UNCHANGED <<pipe, n2asem, sender, signal, task, history>>

Next ==
    \/ \E s \in Senders : Call(s) \/ SenderStep(s)
    \/ ExterServer \/ TaskStep \/ VsyncEnter \/ VsyncLeave

Spec == Init /\ [][Next]_vars

(* Every thread of the host runs; the Amiga takes its interrupts and runs
   exter_task; a mutex is granted to a thread that keeps asking for it.  Frames
   are far apart: filesys_vsync is not there every time the helper is called. *)
Fairness ==
    /\ \A s \in Senders : WF_vars(SenderStep(s)) /\ SF_vars(NativesemWait(s))
    /\ WF_vars(ExterServer) /\ WF_vars(TaskStep) /\ SF_vars(HelperEnter)
    /\ WF_vars(VsyncLeave)
    /\ []<>(tpc = "call" /\ n = 10) => []<>(tpc = "call" /\ n = 10 /\ ~vsync)

FairSpec == Spec /\ Fairness

-----------------------------------------------------------------------------
(* The reset of the Amiga, on the emulation thread between two instructions:
   native2amiga_reset empties the ring and clears its flags, not its
   semaphores; the Amiga and its exter_task start anew. *)
NativeReset ==
    /\ tpc \in {"wait", "call"} /\ ~vsync /\ resets < MaxResets
    /\ resets' = resets + 1
    /\ queue' = <<>> /\ writer_waiting' = FALSE
    /\ tpc' = "booting" /\ n' = 10 /\ cur' = <<>>
    /\ signal' = FALSE
    /\ UNCHANGED <<writer_wait, n2asem, sender, intreq, single, vsync, delivered,
                   refused>>

\* The end of devices_reset: uae_int_requested = 0.
DevicesResetEnd ==
    /\ tpc = "booting"
    /\ intreq' = FALSE /\ tpc' = "wait"
    /\ UNCHANGED <<pipe, n2asem, sender, signal, n, cur, single, vsync, history>>

NextWithReset == Next \/ NativeReset \/ DevicesResetEnd

ResetSpec == Init /\ [][NextWithReset]_vars /\ Fairness /\ WF_vars(DevicesResetEnd)

-----------------------------------------------------------------------------
(* Type correctness. *)
Messages == [s : Senders, id : Nat, kind : Kinds]
Words == [s : Senders, id : Nat, kind : Kinds, i : 1..4]

TypeOK ==
    /\ queue \in Seq(Words) /\ Len(queue) <= Capacity
    /\ writer_waiting \in BOOLEAN /\ writer_wait \in {0, 1}
    /\ n2asem \in {0, 1} /\ single \in {0, 1}
    /\ spc \in [Senders -> {"idle", "lock", "write", "sleep", "request", "unlock"}]
    /\ msg \in [Senders -> Messages] /\ next \in [Senders -> 1..5]
    /\ \A s \in Senders : posted[s] \in 0..MaxMsgs[s]
    /\ intreq \in BOOLEAN /\ signal \in BOOLEAN /\ vsync \in BOOLEAN
    /\ tpc \in {"wait", "call", "poll", "read", "end", "booting"}
    /\ n \in {10, 11} /\ cur \in Seq(Words) /\ refused \in BOOLEAN
    /\ delivered \in Seq(Seq(Words))

(* What the Amiga is asked to do is what the threads asked for: every answer of
   exter_int_helper is one whole message, its words in their order, and the
   messages of one thread come in the order of its calls, each once. *)
IsMessage(d) ==
    /\ Len(d) = WordsOf(d[1].kind)
    /\ \A i \in 1..Len(d) : d[i] = [d[1] EXCEPT !.i = i]

DeliveredInOrder ==
    \A k \in 1..Len(delivered) :
        /\ IsMessage(delivered[k])
        /\ delivered[k][1].id
             = Cardinality({l \in 1..k : delivered[l][1].s = delivered[k][1].s})

(* The words of two threads never mix in the pipe, even when a message is
   longer than the room left and its sender sleeps in the middle of it. *)
Stream == cur \o queue

FramesIntact ==
    \A k \in 2..Len(Stream) :
        IF Stream[k].i = 1
        THEN Stream[k - 1].i = WordsOf(Stream[k - 1].kind)
        ELSE Stream[k] = [Stream[k - 1] EXCEPT !.i = @ + 1]

(* Words in the pipe are never forgotten: when no sender is about to request
   the interrupt, one is pending or exter_task is on its way to the helper. *)
NoForgottenWords ==
    queue # <<>> /\ (\A s \in Senders : spc[s] \in {"idle", "lock", "unlock"})
        => intreq \/ signal \/ tpc \in {"call", "poll", "read"}

(* The semaphore that keeps the helper single-threaded is free when nobody is
   between the first and the last call of one round, or looking at the pipe
   from filesys_vsync. *)
SemaphoreReturned ==
    single = (IF tpc \in {"poll", "read", "end"} \/ (tpc = "call" /\ n = 11) \/ vsync
              THEN 0 ELSE 1)

(* Every message a thread posts is delivered: again and again there is none on
   its way. *)
Delivered(s, k) ==
    \E d \in 1..Len(delivered) :
        delivered[d][1].s = s /\ delivered[d][1].id = k

EveryMessageDelivered == []<>(\A s \in Senders : \A k \in 1..posted[s] : Delivered(s, k))

(* A helper call that was turned away because another one was in progress is
   made again, and is let in ("We might get it again later"). *)
RefusedComesBack == refused ~> ~refused
=============================================================================
