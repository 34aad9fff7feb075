----------------------------- MODULE UaeSerial -----------------------------
(***************************************************************************)
(* One open unit of uaeserial.device (uaeserial.cpp).  Three threads work  *)
(* on its I/O requests: the emulation thread in the traps dev_beginio,     *)
(* dev_abortio and dev_close, the host's serial thread in uaeser_signal,   *)
(* and dev_thread, which alone replies requests.  They share the list of   *)
(* asynchronous requests under async_sem and the pipe to dev_thread, whose *)
(* three words per request pipe_sem keeps together.                        *)
(*                                                                         *)
(* change_sem is taken by the dev_threads only, so with one unit nobody    *)
(* waits for it.                                                           *)
(***************************************************************************)
EXTENDS Naturals, Sequences, SequencesExt, FiniteSets

CONSTANTS
    Requests,    \* I/O requests of the Amiga program; each is begun once
    Reads,       \* those that read: data may never come
    Writes,      \* those that write
    Breaks,      \* those that send a break in its turn (SERF_QUEUEDBRK)
    Capacity,    \* messages of three words the pipe holds (33 in the code)
    MaxAborts,   \* bound of the model: requests AbortIO is called for
    NoRequest    \* the NULL of the message that ends dev_thread

ASSUME CapacityAssumption == Capacity \in Nat \ {0}
ASSUME RequestAssumption ==
    /\ Reads \subseteq Requests /\ Writes \subseteq Requests \ Reads
    /\ Breaks \subseteq Requests \ (Reads \cup Writes)
    /\ NoRequest \notin Requests

VARIABLES
    requests,             \* the pipe: the request of each message
    ar,                   \* dev->ar: [req, ready]
    async_sem, pipe_sem,  \* their holders, or "free"
    epc, ereq, resetting, \* emulation thread: place, its request, in dev_reset
    aborted,              \* history: requests AbortIO was called for
    spc, sreq,            \* serial thread
    dpc, dreq,            \* dev_thread
    buffer,               \* of each request: "none", "live" or "freed"
    replies,              \* history: replies to each request
    misused               \* history: requests whose buffer or list node was used
                          \* after it was freed

emulation == <<epc, ereq, resetting, aborted>>
serial == <<spc, sreq>>
device == <<dpc, dreq>>
vars == <<requests, ar, async_sem, pipe_sem, emulation, serial, device, buffer,
          replies, misused>>

Init ==
    /\ requests = <<>> /\ ar = <<>>
    /\ async_sem = "free" /\ pipe_sem = "free"
    /\ epc = "run" /\ ereq = NoRequest /\ resetting = FALSE /\ aborted = {}
    /\ spc = "idle" /\ sreq = NoRequest
    /\ dpc = "read" /\ dreq = NoRequest
    /\ buffer = [q \in Requests |-> "none"]
    /\ replies = [q \in Requests |-> 0] /\ misused = {}

Async == Reads \cup Writes \cup Breaks

Misuse(q) == IF buffer[q] = "freed" THEN misused \cup {q} ELSE misused

Listed(q) == \E i \in DOMAIN ar : ar[i].req = q

\* The first entry of q in the list.
IndexOf(q) ==
    CHOOSE i \in DOMAIN ar : ar[i].req = q /\ \A j \in 1..(i - 1) : ar[j].req # q

-----------------------------------------------------------------------------
(* The emulation thread. *)

\* dev_beginio copies the request into a buffer of its own.
BeginIO(q) ==
    /\ epc = "run" /\ buffer[q] = "none"
    /\ buffer' = [buffer EXCEPT ![q] = "live"]
    /\ epc' = "lock" /\ ereq' = q
    /\ UNCHANGED <<requests, ar, async_sem, pipe_sem, resetting, aborted, serial,
                   device, replies, misused>>

\* dev_abortio: get_async_request looks the request up and makes it ready.
AbortIO(q) ==
    /\ epc = "run" /\ buffer[q] # "none" /\ replies[q] = 0
    /\ q \notin aborted /\ Cardinality(aborted) < MaxAborts
    /\ aborted' = aborted \cup {q}
    /\ async_sem = "free"
    /\ IF Listed(q)
       THEN /\ ar' = [ar EXCEPT ![IndexOf(q)].ready = TRUE]
            /\ epc' = "abort" /\ ereq' = q
       ELSE UNCHANGED <<ar, epc, ereq>>
    /\ UNCHANGED <<requests, async_sem, pipe_sem, resetting, serial, device, buffer,
                   replies, misused>>

\* mutant: the request is marked, and dev_thread not told
MarkAbortedSilently ==
    /\ epc = "abort"
    /\ misused' = Misuse(ereq)
    /\ epc' = "run"
    /\ UNCHANGED <<requests, ar, async_sem, pipe_sem, ereq, resetting, aborted,
                   serial, device, buffer, replies>>

\* abort_async goes on with the node, and writes into its buffer.
MarkAborted ==
    /\ epc = "abort"
    /\ misused' = Misuse(ereq)
    /\ epc' = "lock"
    /\ UNCHANGED <<requests, ar, async_sem, pipe_sem, ereq, resetting, aborted,
                   serial, device, buffer, replies>>

\* dev_close, when the program has all its requests back.
Close ==
    /\ epc = "run" /\ \A q \in Requests : buffer[q] = "none" \/ replies[q] > 0
    /\ spc = "idle"
    /\ epc' = "lock" /\ ereq' = NoRequest /\ spc' = "closed"
    /\ UNCHANGED <<requests, ar, async_sem, pipe_sem, resetting, aborted, sreq,
                   device, buffer, replies, misused>>

EmuLock ==
    /\ epc = "lock" /\ pipe_sem = "free"
    /\ pipe_sem' = "emulation" /\ epc' = "write"
    /\ UNCHANGED <<requests, ar, async_sem, ereq, resetting, aborted, serial,
                   device, buffer, replies, misused>>

EmuWrite ==
    /\ epc = "write" /\ Len(requests) < Capacity
    /\ requests' = Append(requests, ereq)
    /\ pipe_sem' = "free"
    /\ epc' = CASE ereq = NoRequest -> "closed"
                 [] ereq # NoRequest /\ resetting -> "reset"
                 [] OTHER -> "run"
    /\ UNCHANGED <<ar, async_sem, ereq, resetting, aborted, serial, device, buffer,
                   replies, misused>>

EmulationStep == MarkAborted \/ EmuLock \/ EmuWrite

-----------------------------------------------------------------------------
(* The serial thread of the host: uaeser_signal. *)

\* mutant: a request that is ready already completes again
WaitingAny == {i \in DOMAIN ar : TRUE}

Waiting == {i \in DOMAIN ar : ~ar[i].ready}

\* The walk ends at the first request that completes: a break at the head of the
\* list (further down it is passed over), a write when the line is ready, a read
\* when it has data.
Completes(i) ==
    /\ i \in Waiting
    /\ ar[i].req \in Breaks => i = 1
    /\ \A j \in 1..(i - 1) : j \in Waiting =>
           /\ ~(ar[j].req \in Breaks /\ j = 1)
           /\ ~(ar[j].req \in Writes /\ ar[i].req \in Writes)

\* The list is walked under async_sem; one request completes at most.
SignalComplete(q) ==
    /\ spc = "idle" /\ async_sem = "free"
    /\ \E i \in DOMAIN ar :
           Completes(i) /\ ar[i].req = q /\ ar' = [ar EXCEPT ![i].ready = TRUE]
    /\ sreq' = q /\ misused' = Misuse(q)
    /\ async_sem' = "serial" /\ spc' = "lock"
    /\ UNCHANGED <<requests, pipe_sem, emulation, device, buffer, replies>>

SignalLock ==
    /\ spc = "lock" /\ pipe_sem = "free"
    /\ pipe_sem' = "serial" /\ spc' = "write"
    /\ UNCHANGED <<requests, ar, async_sem, emulation, sreq, device, buffer,
                   replies, misused>>

\* mutant: async_sem is kept
SignalWriteKeeps ==
    /\ spc = "write" /\ Len(requests) < Capacity
    /\ requests' = Append(requests, sreq)
    /\ pipe_sem' = "free" /\ spc' = "idle"
    /\ UNCHANGED <<ar, async_sem, emulation, sreq, device, buffer, replies,
                   misused>>

SignalWrite ==
    /\ spc = "write" /\ Len(requests) < Capacity
    /\ requests' = Append(requests, sreq)
    /\ pipe_sem' = "free" /\ async_sem' = "free" /\ spc' = "idle"
    /\ UNCHANGED <<ar, emulation, sreq, device, buffer, replies, misused>>

SerialStep == (\E q \in Async : SignalComplete(q)) \/ SignalLock \/ SignalWrite

-----------------------------------------------------------------------------
(* dev_thread. *)

DevRead ==
    /\ dpc = "read" /\ requests # <<>>
    /\ dreq' = Head(requests) /\ requests' = Tail(requests)
    /\ dpc' = IF dreq' = NoRequest THEN "ended" ELSE "find"
    /\ UNCHANGED <<ar, async_sem, pipe_sem, emulation, serial, buffer, replies,
                   misused>>

\* A listed request has completed or was aborted; any other one is new.
DevFind ==
    /\ dpc = "find" /\ async_sem = "free"
    /\ IF Listed(dreq)
       THEN /\ ar' = [ar EXCEPT ![IndexOf(dreq)].ready = TRUE]
            /\ dpc' = "reply"
       ELSE /\ dpc' = "do"
            /\ UNCHANGED ar
    /\ UNCHANGED <<requests, async_sem, pipe_sem, emulation, serial, dreq, buffer,
                   replies, misused>>

ReplyMsg == replies' = [replies EXCEPT ![dreq] = @ + 1]

DevReply ==
    /\ dpc = "reply"
    /\ ReplyMsg /\ dpc' = "release"
    /\ UNCHANGED <<requests, ar, async_sem, pipe_sem, emulation, serial, dreq,
                   buffer, misused>>

\* mutant: the node stays in the list
DevReleaseForgets ==
    /\ dpc = "release" /\ async_sem = "free"
    /\ buffer' = [buffer EXCEPT ![dreq] = "freed"]
    /\ dpc' = "read"
    /\ UNCHANGED <<requests, ar, async_sem, pipe_sem, emulation, serial, dreq,
                   replies, misused>>

DevRelease ==
    /\ dpc = "release" /\ async_sem = "free"
    /\ ar' = RemoveAt(ar, IndexOf(dreq))
    /\ buffer' = [buffer EXCEPT ![dreq] = "freed"]
    /\ dpc' = "read"
    /\ UNCHANGED <<requests, async_sem, pipe_sem, emulation, serial, dreq, replies,
                   misused>>

\* dev_do_io, a command that completes at once: the buffer is not freed.
DevDoNow ==
    /\ dpc = "do" /\ dreq \notin Async
    /\ misused' = Misuse(dreq)
    /\ ReplyMsg /\ dpc' = "read"
    /\ UNCHANGED <<requests, ar, async_sem, pipe_sem, emulation, serial, dreq,
                   buffer>>

\* mutant: every command is listed
DevDoLaterAlways ==
    /\ dpc = "do" /\ async_sem = "free"
    /\ misused' = Misuse(dreq)
    /\ ar' = Append(ar, [req |-> dreq, ready |-> FALSE])
    /\ dpc' = "read"
    /\ UNCHANGED <<requests, async_sem, pipe_sem, emulation, serial, dreq, buffer,
                   replies>>

\* dev_do_io and add_async_request
DevDoLater ==
    /\ dpc = "do" /\ dreq \in Async /\ async_sem = "free"
    /\ misused' = Misuse(dreq)
    /\ ar' = Append(ar, [req |-> dreq, ready |-> FALSE])
    /\ dpc' = "read"
    /\ UNCHANGED <<requests, async_sem, pipe_sem, emulation, serial, dreq, buffer,
                   replies>>

DeviceStep ==
    DevRead \/ DevFind \/ DevReply \/ DevRelease \/ DevDoNow \/ DevDoLater

Next ==
    \/ \E q \in Requests : BeginIO(q) \/ AbortIO(q)
    \/ Close \/ EmulationStep \/ SerialStep \/ DeviceStep

Spec == Init /\ [][Next]_vars

(* The threads run.  The host's line takes what is written in the end, a break is
   sent when it is found at the head of the list, and the serial thread, which asks
   every millisecond, is not starved of the semaphore; data for a read may never
   come. *)
FairSpec ==
    /\ Spec
    /\ WF_vars(EmulationStep) /\ WF_vars(DeviceStep)
    /\ WF_vars(SignalLock \/ SignalWrite)
    /\ \A q \in Writes \cup Breaks : SF_vars(SignalComplete(q))

-----------------------------------------------------------------------------
(* A reset of the Amiga: dev_reset takes the unlocked head of the list and aborts
   it, and again until dev_thread has emptied the list; then it closes the unit and
   waits for dev_thread.  Requests may be waiting when it begins. *)
ResetBegin ==
    /\ epc = "run" /\ ~resetting
    /\ resetting' = TRUE /\ epc' = "reset"
    /\ UNCHANGED <<requests, ar, async_sem, pipe_sem, ereq, aborted, serial, device,
                   buffer, replies, misused>>

ResetHead ==
    /\ epc = "reset" /\ ar # <<>>
    /\ ereq' = Head(ar).req /\ epc' = "look"
    /\ UNCHANGED <<requests, ar, async_sem, pipe_sem, resetting, aborted, serial,
                   device, buffer, replies, misused>>

ResetLook ==
    /\ epc = "look" /\ async_sem = "free"
    /\ IF Listed(ereq)
       THEN ar' = [ar EXCEPT ![IndexOf(ereq)].ready = TRUE] /\ epc' = "abort"
       ELSE epc' = "reset" /\ UNCHANGED ar
    /\ UNCHANGED <<requests, async_sem, pipe_sem, ereq, resetting, aborted, serial,
                   device, buffer, replies, misused>>

ResetClose ==
    /\ epc = "reset" /\ ar = <<>> /\ spc = "idle"
    /\ epc' = "lock" /\ ereq' = NoRequest /\ spc' = "closed"
    /\ UNCHANGED <<requests, ar, async_sem, pipe_sem, resetting, aborted, sreq,
                   device, buffer, replies, misused>>

ResetSpec ==
    Init /\ [][Next \/ ResetBegin \/ ResetHead \/ ResetLook \/ ResetClose]_vars

-----------------------------------------------------------------------------
(* Type correctness. *)
TypeOK ==
    /\ requests \in Seq(Requests \cup {NoRequest}) /\ Len(requests) <= Capacity
    /\ ar \in Seq([req : Async, ready : BOOLEAN])
    /\ async_sem \in {"free", "serial"} /\ pipe_sem \in {"free", "emulation", "serial"}
    /\ epc \in {"run", "abort", "lock", "write", "closed", "reset", "look"}
    /\ resetting \in BOOLEAN
    /\ spc \in {"idle", "lock", "write", "closed"}
    /\ dpc \in {"read", "find", "reply", "release", "do", "ended"}
    /\ ereq \in Requests \cup {NoRequest} /\ sreq \in Requests \cup {NoRequest}
    /\ dreq \in Requests \cup {NoRequest} /\ aborted \subseteq Requests
    /\ buffer \in [Requests -> {"none", "live", "freed"}]
    /\ replies \in [Requests -> Nat] /\ misused \subseteq Requests

(* No list node and no buffer is used after it was freed, by any of the three
   threads. *)
NoUseAfterFree == misused = {}

(* If it does happen, it is to a request AbortIO was called for. *)
OnlyAbortsMisuse == misused \subseteq aborted

(* A request that was not aborted has one message on its way to dev_thread at a
   time: a second one would be taken for a new command. *)
Messages(q) ==
    Cardinality({i \in DOMAIN requests : requests[i] = q})
    + (IF epc \in {"lock", "write"} /\ ereq = q THEN 1 ELSE 0)
    + (IF spc \in {"lock", "write"} /\ sreq = q THEN 1 ELSE 0)
    + (IF dpc \in {"find", "reply", "do", "release"} /\ dreq = q THEN 1 ELSE 0)

OneMessageAtATime == \A q \in Requests \ aborted : Messages(q) <= 1

(* When dev_thread has ended, no request but an aborted one is left in the
   list. *)
NothingLeftBehind ==
    dpc = "ended" => \A i \in DOMAIN ar : ar[i].req \in aborted

(* A break waits behind a read; it is not at the head of the list. *)
BehindRead(q) ==
    \E i \in Waiting, j \in Waiting :
        /\ ar[i].req = q /\ q \in Breaks
        /\ j < i /\ ar[j].req \in Reads

(* The pipe is full, the serial thread holds async_sem while it waits for room in
   it, and dev_thread, which makes room, waits for async_sem. *)
MutualWait ==
    /\ async_sem = "serial" /\ Len(requests) = Capacity
    /\ dpc \in {"find", "release"} \/ (dpc = "do" /\ dreq \in Async)

(* Every request that was begun and is no read is replied, with two exceptions: a
   queued break stays for ever behind a read no data come for, and with as many
   requests outstanding as fill the pipe the serial thread and dev_thread may wait
   for each other. *)
EveryRequestReplied ==
    \A q \in Requests \ Reads :
        \/ (buffer[q] # "none") ~> (replies[q] > 0)
        \/ <>[]BehindRead(q)
        \/ <>[]MutualWait

(* A read that AbortIO found is replied although no data come, unless the two
   threads wait for each other on a full pipe. *)
AbortedIsReplied ==
    \A q \in Reads :
        \/ (epc = "abort" /\ ereq = q) ~> (replies[q] > 0)
        \/ <>[]MutualWait
=============================================================================
