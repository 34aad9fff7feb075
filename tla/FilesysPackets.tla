--------------------------- MODULE FilesysPackets ---------------------------
(***************************************************************************)
(* One directory file system: DOS packets travel from the handler process  *)
(* on the Amiga (FSML_loop, filesys.asm) through unit_pipe to the host     *)
(* thread of the unit (filesys_iteration, filesys.cpp), which marks each   *)
(* packet when it is processed.  The thread cannot send a message itself:  *)
(* it counts cmds_sent and requests the interrupt, exter_int_helper        *)
(* compares the counters and sends the handler ONE dummy message, and the  *)
(* handler then replies every marked packet of its queue.                  *)
(*                                                                         *)
(* A packet may wait for a record lock: its record is in the list          *)
(* waitingrecords, which the thread of the unit and the emulation thread   *)
(* change without a lock.  Every statement that reads or changes the list  *)
(* is a step of its own; the search for a record is one step.              *)
(***************************************************************************)
EXTENDS Naturals, Sequences, SequencesExt, FiniteSets

CONSTANTS
    Packets,     \* DOS packets, each sent once
    MaxStarted,  \* commands the handler hands over at a time (20 in filesys.asm)
    BackSize,    \* words back_pipe holds (99 in the emulator)
    Dummy        \* the unit's dummy_message; also the NULL of the lists

ASSUME StartedAssumption == MaxStarted \in Nat \ {0}
ASSUME BackSizeAssumption == BackSize \in Nat \ {0}
ASSUME DummyAssumption == Dummy \notin Packets

VARIABLES
    port,                      \* messages at the handler's port
    signals,                   \* of the handler: "port", "ctrl_d"
    hpc, done, list, at,       \* handler: place, D2, its queue, scan position
    started,                   \* D5: commands handed over and not replied
    status,                    \* the status field of each packet
    unit_pipe, back_pipe,      \* commands to the thread, lock words back
    fpc, cmd, mark, locks,     \* thread: place, its command, mark it when done,
                               \* locks left over
    frec, fprev,               \* the record the thread has found, and the one before
    waiting,                   \* unit->waitingrecords, from its head
    tpc, trec, tprev,          \* record_timeout: place, record, and the one before
    cut,                       \* history: packets whose records were cut off the list
    broken,                    \* a freed or unlinked record has been used
    cmds_sent, cmds_acked, cmds_complete,
    intreq, epc,               \* interrupt request, place of exter_task
    replies                    \* history: replies to each packet

handler == <<hpc, done, list, at, started>>
thread == <<fpc, cmd, mark, locks, frec, fprev>>
timer == <<tpc, trec, tprev>>
records == <<waiting, cut, broken>>
counters == <<cmds_sent, cmds_acked, cmds_complete>>
vars == <<port, signals, handler, status, unit_pipe, back_pipe, thread, timer, records,
          counters, intreq, epc, replies>>

(* 4(a4): 0 handed over, 1 not handed over, -1 processed, -2 lock timeout. *)
Statuses == {"none", "pending", "unstarted", "processed", "timeout"}

Init ==
    /\ port = <<>> /\ signals = {}
    /\ hpc = "get" /\ done = "processed" /\ list = <<>> /\ at = 1 /\ started = 0
    /\ status = [p \in Packets |-> "none"]
    /\ unit_pipe = <<>> /\ back_pipe = 0
    /\ fpc = "read" /\ cmd = Dummy /\ mark = FALSE /\ locks = FALSE
    /\ frec = Dummy /\ fprev = Dummy
    /\ waiting = <<>> /\ tpc = "idle" /\ trec = Dummy /\ tprev = Dummy
    /\ cut = {} /\ broken = FALSE
    /\ cmds_sent = 0 /\ cmds_acked = 0 /\ cmds_complete = 0
    /\ intreq = FALSE /\ epc = "idle"
    /\ replies = [p \in Packets |-> 0]

\* A DOS client sends a packet to the port of the handler.
SendPacket(p) ==
    /\ status[p] = "none" /\ replies[p] = 0 /\ ~Contains(port, p)
    /\ port' = Append(port, p) /\ signals' = signals \cup {"port"}
    /\ UNCHANGED <<handler, status, unit_pipe, back_pipe, thread, timer, records,
                   counters, intreq, epc, replies>>

-----------------------------------------------------------------------------
(* The handler process. *)

GetPacket == hpc = "get" /\ port # <<>> /\ Head(port) \in Packets

\* mutant: one command too many is handed over
RoomAndOne == started <= MaxStarted

Room == started < MaxStarted

\* FSML_DoCommand: filesys_handler puts the packet into unit_pipe.
StartCommand ==
    /\ GetPacket /\ Room
    /\ status' = [status EXCEPT ![Head(port)] = "pending"]
    /\ unit_pipe' = Append(unit_pipe, Head(port))
    /\ started' = started + 1
    /\ list' = <<Head(port)>> \o list
    /\ port' = Tail(port)
    /\ UNCHANGED <<signals, hpc, done, at, back_pipe, thread, timer, records,
                   counters, intreq, epc, replies>>

\* filesys_handler refuses the packet: it is replied at once.
RefuseCommand ==
    /\ GetPacket /\ Room
    /\ replies' = [replies EXCEPT ![Head(port)] = @ + 1]
    /\ port' = Tail(port)
    /\ UNCHANGED <<signals, handler, status, unit_pipe, back_pipe, thread, timer,
                   records, counters, intreq, epc>>

\* Too many commands queued.
PostponeCommand ==
    /\ GetPacket /\ ~Room
    /\ status' = [status EXCEPT ![Head(port)] = "unstarted"]
    /\ list' = <<Head(port)>> \o list
    /\ port' = Tail(port)
    /\ UNCHANGED <<signals, hpc, done, at, started, unit_pipe, back_pipe, thread,
                   timer, records, counters, intreq, epc, replies>>

BeginScan(d) == hpc' = "scan" /\ done' = d /\ at' = 1

\* mutant: the locks are left in back_pipe
GetDummyKeepLocks ==
    /\ hpc = "get" /\ port # <<>> /\ Head(port) = Dummy
    /\ port' = Tail(port)
    /\ cmds_complete' = cmds_acked
    /\ BeginScan("processed")
    /\ UNCHANGED <<signals, list, started, status, unit_pipe, back_pipe, thread,
                   timer, records, cmds_sent, cmds_acked, intreq, epc, replies>>

\* The dummy message: exter_int_helper with D0 = 1 releases the message lock
\* and takes the locks out of back_pipe, then the queue is scanned.
GetDummy ==
    /\ hpc = "get" /\ port # <<>> /\ Head(port) = Dummy
    /\ port' = Tail(port)
    /\ cmds_complete' = cmds_acked
    /\ back_pipe' = 0
    /\ BeginScan("processed")
    /\ UNCHANGED <<signals, list, started, status, unit_pipe, thread, timer,
                   records, cmds_sent, cmds_acked, intreq, epc, replies>>

\* No message: Wait for the port or the signal, then look for lock timeouts.
HandlerWait ==
    /\ hpc = "get" /\ port = <<>>
    /\ hpc' = "wait"
    /\ UNCHANGED <<port, signals, done, list, at, started, status, unit_pipe,
                   back_pipe, thread, timer, records, counters, intreq, epc,
                   replies>>

\* mutant: only the port wakes the handler
HandlerWakePort ==
    /\ hpc = "wait" /\ "port" \in signals
    /\ signals' = {}
    /\ BeginScan("timeout")
    /\ UNCHANGED <<port, list, started, status, unit_pipe, back_pipe, thread,
                   timer, records, counters, intreq, epc, replies>>

HandlerWake ==
    /\ hpc = "wait" /\ signals # {}
    /\ signals' = {}
    /\ BeginScan("timeout")
    /\ UNCHANGED <<port, list, started, status, unit_pipe, back_pipe, thread,
                   timer, records, counters, intreq, epc, replies>>

\* mutant: the scan replies whatever it finds
ScanReplyAny ==
    /\ hpc = "scan" /\ at <= Len(list)
    /\ replies' = [replies EXCEPT ![list[at]] = @ + 1]
    /\ list' = RemoveAt(list, at)
    /\ started' = started - 1
    /\ UNCHANGED <<port, signals, hpc, done, at, status, unit_pipe, back_pipe,
                   thread, timer, records, counters, intreq, epc>>

\* mutant: the packet stays in the queue
ScanReplyKeep ==
    /\ hpc = "scan" /\ at <= Len(list) /\ status[list[at]] = done
    /\ replies' = [replies EXCEPT ![list[at]] = @ + 1]
    /\ at' = at + 1
    /\ started' = started - 1
    /\ UNCHANGED <<port, signals, hpc, done, list, status, unit_pipe, back_pipe,
                   thread, timer, records, counters, intreq, epc>>

\* FSML_check_old: a packet with the wanted status is replied and unlinked.
ScanReply ==
    /\ hpc = "scan" /\ at <= Len(list) /\ status[list[at]] = done
    /\ replies' = [replies EXCEPT ![list[at]] = @ + 1]
    /\ list' = RemoveAt(list, at)
    /\ started' = started - 1
    /\ UNCHANGED <<port, signals, hpc, done, at, status, unit_pipe, back_pipe,
                   thread, timer, records, counters, intreq, epc>>

\* FSML_check_next
ScanNext ==
    /\ hpc = "scan" /\ at <= Len(list) /\ status[list[at]] # done
    /\ at' = at + 1
    /\ UNCHANGED <<port, signals, hpc, done, list, started, status, unit_pipe,
                   back_pipe, thread, timer, records, counters, intreq, epc,
                   replies>>

\* D2 and the place in the queue are not used again before the next scan.
ScanEnd ==
    /\ hpc = "scan" /\ at > Len(list)
    /\ hpc' = "get" /\ done' = "processed" /\ at' = 1
    /\ UNCHANGED <<port, signals, list, started, status, unit_pipe, back_pipe, thread,
                   timer, records, counters, intreq, epc, replies>>

HandlerStep ==
    \/ StartCommand \/ RefuseCommand \/ PostponeCommand \/ GetDummy
    \/ HandlerWait \/ HandlerWake \/ ScanReply \/ ScanNext \/ ScanEnd

-----------------------------------------------------------------------------
(* The list of records waiting for a lock, and the two threads that change it. *)

FirstRecord == IF waiting = <<>> THEN Dummy ELSE Head(waiting)

Before(i) == IF i = 1 THEN Dummy ELSE waiting[i - 1]

IndexIn(r) == CHOOSE i \in DOMAIN waiting : waiting[i] = r

\* prev->next = lr->next, or waitingrecords = lr->next when lr had none before it:
\* records put in front of it since are then cut off.  When the other thread has
\* taken lr or prev from the list meanwhile, a record is freed twice, or freed while
\* it is linked.
Unlink(r, prev) ==
    IF Contains(waiting, r) /\ (prev = Dummy \/ Contains(waiting, prev))
    THEN /\ waiting' = IF prev = Dummy
                       THEN SubSeq(waiting, IndexIn(r) + 1, Len(waiting))
                       ELSE RemoveAt(waiting, IndexIn(r))
         /\ cut' = IF prev = Dummy
                   THEN cut \cup {p \in Packets :
                                     \E i \in 1..(IndexIn(r) - 1) : waiting[i] = p}
                   ELSE cut
         /\ UNCHANGED broken
    ELSE broken' = TRUE /\ UNCHANGED <<waiting, cut>>

\* record_timeout, on the emulation thread in filesys_vsync: the walk comes to a
\* record whose time is over.
TimeoutFind(p) ==
    /\ tpc = "idle"
    /\ \E i \in DOMAIN waiting : waiting[i] = p /\ tprev' = Before(i)
    /\ trec' = p /\ tpc' = "mark"
    /\ UNCHANGED <<port, signals, handler, status, unit_pipe, back_pipe, thread,
                   records, counters, intreq, epc, replies>>

\* mutant: the handler is not told
TimeoutMarkSilently ==
    /\ tpc = "mark" /\ Contains(waiting, trec)
    /\ status' = [status EXCEPT ![trec] = "timeout"]
    /\ tpc' = "unlink"
    /\ UNCHANGED <<port, signals, handler, unit_pipe, back_pipe, thread, trec, tprev,
                   records, counters, intreq, epc, replies>>

TimeoutMark ==
    /\ tpc = "mark" /\ Contains(waiting, trec)
    /\ status' = [status EXCEPT ![trec] = "timeout"]
    /\ signals' = signals \cup {"ctrl_d"}
    /\ tpc' = "unlink"
    /\ UNCHANGED <<port, handler, unit_pipe, back_pipe, thread, trec, tprev, records,
                   counters, intreq, epc, replies>>

\* The thread has taken the record meanwhile, to mark and free it too.
TimeoutTooLate ==
    /\ tpc = "mark" /\ ~Contains(waiting, trec)
    /\ broken' = TRUE
    /\ UNCHANGED <<port, signals, handler, status, unit_pipe, back_pipe, thread, timer,
                   waiting, cut, counters, intreq, epc, replies>>

TimeoutUnlink ==
    /\ tpc = "unlink"
    /\ Unlink(trec, tprev)
    /\ tpc' = "idle" /\ trec' = Dummy /\ tprev' = Dummy
    /\ UNCHANGED <<port, signals, handler, status, unit_pipe, back_pipe, thread,
                   counters, intreq, epc, replies>>

TimerStep ==
    (\E p \in Packets : TimeoutFind(p)) \/ TimeoutMark \/ TimeoutTooLate \/ TimeoutUnlink

-----------------------------------------------------------------------------
(* The thread of the unit. *)

ReadCommand ==
    /\ fpc = "read" /\ unit_pipe # <<>>
    /\ cmd' = Head(unit_pipe) /\ unit_pipe' = Tail(unit_pipe)
    /\ fpc' = "handle"
    /\ UNCHANGED <<port, signals, handler, status, back_pipe, mark, locks, frec, fprev,
                   timer, records, counters, intreq, epc, replies>>

\* action_lock_record: the record is taken, the packet waits for it.
QueueRead ==
    /\ fpc = "handle" /\ frec = Dummy
    /\ fprev' = FirstRecord
    /\ fpc' = "link"
    /\ UNCHANGED <<port, signals, handler, status, unit_pipe, back_pipe, cmd, mark,
                   locks, frec, timer, records, counters, intreq, epc, replies>>

\* mutant: the packet is queued and marked all the same
QueueLinkMarked ==
    /\ fpc = "link"
    /\ IF fprev = FirstRecord
       THEN waiting' = <<cmd>> \o waiting /\ UNCHANGED broken
       ELSE broken' = TRUE /\ UNCHANGED waiting
    /\ mark' = TRUE /\ fprev' = Dummy
    /\ fpc' = "write"
    /\ UNCHANGED <<port, signals, handler, status, unit_pipe, back_pipe, cmd, locks,
                   frec, timer, cut, counters, intreq, epc, replies>>

\* mutant: the rest of the list is not linked to the new record
QueueLinkAlone ==
    /\ fpc = "link"
    /\ IF fprev = FirstRecord
       THEN waiting' = <<cmd>> /\ UNCHANGED broken
       ELSE broken' = TRUE /\ UNCHANGED waiting
    /\ mark' = FALSE /\ fprev' = Dummy
    /\ fpc' = "write"
    /\ UNCHANGED <<port, signals, handler, status, unit_pipe, back_pipe, cmd, locks,
                   frec, timer, cut, counters, intreq, epc, replies>>

\* lr->next = the head that was read: it may have been freed meanwhile.
QueueLink ==
    /\ fpc = "link"
    /\ IF fprev = FirstRecord
       THEN waiting' = <<cmd>> \o waiting /\ UNCHANGED broken
       ELSE broken' = TRUE /\ UNCHANGED waiting
    /\ mark' = FALSE /\ fprev' = Dummy
    /\ fpc' = "write"
    /\ UNCHANGED <<port, signals, handler, status, unit_pipe, back_pipe, cmd, locks,
                   frec, timer, cut, counters, intreq, epc, replies>>

\* record_check_waiting, after a record was freed: the walk comes to a packet that
\* need not wait any longer.
GrantFind(p) ==
    /\ fpc = "handle"
    /\ \E i \in DOMAIN waiting : waiting[i] = p /\ fprev' = Before(i)
    /\ frec' = p /\ fpc' = "unlink"
    /\ UNCHANGED <<port, signals, handler, status, unit_pipe, back_pipe, cmd, mark,
                   locks, timer, records, counters, intreq, epc, replies>>

GrantUnlink ==
    /\ fpc = "unlink"
    /\ Unlink(frec, fprev)
    /\ fpc' = "grant"
    /\ UNCHANGED <<port, signals, handler, status, unit_pipe, back_pipe, cmd, mark,
                   locks, frec, fprev, timer, counters, intreq, epc, replies>>

GrantMark ==
    /\ fpc = "grant"
    /\ status' = [status EXCEPT ![frec] = "processed"]
    /\ fprev' = Dummy
    /\ fpc' = "handle"
    /\ UNCHANGED <<port, signals, handler, unit_pipe, back_pipe, cmd, mark, locks, frec,
                   timer, records, counters, intreq, epc, replies>>

\* mutant: the packet is marked before it is written back
HandlePacketMarks ==
    /\ fpc = "handle"
    /\ status' = [status EXCEPT ![cmd] = "processed"]
    /\ mark' = FALSE /\ frec' = Dummy /\ fprev' = Dummy
    /\ fpc' = "write"
    /\ UNCHANGED <<port, signals, handler, unit_pipe, back_pipe, cmd, locks, timer,
                   records, counters, intreq, epc, replies>>

\* handle_packet returns, with a result.
HandlePacket ==
    /\ fpc = "handle"
    /\ mark' = TRUE /\ frec' = Dummy /\ fprev' = Dummy
    /\ fpc' = "write"
    /\ UNCHANGED <<port, signals, handler, status, unit_pipe, back_pipe, cmd, locks,
                   timer, records, counters, intreq, epc, replies>>

\* writedpacket: a copied packet is written back, whether it has a result or waits.
WriteBack ==
    /\ fpc = "write"
    /\ fpc' = "count"
    /\ UNCHANGED <<port, signals, handler, status, unit_pipe, back_pipe, cmd, mark,
                   locks, frec, fprev, timer, records, counters, intreq, epc, replies>>

CountSent ==
    /\ fpc = "count"
    /\ cmds_sent' = cmds_sent + 1
    /\ fpc' = "mark"
    /\ UNCHANGED <<port, signals, handler, status, unit_pipe, back_pipe, cmd, mark,
                   locks, frec, fprev, timer, records, cmds_acked, cmds_complete, intreq,
                   epc, replies>>

\* The mark, and the locks left over of those the handler had ready.
MarkProcessed ==
    /\ fpc = "mark"
    /\ status' = IF mark THEN [status EXCEPT ![cmd] = "processed"] ELSE status
    /\ mark' = FALSE /\ locks' \in BOOLEAN
    /\ fpc' = "back"
    /\ UNCHANGED <<port, signals, handler, unit_pipe, back_pipe, cmd, frec, fprev, timer,
                   records, counters, intreq, epc, replies>>

\* Locks left over go back through the pipe; the thread sleeps while it is full.
SendBackLocks ==
    /\ fpc = "back"
    /\ IF locks THEN back_pipe < BackSize /\ back_pipe' = back_pipe + 1
                ELSE UNCHANGED back_pipe
    /\ locks' = FALSE
    /\ fpc' = "request"
    /\ UNCHANGED <<port, signals, handler, status, unit_pipe, cmd, mark, frec, fprev,
                   timer, records, counters, intreq, epc, replies>>

\* "The message is sent by our interrupt handler, so make sure an interrupt
\* happens."
RequestInterrupt ==
    /\ fpc = "request"
    /\ intreq' = TRUE
    /\ fpc' = "read"
    /\ UNCHANGED <<port, signals, handler, status, unit_pipe, back_pipe, cmd, mark,
                   locks, frec, fprev, timer, records, counters, epc, replies>>

ThreadStep ==
    \/ ReadCommand \/ QueueRead \/ QueueLink
    \/ (\E p \in Packets : GrantFind(p)) \/ GrantUnlink \/ GrantMark
    \/ HandlePacket \/ WriteBack \/ CountSent \/ MarkProcessed \/ SendBackLocks
    \/ RequestInterrupt

-----------------------------------------------------------------------------
(* The interrupt: exter_task and the unit scan of exter_int_helper. *)

\* Some other host thread, or filesys_vsync, requests the interrupt.
OtherInterrupt ==
    /\ ~intreq
    /\ intreq' = TRUE
    /\ UNCHANGED <<port, signals, handler, status, unit_pipe, back_pipe, thread,
                   timer, records, counters, epc, replies>>

ExterTask ==
    /\ epc = "idle" /\ intreq
    /\ intreq' = FALSE
    /\ epc' = "scan"
    /\ UNCHANGED <<port, signals, handler, status, unit_pipe, back_pipe, thread,
                   timer, records, counters, replies>>

\* mutant: the message lock is not looked at
MessageDueUnlocked == cmds_acked # cmds_sent

MessageDue == cmds_acked = cmds_complete /\ cmds_acked # cmds_sent

ScanUnit ==
    /\ epc = "scan"
    /\ epc' = IF MessageDue THEN "ack" ELSE "idle"
    /\ UNCHANGED <<port, signals, handler, status, unit_pipe, back_pipe, thread,
                   timer, records, counters, intreq, replies>>

\* cmds_sent is read again: the thread may have counted once more.
AckSent ==
    /\ epc = "ack"
    /\ cmds_acked' = cmds_sent
    /\ epc' = "put"
    /\ UNCHANGED <<port, signals, handler, status, unit_pipe, back_pipe, thread,
                   timer, records, cmds_sent, cmds_complete, intreq, replies>>

\* The helper has returned 1: exter_task makes the PutMsg; the next call goes
\* on with the next unit.
PutDummy ==
    /\ epc = "put"
    /\ port' = Append(port, Dummy) /\ signals' = signals \cup {"port"}
    /\ epc' = "idle"
    /\ UNCHANGED <<handler, status, unit_pipe, back_pipe, thread, timer, records,
                   counters, intreq, replies>>

ExterStep == ExterTask \/ ScanUnit \/ AckSent \/ PutDummy

\* Nothing is defined once a record has been used after it was taken from the list.
Next ==
    /\ ~broken
    /\ \/ \E p \in Packets : SendPacket(p)
       \/ TimerStep \/ HandlerStep \/ ThreadStep \/ OtherInterrupt \/ ExterStep

Spec == Init /\ [][Next]_vars

(* The Amiga runs its tasks, the host its threads, and every record request
   has a finite timeout, which filesys_vsync counts down.  Nothing forces a client or another interrupt. *)
Fairness ==
    /\ WF_vars(~broken /\ HandlerStep) /\ WF_vars(~broken /\ ThreadStep)
    /\ WF_vars(~broken /\ ExterStep) /\ WF_vars(~broken /\ TimerStep)

FairSpec == Spec /\ Fairness

-----------------------------------------------------------------------------
(* Type correctness. *)
TypeOK ==
    /\ port \in Seq(Packets \cup {Dummy}) /\ signals \subseteq {"port", "ctrl_d"}
    /\ hpc \in {"get", "wait", "scan"} /\ done \in {"processed", "timeout"}
    /\ list \in Seq(Packets) /\ at \in Nat /\ started \in Nat
    /\ status \in [Packets -> Statuses]
    /\ unit_pipe \in Seq(Packets) /\ back_pipe \in 0..BackSize
    /\ fpc \in {"read", "handle", "link", "unlink", "grant", "write", "count", "mark",
                "back", "request"}
    /\ cmd \in Packets \cup {Dummy} /\ mark \in BOOLEAN /\ locks \in BOOLEAN
    /\ frec \in Packets \cup {Dummy} /\ fprev \in Packets \cup {Dummy}
    /\ waiting \in Seq(Packets) /\ cut \subseteq Packets /\ broken \in BOOLEAN
    /\ tpc \in {"idle", "mark", "unlink"}
    /\ trec \in Packets \cup {Dummy} /\ tprev \in Packets \cup {Dummy}
    /\ cmds_sent \in Nat /\ cmds_acked \in 0..cmds_sent
    /\ cmds_complete \in 0..cmds_acked
    /\ intreq \in BOOLEAN /\ epc \in {"idle", "scan", "ack", "put"}
    /\ replies \in [Packets -> 0..1]

(* The host has a packet in the pipe, in the hands of the thread, which writes it back
   and then marks it unless it waits, or among the waiting records. *)
InThread(p) ==
    \/ Contains(unit_pipe, p)
    \/ cmd = p /\ fpc \in {"handle", "link", "unlink", "grant", "write"}
    \/ cmd = p /\ fpc \in {"count", "mark"} /\ mark
    \/ Contains(waiting, p)
    \/ frec = p /\ fpc = "grant"

(* A packet goes back to its client once, and not while the host still has it, for the
   client would reuse its memory: the one exception is a packet whose wait for a
   record has timed out, which may be replied while the thread has it in its hands. *)
RepliedAfterProcessed ==
    \A p \in Packets : replies[p] > 0 =>
        /\ replies[p] = 1 /\ ~Contains(list, p)
        /\ InThread(p) => status[p] = "timeout"

(* D5 counts exactly the commands handed over and not replied, and the limit
   on it holds. *)
Outstanding == {p \in Packets : Contains(list, p) /\ status[p] # "unstarted"}

OutstandingIsCounted ==
    started = Cardinality(Outstanding) /\ started <= MaxStarted

(* There is one dummy message per unit: it must not be sent while it is still
   on its way, or the list of the port is corrupted. *)
Dummies == {i \in DOMAIN port : port[i] = Dummy}

OneDummyAtATime ==
    Cardinality(Dummies) + (IF epc \in {"ack", "put"} THEN 1 ELSE 0) <= 1

(* The dummy message is on its way, or will be sent. *)
DummyComes ==
    \/ Contains(port, Dummy) \/ epc \in {"ack", "put"}
    \/ cmds_acked # cmds_sent /\ (intreq \/ epc = "scan" \/ fpc = "request")

(* Nobody sleeps on a full pipe for ever.  The limit of the handler keeps unit_pipe
   short, so that the emulation thread in filesys_handler does not sleep at all.
   back_pipe is read for a dummy message only, and a message that came too early
   leaves a word in it; from the second word on a dummy message is sure to come, so
   the thread, which asks for the interrupt only after it has written, does not wait
   for itself. *)
PipesDrain ==
    /\ Len(unit_pipe) <= MaxStarted
    /\ back_pipe >= 2 => DummyComes

(* A packet the handler takes for pending is with the host, which will mark it: it is
   not forgotten, unless its record was queued while a timeout, which had found its own
   record at the head of the list, was about to take that one out. *)
PendingIsHeld ==
    \A p \in Packets : status[p] = "pending" => InThread(p) \/ p \in cut

(* A queued packet is replied, by a timeout if by nothing else, and so is a marked
   packet at the latest with the next one the thread of its unit works on; unless the
   two threads got into each other's way in the list. *)
LateIsReplied ==
    \A p \in Packets :
        (\/ Contains(waiting, p)
         \/ status[p] = "timeout"
         \/ status[p] = "processed" /\ fpc = "handle" /\ cmd \in Packets)
            ~> (replies[p] = 1 \/ p \in cut \/ broken)

(* "It's a dummy packet indicating that some queued command finished": a
   finished command is announced and replied. *)
ProcessedIsReplied ==
    \A p \in Packets : (status[p] = "processed") ~> (replies[p] = 1)

(* "We can handle an unlimited number of unstarted commands." *)
UnstartedIsReplied ==
    \A p \in Packets : (status[p] = "unstarted") ~> (replies[p] = 1)

(* The host writes a packet, its result or its mark: into the client's memory while the
   packet is handled, or into a copy that is written back afterwards.  A record keeps
   the address of the packet in the frame of the thread's loop, which by the time of
   the timeout describes the packet the thread has had since. *)
Writes(p) ==
    \/ (HandlePacket \/ WriteBack) /\ p = cmd
    \/ MarkProcessed /\ mark /\ p = cmd
    \/ GrantMark /\ p = frec
    \/ TimeoutMark /\ p \in {trec, cmd}

(* A packet that has been replied, "-1 means [...] it's safe to reply to it", is not
   written by the host any more, with two exceptions: it is itself one whose wait
   timed out, or it is the packet the thread had last when the wait of another one
   times out, and gets the result of that one. *)
LateWritesAreTimeouts ==
    [][\A p \in Packets : Writes(p) /\ replies[p] > 0 =>
           status[p] = "timeout" \/ (TimeoutMark /\ p = cmd)]_vars
=============================================================================
