# Amiberry: specifications of the host side

Amiberry emulates an Amiga on a host computer.  One thread, the *emulation
thread*, runs the emulated CPU and chipset; around it host threads serve file
systems, serial ports, sockets, sound, the debugger and the front ends.  The
two sides share plain C structures, pipes and counting semaphores, and the
Amiga's own operating system, whose tasks call into the host by traps, takes
part in the protocols.  This is where an order nobody tested does harm, and it
is what these modules describe.  The hardware emulation itself (CPU, chipset,
graphics) is sequential and is not modelled.

Paths below are relative to `src/src/`.  `PROJECT.json` maps every definition
to the lines it stands for.

## 1. Inventory

| Component | State | Operations | Interacts with | What makes it correct |
|---|---|---|---|---|
| Communication pipe, `include/commpipe.h` | ring `data`/`rdp`/`wrp`, `lock`, two semaphores, two flags | write, blocking read, `comm_pipe_has_data` | every component below but the queue | FIFO, nothing lost or overwritten, no lost wake-up, no mutual sleep, although one path of the writer takes no lock |
| Native-to-Amiga calls, `native2amiga.cpp`, the helper in `filesys.cpp` 7020-7180 and `exter_task` in `filesys.asm` | pipe `native2amiga_pending`, `n2asem`, `uae_int_requested`, `singlethread_int_sem` | `uae_Signal`, `uae_PutMsg`, ..., `exter_int_helper`, `filesys_vsync`, `native2amiga_reset` | host threads call, an interrupt wakes an Amiga task, which fetches | messages arrive whole, once, in order per thread; none waits without an interrupt; the semaphore comes back |
| File system packets, `filesys.cpp`, `filesys.asm` | queue of the Amiga handler with a status per packet, `unit_pipe`, `back_pipe`, `cmds_sent/acked/complete`, one dummy message per unit, waiting record locks | `FSML_loop`, `filesys_handler`, `filesys_iteration`, record timeouts, the unit scan of `exter_int_helper` | Amiga task, host thread per unit, emulation thread | a packet is replied once, not while the host works on it, and in the end; the pipes are drained; the dummy is sent once |
| Runtime action queue, `osdep/settings/settings_actions_queue.h` | `pending_`, `results_`, `consumed_`, `done_order_`, id counters | `post`, `run_pending`, `poll` | IPC and GUI threads post and poll, the main thread executes | order, bounded passes, bounded results, exact answers |
| Executors of actions, `osdep/amiberry_actions.cpp`, the hotkeys, `inputdevice.cpp`, `savestate.cpp`, and the main thread, `main.cpp`, `custom.cpp`, `newcpu.cpp`, `osdep/amiberry.cpp` | the marks `quit_program`, `restart_program`, `savestate_state` and `savestate_fname`, the pause variables, whether the settings UI is open | one executor per action; the codes of the hotkeys; `handle_events`, vsync, `m68k_go`, `leave_program`, the UI | queue, main loop, save states, user and guest | what one action has reported done happens, unless a later one, a configuration or the user takes its place |
| `uaeserial.device`, `uaeserial.cpp` | list `dev->ar`, pipe, `async_sem`, `pipe_sem`, `change_sem`, `sync_sem` | open, close, BeginIO, AbortIO, `uaeser_signal`, `dev_thread`, reset | emulation thread, serial thread, device thread | every request replied once, its memory used only until then |
| Traps, `traps.cpp` | `trap_mutex`, `current_context`, a context with two semaphores per trap, one pooled thread | extended trap, call of 68k code from a trap, its return, exit; hardware traps with their data slots | emulation thread and trap threads hand control to each other | one runs at a time, the right context goes on |
| `uaenative.library`, `uaenative.cpp` | handle table, worker thread and two semaphores per library | open, get function, call (synchronous, asynchronous), close | traps, host libraries | handles are unique, a library lives as long as its calls |
| Reset of devices, `devices.cpp` | callbacks, `uae_int_requested` | `devices_reset`, `do_leave_program` | all of the above | every component is usable after a reset |
| bsdsocket, GDB server, IPC, clipboard, network and sound boards, IDE and hardfile threads, save states | a worker or a ring each | requests, abort, hand-over of data | emulation thread | request answered once; abort wins or loses, never both |
| CPU, chipset, disk formats, GUI, vendored emulators | registers, tables, pictures | | | outside: see section 7 |

What is hard: messages of several words written one at a time into a pipe that
may be full in the middle; data looked at without the lock; semaphores taken in
one call and given back in a later one; counters raised before the state they
count; memory used after the lock that protects it was given back; a reset of
the Amiga at any of these points.  `PROJECT.json` lists these hazards at their
lines, with the properties that watch them, and says of the others why nothing
does yet.

## 2. Modules

| Module | Models | Lines of interest |
|---|---|---|
| `FifoChannel` | abstract: a bounded FIFO of numbered words | what the callers of the pipe rely on |
| `CommPipe` | the pipe, one access to memory per step | `commpipe.h` 26-133 |
| `CommPipeProofs` | theorems about `CommPipe` | |
| `Native2Amiga` | senders, interrupt, helper and its semaphore, reset | `native2amiga.cpp`, `filesys.cpp` 7020-7180, `filesys.asm` 616-637 |
| `Native2AmigaProofs` | theorems about `Native2Amiga` without a reset | |
| `Native2AmigaOrderProofs` | its order of delivery, on top of those | |
| `FilesysPackets` | one directory unit, its packets and its waiting records | `filesys.asm` 2172-2359, `filesys.cpp` 7145-7457, 4486-4574 |
| `FilesysPacketsProofs` | theorems about `FilesysPackets` | |
| `ActionPromise` | abstract: what `amiberry_actions_poll` promises | `amiberry_actions.h` 102-256 |
| `ActionQueue` | the queue behind it | `settings_actions_queue.h` |
| `ActionQueueProofs` | theorems about `ActionQueue` | |
| `UaeSerial` | one open unit and its three threads, its reset | `uaeserial.cpp` 165-200, 325-720, 743-754 |
| `UaeSerialProofs` | theorems about `UaeSerial` | |
| `TrapFrames` | abstract: a trap is a subroutine call of its task | comments of `traps.cpp` 190-620 |
| `ExtendedTraps` | traps, their threads, the pooled thread and its end, 68k calls, reset | `traps.cpp` 145-620 |
| `ExtendedTrapsProofs` | theorems about `ExtendedTraps`, its refinement of `TrapFrames` among them | |
| `ActionEffects` | what actions ask of the main thread, and how it does it | `amiberry_actions.cpp` 68-620, `inputdevice.cpp` 5424-5548, `savestate.cpp` 1431-1535, `main.cpp` 903-975 and 2255-2279, `amiberry.cpp` 4680-4727, `amiberry_gui.cpp` 959-1062, `custom.cpp` 6611-6686, `newcpu.cpp` 7265-7300 |
| `ActionEffectsProofs` | theorems about `ActionEffects` | |

`MC*.tla` instantiate them for TLC.  `Native2Amiga`, `FilesysPackets` and
`UaeSerial` take the pipe as a bounded sequence: the refinement checked and
proved for `CommPipe` is what allows it.

### How state and actions correspond to the code

**CommPipe.** `wpc` and `rpc` are the program counters of
`write_comm_pipe_pt` and `read_comm_pipe_pt_blocking`; every read or write of
`rdp`, `wrp`, a flag or a slot, and every semaphore operation, is an action.
`WriteCall` computes `nxwrp` before anything else, as line 77 does.  Each pipe
has one reading thread, and its writers exclude each other by a mutex of their
own (`n2asem`, `pipe_sem`), so there is one writer.  Words are numbered.
The memory model is sequentially consistent: the fields are `volatile`, and
nothing in the code orders them further.  On hardware that reorders stores the
fast path is therefore not covered by these results.

**Native2Amiga.** A message is a sequence of words tagged with sender, number,
kind and position; the four kinds stand for the lengths and the ways the helper
treats them.  `Write`, `WriteFull`, `WriteWoken` are the writer at the level of
`FifoChannel` with its sleep.  `tpc` is the place of `exter_task` and of the
helper it calls; `n` is its D0 (10 for the first call of a round, 11 for the
next ones).  `single` is `singlethread_int_sem`, `vsync` the time
`filesys_vsync` holds it.  `ResetSpec` adds `NativeReset` and
`DevicesResetEnd`.

**FilesysPackets.** `port` is the handler's message port, `list` the queue it
keeps with `status` per packet ("pending" for 0, "unstarted" for 1, "processed" for
-1, "timeout" for -2), `started` the counter in D5.  `fpc` is the place of
`filesys_iteration`.  After `handle_packet` it writes a copied packet back
(`WriteBack`, line 7342, whether the packet has a result or waits), then counts,
then marks; these are steps of their own because other threads run between them.
What a packet does on the host is the choice between finishing, waiting for a
record (`QueueRead`, `QueueLink`) and freeing one, which may end the wait of others
(`GrantFind`, `GrantUnlink`, `GrantMark`, any number of times).  `epc` is the unit
scan of `exter_int_helper`, whose acknowledgement and PutMsg are separate calls
from the Amiga.

`waiting` is the list of records from its head.  The thread of the unit and
`record_timeout` on the emulation thread (`tpc`) both change it and hold no lock, so
each statement that reads or changes it is a step; only the search for a record is
one step, which leaves the thread with the record and the one before it, as the C
variables do.  A record that is taken out from behind a head that has changed cuts
off what was put in front of it: `cut` collects those packets.  When a thread uses a
record the other one has freed, `broken` is set and nothing more is said.  The
pipes are bounded sequences: one element of `unit_pipe` stands for the words of a
command, which one thread writes and one reads; of `back_pipe` only the length
matters, and the thread sleeps when it is full.  The content of results is left
out; `Writes` names the steps that store one, in both modes of traps, and that a
timeout stores its result through the address of the thread's packet structure,
which describes by then the packet the thread has had last.

**ActionQueue.** Every method holds one mutex, so each is one step;
`run_pending` is one step per section under the mutex, with the executor in
between.  `outcome` (what the executor returned, in its order) is history.

**UaeSerial.** `epc`, `spc`, `dpc` are the places of the emulation thread, the
serial thread and `dev_thread`.  The three words of a request are one message,
as `pipe_sem` keeps them together; a message sent to a full pipe keeps
`pipe_sem`.  `buffer` says whether the copy of the request made by BeginIO
lives.  `SignalComplete` takes `async_sem` and keeps it until the message is
written.  Reads, writes and queued breaks (SDCMD_BREAK with SERF_QUEUEDBRK) go into
the list; a break is completed only when it is the oldest there (line 442).  Requests that are done at once never get their buffer freed in the
code (`dev_thread` frees only through `release_async_request`), and so it is
in the model.

`dev_reset` is `ResetBegin`, `ResetHead`, `ResetLook` and `ResetClose`, which
`ResetSpec` adds: the head of the list is read without the semaphore, looked up
again under it, and aborted like any request of AbortIO.

**ExtendedTraps.** `emu` is the place of the emulation thread: at the CPU, in
`trap_HandleExtendedTrap` or `m68k_return_handler` ("wait" on the context's
semaphore, "return" on `trap_mutex`), or in `exit_trap_handler`.  `tpc` is the
place of the thread of each context, "queued" while it is in the pipe of the
pooled thread.  `pc` and `stack` are the Amiga's side, per task: whether the
task is about to reach the call or the exit handler, and the contexts
`m68k_call_handler` has pushed on its stack.  `masked` is the interrupt mask 7
that keeps the Amiga from switching tasks between a trap and its handler.
`TrapFrames` sees a stack of frames per task and which handler runs; the
refinement drops every semaphore.  A reset forgets the tasks, not the contexts.

**ActionEffects.** `phase` is where the main thread is in a frame: "frame"
(lines; the guest may ask for a reset or a save), "input" (codes of hotkeys),
"vsync", then `handle_events` ("events", "keys", "resume"); "gui" and "startgui" are
the settings UI over the emulation and before it, "go" the top of `m68k_go`,
"leave" the way out through `leave_program`.  Actions run in "events" and while
a UI is open, one step each; which of them runs is free, as the queue keeps any
order the front ends choose.  A mark is negative until the main thread has
decided to act on it.  The hotkeys, the buttons of the UI and the guest write the
same marks, and none of them looks for what is pending: `UserReset`, `UserQuit`,
`UserRestart`, `UserSave`, `UserLoad`, `UserRewind`, `UserConfig`, `GuestSave`.  In
"keys" they run in the same pass as the actions.

`owed`, with `owed_reset` and `load_file`, is history: what actions have reported
done and the main thread has not carried out, as strong a reset and from as
named a file as was reported.  `given_up` is the part of it that something else has
replaced: an action that takes the place of others says so (`Owes`), and of a step
of the user or a configuration it is computed which promises it has taken off
their way (`GivesUp`, `OnItsWay`), so that nothing is lost without being
seen as lost.

## 3. Runs

| Run | Bounds | States | Shows |
|---|---|---|---|
| `pipe` | 4 slots, wake-up at 2, 9 words | 16 000 | The ring wraps more than twice; full, empty and both thresholds occur. The fast path is exclusive, refinement of `FifoChannel`, delivery, return of every write |
| `native2amiga` | 2 threads, 3 messages, pipe of 4 words | 360 000 | The pipe is shorter than two messages, so senders sleep in the middle of one, and `filesys_vsync` competes for the helper: order, whole messages, no forgotten words, delivery |
| `native2amiga_reset` | 1 thread, 1 reset | | violated, finding 1 |
| `filesys` | 3 packets, 2 at a time, `back_pipe` of 2 words (symmetry) | 3.5 million | More packets than the limit, each of which may wait for a record that is granted, timed out, or both at once; the thread asleep on a full `back_pipe` |
| `filesys_live` | 2 packets, both outstanding | 333 000 | Timeouts, grants and packets marked late are replied |
| `filesys_lost_reply` | 1 packet | | violated, finding 2 |
| `filesys_unstarted` | 2 packets, 1 at a time | | violated, finding 3 |
| `actions` | 4 actions, queue 2, results 2 | 61 000 | Both limits are exceeded; polls of ids of every kind, given out or not; refinement of `ActionPromise` |
| `serial` | 1 read, 1 write, 1 queued break, 1 immediate command, 1 abort, pipe of 2 messages | 141 000 | Requests that are not aborted are safe even while another one is; a break behind a read, and the two threads waiting for each other on a full pipe, both occur |
| `serial_freed` | 1 read, `dev_reset` | | violated, finding 4 |
| `traps` | 2 tasks, 2 contexts, 2 calls per handler, 1 reset | 39 000 | Pooled and own threads at once, a trap within a handler's 68k call, task switches there: one thread in control, contexts freed when unused, refinement of `TrapFrames`, every trap returns, the emulator ends |
| `effects` | 2 state files | 512 000 | Everything else is finite: every order of actions, keys, guest, UI and main thread, for ever |

Bounds: `MaxWords`, `MaxMsgs`, `MaxResets`, `Packets`, `MaxPosts`,
`MaxAborts`, `MaxCalls`, `Contexts` bound what happens in a behaviour; `Size`, `Capacity`,
`BackSize`, `MaxStarted`, `MaxPending`, `MaxResults` are the code's limits made
small.  Two of anything that competes, with a limit below what they can fill,
is where each of the listed hazards first shows; the mutants in the modules (a
dropped test, a missing reset, a swapped order) are found under these bounds.
Deadlock is checked in `actions` only: the other bounded systems stop when the
bound is used up, a wedged `trap_mutex` stops the model of the traps, and the
end of the program stops `effects`; the liveness properties catch a stop before
that.

`BackSize` 2 is the least a `back_pipe` can do with: the thread may leave one word
behind (a dummy message that came too early), and in a pipe of one word it would
then wait for a message that only itself can ask for.  The code has room for 99.
The pipe of `serial` holds 2 messages and that of the code 33, so that what the code
meets with 34 requests outstanding the run meets with 3; `EveryRequestReplied` and
`AbortedIsReplied` except it by name (section 6).

## 4. Fairness

- `CommPipe`: weak fairness of each thread (the host schedules it), strong
  fairness of the two lock waits (a semaphore wakes its waiters; without it a
  thread that takes the lock again and again could starve the other).  Nothing
  forces a further write.
- `Native2Amiga`: senders and `exter_task` run; `n2asem` and the helper's entry
  are strongly fair, as several threads compete; `filesys_vsync` gives the
  semaphore back and does not hold it at every single call of `exter_task`,
  since it looks once per frame.
- `FilesysPackets`: handler, host thread and `exter_task` run and every record
  request has a finite timeout, which `filesys_vsync` counts down.  No client and no
  other interrupt is forced.  `filesys_live` sends its packets in one order
  (`OrderedSpec`), as they are all alike.
- `ActionQueue`: the main thread calls `run_pending` between frames for ever.
- `UaeSerial`: the threads run.  The line takes what is written, again and again
  until a write or a break at its turn is completed (strongly fair, as `async_sem`
  is taken and given back meanwhile).  Data for a read may never come, so its reply
  is claimed only once AbortIO found it.
- `ExtendedTraps`: host threads run; exec gives every task the CPU again and
  again (strongly fair, as a masked CPU disables the switch), and a 68k function
  called by a handler returns some time its task has the CPU.  No task is forced
  to execute a trap, and no emulator to end.
- `ActionEffects`: the main thread runs, and a settings UI closes when an action
  has asked something of the main loop in it (`run_gui` leaves then) or when it
  was opened over a pending request.  Nothing else closes it, and nobody has to
  take back a pause.  `EverythingHappens` excepts a user who asks for states again
  and again for ever: `vsync_do` looks for a state before it looks for a quit.

## 5. What is proved

TLAPS checks these for all values of the constants that satisfy the named
assumptions (a ring of at least two slots, a threshold below its size; positive
limits; the dummy message is not one of the clients' packets).  Every safety
property of the passing runs is a theorem.

`CommPipeProofs`: `Spec => []PipeInv`, and from it `TypeOK`, `RingExclusive`,
`RingHoldsPending`, `InOrder`, `NeverBothAsleep`, `PollIsPromise` (what
`comm_pipe_has_data` has seen stays there for a single reader), `NoLostWakeup`, `NoStaleToken` and the refinement `ImplementsChannel`.  None of
these is inductive alone.  That the fast path is exclusive needs to know that a
set `reader_waiting` finds the reader between its announcement and its token
(`EmptyInv`); that a sleeper need not test the ring again needs to know who
owes it a token, and that at most one is ever owed (`FullInv`, `EmptyInv`);
both need the lock (`LockInv`) and the content of the ring (`RingInv`).
`PipeInv` is their conjunction with `TypeOK`.  Indices are written there with
`Wrap`, one turn at most, so that the remainder appears in a few lemmas only.
The refinement maps the ring between `rdp` and `wrp` to the queue of the
channel: `WriteAdvance` is `Put`, `ReadAdvance` is `Get`, everything else
stutters.

`ActionQueueProofs`: `Spec => []QueueInv`, and from it `TypeOK`,
`ExecutedInOrder`, `PassIsBounded`, `RetainedIsBounded` and the refinement of
`ActionPromise`.  `QueueInv` says that pending ids are consecutive and follow
what has been executed, that every executed action is either stored with its
true outcome or at most `retired_below_`, and that consumed ids are stored
ones; with it each of the branches of `poll` gives the answer of the promise.

`ActionEffectsProofs`, for any state files: `Spec => []EffectsInv`, and from it
`TypeOK` and `NothingForgotten`.  `NothingForgotten` alone is not inductive.  Steps of
the user give up by definition what they take off its way, but actions, the guest
and the main thread are not excused: they must leave every promise on its way, or
name what they replace.  For this one has to know which marks can be there when
they run (`MarksInv`: a restart is a quit, `leave_program` is reached by a quit only, no
mark is acted on before the start), which promises stand together (`LiveInv`), and
that a promise given up has been so for a way out that is still marked
(`LeavingInv`).  `GivesUpIsExact`, `StateStepsKeep` and `UserLeavesKeeps` say once what
each sort of step of the user does to these.

`Native2AmigaProofs`, for any number of senders and messages and any capacity,
without a reset: `Spec => []CallInv` and `Spec => []FrameInv`, and from them
`TypeOK`, `SemaphoreReturned`, `NoForgottenWords`, `FramesIntact` and
`MessagesAreWhole`.  `CallInv` says that one sender at most holds `n2asem`
(`LockInv`), that a sleeping writer is owed a token by the flag or finds it
together with room, so that it may go on without looking again (`WriterInv`),
and that `filesys_vsync` and the helper exclude each other (`HelperInv`).
`FramesIntact` alone says nothing of the ends of the stream: `FrameInv` adds
that its last word is the one its holder wrote last, or the end of a message
when nobody is in the middle of one (`EndInv`), and that the words the helper
has decoded so far begin a message (`CurInv`).

`Native2AmigaOrderProofs`: `DeliveredInOrder`, again without a reset.  The words
of a thread in the stream (decoded or in the pipe) are numbered on from the
messages of it already delivered: its first word belongs to the next message
(`FirstOfInv`), each later one to the message of its predecessor or, if it
begins a message, to the one after (`NextOfInv`), and its last one to the last
message the thread has begun to write (`LastOfInv`).  A message is delivered by
taking the head of the stream; that the words taken are all of one message, and
that the word behind them begins one, is `FrameInv`.

`ExtendedTrapsProofs`, resets included: `Spec => []TrapInv`, and from it
`TypeOK`, `OneInControl`, `FreedIsUnused` and the refinement of `TrapFrames`.
`TrapInv` says where control is.  The context the emulation thread waits for has
been given a token, or its thread runs, or it has given the token back and the
PC of the task that runs stands on the 68k side's handler (`WaitInv`); every
other context has no token and its thread does not run (`RestInv`).  A context
that exists is the one at work, on the stack of its own task, or was left behind
by a reset (`AtWorkInv`, `StackInv`, `LostInv`); the pooled thread alone counts
ends (`DoneInv`).  `LockInv` tells what the code relies on and states nowhere:
`trap_mutex` is held exactly for the trap that has handed over, or for ever.
The refinement maps each step to the call, the return or the switch of task it
amounts to, and every semaphore operation to a stutter.

`FilesysPacketsProofs`, for any packets, limit and pipe size:
`Spec => []PacketsInv`, and from it `TypeOK`, `RepliedAfterProcessed`, `PendingIsHeld`,
`OutstandingIsCounted`, `OneDummyAtATime`, `PipesDrain` and the action property
`LateWritesAreTimeouts`.  `PacketInv` says that a packet is in the handler's queue
exactly until it is replied, and that the host has it only while it is pending or
after its wait has timed out.  That it is pending in the thread's hands until the
thread marks it, although timeouts run meanwhile, is `ThreadInv`: the packet at work
is in no list.  It is left only by a packet that was queued for a record, and for
those `RecordInv` says which records the two threads may have in their hands, and in
what state, at each of their steps.  The scan replies a packet that is neither pending nor
unstarted, so D5 counts it (`CountInv`).  `DummyInv` reads the owner of the dummy
message off the counters: while it is at the port, or about to be put there,
`cmds_acked` differs from `cmds_complete`, and nothing else can send it.  `DrainInv`
adds what makes `PipesDrain` inductive: when the thread is about to write a second
word into `back_pipe`, it has already counted the command that brings the dummy.
That the pipe of the unit is short follows because its packets, each there once,
are among the outstanding ones.

`UaeSerialProofs`, without `dev_reset`, for any requests, aborts and capacity:
`Spec => []SerialInv`, and from it `TypeOK`, `OnlyAbortsMisuse`,
`OneMessageAtATime`, `NothingLeftBehind` and `OneWriter` (the two threads never
write into the pipe at once, which is what makes three words one message).
`OnlyAbortsMisuse` is not inductive: `SerialInv` follows each request AbortIO was
not called for.  In the list it waits for data with no message about it, or it
is ready with its one message at one of the three threads or in the pipe; its
buffer lives, and it has not been replied (`RequestInv`).  AbortIO breaks
this for its own request, and since every thread finds a request by the list, for
no other one.  That a search of the list finds a first entry is the one place
where well-foundedness of the positions is needed.  `dev_reset` aborts whatever it
finds and may even free under its own feet (finding 4), so `SerialInv` does not
survive it; `ResetKeepsList` says what does: the types, who holds the semaphores,
and that what `dev_thread` replies and unlinks is in the list.

Only model-checked: the liveness properties (TLAPS here does not reason about
ENABLED and fairness), and what the four violation runs show, two of them under
the specifications with a reset.  The modules contain no RECURSIVE operator.

## 6. Findings

1. `filesys.cpp:7060`: `singlethread_int_sem` is taken in one helper call and
   released in a later one.  A reset of the Amiga in between leaves it taken,
   and every later call is refused, against the comment at 7061.  Run
   `native2amiga_reset`.
2. `filesys.cpp:7361`: `cmds_sent` is raised before the packet is marked; a
   scan of the unit in between acknowledges the count and sends the dummy
   message too early, and the packet waits for the next one.  Run
   `filesys_lost_reply`; `LateIsReplied` holds.
3. `filesys.asm:2335`: a packet put aside because of the limit is never taken
   up again.  Run `filesys_unstarted`.
4. `uaeserial.cpp:401`: `abort_async` goes on with a list node after the
   semaphore of the list was given back; `dev_thread` may have freed it.  Run
   `serial_freed`, in which `dev_reset` aborts what waits.  `OnlyAbortsMisuse`
   shows that without a reset no request suffers that AbortIO was not called for.

Places where a property had to make an exception:

- `filesys.cpp:4486-4515`: `record_timeout` and the thread of the unit change the list
  of waiting records without a lock.  A record queued between the moment a timeout
  finds its own record at the head and the moment it takes that one out is cut off
  the list: nothing grants it or times it out any more, and its packet stays
  pending (`cut`).  Both may also free the same record (`broken`).  `PendingIsHeld`
  and `LateIsReplied` except these, and the mutants show that nothing else loses a
  packet.
- `filesys.cpp:7342` and 4496: a packet that waits for a record is still written back
  after its record is in the list, and a timeout writes its result through the
  packet structure of the thread's loop.  A packet may therefore be written after
  it was replied if its wait timed out, or if it was the thread's last one when
  the wait of another did (`LateWritesAreTimeouts`, `RepliedAfterProcessed`).
- `uaeserial.cpp:547`: `uaeser_signal` holds `async_sem` while it writes to a full pipe,
  and `dev_thread`, which empties the pipe, waits for `async_sem` (`MutualWait`).
- `uaeserial.cpp:442`: a break with SERF_QUEUEDBRK is completed only at the head of
  the list, and is not replied while a read in front of it gets no data
  (`BehindRead`).
- `amiberry_actions.cpp:193-237`: loading a configuration does not look whether a
  state operation is pending, as the other actions do.  `default_prefs`
  (`cfgfile.cpp:9786`) ends it, so a state load that was reported done, followed
  by `load_config` in the same pass, is given up and only the reset it came with
  happens.
- `inputdevice.cpp:5474-5548`: hotkeys look for nothing either.  AKS_RESTART turns a
  quit that was reported done into a restart, the quick keys for save and load end
  or redirect a load, AKS_STATEREWIND replaces it.  What
  the comments at `amiberry_actions.cpp:68-73` and 107-114 say, that actions fail
  until the state operation has run or the quit is through, keeps actions from
  replacing it, and only them.  `NothingForgotten` and `EverythingHappens` except
  what is `given_up`, and `NothingForgotten` says how far this goes: a reset is given up
  only for a way out of the emulation, a quit, stop or restart only for another one,
  a load for anything.
- `traps.cpp:297`: the thread of a trap takes `trap_mutex` and the handler at the
  68k side gives it back.  A reset of the Amiga in between leaves it taken, and
  every later trap waits when it calls the 68k or ends.  `EveryTrapReturns`
  excepts the behaviours in which this happened (`wedged`).

Hazards that no property covers, with the reason, are in `PROJECT.json`.

## 7. Not modelled

- CPU, chipset, JIT, disk formats, video: sequential emulation of hardware,
  most of it generated; a model would repeat the code.
- User interface and host drivers: input and output.
- `86box`, PPC and other vendored emulators: third-party.
- The bodies of DOS packets, mounting, configuration files: host data.
- In modelled components: the reset of the file system and the removal of units
  (`FilesysPackets`); opening, reopening and CMD_RESET (`UaeSerial`); a reset in
  the middle of a message (`Native2Amiga`), about which the code promises
  nothing; hardware traps and command lists of the UAE board (`ExtendedTraps`);
  media, keys, display, status and command line (`ActionEffects`), which mark
  nothing for the main thread, the debugger, which refuses the actions, and input
  recordings, which have restores of their own.
- `uaenative`, bsdsocket, GDB server, IPC transport, clipboard, the boards: see
  the plan.

## 8. Plan

Every safety property of the runs is proved.  A theorem still worth having, about
the modules as they are: `Native2Amiga` under `ResetSpec`, that a reset outside a
round of the helper and outside a message leaves `CallInv` standing, with the reset
limited to those moments.

Modules then, each with one run that replaces the weakest of those above:
`DevicesReset` (the pipes of `native2amiga.cpp`, `filesys.cpp` and
`uaeserial.cpp` through `devices_reset`), `UaeNative` (handle table with a
reference definition, worker thread), `GdbStop` (stop and resume),
`ServiceTransport` (partial reads and writes), the rewind ring of
`savestate.cpp`.
