--------------------------- MODULE ExtendedTraps ---------------------------
(***************************************************************************)
(* Extended traps (traps.cpp).  A task of the Amiga executes a trap; its   *)
(* handler runs on a host thread of its own while the emulation thread     *)
(* waits, and may call 68k functions: then the emulation thread goes on    *)
(* and the handler waits, and the Amiga may switch tasks.  Control is      *)
(* handed over with two semaphores per trap context; what was asked of the *)
(* 68k side is in current_context and in the PC, under trap_mutex, which   *)
(* one thread takes and another one gives back.                            *)
(*                                                                         *)
(* Handlers run on the pooled thread, or, when it is busy or cannot be     *)
(* started, on a thread started for them.                                  *)
(***************************************************************************)
EXTENDS Naturals, Sequences, SequencesExt, FiniteSets

CONSTANTS
    Tasks,      \* tasks of the Amiga that execute traps
    Contexts,   \* bound: contexts there is memory for
    MaxCalls,   \* bound: 68k functions a handler calls
    MaxResets,  \* bound: resets of the Amiga
    None

ASSUME NoneAssumption == None \notin Contexts
ASSUME BoundAssumption == MaxCalls \in Nat /\ MaxResets \in Nat

VARIABLES
    cur,              \* the Amiga task the CPU executes
    masked,           \* regs.intmask is 7: no interrupt, so no other task
    pc,               \* of each task: "code", or at m68k_call_trapaddr ("call")
                      \* or exit_trap_trapaddr ("exit")
    stack,            \* of each task: contexts pushed on its 68k stack
    emu, ectx,        \* emulation thread: place, the context it works on
    tpc,              \* of each context: place of its thread
    saved,            \* of each context: the task in its saved_regs
    pooled, calls,    \* of each context: pooled_thread; bound: calls it made
    busy,             \* extended_trap_thread_busy
    trap_mutex, current_context,
    to_trap, to_emu, thread_done,  \* of each context: counts of its semaphores
    resets, lost,     \* history: resets so far, contexts a reset has left behind,
    wedged            \* and whether one came while trap_mutex was taken

amiga == <<cur, masked, pc, stack>>
context == <<saved, pooled, calls>>
control == <<emu, ectx>>
threads == <<tpc, context, busy>>
lock == <<trap_mutex, current_context>>
sems == <<to_trap, to_emu, thread_done>>
history == <<resets, lost, wedged>>
vars == <<amiga, control, threads, lock, sems, history>>

Init ==
    /\ cur \in Tasks /\ masked = FALSE
    /\ pc = [t \in Tasks |-> "code"] /\ stack = [t \in Tasks |-> <<>>]
    /\ emu = "cpu" /\ ectx = None
    /\ tpc = [c \in Contexts |-> "free"] /\ saved = [c \in Contexts |-> cur]
    /\ pooled = [c \in Contexts |-> FALSE] /\ calls = [c \in Contexts |-> 0]
    /\ busy = FALSE /\ trap_mutex = 1 /\ current_context = None
    /\ to_trap = [c \in Contexts |-> 0] /\ to_emu = [c \in Contexts |-> 0]
    /\ thread_done = [c \in Contexts |-> 0]
    /\ resets = 0 /\ lost = {} /\ wedged = FALSE

Post(sem, c) == sem' = [sem EXCEPT ![c] = @ + 1]
Wait(sem, c) == sem[c] > 0 /\ sem' = [sem EXCEPT ![c] = @ - 1]
Goto(c, place) == tpc' = [tpc EXCEPT ![c] = place]

OnCpu(place) == emu = "cpu" /\ pc[cur] = place

-----------------------------------------------------------------------------
(* The emulation thread. *)

\* An interrupt of the Amiga, after which another task runs.
SwitchTask(t) ==
    /\ emu = "cpu" /\ ~masked /\ cur' = t
    /\ UNCHANGED <<masked, pc, stack, control, threads, lock, sems, history>>

(* trap_HandleExtendedTrap: the pooled thread if it is free, one of its own
   otherwise.  (Without memory or a thread the trap returns at once and nothing
   has changed.) *)
HandleExtendedTrap(c) ==
    /\ OnCpu("code") /\ tpc[c] = "free"
    /\ saved' = [saved EXCEPT ![c] = cur] /\ calls' = [calls EXCEPT ![c] = 0]
    /\ \/ /\ ~busy /\ busy' = TRUE
          /\ pooled' = [pooled EXCEPT ![c] = TRUE] /\ Goto(c, "queued")
       \/ /\ pooled' = [pooled EXCEPT ![c] = FALSE] /\ Goto(c, "start")
          /\ UNCHANGED busy
    /\ Post(to_trap, c)
    /\ emu' = "wait" /\ ectx' = c
    /\ UNCHANGED <<amiga, lock, to_emu, thread_done, history>>

\* Back from the trap context, which has left a PC to go on at.
ReturnToCpu ==
    /\ emu = "wait" /\ Wait(to_emu, ectx)
    /\ emu' = "cpu"
    /\ UNCHANGED <<amiga, ectx, threads, lock, to_trap, thread_done, history>>

\* m68k_call_handler
CallHandler ==
    /\ OnCpu("call")
    /\ stack' = [stack EXCEPT ![cur] = Append(@, current_context)]
    /\ pc' = [pc EXCEPT ![cur] = "code"] /\ masked' = FALSE
    /\ trap_mutex' = trap_mutex + 1
    /\ UNCHANGED <<cur, control, threads, current_context, sems, history>>

\* The 68k function executes RTS and so m68k_return_handler, which first waits
\* for trap_mutex.
ReturnHandler ==
    /\ OnCpu("code") /\ stack[cur] # <<>>
    /\ emu' = "return"
    /\ UNCHANGED <<amiga, ectx, threads, lock, sems, history>>

\* mutant: trap_mutex is not waited for
ReturnUnlocked ==
    /\ emu = "return"
    /\ ectx' = Last(stack[cur]) /\ stack' = [stack EXCEPT ![cur] = Front(@)]
    /\ Post(to_trap, ectx') /\ emu' = "wait"
    /\ UNCHANGED <<cur, masked, pc, threads, lock, to_emu, thread_done, history>>

\* mutant: the emulation thread goes on without waiting for the handler
ReturnWithoutWait ==
    /\ emu = "return" /\ trap_mutex > 0
    /\ trap_mutex' = trap_mutex - 1
    /\ ectx' = Last(stack[cur]) /\ stack' = [stack EXCEPT ![cur] = Front(@)]
    /\ Post(to_trap, ectx') /\ emu' = "cpu"
    /\ UNCHANGED <<cur, masked, pc, threads, current_context, to_emu, thread_done,
                   history>>

\* mutant: the oldest context on the stack is taken for the newest
ReturnToOldest ==
    /\ emu = "return" /\ trap_mutex > 0
    /\ trap_mutex' = trap_mutex - 1
    /\ ectx' = Head(stack[cur])
    /\ stack' = [stack EXCEPT ![cur] = Tail(@)]
    /\ Post(to_trap, ectx') /\ emu' = "wait"
    /\ UNCHANGED <<cur, masked, pc, threads, current_context, to_emu, thread_done,
                   history>>

ReturnToTrap ==
    /\ emu = "return" /\ trap_mutex > 0
    /\ trap_mutex' = trap_mutex - 1
    /\ ectx' = Last(stack[cur])
    /\ stack' = [stack EXCEPT ![cur] = Front(@)]
    /\ Post(to_trap, ectx') /\ emu' = "wait"
    /\ UNCHANGED <<cur, masked, pc, threads, current_context, to_emu, thread_done,
                   history>>

\* exit_trap_handler, which waits for the thread of the context to end.
ExitHandler ==
    /\ OnCpu("exit")
    /\ emu' = "exit" /\ ectx' = current_context
    /\ UNCHANGED <<amiga, threads, lock, sems, history>>

\* mutant: the context is freed under a thread that still uses it
ExitTrapEarly ==
    /\ emu = "exit" /\ (pooled[ectx] \/ tpc[ectx] = "ended")
    /\ pc' = [pc EXCEPT ![cur] = "code"] /\ masked' = FALSE
    /\ Goto(ectx, "free") /\ trap_mutex' = trap_mutex + 1 /\ emu' = "cpu"
    /\ UNCHANGED <<cur, stack, ectx, context, busy, current_context, sems, history>>

\* The registers of trap entry come back, and the context is freed.
ExitTrap ==
    /\ emu = "exit"
    /\ IF pooled[ectx] THEN Wait(thread_done, ectx)
                       ELSE tpc[ectx] = "ended" /\ UNCHANGED thread_done
    /\ pc' = [pc EXCEPT ![cur] = "code"] /\ masked' = FALSE
    /\ Goto(ectx, "free") /\ trap_mutex' = trap_mutex + 1
    /\ emu' = "cpu"
    /\ UNCHANGED <<cur, stack, ectx, context, busy, current_context, to_trap,
                   to_emu, history>>

EmuStep ==
    \/ ReturnToCpu \/ CallHandler \/ ReturnToTrap \/ ExitHandler \/ ExitTrap

-----------------------------------------------------------------------------
(* The threads of the contexts. *)

\* Places at which a context occupies the pooled thread.
InPool(c) == pooled[c] /\ tpc[c] \notin {"free", "queued", "ended"}

\* extended_trap_thread takes the next context out of its pipe.
PoolRead(c) ==
    /\ tpc[c] = "queued" /\ \A d \in Contexts : ~InPool(d)
    /\ Goto(c, "start")
    /\ UNCHANGED <<amiga, control, context, busy, lock, sems, history>>

StartHandler(c) ==
    /\ tpc[c] = "start" /\ Wait(to_trap, c)
    /\ Goto(c, "handler")
    /\ UNCHANGED <<amiga, control, context, busy, lock, to_emu, thread_done,
                   history>>

\* The handler calls a 68k function (trap_Call68k), or it is done.
HandlerGoesOn(c) ==
    /\ tpc[c] = "handler"
    /\ \/ calls[c] < MaxCalls /\ calls' = [calls EXCEPT ![c] = @ + 1] /\ Goto(c, "call")
       \/ UNCHANGED calls /\ Goto(c, "exit")
    /\ UNCHANGED <<amiga, control, saved, pooled, busy, lock, sems, history>>

TakeMutex(c) ==
    /\ tpc[c] \in {"call", "exit"} /\ trap_mutex > 0
    /\ trap_mutex' = trap_mutex - 1
    /\ Goto(c, IF tpc[c] = "call" THEN "set_call" ELSE "set_exit")
    /\ UNCHANGED <<amiga, control, context, busy, current_context, sems, history>>

\* The 68k side will go on at the call handler or at the exit handler, with
\* interrupts masked.  A thread of its own ends here.
SwitchToEmu(c) ==
    /\ tpc[c] \in {"set_call", "set_exit"}
    /\ current_context' = c /\ masked' = TRUE
    /\ pc' = [pc EXCEPT ![cur] = IF tpc[c] = "set_call" THEN "call" ELSE "exit"]
    /\ Goto(c, IF tpc[c] = "set_call" THEN "called"
               ELSE IF pooled[c] THEN "clear_busy" ELSE "ended")
    /\ Post(to_emu, c)
    /\ UNCHANGED <<cur, stack, control, context, busy, trap_mutex, to_trap,
                   thread_done, history>>

Woken(c) ==
    /\ tpc[c] = "called" /\ Wait(to_trap, c)
    /\ Goto(c, "woken")
    /\ UNCHANGED <<amiga, control, context, busy, lock, to_emu, thread_done,
                   history>>

\* mutant: trap_mutex is kept
CallReturnsKeeps(c) ==
    /\ tpc[c] = "woken"
    /\ Goto(c, "handler")
    /\ UNCHANGED <<amiga, control, context, busy, lock, sems, history>>

CallReturns(c) ==
    /\ tpc[c] = "woken"
    /\ trap_mutex' = trap_mutex + 1 /\ Goto(c, "handler")
    /\ UNCHANGED <<amiga, control, context, busy, current_context, sems, history>>

ClearBusy(c) ==
    /\ tpc[c] = "clear_busy"
    /\ busy' = FALSE /\ Goto(c, "post_done")
    /\ UNCHANGED <<amiga, control, context, lock, sems, history>>

\* mutant: the end is noted under trap_mutex, which the context still holds
PostDoneLocked(c) ==
    /\ tpc[c] = "post_done" /\ trap_mutex > 0
    /\ Post(thread_done, c) /\ Goto(c, "ended")
    /\ UNCHANGED <<amiga, control, context, busy, lock, to_trap, to_emu, history>>

PostDone(c) ==
    /\ tpc[c] = "post_done"
    /\ Post(thread_done, c) /\ Goto(c, "ended")
    /\ UNCHANGED <<amiga, control, context, busy, lock, to_trap, to_emu, history>>

TrapStep(c) ==
    \/ PoolRead(c) \/ StartHandler(c) \/ HandlerGoesOn(c) \/ TakeMutex(c)
    \/ SwitchToEmu(c) \/ Woken(c) \/ CallReturns(c) \/ ClearBusy(c) \/ PostDone(c)

-----------------------------------------------------------------------------
(* A reset of the Amiga, between two instructions: the tasks and their stacks are
   gone.  reset_traps drains the hardware traps alone, and init_extended_traps runs
   only when the memory is laid out anew, so contexts, trap_mutex and the pooled
   thread stay as they are. *)
Reset ==
    /\ emu = "cpu" /\ resets < MaxResets
    /\ resets' = resets + 1 /\ lost' = {c \in Contexts : tpc[c] # "free"}
    /\ wedged' = (wedged \/ trap_mutex = 0)
    /\ cur' \in Tasks /\ masked' = FALSE
    /\ pc' = [t \in Tasks |-> "code"] /\ stack' = [t \in Tasks |-> <<>>]
    /\ UNCHANGED <<control, threads, lock, sems>>

(* The emulator ends: free_extended_trap_thread sends a NULL behind what is in the
   pipe and waits for the pooled thread. *)
Leave ==
    /\ emu = "cpu" /\ emu' = "leave"
    /\ UNCHANGED <<amiga, ectx, threads, lock, sems, history>>

Left ==
    /\ emu = "leave" /\ \A c \in Contexts : ~InPool(c) /\ tpc[c] # "queued"
    /\ emu' = "left"
    /\ UNCHANGED <<amiga, ectx, threads, lock, sems, history>>

Next ==
    \/ \E t \in Tasks : SwitchTask(t)
    \/ \E c \in Contexts : HandleExtendedTrap(c) \/ TrapStep(c)
    \/ ReturnHandler \/ EmuStep \/ Reset \/ Leave \/ Left

Spec == Init /\ [][Next]_vars

(* The threads of the host run, the Amiga gives every task the CPU again and
   again, and a 68k function that a handler has called returns in the end. *)
FairSpec ==
    /\ Spec /\ WF_vars(EmuStep) /\ WF_vars(Left)
    /\ \A c \in Contexts : WF_vars(TrapStep(c))
    /\ \A t \in Tasks : SF_vars(SwitchTask(t))
    /\ \A c \in Contexts :
         SF_vars(stack[cur] # <<>> /\ Last(stack[cur]) = c /\ ReturnHandler)

-----------------------------------------------------------------------------
Active == {"start", "handler", "call", "exit", "set_call", "set_exit", "called", "woken"}

(* Type correctness. *)
TypeOK ==
    /\ cur \in Tasks /\ masked \in BOOLEAN
    /\ pc \in [Tasks -> {"code", "call", "exit"}] /\ stack \in [Tasks -> Seq(Contexts)]
    /\ emu \in {"cpu", "wait", "return", "exit", "leave", "left"}
    /\ ectx \in Contexts \cup {None} /\ current_context \in Contexts \cup {None}
    /\ tpc \in [Contexts -> Active \cup {"free", "queued", "clear_busy", "post_done",
                                        "ended"}]
    /\ saved \in [Contexts -> Tasks] /\ pooled \in [Contexts -> BOOLEAN]
    /\ calls \in [Contexts -> Nat] /\ busy \in BOOLEAN /\ trap_mutex \in {0, 1}
    /\ \A sem \in {to_trap, to_emu, thread_done} : sem \in [Contexts -> {0, 1}]
    /\ resets \in Nat /\ lost \subseteq Contexts /\ wedged \in BOOLEAN

(* The emulated registers have one user at a time: the emulation thread, or the
   thread of one trap, or nobody while control is handed over. *)
Handlers == {c \in Contexts : tpc[c] \in Active \ {"start", "called"}}
HandingOver == {c \in Contexts : to_trap[c] > 0 \/ to_emu[c] > 0}

OneInControl ==
    Cardinality(Handlers) + Cardinality(HandingOver)
        = IF emu = "wait" THEN 1 ELSE 0

(* Nobody uses a context that was freed, and it leaves no count behind in its
   semaphores. *)
FreedIsUnused ==
    \A c \in Contexts : tpc[c] = "free" =>
        /\ to_trap[c] = 0 /\ to_emu[c] = 0 /\ thread_done[c] = 0
        /\ emu \in {"wait", "exit"} => ectx # c
        /\ \A t \in Tasks : c \notin ToSet(stack[t])
        /\ emu = "cpu" /\ pc[cur] # "code" => current_context # c

(* Tasks see their traps as subroutine calls, whatever the other tasks do while a
   68k function is called, and across resets. *)
Running == {c \in Contexts \ lost : tpc[c] # "free" /\ c \notin ToSet(stack[saved[c]])}

Frames == INSTANCE TrapFrames WITH
    running <- IF Running = {} THEN None ELSE CHOOSE c \in Running : TRUE,
    frames <- [t \in Tasks |->
                  stack[t] \o SetToSeq({c \in Running : saved[c] = t})]

ImplementsFrames == Frames!Spec

(* Every trap returns to its task, unless the Amiga is reset before, or was once
   reset in the instruction between a trap and its call or exit handler, which
   leaves trap_mutex taken. *)
EveryTrapReturns ==
    \A c \in Contexts :
        (tpc[c] # "free") ~>
        (tpc[c] = "free" \/ c \in lost \/ wedged \/ emu \in {"leave", "left"})

(* The emulator can end, unless the handler on the pooled thread is waiting for a
   68k function. *)
LeaveEnds ==
    (emu = "leave") ~>
    (emu = "left" \/ \E c \in Contexts : pooled[c] /\ tpc[c] = "called")
=============================================================================
