------------------------ MODULE ExtendedTrapsProofs ------------------------
(***************************************************************************)
(* Proofs about ExtendedTraps, for any number of tasks, contexts, calls    *)
(* and resets: the types, that one thread at a time has control, that a    *)
(* freed context is not used, and that it implements TrapFrames.           *)
(***************************************************************************)
EXTENDS ExtendedTraps, SequenceTheorems, FiniteSetTheorems, TLAPS

(* The inductive invariant says where control is.  The emulation thread waits for
   ectx; or a handler has handed control back, and the PC of the task that runs
   stands on the call or exit handler of the 68k side; or else no trap is at work. *)

Waiting(c) == emu = "wait" /\ ectx = c

HandedBack(c) == pc[cur] # "code" /\ current_context = c

OnStack(c, t) == \E i \in 1..Len(stack[t]) : stack[t][i] = c

\* Where the emulated CPU and the emulation thread are.
EmuInv ==
    /\ masked = (pc[cur] # "code") /\ \A t \in Tasks : pc[t] # "code" => t = cur
    /\ pc[cur] # "code" => current_context \in Contexts
    /\ pc[cur] = "call" => tpc[current_context] = "called"
    /\ pc[cur] = "exit" => tpc[current_context] \in {"clear_busy", "post_done", "ended"}
    /\ emu = "wait" => ectx \in Contexts
    /\ emu = "exit" => pc[cur] = "exit" /\ ectx = current_context
    /\ emu = "return" => pc[cur] = "code" /\ stack[cur] # <<>>

\* The context the emulation thread waits for has been given control, or has it, or
\* has given it back.
WaitInv ==
    \A c \in Contexts : Waiting(c) =>
        \/ /\ to_trap[c] = 1 /\ to_emu[c] = 0 /\ pc[cur] = "code"
           /\ tpc[c] \in {"queued", "start", "called"}
        \/ /\ to_trap[c] = 0 /\ to_emu[c] = 0 /\ pc[cur] = "code"
           /\ tpc[c] \in Active \ {"start", "called"}
        \/ to_trap[c] = 0 /\ to_emu[c] = 1 /\ HandedBack(c)

\* Every other context is free, or stays where it is but for its thread's end.
RestInv ==
    \A c \in Contexts : ~Waiting(c) =>
        /\ to_trap[c] = 0 /\ to_emu[c] = 0
        /\ tpc[c] \in {"free", "called", "clear_busy", "post_done", "ended"}

\* The pooled thread, and it alone, counts the end of a context.
DoneInv ==
    \A c \in Contexts :
        /\ thread_done[c] = IF pooled[c] /\ tpc[c] = "ended" THEN 1 ELSE 0
        /\ tpc[c] \in {"clear_busy", "post_done"} => pooled[c]

\* A trap at work belongs to the task that runs; the stacks hold the traps of their
\* tasks that wait for a 68k function, each once.
AtWorkInv ==
    \A c \in Contexts : Waiting(c) \/ HandedBack(c) =>
        /\ c \notin lost /\ tpc[c] # "free" /\ saved[c] = cur
        /\ \A t \in Tasks : ~OnStack(c, t)

StackInv ==
    /\ \A t \in Tasks : \A i, j \in 1..Len(stack[t]) :
          stack[t][i] = stack[t][j] => i = j
    /\ \A t \in Tasks : \A c \in Contexts : OnStack(c, t) =>
          tpc[c] = "called" /\ saved[c] = t /\ c \notin lost

\* A context that is neither is free or was left behind by a reset.
LostInv ==
    /\ \A c \in lost : tpc[c] # "free"
    /\ \A c \in Contexts : tpc[c] # "free" =>
          c \in lost \/ Waiting(c) \/ HandedBack(c) \/ OnStack(c, saved[c])

\* trap_mutex is taken for a trap at work, or for ever.
Held ==
    \/ pc[cur] # "code"
    \/ emu = "wait" /\ tpc[ectx] \in {"set_call", "set_exit", "called", "woken"}

LockInv ==
    /\ trap_mutex = IF Held \/ wedged THEN 0 ELSE 1
    /\ ~(Held /\ wedged)

TrapInv ==
    /\ TypeOK /\ EmuInv /\ WaitInv /\ RestInv /\ DoneInv /\ AtWorkInv /\ StackInv
    /\ LostInv /\ LockInv

-----------------------------------------------------------------------------
LEMMA TrapInvInit == Init => TrapInv
<1>. SUFFICES ASSUME Init PROVE TrapInv
  OBVIOUS
<1>1. /\ TypeOK /\ EmuInv /\ WaitInv /\ RestInv /\ DoneInv /\ AtWorkInv
      /\ LostInv /\ LockInv
  BY NoneAssumption, EmptySeq DEF Init, TypeOK, EmuInv, WaitInv, RestInv, DoneInv,
     AtWorkInv, LostInv, LockInv, Held, Waiting, HandedBack, OnStack, Active
<1>2. StackInv
  BY DEF Init, StackInv, OnStack
<1>. QED  BY <1>1, <1>2 DEF TrapInv

USE DEF amiga, context, control, threads, lock, sems, history, Post, Wait, Goto, OnCpu

\* What the parts of the invariant give for the sequences and counts.
LEMMA Facts ==
    ASSUME TrapInv
    PROVE  /\ cur \in Tasks
           /\ to_trap \in [Contexts -> {0, 1}] /\ to_emu \in [Contexts -> {0, 1}]
           /\ thread_done \in [Contexts -> {0, 1}]
           /\ \A t \in Tasks : stack[t] \in Seq(Contexts) /\ Len(stack[t]) \in Nat
           /\ \A t \in Tasks : \A i \in 1..Len(stack[t]) :
                 stack[t][i] \in Contexts /\ OnStack(stack[t][i], t)
  BY LenProperties, ElementOfSeq DEF TrapInv, TypeOK, OnStack

\* A step that leaves the stacks alone and moves no thread that waits on one.
LEMMA SameStacks ==
    ASSUME TrapInv, UNCHANGED <<stack, lost>>,
           \A c \in Contexts, t \in Tasks : OnStack(c, t) =>
               tpc'[c] = tpc[c] /\ saved'[c] = saved[c]
    PROVE  StackInv'
  BY DEF TrapInv, StackInv, OnStack

\* The control context is not on a stack.
LEMMA AtWorkOffStack ==
    ASSUME TrapInv, NEW c \in Contexts, Waiting(c) \/ HandedBack(c) \/ tpc[c] # "called"
    PROVE  \A t \in Tasks : ~OnStack(c, t)
  BY DEF TrapInv, StackInv, AtWorkInv

-----------------------------------------------------------------------------
(* The emulation thread. *)

LEMMA SwitchKeeps == ASSUME TrapInv, NEW t \in Tasks, SwitchTask(t) PROVE TrapInv'
<1>1. TypeOK' /\ EmuInv'  BY DEF TrapInv, TypeOK, EmuInv, SwitchTask
<1>2. WaitInv' /\ RestInv' /\ DoneInv'
  BY DEF TrapInv, EmuInv, WaitInv, RestInv, DoneInv, Waiting, HandedBack, SwitchTask
<1>3. AtWorkInv' /\ LostInv'
  BY DEF TrapInv, EmuInv, AtWorkInv, LostInv, Waiting, HandedBack, OnStack, SwitchTask
<1>4. StackInv'  BY SameStacks DEF SwitchTask
<1>5. LockInv'  BY DEF TrapInv, EmuInv, LockInv, Held, SwitchTask
<1>. QED  BY <1>1, <1>2, <1>3, <1>4, <1>5 DEF TrapInv

LEMMA HandleKeeps ==
    ASSUME TrapInv, NEW c \in Contexts, HandleExtendedTrap(c) PROVE TrapInv'
<1>1. /\ emu = "cpu" /\ pc[cur] = "code" /\ tpc[c] = "free"
      /\ emu' = "wait" /\ ectx' = c
      /\ to_trap' = [to_trap EXCEPT ![c] = to_trap[c] + 1]
      /\ saved' = [saved EXCEPT ![c] = cur] /\ calls' = [calls EXCEPT ![c] = 0]
      /\ UNCHANGED <<amiga, lock, to_emu, thread_done, history>>
  BY DEF HandleExtendedTrap
<1>2. PICK place \in {"queued", "start"}, b \in BOOLEAN :
         tpc' = [tpc EXCEPT ![c] = place] /\ pooled' = [pooled EXCEPT ![c] = b]
  BY DEF HandleExtendedTrap
<1>3. busy' \in BOOLEAN  BY DEF HandleExtendedTrap, TrapInv, TypeOK
<1>4. to_trap[c] = 0 /\ to_emu[c] = 0 /\ thread_done[c] = 0
  BY <1>1, Facts DEF TrapInv, RestInv, DoneInv, Waiting
<1>5. tpc' \in [Contexts -> Active \cup {"free", "queued", "clear_busy", "post_done",
                                        "ended"}]
  BY <1>2 DEF TrapInv, TypeOK, Active
<1>6. TypeOK'  BY <1>1, <1>2, <1>3, <1>4, <1>5, Facts DEF TrapInv, TypeOK
<1>7. EmuInv'  BY <1>1, <1>2 DEF TrapInv, EmuInv
<1>8. WaitInv' /\ RestInv' /\ DoneInv'
  BY <1>1, <1>2, <1>4, Facts DEF TrapInv, TypeOK, WaitInv, RestInv, DoneInv, Waiting,
     HandedBack
<1>9. \A t \in Tasks : ~OnStack(c, t)  BY <1>1, AtWorkOffStack
<1>10. c \notin lost  BY <1>1 DEF TrapInv, LostInv
<1>11. AtWorkInv' /\ LostInv'
  BY <1>1, <1>2, <1>9, <1>10 DEF TrapInv, TypeOK, AtWorkInv, LostInv, Waiting,
     HandedBack, OnStack
<1>12. StackInv'  BY <1>1, <1>2, <1>9, SameStacks DEF TrapInv, TypeOK
<1>13. LockInv'  BY <1>1, <1>2 DEF TrapInv, TypeOK, LockInv, Held
<1>. QED  BY <1>6, <1>7, <1>8, <1>11, <1>12, <1>13 DEF TrapInv

LEMMA ReturnToCpuKeeps == ASSUME TrapInv, ReturnToCpu PROVE TrapInv'
<1>1. /\ ectx \in Contexts /\ to_trap[ectx] = 0 /\ to_emu[ectx] = 1
      /\ Waiting(ectx) /\ HandedBack(ectx)
  BY Facts DEF TrapInv, EmuInv, WaitInv, Waiting, ReturnToCpu
<1>2. /\ emu' = "cpu" /\ to_emu' = [to_emu EXCEPT ![ectx] = 0]
      /\ UNCHANGED <<amiga, ectx, threads, lock, to_trap, thread_done, history>>
  BY <1>1 DEF ReturnToCpu
<1>3. TypeOK' /\ EmuInv'  BY <1>1, <1>2, Facts DEF TrapInv, TypeOK, EmuInv
<1>4. WaitInv' /\ RestInv' /\ DoneInv'
  BY <1>1, <1>2, Facts DEF TrapInv, TypeOK, EmuInv, WaitInv, RestInv, DoneInv,
     Waiting, HandedBack
<1>5. AtWorkInv' /\ LostInv'
  BY <1>1, <1>2 DEF TrapInv, AtWorkInv, LostInv, Waiting, HandedBack, OnStack
<1>6. StackInv'  BY <1>2, SameStacks
<1>7. LockInv'  BY <1>1, <1>2 DEF TrapInv, LockInv, Held, HandedBack
<1>. QED  BY <1>3, <1>4, <1>5, <1>6, <1>7 DEF TrapInv

LEMMA CallHandlerKeeps == ASSUME TrapInv, CallHandler PROVE TrapInv'
<1>. DEFINE c == current_context
<1>1. /\ emu = "cpu" /\ pc[cur] = "call" /\ c \in Contexts /\ HandedBack(c)
      /\ tpc[c] = "called" /\ saved[c] = cur /\ c \notin lost
      /\ trap_mutex = 0 /\ ~wedged
  BY DEF TrapInv, EmuInv, AtWorkInv, LockInv, Held, HandedBack, CallHandler
<1>2. /\ stack' = [stack EXCEPT ![cur] = Append(stack[cur], c)]
      /\ pc' = [pc EXCEPT ![cur] = "code"] /\ masked' = FALSE /\ trap_mutex' = 1
      /\ UNCHANGED <<cur, control, threads, current_context, sems, history>>
  BY <1>1 DEF CallHandler
<1>3. \A t \in Tasks : ~OnStack(c, t)  BY <1>1, AtWorkOffStack
<1>4. /\ stack' \in [Tasks -> Seq(Contexts)]
      /\ Len(stack'[cur]) = Len(stack[cur]) + 1 /\ stack'[cur][Len(stack[cur]) + 1] = c
      /\ \A i \in 1..Len(stack[cur]) : stack'[cur][i] = stack[cur][i]
      /\ \A t \in Tasks \ {cur} : stack'[t] = stack[t]
  BY <1>1, <1>2, Facts, AppendProperties DEF TrapInv, TypeOK
<1>5. \A d \in Contexts, t \in Tasks :
         OnStack(d, t)' <=> OnStack(d, t) \/ (t = cur /\ d = c)
  <2>1. SUFFICES ASSUME NEW d \in Contexts, NEW t \in Tasks
                 PROVE  OnStack(d, t)' <=> OnStack(d, t) \/ (t = cur /\ d = c)
    OBVIOUS
  <2>2. CASE t # cur  BY <2>2, <1>4 DEF OnStack
  <2>3. CASE t = cur
    <3>1. 1..Len(stack'[t]) = 1..Len(stack[t]) \cup {Len(stack[t]) + 1}
      BY <2>3, <1>4, Facts
    <3>. QED  BY <2>3, <3>1, <1>4, Facts DEF OnStack
  <2>. QED  BY <2>2, <2>3
<1>6. TypeOK'  BY <1>2, <1>4, Facts DEF TrapInv, TypeOK
<1>7. pc'[cur] = "code" /\ \A t \in Tasks : pc'[t] = "code"
  BY <1>2, Facts DEF TrapInv, TypeOK, EmuInv
<1>8. EmuInv'  BY <1>1, <1>2, <1>7, Facts DEF TrapInv, EmuInv
<1>9. WaitInv' /\ RestInv' /\ DoneInv'
  BY <1>1, <1>2 DEF TrapInv, WaitInv, RestInv, DoneInv, Waiting
<1>10. AtWorkInv'  BY <1>1, <1>2, <1>7 DEF AtWorkInv, Waiting, HandedBack
<1>11. StackInv'
  <2>1. \A t \in Tasks : \A i, j \in 1..Len(stack'[t]) :
           stack'[t][i] = stack'[t][j] => i = j
    <3>1. SUFFICES ASSUME NEW t \in Tasks, NEW i \in 1..Len(stack'[t]),
                          NEW j \in 1..Len(stack'[t]), stack'[t][i] = stack'[t][j]
                   PROVE  i = j
      OBVIOUS
    <3>2. CASE t # cur  BY <3>1, <3>2, <1>4 DEF TrapInv, StackInv
    <3>3. CASE t = cur
      <4>1. Len(stack[cur]) \in Nat /\ \A k \in 1..Len(stack[cur]) : stack[cur][k] # c
        BY <1>3, Facts DEF OnStack
      <4>2. i \in 1..Len(stack[cur]) \/ i = Len(stack[cur]) + 1
        BY <3>3, <4>1, <1>4
      <4>3. j \in 1..Len(stack[cur]) \/ j = Len(stack[cur]) + 1
        BY <3>3, <4>1, <1>4
      <4>. QED  BY <3>1, <3>3, <4>1, <4>2, <4>3, <1>4, Facts DEF TrapInv, StackInv
    <3>. QED  BY <3>2, <3>3
  <2>2. \A t \in Tasks, d \in Contexts : OnStack(d, t)' =>
           tpc'[d] = "called" /\ saved'[d] = t /\ d \notin lost'
    BY <1>1, <1>2, <1>5 DEF TrapInv, StackInv
  <2>. QED  BY <2>1, <2>2 DEF StackInv
<1>12. LostInv'
  BY <1>1, <1>2, <1>5, <1>7, Facts DEF TrapInv, TypeOK, LostInv, Waiting, HandedBack
<1>13. LockInv'  BY <1>1, <1>2, <1>7 DEF LockInv, Held
<1>. QED  BY <1>6, <1>8, <1>9, <1>10, <1>11, <1>12, <1>13 DEF TrapInv

LEMMA ReturnHandlerKeeps == ASSUME TrapInv, ReturnHandler PROVE TrapInv'
<1>. USE DEF ReturnHandler
<1>1. TypeOK' /\ EmuInv'  BY DEF TrapInv, TypeOK, EmuInv
<1>2. WaitInv' /\ RestInv' /\ DoneInv'
  BY DEF TrapInv, WaitInv, RestInv, DoneInv, Waiting
<1>3. AtWorkInv' /\ LostInv'
  BY DEF TrapInv, AtWorkInv, LostInv, Waiting, HandedBack, OnStack
<1>4. StackInv'  BY SameStacks
<1>5. LockInv'  BY DEF TrapInv, LockInv, Held
<1>. QED  BY <1>1, <1>2, <1>3, <1>4, <1>5 DEF TrapInv

LEMMA ReturnToTrapKeeps == ASSUME TrapInv, ReturnToTrap PROVE TrapInv'
<1>. DEFINE c == Last(stack[cur])
<1>1. stack[cur] \in Seq(Contexts) /\ stack[cur] # <<>> /\ Len(stack[cur]) \in Nat \ {0}
  BY Facts, EmptySeq DEF TrapInv, EmuInv, ReturnToTrap
<1>2. c \in Contexts /\ OnStack(c, cur)
  BY <1>1, Facts DEF Last
<1>3. /\ emu = "return" /\ pc[cur] = "code" /\ tpc[c] = "called" /\ saved[c] = cur
      /\ c \notin lost /\ to_trap[c] = 0 /\ to_emu[c] = 0
  BY <1>2, Facts DEF TrapInv, EmuInv, StackInv, RestInv, Waiting, ReturnToTrap
<1>4. /\ trap_mutex = 1 /\ ~wedged /\ ~Held
  BY DEF TrapInv, LockInv, ReturnToTrap
<1>5. /\ ectx' = c /\ emu' = "wait" /\ trap_mutex' = 0
      /\ to_trap' = [to_trap EXCEPT ![c] = 1]
      /\ stack' = [stack EXCEPT ![cur] = Front(stack[cur])]
      /\ UNCHANGED <<cur, masked, pc, threads, current_context, to_emu, thread_done,
                     history>>
  BY <1>2, <1>3, <1>4, Facts DEF ReturnToTrap
<1>6. /\ Front(stack[cur]) \in Seq(Contexts)
      /\ Len(Front(stack[cur])) = Len(stack[cur]) - 1
      /\ \A i \in 1..(Len(stack[cur]) - 1) : Front(stack[cur])[i] = stack[cur][i]
  BY <1>1, SubSeqProperties DEF Front
<1>7. /\ stack' \in [Tasks -> Seq(Contexts)]
      /\ Len(stack'[cur]) = Len(stack[cur]) - 1 /\ stack[cur][Len(stack[cur])] = c
      /\ \A i \in 1..(Len(stack[cur]) - 1) : stack'[cur][i] = stack[cur][i]
      /\ \A t \in Tasks \ {cur} : stack'[t] = stack[t]
  BY <1>5, <1>6, Facts DEF TrapInv, TypeOK, Last
<1>8. \A d \in Contexts, t \in Tasks :
         OnStack(d, t)' <=> OnStack(d, t) /\ d # c
  <2>1. SUFFICES ASSUME NEW d \in Contexts, NEW t \in Tasks
                 PROVE  OnStack(d, t)' <=> OnStack(d, t) /\ d # c
    OBVIOUS
  <2>2. CASE t = cur
    <3>1. 1..Len(stack[t]) = 1..Len(stack'[t]) \cup {Len(stack[t])}
      BY <2>2, <1>1, <1>7
    <3>2. \A i \in 1..Len(stack'[t]) : stack'[t][i] # c
      BY <2>2, <1>1, <1>7, Facts DEF TrapInv, StackInv
    <3>. QED  BY <2>2, <3>1, <3>2, <1>1, <1>7 DEF OnStack
  <2>3. CASE t # cur
    <3>1. OnStack(d, t)' <=> OnStack(d, t)  BY <2>3, <1>7 DEF OnStack
    <3>2. OnStack(d, t) => saved[d] = t  BY DEF TrapInv, StackInv
    <3>. QED  BY <2>3, <3>1, <3>2, <1>3
  <2>. QED  BY <2>2, <2>3
<1>9. TypeOK'  BY <1>2, <1>5, <1>7, Facts DEF TrapInv, TypeOK
<1>10. EmuInv'  BY <1>2, <1>3, <1>5 DEF TrapInv, EmuInv
<1>11. WaitInv' /\ RestInv' /\ DoneInv'
  BY <1>2, <1>3, <1>5, Facts DEF TrapInv, WaitInv, RestInv, DoneInv, Waiting
<1>12. AtWorkInv' /\ LostInv'
  BY <1>2, <1>3, <1>5, <1>8, Facts DEF TrapInv, TypeOK, AtWorkInv, LostInv, Waiting,
     HandedBack
<1>13. StackInv'
  <2>1. \A t \in Tasks : \A i, j \in 1..Len(stack'[t]) :
           stack'[t][i] = stack'[t][j] => i = j
    <3>1. \A t \in Tasks : \A i \in 1..Len(stack'[t]) :
             i \in 1..Len(stack[t]) /\ stack'[t][i] = stack[t][i]
      BY <1>1, <1>7
    <3>. QED  BY <3>1 DEF TrapInv, StackInv
  <2>2. \A t \in Tasks, d \in Contexts : OnStack(d, t)' =>
           tpc'[d] = "called" /\ saved'[d] = t /\ d \notin lost'
    BY <1>5, <1>8 DEF TrapInv, StackInv
  <2>. QED  BY <2>1, <2>2 DEF StackInv
<1>14. LockInv'  BY <1>3, <1>4, <1>5 DEF LockInv, Held
<1>. QED  BY <1>9, <1>10, <1>11, <1>12, <1>13, <1>14 DEF TrapInv

LEMMA ExitHandlerKeeps == ASSUME TrapInv, ExitHandler PROVE TrapInv'
<1>. USE DEF ExitHandler
<1>1. TypeOK' /\ EmuInv'  BY DEF TrapInv, TypeOK, EmuInv
<1>2. WaitInv' /\ RestInv' /\ DoneInv'
  BY DEF TrapInv, WaitInv, RestInv, DoneInv, Waiting
<1>3. AtWorkInv' /\ LostInv'
  BY DEF TrapInv, AtWorkInv, LostInv, Waiting, HandedBack, OnStack
<1>4. StackInv'  BY SameStacks
<1>5. LockInv'  BY DEF TrapInv, LockInv, Held
<1>. QED  BY <1>1, <1>2, <1>3, <1>4, <1>5 DEF TrapInv

LEMMA ExitTrapKeeps == ASSUME TrapInv, ExitTrap PROVE TrapInv'
<1>. DEFINE c == ectx
<1>1. /\ emu = "exit" /\ pc[cur] = "exit" /\ c \in Contexts /\ HandedBack(c)
      /\ tpc[c] \in {"clear_busy", "post_done", "ended"} /\ c \notin lost
      /\ trap_mutex = 0 /\ ~wedged
  BY DEF TrapInv, EmuInv, AtWorkInv, LockInv, Held, HandedBack, ExitTrap
<1>2. /\ pc' = [pc EXCEPT ![cur] = "code"] /\ masked' = FALSE /\ emu' = "cpu"
      /\ tpc' = [tpc EXCEPT ![c] = "free"] /\ trap_mutex' = 1
      /\ UNCHANGED <<cur, stack, ectx, context, busy, current_context, to_trap,
                     to_emu, history>>
  BY <1>1 DEF ExitTrap
<1>3. tpc[c] = "ended" /\ thread_done' = [thread_done EXCEPT ![c] = 0]
  <2>1. CASE pooled[c]  BY <2>1, <1>1, Facts DEF TrapInv, DoneInv, ExitTrap
  <2>2. CASE ~pooled[c]
    <3>1. tpc[c] = "ended" /\ thread_done' = thread_done  BY <2>2 DEF ExitTrap
    <3>2. thread_done[c] = 0  BY <2>2, <1>1 DEF TrapInv, DoneInv
    <3>. QED  BY <3>1, <3>2, <1>1, Facts
  <2>. QED  BY <2>1, <2>2
<1>4. \A t \in Tasks : pc'[t] = "code"
  BY <1>2 DEF TrapInv, TypeOK, EmuInv
<1>5. TypeOK'
  BY <1>2, <1>3, Facts DEF TrapInv, TypeOK
<1>6. EmuInv'  BY <1>2, <1>4, Facts DEF TrapInv, EmuInv
<1>7. WaitInv' /\ RestInv' /\ DoneInv'
  BY <1>1, <1>2, <1>3, Facts DEF TrapInv, TypeOK, WaitInv, RestInv, DoneInv, Waiting
<1>8. AtWorkInv' /\ LostInv'
  BY <1>1, <1>2, <1>4, Facts DEF TrapInv, TypeOK, AtWorkInv, LostInv, Waiting,
     HandedBack, OnStack
<1>9. StackInv'
  BY <1>1, <1>2, AtWorkOffStack, SameStacks DEF TrapInv, TypeOK
<1>10. LockInv'  BY <1>1, <1>2, <1>4, Facts DEF LockInv, Held
<1>. QED  BY <1>5, <1>6, <1>7, <1>8, <1>9, <1>10 DEF TrapInv

LEMMA EmuKeeps == ASSUME TrapInv, EmuStep PROVE TrapInv'
  BY ReturnToCpuKeeps, CallHandlerKeeps, ReturnToTrapKeeps, ExitHandlerKeeps,
     ExitTrapKeeps DEF EmuStep

\* Nothing changes but that the emulator ends.
LEMMA LeaveKeeps == ASSUME TrapInv, Leave \/ Left PROVE TrapInv'
<1>. /\ emu # "wait" /\ emu' \in {"leave", "left"}
     /\ UNCHANGED <<amiga, ectx, threads, lock, sems, history>>
  BY DEF Leave, Left
<1>1. TypeOK' /\ EmuInv'  BY DEF TrapInv, TypeOK, EmuInv
<1>2. WaitInv' /\ RestInv' /\ DoneInv'
  BY DEF TrapInv, WaitInv, RestInv, DoneInv, Waiting
<1>3. AtWorkInv' /\ LostInv'
  BY DEF TrapInv, AtWorkInv, LostInv, Waiting, HandedBack, OnStack
<1>4. StackInv'  BY SameStacks
<1>5. LockInv'  BY DEF TrapInv, LockInv, Held
<1>. QED  BY <1>1, <1>2, <1>3, <1>4, <1>5 DEF TrapInv

LEMMA ResetKeeps == ASSUME TrapInv, Reset PROVE TrapInv'
<1>. USE DEF Reset
<1>1. stack' \in [Tasks -> Seq(Contexts)] /\ \A t \in Tasks : stack'[t] = <<>>
  BY EmptySeq
<1>2. \A c, t : t \in Tasks => ~OnStack(c, t)'  BY <1>1 DEF OnStack
<1>3. TypeOK' /\ EmuInv'
  <2>1. /\ lost' \in SUBSET Contexts /\ pc' \in [Tasks -> {"code", "call", "exit"}]
        /\ resets' \in Nat /\ wedged' \in BOOLEAN
    BY DEF TrapInv, TypeOK
  <2>2. TypeOK'  BY <2>1, <1>1 DEF TrapInv, TypeOK
  <2>3. EmuInv'  BY <1>1 DEF TrapInv, TypeOK, EmuInv
  <2>. QED  BY <2>2, <2>3
<1>4. WaitInv' /\ RestInv' /\ DoneInv'
  BY DEF TrapInv, WaitInv, RestInv, DoneInv, Waiting
<1>5. AtWorkInv' /\ LostInv'
  BY <1>2 DEF TrapInv, AtWorkInv, LostInv, Waiting, HandedBack
<1>6. StackInv'  BY <1>1, <1>2 DEF StackInv
<1>7. LockInv'  BY DEF TrapInv, LockInv, Held
<1>. QED  BY <1>3, <1>4, <1>5, <1>6, <1>7 DEF TrapInv

-----------------------------------------------------------------------------
(* The threads. *)

\* A thread that goes from one place to the next, and does nothing else but to count
\* its calls or to clear busy.
LEMMA QuietKeeps ==
    ASSUME TrapInv, NEW c \in Contexts, NEW place,
           \/ tpc[c] = "queued" /\ place = "start"
           \/ tpc[c] = "handler" /\ place \in {"call", "exit"}
           \/ tpc[c] = "clear_busy" /\ place = "post_done",
           tpc' = [tpc EXCEPT ![c] = place],
           calls' \in [Contexts -> Nat], busy' \in BOOLEAN,
           UNCHANGED <<amiga, control, saved, pooled, lock, sems, history>>
    PROVE  TrapInv'
<1>1. place \in Active \cup {"post_done"} /\ place \notin {"free", "ended", "set_call",
                             "set_exit", "called", "woken"}
  BY DEF Active
<1>2. TypeOK' /\ EmuInv'
  <2>1. TypeOK'  BY <1>1 DEF TrapInv, TypeOK
  <2>2. \A d \in Contexts : tpc[d] \in {"called", "post_done", "ended"} => tpc'[d] = tpc[d]
    BY DEF TrapInv, TypeOK
  <2>3. \A d \in Contexts : tpc[d] = "clear_busy" => tpc'[d] \in {"clear_busy", "post_done"}
    BY DEF TrapInv, TypeOK
  <2>4. EmuInv'  BY <2>2, <2>3 DEF TrapInv, EmuInv
  <2>. QED  BY <2>1, <2>4
<1>3. WaitInv'
  BY <1>1 DEF TrapInv, TypeOK, EmuInv, WaitInv, Waiting, HandedBack, Active
<1>4. RestInv' /\ DoneInv'
  BY <1>1 DEF TrapInv, TypeOK, RestInv, DoneInv, Waiting
<1>5. AtWorkInv' /\ LostInv'
  <2>1. \A d \in Contexts : tpc'[d] # "free" <=> tpc[d] # "free"
    BY <1>1 DEF TrapInv, TypeOK
  <2>2. AtWorkInv'
    BY <2>1 DEF TrapInv, AtWorkInv, Waiting, HandedBack, OnStack
  <2>3. LostInv'
    BY <2>1 DEF TrapInv, TypeOK, LostInv, Waiting, HandedBack, OnStack
  <2>. QED  BY <2>2, <2>3
<1>6. StackInv'  BY AtWorkOffStack, SameStacks DEF TrapInv, TypeOK
<1>7. LockInv'  BY <1>1 DEF TrapInv, TypeOK, LockInv, Held
<1>. QED  BY <1>2, <1>3, <1>4, <1>5, <1>6, <1>7 DEF TrapInv

LEMMA QuietStepKeeps ==
    ASSUME TrapInv, NEW c \in Contexts,
           PoolRead(c) \/ HandlerGoesOn(c) \/ ClearBusy(c)
    PROVE  TrapInv'
<1>1. CASE PoolRead(c)
  <2>1. /\ tpc[c] = "queued" /\ tpc' = [tpc EXCEPT ![c] = "start"]
        /\ calls' \in [Contexts -> Nat] /\ busy' \in BOOLEAN
        /\ UNCHANGED <<amiga, control, saved, pooled, lock, sems, history>>
    BY <1>1 DEF PoolRead, TrapInv, TypeOK
  <2>. QED  BY <2>1, QuietKeeps
<1>2. CASE HandlerGoesOn(c)
  <2>1. /\ tpc[c] = "handler" /\ calls' \in [Contexts -> Nat] /\ busy' \in BOOLEAN
        /\ UNCHANGED <<amiga, control, saved, pooled, lock, sems, history>>
    BY <1>2 DEF HandlerGoesOn, TrapInv, TypeOK
  <2>2. PICK place \in {"call", "exit"} : tpc' = [tpc EXCEPT ![c] = place]
    BY <1>2 DEF HandlerGoesOn
  <2>. QED  BY <2>1, <2>2, QuietKeeps
<1>3. CASE ClearBusy(c)
  <2>1. /\ tpc[c] = "clear_busy" /\ tpc' = [tpc EXCEPT ![c] = "post_done"]
        /\ calls' \in [Contexts -> Nat] /\ busy' \in BOOLEAN
        /\ UNCHANGED <<amiga, control, saved, pooled, lock, sems, history>>
    BY <1>3 DEF ClearBusy, TrapInv, TypeOK
  <2>. QED  BY <2>1, QuietKeeps
<1>. QED  BY <1>1, <1>2, <1>3

\* The handler gets control, at its start or after a call.
LEMMA WokenKeeps ==
    ASSUME TrapInv, NEW c \in Contexts, StartHandler(c) \/ Woken(c) PROVE TrapInv'
<1>1. /\ Waiting(c) /\ to_trap[c] = 1 /\ to_emu[c] = 0 /\ pc[cur] = "code"
      /\ tpc[c] \in {"start", "called"}
  BY DEF TrapInv, WaitInv, RestInv, StartHandler, Woken
<1>2. PICK place \in {"handler", "woken"} :
         /\ tpc' = [tpc EXCEPT ![c] = place]
         /\ tpc[c] = "called" <=> place = "woken"
  BY DEF StartHandler, Woken
<1>3. /\ to_trap' = [to_trap EXCEPT ![c] = 0]
      /\ UNCHANGED <<amiga, control, context, busy, lock, to_emu, thread_done, history>>
  BY <1>1, Facts DEF StartHandler, Woken
<1>4. TypeOK' /\ EmuInv'
  BY <1>1, <1>2, <1>3, Facts DEF TrapInv, TypeOK, EmuInv, Active, Waiting
<1>5. WaitInv' /\ RestInv' /\ DoneInv'
  BY <1>1, <1>2, <1>3, Facts DEF TrapInv, TypeOK, WaitInv, RestInv, DoneInv, Waiting,
     Active
<1>6. \A t \in Tasks : ~OnStack(c, t)  BY <1>1, AtWorkOffStack
<1>7. AtWorkInv' /\ LostInv'
  BY <1>1, <1>2, <1>3 DEF TrapInv, TypeOK, AtWorkInv, LostInv, Waiting, HandedBack,
     OnStack
<1>8. StackInv'  BY <1>2, <1>3, <1>6, SameStacks DEF TrapInv, TypeOK
<1>9. LockInv'  BY <1>1, <1>2, <1>3 DEF TrapInv, TypeOK, LockInv, Held, Waiting
<1>. QED  BY <1>4, <1>5, <1>7, <1>8, <1>9 DEF TrapInv

\* The handler takes trap_mutex before it hands control back, or releases it when the
\* 68k function has returned.
LEMMA MutexKeeps ==
    ASSUME TrapInv, NEW c \in Contexts, TakeMutex(c) \/ CallReturns(c) PROVE TrapInv'
<1>1. Waiting(c) /\ pc[cur] = "code" /\ to_trap[c] = 0 /\ to_emu[c] = 0
  BY DEF TrapInv, WaitInv, RestInv, HandedBack, EmuInv, TakeMutex, CallReturns, TypeOK
<1>2. PICK place \in {"set_call", "set_exit", "handler"} :
         /\ tpc' = [tpc EXCEPT ![c] = place]
         /\ tpc[c] = "woken" <=> place = "handler"
         /\ tpc[c] \in {"call", "exit", "woken"}
  BY DEF TakeMutex, CallReturns
<1>3. UNCHANGED <<amiga, control, context, busy, current_context, sems, history>>
  BY DEF TakeMutex, CallReturns
<1>4. trap_mutex' = IF place = "handler" THEN 1 ELSE 0
  <2>1. CASE TakeMutex(c)
    BY <2>1, <1>2 DEF TakeMutex, TrapInv, TypeOK
  <2>2. CASE CallReturns(c)
    <3>1. tpc[c] = "woken" /\ trap_mutex' = trap_mutex + 1
      BY <2>2 DEF CallReturns
    <3>2. trap_mutex = 0
      BY <3>1, <1>1 DEF TrapInv, LockInv, Held, Waiting
    <3>. QED  BY <3>1, <3>2, <1>2
  <2>. QED  BY <2>1, <2>2
<1>5. TypeOK' /\ EmuInv'
  BY <1>1, <1>2, <1>3, <1>4 DEF TrapInv, TypeOK, EmuInv, Active, Waiting
<1>6. WaitInv' /\ RestInv' /\ DoneInv'
  BY <1>1, <1>2, <1>3 DEF TrapInv, TypeOK, WaitInv, RestInv, DoneInv, Waiting, Active
<1>7. \A t \in Tasks : ~OnStack(c, t)  BY <1>1, AtWorkOffStack
<1>8. AtWorkInv' /\ LostInv'
  BY <1>1, <1>2, <1>3 DEF TrapInv, TypeOK, AtWorkInv, LostInv, Waiting, HandedBack,
     OnStack
<1>9. StackInv'  BY <1>2, <1>3, <1>7, SameStacks DEF TrapInv, TypeOK
<1>10. LockInv'
  <2>1. ~wedged
    <3>1. CASE TakeMutex(c)  BY <3>1 DEF TakeMutex, TrapInv, LockInv
    <3>2. CASE CallReturns(c)
      BY <3>2, <1>1 DEF CallReturns, TrapInv, LockInv, Held, Waiting
    <3>. QED  BY <3>1, <3>2
  <2>. QED  BY <2>1, <1>1, <1>2, <1>3, <1>4 DEF TrapInv, TypeOK, LockInv, Held, Waiting
<1>. QED  BY <1>5, <1>6, <1>8, <1>9, <1>10 DEF TrapInv

LEMMA SwitchToEmuKeeps ==
    ASSUME TrapInv, NEW c \in Contexts, SwitchToEmu(c) PROVE TrapInv'
<1>1. /\ Waiting(c) /\ pc[cur] = "code" /\ to_trap[c] = 0 /\ to_emu[c] = 0
      /\ tpc[c] \in {"set_call", "set_exit"} /\ saved[c] = cur /\ c \notin lost
  BY DEF TrapInv, TypeOK, WaitInv, RestInv, EmuInv, AtWorkInv, HandedBack, SwitchToEmu
<1>2. PICK place \in {"called", "clear_busy", "ended"}, q \in {"call", "exit"} :
         /\ tpc' = [tpc EXCEPT ![c] = place] /\ pc' = [pc EXCEPT ![cur] = q]
         /\ place = "called" <=> q = "call"
         /\ place = "ended" => ~pooled[c]
         /\ place = "clear_busy" => pooled[c]
  BY DEF SwitchToEmu
<1>3. /\ current_context' = c /\ masked' = TRUE /\ to_emu' = [to_emu EXCEPT ![c] = 1]
      /\ UNCHANGED <<cur, stack, control, context, busy, trap_mutex, to_trap,
                     thread_done, history>>
  BY <1>1 DEF SwitchToEmu
<1>4. pc'[cur] = q /\ \A t \in Tasks \ {cur} : pc'[t] = "code"
  BY <1>1, <1>2, Facts DEF TrapInv, TypeOK, EmuInv
<1>5. TypeOK'
  BY <1>2, <1>3, Facts DEF TrapInv, TypeOK, Active
<1>6. EmuInv'
  BY <1>1, <1>2, <1>3, <1>4 DEF TrapInv, TypeOK, EmuInv, Waiting
<1>7. WaitInv' /\ RestInv' /\ DoneInv'
  <2>1. WaitInv'
    BY <1>1, <1>2, <1>3, <1>4, Facts DEF WaitInv, Waiting, HandedBack
  <2>2. RestInv'
    BY <1>1, <1>2, <1>3, Facts DEF TrapInv, TypeOK, RestInv, Waiting
  <2>3. DoneInv'
    BY <1>1, <1>2, <1>3, Facts DEF TrapInv, TypeOK, DoneInv
  <2>. QED  BY <2>1, <2>2, <2>3
<1>8. \A t \in Tasks : ~OnStack(c, t)  BY <1>1, AtWorkOffStack
<1>9. AtWorkInv' /\ LostInv'
  BY <1>1, <1>2, <1>3, <1>4, <1>8 DEF TrapInv, TypeOK, AtWorkInv, LostInv, Waiting,
     HandedBack, OnStack
<1>10. StackInv'  BY <1>2, <1>3, <1>8, SameStacks DEF TrapInv, TypeOK
<1>11. LockInv'  BY <1>1, <1>2, <1>3, <1>4 DEF TrapInv, LockInv, Held, Waiting
<1>. QED  BY <1>5, <1>6, <1>7, <1>9, <1>10, <1>11 DEF TrapInv

LEMMA PostDoneKeeps == ASSUME TrapInv, NEW c \in Contexts, PostDone(c) PROVE TrapInv'
<1>1. tpc[c] = "post_done" /\ thread_done[c] = 0
  BY DEF TrapInv, DoneInv, PostDone
<1>2. pooled[c] /\ ~(tpc[c] \in {"ended", "free", "called"})
  BY <1>1 DEF TrapInv, DoneInv
<1>3. /\ tpc' = [tpc EXCEPT ![c] = "ended"] /\ thread_done' = [thread_done EXCEPT ![c] = 1]
      /\ UNCHANGED <<amiga, control, context, busy, lock, to_trap, to_emu, history>>
  BY <1>1 DEF PostDone
<1>4. TypeOK' /\ EmuInv'  BY <1>1, <1>3, Facts DEF TrapInv, TypeOK, EmuInv
<1>5. WaitInv' /\ RestInv'
  BY <1>1, <1>3 DEF TrapInv, TypeOK, WaitInv, RestInv, Waiting, HandedBack, Active
<1>6. DoneInv'  BY <1>1, <1>2, <1>3, Facts DEF TrapInv, TypeOK, DoneInv
<1>7. AtWorkInv' /\ LostInv'
  BY <1>1, <1>3 DEF TrapInv, TypeOK, AtWorkInv, LostInv, Waiting, HandedBack, OnStack
<1>8. \A t \in Tasks : ~OnStack(c, t)  BY <1>1, AtWorkOffStack
<1>9. StackInv'  BY <1>3, <1>8, SameStacks DEF TrapInv, TypeOK
<1>10. LockInv'  BY <1>1, <1>3 DEF TrapInv, TypeOK, LockInv, Held
<1>. QED  BY <1>4, <1>5, <1>6, <1>7, <1>9, <1>10 DEF TrapInv

LEMMA ThreadKeeps == ASSUME TrapInv, NEW c \in Contexts, TrapStep(c) PROVE TrapInv'
  BY QuietStepKeeps, WokenKeeps, MutexKeeps, SwitchToEmuKeeps, PostDoneKeeps
     DEF TrapStep

-----------------------------------------------------------------------------
LEMMA TrapInvStep == TrapInv /\ [Next]_vars => TrapInv'
<1>. SUFFICES ASSUME TrapInv, [Next]_vars PROVE TrapInv'
  OBVIOUS
<1>1. CASE \E t \in Tasks : SwitchTask(t)  BY <1>1, SwitchKeeps
<1>2. CASE \E c \in Contexts : HandleExtendedTrap(c) \/ TrapStep(c)
  BY <1>2, HandleKeeps, ThreadKeeps
<1>3. CASE ReturnHandler \/ EmuStep  BY <1>3, ReturnHandlerKeeps, EmuKeeps
<1>4. CASE Reset \/ Leave \/ Left  BY <1>4, ResetKeeps, LeaveKeeps
<1>5. CASE UNCHANGED vars
  <2>1. TypeOK' /\ EmuInv' /\ LockInv'
    BY <1>5 DEF vars, TrapInv, TypeOK, EmuInv, LockInv, Held
  <2>2. WaitInv' /\ RestInv' /\ DoneInv'
    BY <1>5 DEF vars, TrapInv, WaitInv, RestInv, DoneInv, Waiting, HandedBack
  <2>3. AtWorkInv' /\ StackInv' /\ LostInv'
    BY <1>5 DEF vars, TrapInv, AtWorkInv, StackInv, LostInv, Waiting, HandedBack, OnStack
  <2>. QED  BY <2>1, <2>2, <2>3 DEF TrapInv
<1>. QED  BY <1>1, <1>2, <1>3, <1>4, <1>5 DEF Next

(* The inductive invariant holds in every behaviour. *)
THEOREM TrapInvariant == Spec => []TrapInv
  BY TrapInvInit, TrapInvStep, PTL DEF Spec

(* Types, and with them: no semaphore of a trap counts above one, nor does
   trap_mutex, which one thread takes and another one gives back. *)
THEOREM TypeCorrect == Spec => []TypeOK
<1>1. TrapInv => TypeOK  BY DEF TrapInv
<1>. QED  BY <1>1, TrapInvariant, PTL

(* The emulated registers have one user at a time: the emulation thread, or the
   thread of one trap, or nobody while control is handed over. *)
THEOREM OneThreadInControl == Spec => []OneInControl
<1>1. ASSUME TrapInv PROVE OneInControl
  <2>1. CASE emu # "wait"
    <3>1. Handlers = {} /\ HandingOver = {}
      BY <1>1, <2>1, Facts DEF TrapInv, RestInv, Waiting, Handlers, HandingOver, Active
    <3>. QED  BY <2>1, <3>1, FS_EmptySet DEF OneInControl
  <2>2. CASE emu = "wait"
    <3>1. ectx \in Contexts /\ Waiting(ectx)
      BY <1>1, <2>2 DEF TrapInv, EmuInv, Waiting
    <3>2. \A c \in Contexts \ {ectx} : c \notin Handlers /\ c \notin HandingOver
      BY <1>1, Facts DEF TrapInv, RestInv, Waiting, Handlers, HandingOver, Active
    <3>3. \/ Handlers = {ectx} /\ HandingOver = {}
          \/ Handlers = {} /\ HandingOver = {ectx}
      BY <1>1, <3>1, <3>2 DEF TrapInv, WaitInv, EmuInv, TypeOK, HandedBack, Handlers,
         HandingOver, Active
    <3>4. Cardinality({ectx}) = 1 /\ Cardinality({}) = 0
      BY FS_EmptySet, FS_Singleton
    <3>. QED  BY <2>2, <3>3, <3>4 DEF OneInControl
  <2>. QED  BY <2>1, <2>2
<1>. QED  BY <1>1, TrapInvariant, PTL

(* Nobody uses a context that was freed, and it leaves no count behind in its
   semaphores for the trap that gets it next. *)
THEOREM FreedStaysUnused == Spec => []FreedIsUnused
<1>1. ASSUME TrapInv PROVE FreedIsUnused
  <2>1. SUFFICES ASSUME NEW c \in Contexts, tpc[c] = "free"
                 PROVE  /\ to_trap[c] = 0 /\ to_emu[c] = 0 /\ thread_done[c] = 0
                        /\ emu \in {"wait", "exit"} => ectx # c
                        /\ \A t \in Tasks : c \notin ToSet(stack[t])
                        /\ emu = "cpu" /\ pc[cur] # "code" => current_context # c
    BY DEF FreedIsUnused
  <2>2. ~Waiting(c) /\ ~HandedBack(c)
    BY <1>1, <2>1 DEF TrapInv, AtWorkInv
  <2>3. \A t \in Tasks : c \notin ToSet(stack[t])
    BY <1>1, <2>1, AtWorkOffStack, Facts, LenProperties DEF ToSet, OnStack
  <2>4. emu = "exit" => HandedBack(ectx)
    BY <1>1 DEF TrapInv, EmuInv, HandedBack
  <2>. QED
    BY <1>1, <2>1, <2>2, <2>3, <2>4 DEF TrapInv, RestInv, DoneInv, Waiting, HandedBack
<1>. QED  BY <1>1, TrapInvariant, PTL

-----------------------------------------------------------------------------
(* The refinement.  Of the contexts that are not lost one at most is at work; the
   frames of a task are its stack, with the trap at work on top. *)

AtWork(c) == Waiting(c) \/ HandedBack(c)

FrRunning == IF Running = {} THEN None ELSE CHOOSE c \in Running : TRUE

FrFrames ==
    [t \in Tasks |-> stack[t] \o SetToSeq({c \in Running : saved[c] = t})]

LEMMA SetToSeqSmall ==
    SetToSeq({}) = <<>> /\ \A c : SetToSeq({c}) = <<c>>
<1>1. SetToSeq({}) = <<>>
  <2>1. Cardinality({}) = 0  BY FS_EmptySet
  <2>2. <<>> \in [1..0 -> {}] /\ \A f \in [1..0 -> {}] : f = <<>>
    OBVIOUS
  <2>3. IsInjective(<<>>)  BY DEF IsInjective
  <2>. QED  BY <2>1, <2>2, <2>3 DEF SetToSeq
<1>2. ASSUME NEW c PROVE SetToSeq({c}) = <<c>>
  <2>1. Cardinality({c}) = 1  BY FS_Singleton
  <2>2. <<c>> \in [1..1 -> {c}] /\ \A f \in [1..1 -> {c}] : f = <<c>>
    OBVIOUS
  <2>3. IsInjective(<<c>>)  BY DEF IsInjective
  <2>. QED  BY <2>1, <2>2, <2>3 DEF SetToSeq
<1>. QED  BY <1>1, <1>2

LEMMA OneAtWork ==
    ASSUME TrapInv, NEW c \in Contexts, NEW d \in Contexts, AtWork(c), AtWork(d)
    PROVE  c = d
  BY DEF TrapInv, WaitInv, AtWork, Waiting, HandedBack

LEMMA RunningAtWork == ASSUME TrapInv PROVE Running = {c \in Contexts : AtWork(c)}
<1>1. ASSUME NEW c \in Contexts PROVE c \in ToSet(stack[saved[c]]) <=> OnStack(c, saved[c])
  <2>1. stack[saved[c]] \in Seq(Contexts)  BY DEF TrapInv, TypeOK
  <2>. QED  BY <2>1, LenProperties DEF ToSet, OnStack
<1>2. ASSUME NEW c \in Contexts
      PROVE  AtWork(c) <=> c \notin lost /\ tpc[c] # "free" /\ ~OnStack(c, saved[c])
  BY DEF TrapInv, TypeOK, AtWorkInv, LostInv, AtWork
<1>. QED  BY <1>1, <1>2 DEF Running

LEMMA FramesAtWork ==
    ASSUME TrapInv, NEW c \in Contexts, AtWork(c)
    PROVE  /\ FrRunning = c
           /\ FrFrames = [stack EXCEPT ![cur] = Append(stack[cur], c)]
<1>1. Running = {c}  BY RunningAtWork, OneAtWork
<1>2. FrRunning = c  BY <1>1 DEF FrRunning
<1>3. saved[c] = cur  BY DEF TrapInv, AtWorkInv, AtWork
<1>4. \A t \in Tasks : {d \in Running : saved[d] = t} = IF t = cur THEN {c} ELSE {}
  BY <1>1, <1>3
<1>5. \A t \in Tasks : stack[t] \o SetToSeq({d \in Running : saved[d] = t})
                          = IF t = cur THEN Append(stack[cur], c) ELSE stack[t]
  <2>1. \A t \in Tasks : stack[t] \o <<>> = stack[t] /\ stack[t] \o <<c>> = Append(stack[t], c)
    BY Facts, ConcatEmptySeq, AppendIsConcat
  <2>. QED  BY <1>4, <2>1, SetToSeqSmall
<1>. QED  BY <1>2, <1>5 DEF FrFrames, TrapInv, TypeOK

LEMMA FramesIdle ==
    ASSUME TrapInv, \A c \in Contexts : ~AtWork(c)
    PROVE  FrRunning = None /\ FrFrames = stack
<1>1. Running = {}  BY RunningAtWork
<1>2. \A t \in Tasks : {d \in Running : saved[d] = t} = {}  BY <1>1
<1>3. \A t \in Tasks : stack[t] \o <<>> = stack[t]  BY Facts, ConcatEmptySeq
<1>. QED  BY <1>1, <1>2, <1>3, SetToSeqSmall DEF FrRunning, FrFrames, TrapInv, TypeOK

LEMMA FramesInit == Init => Frames!Init
<1>. SUFFICES ASSUME Init PROVE Frames!Init
  OBVIOUS
<1>1. FrRunning = None /\ FrFrames = [t \in Tasks |-> <<>>]
  BY TrapInvInit, FramesIdle DEF Init, AtWork, Waiting, HandedBack
<1>. QED  BY <1>1 DEF Init, Frames!Init, FrRunning, FrFrames

\* What the mapping says of a state, so that it can be said of the next one.
Shape ==
    /\ \A c \in Contexts : AtWork(c) =>
          /\ FrRunning = c
          /\ FrFrames = [stack EXCEPT ![cur] = Append(stack[cur], c)]
    /\ (\A c \in Contexts : ~AtWork(c)) => FrRunning = None /\ FrFrames = stack

LEMMA ShapeHolds == TrapInv => Shape
  BY FramesAtWork, FramesIdle DEF Shape

LEMMA FramesStutter ==
    ASSUME Shape, Shape', UNCHANGED <<cur, stack>>,
           \A c \in Contexts : AtWork(c)' <=> AtWork(c)
    PROVE  UNCHANGED Frames!vars
<1>1. FrRunning' = FrRunning /\ FrFrames' = FrFrames
  BY DEF Shape
<1>. QED  BY <1>1 DEF Frames!vars, FrRunning, FrFrames

LEMMA FrontLastOfAppend ==
    ASSUME NEW S, NEW s \in Seq(S), NEW e \in S
    PROVE  Front(Append(s, e)) = s /\ Last(Append(s, e)) = e
  BY AppendProperties, LenProperties, SubSeqProperties, SeqEqual DEF Front, Last

LEMMA AppendOfFront ==
    ASSUME NEW S, NEW s \in Seq(S), s # <<>>
    PROVE  Append(Front(s), Last(s)) = s
  BY LenProperties, EmptySeq, SubSeqProperties DEF Front, Last

LEMMA FramesStep ==
    ASSUME TrapInv, TrapInv', [Next]_vars PROVE [Frames!Next]_Frames!vars
<1>. Shape /\ Shape'  BY ShapeHolds, PTL
<1>1. CASE \E t \in Tasks : SwitchTask(t)
  <2>1. PICK t \in Tasks : SwitchTask(t)  BY <1>1
  <2>2. \A c \in Contexts : ~AtWork(c) /\ ~AtWork(c)'
    BY <2>1 DEF SwitchTask, AtWork, Waiting, HandedBack, TrapInv, EmuInv
  <2>3. FrRunning = None /\ UNCHANGED <<FrRunning, FrFrames>> /\ cur' = t
    BY <2>1, <2>2 DEF Shape, SwitchTask
  <2>4. Frames!Switch(t)  BY <2>3 DEF Frames!Switch, FrRunning, FrFrames
  <2>. QED  BY <2>4 DEF Frames!Next
<1>2. ASSUME NEW c \in Contexts, HandleExtendedTrap(c) PROVE Frames!Next
  <2>1. emu = "cpu" /\ pc[cur] = "code" /\ tpc[c] = "free"
        /\ emu' = "wait" /\ ectx' = c /\ UNCHANGED <<cur, pc, stack, current_context>>
    BY <1>2 DEF HandleExtendedTrap
  <2>2. /\ \A d \in Contexts : ~AtWork(d)
        /\ AtWork(c)'
    BY <2>1 DEF AtWork, Waiting, HandedBack
  <2>3. /\ FrRunning = None /\ FrFrames = stack /\ FrRunning' = c
        /\ FrFrames' = [stack EXCEPT ![cur] = Append(stack[cur], c)]
    BY <2>1, <2>2 DEF Shape
  <2>4. \A t \in Tasks : c \notin ToSet(stack[t])
    BY <2>1, AtWorkOffStack, Facts, LenProperties DEF ToSet, OnStack
  <2>5. /\ \A t \in Tasks : c \notin ToSet(FrFrames[t])
        /\ FrFrames' = [FrFrames EXCEPT ![cur] = Append(FrFrames[cur], c)]
    BY <2>3, <2>4
  <2>6. Frames!Trap(c) <=>
           /\ FrRunning = None /\ \A t \in Tasks : c \notin ToSet(FrFrames[t])
           /\ FrRunning' = c
           /\ FrFrames' = [FrFrames EXCEPT ![cur] = Append(FrFrames[cur], c)]
           /\ UNCHANGED cur
    BY DEF Frames!Trap, Frames!ToSet, ToSet, FrRunning, FrFrames
  <2>7. Frames!Trap(c)  BY <2>1, <2>3, <2>5, <2>6
  <2>. QED  BY <2>7 DEF Frames!Next
<1>3. CASE CallHandler
  <2>1. /\ emu = "cpu" /\ pc[cur] = "call" /\ current_context \in Contexts
        /\ stack' = [stack EXCEPT ![cur] = Append(stack[cur], current_context)]
        /\ pc' = [pc EXCEPT ![cur] = "code"] /\ UNCHANGED <<cur, emu>>
    BY <1>3 DEF CallHandler, TrapInv, EmuInv
  <2>2. AtWork(current_context) /\ \A c \in Contexts : ~AtWork(c)'
    BY <2>1, Facts DEF AtWork, Waiting, HandedBack, TrapInv, TypeOK
  <2>3. /\ FrRunning = current_context /\ FrRunning' = None /\ FrFrames' = FrFrames
    BY <2>1, <2>2 DEF Shape
  <2>4. Frames!Call68k
    BY <2>1, <2>3, NoneAssumption DEF Frames!Call68k, FrRunning, FrFrames
  <2>. QED  BY <2>4 DEF Frames!Next
<1>4. CASE ReturnToTrap
  <2>1. /\ emu = "return" /\ pc[cur] = "code" /\ stack[cur] # <<>>
        /\ stack[cur] \in Seq(Contexts) /\ ectx' = Last(stack[cur]) /\ emu' = "wait"
        /\ stack' = [stack EXCEPT ![cur] = Front(stack[cur])]
        /\ UNCHANGED <<cur, pc>>
    BY <1>4, Facts DEF ReturnToTrap, TrapInv, EmuInv
  <2>2. PICK c \in Contexts : c = Last(stack[cur])
    BY <2>1, LenProperties, EmptySeq, ElementOfSeq DEF Last
  <2>3. AtWork(c)' /\ \A d \in Contexts : ~AtWork(d)
    BY <2>1, <2>2 DEF AtWork, Waiting, HandedBack
  <2>4. Append(stack'[cur], c) = stack[cur]
    BY <2>1, <2>2, Facts, AppendOfFront DEF TrapInv, TypeOK
  <2>5. /\ FrRunning = None /\ FrFrames = stack /\ FrRunning' = c
        /\ FrFrames' = [stack' EXCEPT ![cur] = Append(stack'[cur], c)]
    BY <2>1, <2>2, <2>3 DEF Shape
  <2>6. FrFrames' = stack  BY <2>1, <2>4, <2>5, Facts DEF TrapInv, TypeOK
  <2>7. Frames!Return68k <=>
           /\ FrRunning = None /\ FrFrames[cur] # <<>>
           /\ FrRunning' = Last(FrFrames[cur]) /\ UNCHANGED <<cur, FrFrames>>
    BY DEF Frames!Return68k, Frames!Last, Last, FrRunning, FrFrames
  <2>8. Frames!Return68k  BY <2>1, <2>2, <2>5, <2>6, <2>7
  <2>. QED  BY <2>8 DEF Frames!Next
<1>5. CASE ExitTrap
  <2>1. /\ emu = "exit" /\ pc[cur] = "exit" /\ ectx \in Contexts /\ HandedBack(ectx)
        /\ pc' = [pc EXCEPT ![cur] = "code"] /\ emu' = "cpu" /\ UNCHANGED <<cur, stack>>
    BY <1>5 DEF ExitTrap, TrapInv, EmuInv, HandedBack
  <2>2. AtWork(ectx) /\ \A c \in Contexts : ~AtWork(c)'
    BY <2>1, Facts DEF AtWork, Waiting, HandedBack, TrapInv, TypeOK
  <2>3. /\ FrRunning = ectx /\ FrFrames = [stack EXCEPT ![cur] = Append(stack[cur], ectx)]
        /\ FrRunning' = None /\ FrFrames' = stack
    BY <2>1, <2>2 DEF Shape
  <2>4. FrFrames[cur] = Append(stack[cur], ectx)
    BY <2>3, Facts DEF TrapInv, TypeOK
  <2>5. Last(FrFrames[cur]) = ectx /\ Front(FrFrames[cur]) = stack[cur]
    BY <2>1, <2>4, Facts, FrontLastOfAppend
  <2>6. FrFrames' = [FrFrames EXCEPT ![cur] = Front(FrFrames[cur])]
    BY <2>3, <2>5, Facts DEF TrapInv, TypeOK
  <2>7. Frames!Exit <=>
           /\ FrRunning # None /\ FrRunning = Last(FrFrames[cur]) /\ FrRunning' = None
           /\ FrFrames' = [FrFrames EXCEPT ![cur] = Front(FrFrames[cur])]
           /\ UNCHANGED cur
    BY DEF Frames!Exit, Frames!Last, Frames!Front, Last, Front, FrRunning, FrFrames
  <2>8. Frames!Exit  BY <2>1, <2>3, <2>5, <2>6, <2>7, NoneAssumption
  <2>. QED  BY <2>8 DEF Frames!Next
<1>6. CASE Reset
  <2>1. \A c \in Contexts : ~AtWork(c)'
    BY <1>6 DEF Reset, AtWork, Waiting, HandedBack
  <2>2. FrRunning' = None /\ FrFrames' = [t \in Tasks |-> <<>>] /\ cur' \in Tasks
    BY <1>6, <2>1 DEF Shape, Reset
  <2>3. Frames!Reset  BY <2>2 DEF Frames!Reset, FrRunning, FrFrames
  <2>. QED  BY <2>3 DEF Frames!Next
<1>7. CASE ReturnToCpu \/ ReturnHandler \/ ExitHandler \/ Leave \/ Left
  <2>1. \A c \in Contexts : AtWork(c)' <=> AtWork(c)
    BY <1>7 DEF ReturnToCpu, ReturnHandler, ExitHandler, Leave, Left, AtWork, Waiting,
       HandedBack, TrapInv, EmuInv, WaitInv
  <2>2. UNCHANGED <<cur, stack>>
    BY <1>7 DEF ReturnToCpu, ReturnHandler, ExitHandler, Leave, Left
  <2>. QED  BY <2>1, <2>2, FramesStutter
<1>8. ASSUME NEW c \in Contexts, TrapStep(c) PROVE UNCHANGED Frames!vars
  <2>1. CASE SwitchToEmu(c)
    <3>1. tpc[c] \in {"set_call", "set_exit"}  BY <2>1 DEF SwitchToEmu
    <3>2. Waiting(c) /\ pc[cur] = "code"
      BY <3>1 DEF TrapInv, TypeOK, WaitInv, RestInv, EmuInv, HandedBack
    <3>3. current_context' = c /\ UNCHANGED <<cur, stack, emu, ectx>>
      BY <2>1 DEF SwitchToEmu
    <3>4. \A d \in Contexts : AtWork(d)' <=> AtWork(d)
      BY <3>2, <3>3 DEF AtWork, Waiting, HandedBack
    <3>. QED  BY <3>3, <3>4, FramesStutter
  <2>2. CASE \/ PoolRead(c) \/ StartHandler(c) \/ HandlerGoesOn(c) \/ TakeMutex(c)
             \/ Woken(c) \/ CallReturns(c) \/ ClearBusy(c) \/ PostDone(c)
    <3>1. UNCHANGED <<cur, stack, pc, emu, ectx, current_context>>
      BY <2>2 DEF PoolRead, StartHandler, HandlerGoesOn, TakeMutex, Woken, CallReturns,
         ClearBusy, PostDone
    <3>2. \A d \in Contexts : AtWork(d)' <=> AtWork(d)
      BY <3>1 DEF AtWork, Waiting, HandedBack
    <3>. QED  BY <3>1, <3>2, FramesStutter
  <2>. QED  BY <1>8, <2>1, <2>2 DEF TrapStep
<1>9. CASE UNCHANGED vars
  <2>1. UNCHANGED <<cur, stack, pc, emu, ectx, current_context>>  BY <1>9 DEF vars
  <2>2. \A d \in Contexts : AtWork(d)' <=> AtWork(d)
    BY <2>1 DEF AtWork, Waiting, HandedBack
  <2>. QED  BY <2>1, <2>2, FramesStutter
<1>. QED
  BY <1>1, <1>2, <1>3, <1>4, <1>5, <1>6, <1>7, <1>8, <1>9 DEF Next, EmuStep

(* Tasks see their traps as subroutine calls: every step of the threads and of the
   68k side is a step of TrapFrames or changes nothing there.  Across task switches
   and resets, a 68k function returns to the newest trap of its own task. *)
THEOREM TrapsAreCalls == Spec => ImplementsFrames
<1>1. Init => Frames!Init  BY FramesInit
<1>2. TrapInv /\ TrapInv' /\ [Next]_vars => [Frames!Next]_Frames!vars
  BY FramesStep
<1>. QED  BY <1>1, <1>2, TrapInvariant, PTL DEF Spec, ImplementsFrames, Frames!Spec
=============================================================================
