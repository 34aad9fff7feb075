------------------------ MODULE Native2AmigaProofs ------------------------
(***************************************************************************)
(* Proofs about Native2Amiga without a reset: the types, the semaphore of  *)
(* the helper, that no word is left in the pipe without anybody who will   *)
(* look, and that the words of two senders do not mix, so that each answer *)
(* of the helper is one whole message.  The types need to know who holds   *)
(* n2asem and who owes the sleeping writer its token; the semaphore, that  *)
(* filesys_vsync and the helper exclude each other.                        *)
(***************************************************************************)
EXTENDS Native2Amiga, SequenceTheorems, TLAPS

Holding == {"write", "sleep", "request", "unlock"}

\* n2asem is held by one sender at most.
LockInv ==
    /\ \A s, t \in Senders : spc[s] \in Holding /\ spc[t] \in Holding => s = t
    /\ (\E s \in Senders : spc[s] \in Holding) => n2asem = 0

\* A sender on its way writes the next word of its message; a sleeping one is owed
\* a token by the flag, or finds the token and room.
WriterInv ==
    /\ \A s \in Senders : spc[s] = "lock" => next[s] = 1
    /\ \A s \in Senders :
          spc[s] \in {"write", "sleep"} => next[s] <= WordsOf(msg[s].kind)
    /\ writer_waiting => writer_wait = 0 /\ \E s \in Senders : spc[s] = "sleep"
    /\ writer_wait = 1 =>
          Len(queue) < Capacity /\ \E s \in Senders : spc[s] = "sleep"

\* singlethread_int_sem has one holder.
InHelper == tpc \in {"poll", "read", "end"} \/ (tpc = "call" /\ n = 11)

HelperInv == SemaphoreReturned /\ ~(vsync /\ InHelper) /\ tpc # "booting"

\* TypeOK in parts.
SenderTypes ==
    /\ n2asem \in {0, 1}
    /\ spc \in [Senders -> {"idle", "lock", "write", "sleep", "request", "unlock"}]
    /\ msg \in [Senders -> Messages] /\ next \in [Senders -> 1..5]
    /\ posted \in [Senders -> Nat] /\ \A s \in Senders : posted[s] \in 0..MaxMsgs[s]

PipeTypes ==
    /\ queue \in Seq(Words) /\ Len(queue) <= Capacity
    /\ writer_waiting \in BOOLEAN /\ writer_wait \in {0, 1}

TaskTypes ==
    /\ single \in {0, 1}
    /\ intreq \in BOOLEAN /\ signal \in BOOLEAN /\ vsync \in BOOLEAN
    /\ tpc \in {"wait", "call", "poll", "read", "end", "booting"}
    /\ n \in {10, 11} /\ refused \in BOOLEAN

WordTypes == cur \in Seq(Words) /\ delivered \in Seq(Seq(Words))

CallInv ==
    /\ SenderTypes /\ PipeTypes /\ TaskTypes /\ WordTypes
    /\ LockInv /\ WriterInv /\ HelperInv /\ NoForgottenWords

USE CapacityAssumption, MaxMsgsAssumption

LEMMA TypesAre == CallInv => TypeOK
  BY DEF CallInv, TypeOK, SenderTypes, PipeTypes, TaskTypes, WordTypes

LEMMA Lengths ==
    ASSUME NEW kind \in Kinds PROVE WordsOf(kind) \in 2..4
  BY DEF Kinds, WordsOf

LEMMA CallInvInit == Init => CallInv
<1>. SUFFICES ASSUME Init PROVE CallInv
  OBVIOUS
<1>1. SenderTypes
  BY DEF Init, SenderTypes, Messages, Kinds
<1>2. PipeTypes
  <2>1. queue \in Seq(Words) /\ Len(queue) = 0
    BY EmptySeq DEF Init
  <2>2. writer_waiting \in BOOLEAN
    BY DEF Init
  <2>3. writer_wait \in {0, 1}
    BY DEF Init
  <2>. QED  BY <2>1, <2>2, <2>3 DEF PipeTypes
<1>6. WordTypes
  BY EmptySeq DEF Init, WordTypes
<1>3. TaskTypes
  BY DEF Init, TaskTypes
<1>4. LockInv /\ WriterInv
  BY DEF Init, LockInv, WriterInv, Holding
<1>5. HelperInv /\ NoForgottenWords
  BY DEF Init, HelperInv, NoForgottenWords, SemaphoreReturned, InHelper
<1>. QED  BY <1>1, <1>2, <1>3, <1>4, <1>5, <1>6 DEF CallInv

-----------------------------------------------------------------------------
(* The senders. *)

LEMMA CallKeeps == ASSUME CallInv, NEW s \in Senders, Call(s) PROVE CallInv'
<1>. USE DEF Call, Goto, CallInv
<1>1. SenderTypes'
  BY DEF SenderTypes, Messages
<1>2. PipeTypes' /\ TaskTypes' /\ WordTypes'
  BY DEF PipeTypes, TaskTypes, WordTypes, pipe, task, history
<1>3. LockInv'
  BY DEF LockInv, SenderTypes, Holding
<1>4. WriterInv'
  BY DEF WriterInv, SenderTypes, pipe
<1>5. HelperInv' /\ NoForgottenWords'
  BY DEF HelperInv, NoForgottenWords, SemaphoreReturned, InHelper, SenderTypes, pipe,
     task
<1>. QED  BY <1>1, <1>2, <1>3, <1>4, <1>5

LEMMA LockKeeps == ASSUME CallInv, NEW s \in Senders, NativesemWait(s) PROVE CallInv'
<1>. USE DEF NativesemWait, Goto, CallInv
<1>1. SenderTypes'
  BY DEF SenderTypes
<1>2. PipeTypes' /\ TaskTypes' /\ WordTypes'
  BY DEF PipeTypes, TaskTypes, WordTypes, pipe, task, history
<1>3. LockInv'
  BY DEF LockInv, SenderTypes, Holding
<1>4. WriterInv'
  <2>1. WordsOf(msg[s].kind) \in 2..4
    BY Lengths DEF SenderTypes, Messages
  <2>. QED  BY <2>1 DEF WriterInv, SenderTypes, pipe
<1>5. HelperInv' /\ NoForgottenWords'
  BY DEF HelperInv, NoForgottenWords, SemaphoreReturned, InHelper, SenderTypes, pipe,
     task
<1>. QED  BY <1>1, <1>2, <1>3, <1>4, <1>5

\* What the two ways of writing a word have in common.
LEMMA WrittenKeeps ==
    ASSUME CallInv, NEW s \in Senders, spc[s] \in {"write", "sleep"}, Written(s),
           UNCHANGED <<n2asem, msg, posted>>
    PROVE  /\ SenderTypes' /\ LockInv'
           /\ \A t \in Senders :
                 /\ spc'[t] = "lock" => next'[t] = 1
                 /\ spc'[t] \in {"write", "sleep"} => next'[t] <= WordsOf(msg'[t].kind)
           /\ queue' \in Seq(Words) /\ Len(queue') = Len(queue) + 1
           /\ spc'[s] \in {"write", "request"}
<1>. USE DEF Written, Goto, CallInv
<1>1. WordsOf(msg[s].kind) \in 2..4 /\ next[s] \in 1..WordsOf(msg[s].kind)
  BY Lengths DEF SenderTypes, Messages, WriterInv
<1>2. Word(msg[s], next[s]) \in Words
  BY <1>1 DEF Word, Words, Messages, SenderTypes
<1>3. SenderTypes'
  BY <1>1 DEF SenderTypes
<1>4. LockInv'
  BY DEF LockInv, SenderTypes, Holding
<1>5. \A t \in Senders :
         /\ spc'[t] = "lock" => next'[t] = 1
         /\ spc'[t] \in {"write", "sleep"} => next'[t] <= WordsOf(msg'[t].kind)
  BY <1>1 DEF SenderTypes, WriterInv
<1>6. queue' \in Seq(Words) /\ Len(queue') = Len(queue) + 1
  BY <1>2 DEF PipeTypes
<1>7. spc'[s] \in {"write", "request"}
  BY DEF SenderTypes
<1>. QED  BY <1>3, <1>4, <1>5, <1>6, <1>7

LEMMA WriteKeeps == ASSUME CallInv, NEW s \in Senders, Write(s) PROVE CallInv'
<1>. USE DEF Write, CallInv
<1>1. /\ SenderTypes' /\ LockInv'
      /\ \A t \in Senders :
            /\ spc'[t] = "lock" => next'[t] = 1
            /\ spc'[t] \in {"write", "sleep"} => next'[t] <= WordsOf(msg'[t].kind)
      /\ queue' \in Seq(Words) /\ Len(queue') = Len(queue) + 1
      /\ spc'[s] \in {"write", "request"}
  BY WrittenKeeps
<1>2. PipeTypes'
  BY <1>1 DEF PipeTypes
<1>3. TaskTypes' /\ WordTypes'
  BY DEF TaskTypes, WordTypes, task, history
<1>4. WriterInv'
  <2>1. \A t \in Senders : spc[t] # "sleep"
    BY DEF LockInv, Holding
  <2>2. ~writer_waiting' /\ writer_wait' # 1
    BY <2>1 DEF WriterInv
  <2>. QED  BY <1>1, <2>2 DEF WriterInv
<1>5. HelperInv'
  BY DEF HelperInv, SemaphoreReturned, InHelper, task
<1>6. NoForgottenWords'
  BY <1>1 DEF NoForgottenWords
<1>. QED  BY <1>1, <1>2, <1>3, <1>4, <1>5, <1>6

LEMMA SleepKeeps == ASSUME CallInv, NEW s \in Senders, WriteFull(s) PROVE CallInv'
<1>. USE DEF WriteFull, Goto, CallInv
<1>1. SenderTypes'
  BY DEF SenderTypes
<1>2. PipeTypes' /\ TaskTypes' /\ WordTypes'
  BY DEF PipeTypes, TaskTypes, WordTypes, task, history
<1>3. LockInv'
  BY DEF LockInv, SenderTypes, Holding
<1>4. WriterInv'
  <2>1. \A t \in Senders : spc[t] # "sleep"
    BY DEF LockInv, Holding
  <2>2. writer_wait = 0
    BY <2>1 DEF WriterInv, PipeTypes
  <2>3. spc'[s] = "sleep"
    BY DEF SenderTypes
  <2>. QED  BY <2>2, <2>3 DEF WriterInv, SenderTypes
<1>5. HelperInv'
  BY DEF HelperInv, SemaphoreReturned, InHelper, task
<1>6. NoForgottenWords'
  BY DEF NoForgottenWords, SenderTypes
<1>. QED  BY <1>1, <1>2, <1>3, <1>4, <1>5, <1>6

LEMMA WokenKeeps == ASSUME CallInv, NEW s \in Senders, WriteWoken(s) PROVE CallInv'
<1>. USE DEF WriteWoken, CallInv
<1>1. /\ SenderTypes' /\ LockInv'
      /\ \A t \in Senders :
            /\ spc'[t] = "lock" => next'[t] = 1
            /\ spc'[t] \in {"write", "sleep"} => next'[t] <= WordsOf(msg'[t].kind)
      /\ queue' \in Seq(Words) /\ Len(queue') = Len(queue) + 1
      /\ spc'[s] \in {"write", "request"}
  BY WrittenKeeps
<1>2. writer_wait = 1 /\ Len(queue) < Capacity /\ ~writer_waiting
  BY DEF PipeTypes, WriterInv
<1>3. PipeTypes'
  BY <1>1, <1>2 DEF PipeTypes
<1>4. TaskTypes' /\ WordTypes'
  BY DEF TaskTypes, WordTypes, task, history
<1>5. WriterInv'
  BY <1>1, <1>2 DEF WriterInv
<1>6. HelperInv'
  BY DEF HelperInv, SemaphoreReturned, InHelper, task
<1>7. NoForgottenWords'
  BY <1>1 DEF NoForgottenWords
<1>. QED  BY <1>1, <1>3, <1>4, <1>5, <1>6, <1>7

LEMMA RequestKeeps == ASSUME CallInv, NEW s \in Senders, Request(s) PROVE CallInv'
<1>. USE DEF Request, Goto, CallInv
<1>1. SenderTypes'
  BY DEF SenderTypes
<1>2. PipeTypes' /\ TaskTypes' /\ WordTypes'
  BY DEF PipeTypes, TaskTypes, WordTypes, pipe, task, history
<1>3. LockInv'
  BY DEF LockInv, SenderTypes, Holding
<1>4. WriterInv'
  BY DEF WriterInv, SenderTypes, pipe
<1>5. HelperInv'
  BY DEF HelperInv, SemaphoreReturned, InHelper, task
<1>6. NoForgottenWords'
  BY DEF NoForgottenWords
<1>. QED  BY <1>1, <1>2, <1>3, <1>4, <1>5, <1>6

LEMMA PostKeeps == ASSUME CallInv, NEW s \in Senders, NativesemPost(s) PROVE CallInv'
<1>. USE DEF NativesemPost, Goto, CallInv
<1>1. n2asem = 0
  BY DEF LockInv, Holding
<1>2. SenderTypes'
  BY <1>1 DEF SenderTypes
<1>3. PipeTypes' /\ TaskTypes' /\ WordTypes'
  BY DEF PipeTypes, TaskTypes, WordTypes, pipe, task, history
<1>4. LockInv'
  <2>1. \A t \in Senders : spc'[t] \notin Holding
    BY DEF LockInv, SenderTypes, Holding
  <2>. QED  BY <2>1 DEF LockInv
<1>5. WriterInv'
  BY DEF WriterInv, SenderTypes, pipe
<1>6. HelperInv'
  BY DEF HelperInv, SemaphoreReturned, InHelper, task
<1>7. NoForgottenWords'
  BY DEF NoForgottenWords, SenderTypes, pipe, task
<1>. QED  BY <1>2, <1>3, <1>4, <1>5, <1>6, <1>7

-----------------------------------------------------------------------------
(* The Amiga side. *)

\* The steps that leave the pipe and the senders alone.
LEMMA QuietKeeps ==
    ASSUME CallInv,
           \/ ExterServer \/ ExterTaskWait \/ HelperEnter \/ HelperRefused
           \/ HelperPoll \/ HelperEnd \/ VsyncEnter \/ VsyncLeave
    PROVE  CallInv'
<1>. USE DEF ExterServer, ExterTaskWait, HelperEnter, HelperRefused, HelperPoll,
         HelperEnd, VsyncEnter, VsyncLeave, CallInv
<1>1. UNCHANGED <<pipe, sender, n2asem, cur, delivered>>
  BY DEF pipe, sender, task, history
<1>2. SenderTypes' /\ PipeTypes' /\ WordTypes' /\ LockInv' /\ WriterInv'
  BY <1>1 DEF pipe, sender, SenderTypes, PipeTypes, WordTypes, LockInv, WriterInv
<1>3. TaskTypes'
  <2>1. /\ intreq' \in BOOLEAN /\ signal' \in BOOLEAN
        /\ vsync' \in BOOLEAN /\ refused' \in BOOLEAN
    BY DEF TaskTypes, task, history
  <2>2. single' \in {0, 1}
    BY DEF TaskTypes, HelperInv, SemaphoreReturned, task
  <2>3. /\ tpc' \in {"wait", "call", "poll", "read", "end", "booting"}
        /\ n' \in {10, 11}
    BY DEF TaskTypes, task
  <2>. QED  BY <2>1, <2>2, <2>3 DEF TaskTypes
<1>5. HelperInv'
  BY DEF TaskTypes, HelperInv, SemaphoreReturned, InHelper, task
<1>4. NoForgottenWords'
  BY <1>1 DEF NoForgottenWords, TaskTypes, HelperInv, pipe, sender, task
<1>. QED  BY <1>2, <1>3, <1>4, <1>5

\* Reading a word wakes a sleeping sender.
LEMMA TakeWordKeeps ==
    ASSUME CallInv, TakeWord, UNCHANGED <<n2asem, sender>>
    PROVE  /\ SenderTypes' /\ PipeTypes' /\ LockInv' /\ WriterInv'
           /\ Head(queue) \in Words
<1>. USE DEF TakeWord, sender, CallInv
<1>1. Head(queue) \in Words /\ queue' \in Seq(Words) /\ Len(queue') = Len(queue) - 1
  BY HeadTailProperties DEF PipeTypes
<1>2. writer_waiting => writer_wait = 0
  BY DEF WriterInv
<1>3. PipeTypes'
  <2>1. Len(queue') <= Capacity
    BY <1>1 DEF PipeTypes
  <2>2. writer_waiting' \in BOOLEAN
    OBVIOUS
  <2>3. writer_wait' \in {0, 1}
    BY <1>2 DEF PipeTypes
  <2>. QED  BY <1>1, <2>1, <2>2, <2>3 DEF PipeTypes
<1>4. SenderTypes' /\ LockInv'
  BY DEF SenderTypes, LockInv
<1>5. WriterInv'
  BY <1>1, <1>2 DEF WriterInv, PipeTypes
<1>. QED  BY <1>1, <1>3, <1>4, <1>5

LEMMA ReadCmdKeeps == ASSUME CallInv, HelperReadCmd PROVE CallInv'
<1>. USE DEF HelperReadCmd, CallInv
<1>1. /\ SenderTypes' /\ PipeTypes' /\ LockInv' /\ WriterInv'
      /\ Head(queue) \in Words
  BY TakeWordKeeps
<1>2. PICK kind \in Decoded(Head(queue)) :
         IF kind = "unknown"
         THEN cur' = <<>> /\ tpc' = "poll"
         ELSE cur' = <<[Head(queue) EXCEPT !.kind = kind]>> /\ UNCHANGED tpc
  OBVIOUS
<1>3. WordTypes'
  <2>1. kind # "unknown" => kind \in Kinds
    BY <1>1 DEF Decoded, Words
  <2>2. kind # "unknown" => [Head(queue) EXCEPT !.kind = kind] \in Words
    BY <1>1, <2>1 DEF Words
  <2>3. CASE kind = "unknown"
    BY <1>2, <2>3, EmptySeq DEF WordTypes, history
  <2>4. CASE kind # "unknown"
    <3>1. PICK w \in Words : cur' = <<w>>
      BY <1>2, <2>2, <2>4
    <3>2. cur' \in Seq(Words)
      BY <3>1
    <3>. QED  BY <3>2 DEF WordTypes, history
  <2>. QED  BY <2>3, <2>4
<1>4. tpc' \in {"read", "poll"} /\ UNCHANGED <<n, single, vsync, intreq, signal, refused>>
  BY <1>2 DEF history
<1>5. TaskTypes'
  BY <1>4 DEF TaskTypes
<1>6. HelperInv' /\ NoForgottenWords'
  BY <1>4 DEF HelperInv, SemaphoreReturned, InHelper, NoForgottenWords
<1>. QED  BY <1>1, <1>3, <1>5, <1>6

LEMMA ReadArgKeeps == ASSUME CallInv, HelperReadArg PROVE CallInv'
<1>. USE DEF HelperReadArg, CallInv
<1>1. /\ SenderTypes' /\ PipeTypes' /\ LockInv' /\ WriterInv'
      /\ Head(queue) \in Words
  BY TakeWordKeeps
<1>2. WordTypes'
  <2>1. Append(cur, Head(queue)) \in Seq(Words)
    BY <1>1 DEF WordTypes
  <2>2. Append(delivered, Append(cur, Head(queue))) \in Seq(Seq(Words))
    BY <2>1 DEF WordTypes
  <2>3. cur' \in {<<>>, Append(cur, Head(queue))}
    OBVIOUS
  <2>4. delivered' \in {delivered, Append(delivered, Append(cur, Head(queue)))}
    OBVIOUS
  <2>. QED  BY <2>1, <2>2, <2>3, <2>4, EmptySeq DEF WordTypes
<1>3. TaskTypes' /\ HelperInv' /\ NoForgottenWords'
  BY DEF TaskTypes, HelperInv, SemaphoreReturned, InHelper, NoForgottenWords
<1>. QED  BY <1>1, <1>2, <1>3

-----------------------------------------------------------------------------
LEMMA CallInvStep == CallInv /\ [Next]_vars => CallInv'
<1>. SUFFICES ASSUME CallInv, [Next]_vars PROVE CallInv'
  OBVIOUS
<1>1. CASE \E s \in Senders : Call(s) \/ SenderStep(s)
  BY <1>1, CallKeeps, LockKeeps, WriteKeeps, SleepKeeps, WokenKeeps, RequestKeeps,
     PostKeeps DEF SenderStep
<1>2. CASE ExterServer \/ TaskStep \/ VsyncEnter \/ VsyncLeave
  BY <1>2, QuietKeeps, ReadCmdKeeps, ReadArgKeeps DEF TaskStep
<1>3. CASE UNCHANGED vars
  BY <1>3 DEF vars, pipe, sender, task, history, CallInv, SenderTypes, PipeTypes,
     TaskTypes, WordTypes, LockInv, WriterInv, HelperInv, InHelper,
     SemaphoreReturned, NoForgottenWords
<1>. QED  BY <1>1, <1>2, <1>3 DEF Next

(* The inductive invariant holds in every behaviour without a reset. *)
THEOREM CallInvariant == Spec => []CallInv
  BY CallInvInit, CallInvStep, PTL DEF Spec

(* Types, and with them: no semaphore of the calls counts above one, and the pipe
   never holds more than its capacity, although a woken writer does not look
   again. *)
THEOREM TypeCorrect == Spec => []TypeOK
  BY CallInvariant, TypesAre, PTL

(* singlethread_int_sem is taken exactly while a round of exter_int_helper or
   filesys_vsync is under way. *)
THEOREM SemaphoreIsReturned == Spec => []SemaphoreReturned
<1>1. CallInv => SemaphoreReturned  BY DEF CallInv, HelperInv
<1>. QED  BY <1>1, CallInvariant, PTL

(* Whenever words are in the pipe and no sender is about to ask for the interrupt,
   exter_task has been told. *)
THEOREM NoWordsForgotten == Spec => []NoForgottenWords
<1>1. CallInv => NoForgottenWords  BY DEF CallInv
<1>. QED  BY <1>1, CallInvariant, PTL

-----------------------------------------------------------------------------
(* The words of two senders do not mix.  What is true of the next word to be
   written is said of the last word of the stream (EndInv), what is true of the
   next word to be read of the words decoded so far (CurInv). *)

FirstInv == Stream # <<>> => Stream[1].i = 1

WithinInv == \A k \in 1..Len(Stream) : Stream[k].i <= WordsOf(Stream[k].kind)

CurInv ==
    cur # <<>> =>
        /\ Len(cur) < WordsOf(cur[1].kind)
        /\ \A j \in 1..Len(cur) : cur[j] = [cur[1] EXCEPT !.i = j]

Writing(s) == spc[s] \in {"write", "sleep"} /\ next[s] > 1

EndInv ==
    /\ \A s \in Senders : Writing(s) =>
          Stream # <<>> /\ Stream[Len(Stream)] = Word(msg[s], next[s] - 1)
    /\ Stream # <<>> /\ (\A s \in Senders : ~Writing(s)) =>
          Stream[Len(Stream)].i = WordsOf(Stream[Len(Stream)].kind)

FrameInv == FramesIntact /\ FirstInv /\ WithinInv /\ CurInv /\ EndInv

LEMMA StreamIs ==
    ASSUME CallInv
    PROVE  /\ Stream \in Seq(Words) /\ Len(Stream) = Len(cur) + Len(queue)
           /\ \A k \in 1..Len(cur) : Stream[k] = cur[k]
           /\ \A k \in 1..Len(queue) : Stream[Len(cur) + k] = queue[k]
  BY ConcatProperties DEF Stream, CallInv, PipeTypes, WordTypes

LEMMA FramesAt ==
    ASSUME FramesIntact, NEW k \in 2..Len(Stream), NEW v, NEW w,
           v = Stream[k - 1], w = Stream[k]
    PROVE  IF w.i = 1 THEN v.i = WordsOf(v.kind) ELSE w = [v EXCEPT !.i = @ + 1]
  BY DEF FramesIntact

LEMMA FrameInvInit == Init => FrameInv
<1>. SUFFICES ASSUME Init PROVE FrameInv
  OBVIOUS
<1>1. Stream = <<>> /\ cur = <<>>
  BY CallInvInit, StreamIs DEF Init
<1>. QED
  BY <1>1 DEF Init, FrameInv, FramesIntact, FirstInv, WithinInv, CurInv, EndInv,
     Writing

\* A step that leaves the stream and every sender in the middle of a message alone.
LEMMA SameFrames ==
    ASSUME FrameInv, UNCHANGED <<Stream, cur>>,
           \A t \in Senders :
              /\ Writing(t)' <=> Writing(t)
              /\ Writing(t) => UNCHANGED <<msg[t], next[t]>>
    PROVE  FrameInv'
<1>1. FramesIntact' /\ FirstInv' /\ WithinInv' /\ CurInv'
  BY DEF FrameInv, FramesIntact, FirstInv, WithinInv, CurInv
<1>2. EndInv'
  BY DEF FrameInv, EndInv, Word
<1>. QED  BY <1>1, <1>2 DEF FrameInv

LEMMA SenderFrames ==
    ASSUME CallInv, FrameInv, NEW s \in Senders,
           \/ Call(s) \/ NativesemWait(s) \/ WriteFull(s) \/ Request(s) \/ NativesemPost(s)
    PROVE  FrameInv'
<1>1. UNCHANGED <<queue, cur>>
  BY DEF Call, NativesemWait, WriteFull, Request, NativesemPost, pipe, task
<1>2. UNCHANGED Stream
  BY <1>1 DEF Stream
<1>3. ASSUME NEW t \in Senders
      PROVE  /\ Writing(t)' <=> Writing(t)
             /\ Writing(t) => UNCHANGED <<msg[t], next[t]>>
  BY DEF Call, NativesemWait, WriteFull, Request, NativesemPost, Goto, Writing,
     CallInv, SenderTypes, WriterInv
<1>. QED  BY <1>1, <1>2, <1>3, SameFrames

LEMMA QuietFrames ==
    ASSUME CallInv, FrameInv,
           \/ ExterServer \/ ExterTaskWait \/ HelperEnter \/ HelperRefused
           \/ HelperPoll \/ HelperEnd \/ VsyncEnter \/ VsyncLeave \/ UNCHANGED vars
    PROVE  FrameInv'
<1>1. UNCHANGED <<queue, cur, spc, msg, next>>
  BY DEF ExterServer, ExterTaskWait, HelperEnter, HelperRefused, HelperPoll,
     HelperEnd, VsyncEnter, VsyncLeave, vars, pipe, sender, task, history
<1>. QED  BY <1>1, SameFrames DEF Stream, Writing

LEMMA WriteFrames ==
    ASSUME CallInv, FrameInv, CallInv', NEW s \in Senders, Write(s) \/ WriteWoken(s)
    PROVE  FrameInv'
<1>. DEFINE w == Word(msg[s], next[s])
<1>1. /\ queue' = Append(queue, w) /\ cur' = cur /\ msg' = msg
      /\ next' = [next EXCEPT ![s] = @ + 1]
      /\ spc' = [spc EXCEPT ![s] =
                    IF next[s] = WordsOf(msg[s].kind) THEN "request" ELSE "write"]
      /\ spc[s] \in {"write", "sleep"}
  BY DEF Write, WriteWoken, Written, Goto, task
<1>2. /\ WordsOf(msg[s].kind) \in 2..4 /\ next[s] \in 1..WordsOf(msg[s].kind)
      /\ msg[s] \in Messages
  BY <1>1, Lengths DEF CallInv, SenderTypes, Messages, WriterInv
<1>3. w \in Words /\ w.i = next[s] /\ w.kind = msg[s].kind
  BY <1>2 DEF Word, Words, Messages
<1>4. /\ Stream \in Seq(Words) /\ Stream' \in Seq(Words)
      /\ Len(Stream') = Len(Stream) + 1
      /\ \A k \in 1..Len(Stream) : Stream'[k] = Stream[k]
      /\ Stream'[Len(Stream) + 1] = w
  <2>1. Stream' = Append(Stream, w)
    BY <1>1, <1>3 DEF Stream, CallInv, PipeTypes, WordTypes
  <2>2. Stream \in Seq(Words)
    BY StreamIs
  <2>. QED  BY <2>1, <2>2, <1>3, AppendProperties
<1>5. \A t \in Senders : t # s => ~Writing(t) /\ ~Writing(t)'
  BY <1>1 DEF Writing, CallInv, LockInv, Holding, SenderTypes
<1>6. IF next[s] = 1
      THEN Stream # <<>> => Stream[Len(Stream)].i = WordsOf(Stream[Len(Stream)].kind)
      ELSE Stream # <<>> /\ Stream[Len(Stream)] = Word(msg[s], next[s] - 1)
  BY <1>1, <1>2, <1>5 DEF FrameInv, EndInv, Writing
<1>7. FramesIntact'
  <2>. SUFFICES ASSUME NEW k \in 2..Len(Stream')
                PROVE  IF Stream'[k].i = 1
                       THEN Stream'[k - 1].i = WordsOf(Stream'[k - 1].kind)
                       ELSE Stream'[k] = [Stream'[k - 1] EXCEPT !.i = @ + 1]
    BY DEF FramesIntact
  <2>1. CASE k <= Len(Stream)
    BY <2>1, <1>4 DEF FrameInv, FramesIntact
  <2>2. CASE k = Len(Stream) + 1 /\ next[s] = 1
    BY <2>2, <1>3, <1>4, <1>6
  <2>3. CASE k = Len(Stream) + 1 /\ next[s] # 1
    <3>1. Stream'[k] = w /\ Stream'[k - 1] = Word(msg[s], next[s] - 1)
      BY <2>3, <1>4, <1>6
    <3>2. w = [Word(msg[s], next[s] - 1) EXCEPT !.i = @ + 1]
      BY <1>2 DEF Word
    <3>. QED  BY <3>1, <3>2, <1>3, <2>3
  <2>. QED  BY <2>1, <2>2, <2>3, <1>4
<1>8. FirstInv'
  BY <1>3, <1>4, <1>6 DEF FrameInv, FirstInv
<1>9. WithinInv'
  BY <1>2, <1>3, <1>4 DEF FrameInv, WithinInv
<1>10. CurInv'
  BY <1>1 DEF FrameInv, CurInv
<1>11. EndInv'
  <2>1. Stream' # <<>> /\ Stream'[Len(Stream')] = w
    BY <1>4
  <2>2. Writing(s)' => w = Word(msg'[s], next'[s] - 1)
    BY <1>1, <1>2 DEF CallInv, SenderTypes
  <2>3. ~Writing(s)' => w.i = WordsOf(w.kind)
    BY <1>1, <1>2, <1>3 DEF Writing, CallInv, SenderTypes
  <2>. QED  BY <1>5, <2>1, <2>2, <2>3 DEF EndInv
<1>. QED  BY <1>7, <1>8, <1>9, <1>10, <1>11 DEF FrameInv

LEMMA ReadCmdFrames ==
    ASSUME CallInv, FrameInv, CallInv', HelperReadCmd
    PROVE  FrameInv' /\ cur' = <<Head(queue)>>
<1>1. queue # <<>> /\ queue' = Tail(queue) /\ cur = <<>> /\ UNCHANGED <<spc, msg, next>>
  BY DEF HelperReadCmd, TakeWord, sender
<1>2. Head(queue) = Stream[1] /\ Stream \in Seq(Words) /\ Stream # <<>>
  BY <1>1, StreamIs DEF CallInv, PipeTypes
<1>3. Head(queue).i = 1 /\ Head(queue) \in Words
  BY <1>2 DEF FrameInv, FirstInv
<1>4. Decoded(Head(queue)) = {Head(queue).kind} /\ Head(queue).kind # "unknown"
  BY <1>3 DEF Decoded, Words, Kinds
<1>5. [Head(queue) EXCEPT !.kind = Head(queue).kind] = Head(queue)
  BY <1>3 DEF Words
<1>6. cur' = <<Head(queue)>>
  BY <1>4, <1>5 DEF HelperReadCmd
<1>7. Stream' = Stream
  BY <1>1, <1>6 DEF Stream, CallInv, PipeTypes
<1>8. CurInv'
  <2>1. Len(cur') = 1 /\ cur'[1] = Head(queue)
    BY <1>6
  <2>2. WordsOf(Head(queue).kind) \in 2..4
    BY <1>3, Lengths DEF Words
  <2>3. [Head(queue) EXCEPT !.i = 1] = Head(queue)
    BY <1>3 DEF Words
  <2>. QED  BY <2>1, <2>2, <2>3 DEF CurInv
<1>9. FramesIntact' /\ FirstInv' /\ WithinInv' /\ EndInv'
  BY <1>1, <1>7 DEF FrameInv, FramesIntact, FirstInv, WithinInv, EndInv, Writing, Word
<1>. QED  BY <1>6, <1>8, <1>9 DEF FrameInv

\* The argument the helper reads is the next word of the message it decodes.
LEMMA NextArgument ==
    ASSUME CallInv, FrameInv, cur # <<>>, queue # <<>>
    PROVE  /\ Head(queue) = [cur[1] EXCEPT !.i = Len(cur) + 1]
           /\ cur[1] \in Words /\ WordsOf(cur[1].kind) \in 2..4
<1>1. /\ Stream \in Seq(Words) /\ Len(Stream) = Len(cur) + Len(queue)
      /\ Len(cur) \in Nat /\ Len(cur) >= 1 /\ Len(queue) >= 1 /\ Len(queue) \in Nat
      /\ Stream[Len(cur)] = cur[Len(cur)] /\ Stream[Len(cur) + 1] = Head(queue)
  BY StreamIs DEF CallInv, PipeTypes, WordTypes
<1>2. cur[1] \in Words /\ WordsOf(cur[1].kind) \in 2..4
  <2>1. cur[1] \in Words
    BY <1>1, ElementOfSeq DEF CallInv, WordTypes
  <2>2. cur[1].kind \in Kinds
    BY <2>1 DEF Words
  <2>. QED  BY <2>1, <2>2, Lengths
<1>3. /\ Len(cur) < WordsOf(cur[1].kind)
      /\ cur[Len(cur)] = [cur[1] EXCEPT !.i = Len(cur)]
  BY <1>1 DEF FrameInv, CurInv
<1>4. cur[Len(cur)].i = Len(cur) /\ cur[Len(cur)].kind = cur[1].kind
  BY <1>2, <1>3 DEF Words
<1>5. IF Head(queue).i = 1
      THEN cur[Len(cur)].i = WordsOf(cur[Len(cur)].kind)
      ELSE Head(queue) = [cur[Len(cur)] EXCEPT !.i = @ + 1]
  <2>1. Len(cur) + 1 \in 2..Len(Stream) /\ Len(cur) + 1 - 1 = Len(cur)
    BY <1>1
  <2>2. /\ cur[Len(cur)] = Stream[(Len(cur) + 1) - 1]
        /\ Head(queue) = Stream[Len(cur) + 1]
    BY <1>1
  <2>. QED  BY <2>1, <2>2, FramesAt DEF FrameInv
<1>6. Head(queue) = [cur[Len(cur)] EXCEPT !.i = @ + 1]
  BY <1>1, <1>2, <1>3, <1>4, <1>5
<1>7. Head(queue) = [cur[1] EXCEPT !.i = Len(cur) + 1]
  BY <1>2, <1>3, <1>4, <1>6 DEF Words
<1>. QED  BY <1>2, <1>7

LEMMA ReadArgFrames ==
    ASSUME CallInv, FrameInv, CallInv', HelperReadArg PROVE FrameInv'
<1>1. /\ queue # <<>> /\ queue' = Tail(queue) /\ cur # <<>>
      /\ UNCHANGED <<spc, msg, next>>
  BY DEF HelperReadArg, TakeWord, sender
<1>2. /\ Head(queue) = [cur[1] EXCEPT !.i = Len(cur) + 1]
      /\ cur[1] \in Words /\ WordsOf(cur[1].kind) \in 2..4
  BY <1>1, NextArgument
<1>3. /\ Head(queue) \in Words
      /\ Head(queue).i = Len(cur) + 1 /\ Head(queue).kind = cur[1].kind
  <2>1. Head(queue) \in Words
    BY <1>1, HeadTailProperties DEF CallInv, PipeTypes
  <2>. QED  BY <1>2, <2>1 DEF Words
<1>4. Len(cur) \in Nat /\ Len(cur) >= 1 /\ cur \in Seq(Words) /\ queue \in Seq(Words)
  BY <1>1 DEF CallInv, WordTypes, PipeTypes
<1>5. CASE Len(cur) + 1 # WordsOf(cur[1].kind)
  <2>1. cur' = Append(cur, Head(queue))
    BY <1>5 DEF HelperReadArg
  <2>2. Stream' = Stream
    BY <1>1, <1>4, <2>1 DEF Stream
  <2>3. CurInv'
    <3>1. Len(cur') = Len(cur) + 1 /\ cur'[1] = cur[1] /\ cur'[Len(cur) + 1] = Head(queue)
          /\ \A j \in 1..Len(cur) : cur'[j] = cur[j]
      BY <2>1, <1>3, <1>4, AppendProperties
    <3>2. Len(cur) + 1 < WordsOf(cur[1].kind)
      BY <1>1, <1>2, <1>4, <1>5 DEF FrameInv, CurInv
    <3>3. \A j \in 1..Len(cur) : cur[j] = [cur[1] EXCEPT !.i = j]
      BY <1>1 DEF FrameInv, CurInv
    <3>4. ASSUME NEW j \in 1..Len(cur') PROVE cur'[j] = [cur'[1] EXCEPT !.i = j]
      <4>1. CASE j = Len(cur) + 1
        BY <4>1, <3>1, <1>2
      <4>2. CASE j # Len(cur) + 1
        <5>1. j \in 1..Len(cur)
          BY <4>2, <3>1, <1>4
        <5>. QED  BY <5>1, <3>1, <3>3
      <4>. QED  BY <4>1, <4>2
    <3>. QED  BY <3>1, <3>2, <3>4 DEF CurInv
  <2>4. FramesIntact' /\ FirstInv' /\ WithinInv' /\ EndInv'
    BY <1>1, <2>2 DEF FrameInv, FramesIntact, FirstInv, WithinInv, EndInv, Writing, Word
  <2>. QED  BY <2>3, <2>4 DEF FrameInv
<1>6. CASE Len(cur) + 1 = WordsOf(cur[1].kind)
  <2>. DEFINE c == Len(cur) + 1
  <2>1. cur' = <<>>
    BY <1>6 DEF HelperReadArg
  <2>2. /\ Stream \in Seq(Words) /\ Len(Stream) \in Nat /\ Len(Stream') = Len(Stream) - c
        /\ Len(Stream') \in Nat
        /\ \A k \in 1..Len(Stream') : Stream'[k] = Stream[k + c]
        /\ Stream[c] = Head(queue)
    <3>1. Stream' = Tail(queue)
      BY <1>1, <1>4, <2>1 DEF Stream
    <3>. QED  BY <3>1, <1>1, <1>4, StreamIs
  <2>3. FramesIntact'
    <3>. SUFFICES ASSUME NEW k \in 2..Len(Stream')
                  PROVE  IF Stream'[k].i = 1
                         THEN Stream'[k - 1].i = WordsOf(Stream'[k - 1].kind)
                         ELSE Stream'[k] = [Stream'[k - 1] EXCEPT !.i = @ + 1]
      BY DEF FramesIntact
    <3>1. k + c \in 2..Len(Stream) /\ (k + c) - 1 = (k - 1) + c
      BY <2>2, <1>4
    <3>2. Stream'[k] = Stream[k + c] /\ Stream'[k - 1] = Stream[(k - 1) + c]
      BY <2>2
    <3>. QED  BY <3>1, <3>2 DEF FrameInv, FramesIntact
  <2>4. WithinInv'
    <3>. SUFFICES ASSUME NEW k \in 1..Len(Stream')
                  PROVE  Stream'[k].i <= WordsOf(Stream'[k].kind)
      BY DEF WithinInv
    <3>1. k + c \in 1..Len(Stream) /\ Stream'[k] = Stream[k + c]
      BY <2>2, <1>4
    <3>. QED  BY <3>1 DEF FrameInv, WithinInv
  <2>5. FirstInv'
    <3>. SUFFICES ASSUME Stream' # <<>> PROVE Stream'[1].i = 1
      BY DEF FirstInv
    <3>1. c + 1 \in 2..Len(Stream) /\ (c + 1) - 1 = c /\ Stream'[1] = Stream[c + 1]
      BY <2>2, <1>4, StreamIs
    <3>2. Stream[c + 1].i = 1 \/ Stream[c + 1] = [Head(queue) EXCEPT !.i = @ + 1]
      <4>1. Head(queue) = Stream[(c + 1) - 1]
        BY <3>1, <2>2
      <4>. QED  BY <3>1, <4>1, FramesAt DEF FrameInv
    <3>3. Stream[c + 1].i <= WordsOf(Stream[c + 1].kind)
      BY <3>1 DEF FrameInv, WithinInv
    <3>4. ASSUME Stream[c + 1] = [Head(queue) EXCEPT !.i = @ + 1] PROVE FALSE
      <4>1. Stream[c + 1].i = c + 1 /\ Stream[c + 1].kind = cur[1].kind
        BY <3>4, <1>3 DEF Words
      <4>. QED  BY <4>1, <3>3, <1>6, <1>2, <1>4
    <3>. QED  BY <3>1, <3>2, <3>4
  <2>6. CurInv'
    BY <2>1 DEF CurInv
  <2>7. EndInv'
    <3>1. CASE Len(Stream') > 0
      <4>1. Stream'[Len(Stream')] = Stream[Len(Stream)] /\ Stream # <<>> /\ Stream' # <<>>
        BY <3>1, <2>2, <1>4
      <4>. QED  BY <4>1, <1>1 DEF FrameInv, EndInv, Writing, Word
    <3>2. CASE Len(Stream') = 0
      <4>1. Stream[Len(Stream)] = Head(queue)
        BY <3>2, <2>2, <1>4
      <4>2. ASSUME NEW s \in Senders, Writing(s) PROVE FALSE
        <5>1. Head(queue) = Word(msg[s], next[s] - 1)
          BY <4>1, <4>2 DEF FrameInv, EndInv
        <5>2. c = next[s] - 1 /\ cur[1].kind = msg[s].kind
          BY <5>1, <1>3 DEF Word
        <5>3. next[s] <= WordsOf(msg[s].kind) /\ next[s] \in 1..5
          BY <4>2 DEF Writing, CallInv, WriterInv, SenderTypes
        <5>. QED  BY <5>2, <5>3, <1>6, <1>2, <1>4
      <4>3. Stream' = <<>>
        BY <3>2, StreamIs
      <4>. QED  BY <4>2, <4>3, <1>1 DEF EndInv, Writing
    <3>. QED  BY <3>1, <3>2, <2>2
  <2>. QED  BY <2>3, <2>4, <2>5, <2>6, <2>7 DEF FrameInv
<1>. QED  BY <1>5, <1>6

LEMMA FrameInvStep == CallInv /\ FrameInv /\ CallInv' /\ [Next]_vars => FrameInv'
<1>. SUFFICES ASSUME CallInv, FrameInv, CallInv', [Next]_vars PROVE FrameInv'
  OBVIOUS
<1>1. CASE \E s \in Senders : Call(s) \/ SenderStep(s)
  BY <1>1, SenderFrames, WriteFrames DEF SenderStep
<1>2. CASE ExterServer \/ TaskStep \/ VsyncEnter \/ VsyncLeave \/ UNCHANGED vars
  BY <1>2, QuietFrames, ReadCmdFrames, ReadArgFrames DEF TaskStep
<1>. QED  BY <1>1, <1>2 DEF Next

(* The words of two host threads never mix in native2amiga_pending, although a
   sender may sleep in the middle of its message. *)
THEOREM FramesStayIntact == Spec => []FramesIntact
<1>1. CallInv /\ FrameInv /\ [Next]_vars => (CallInv /\ FrameInv)'
  BY CallInvStep, FrameInvStep
<1>2. FrameInv => FramesIntact
  BY DEF FrameInv
<1>. QED  BY <1>1, <1>2, CallInvInit, FrameInvInit, PTL DEF Spec

(* Every answer of exter_int_helper is one whole message, its words in order. *)
WholeMessages == \A k \in 1..Len(delivered) : IsMessage(delivered[k])

LEMMA WholeStep == CallInv /\ FrameInv /\ WholeMessages /\ [Next]_vars => WholeMessages'
<1>. SUFFICES ASSUME CallInv, FrameInv, WholeMessages, [Next]_vars PROVE WholeMessages'
  OBVIOUS
<1>1. CASE HelperReadArg /\ Len(cur) + 1 = WordsOf(cur[1].kind)
  <2>. DEFINE d == Append(cur, Head(queue))
  <2>1. delivered' = Append(delivered, d) /\ cur # <<>> /\ queue # <<>>
    BY <1>1 DEF HelperReadArg, TakeWord
  <2>2. /\ Head(queue) = [cur[1] EXCEPT !.i = Len(cur) + 1]
        /\ cur[1] \in Words /\ WordsOf(cur[1].kind) \in 2..4
    BY <2>1, NextArgument
  <2>3. /\ Len(d) = Len(cur) + 1 /\ Len(cur) \in Nat /\ Len(cur) >= 1
        /\ d[1] = cur[1] /\ d[Len(cur) + 1] = Head(queue)
        /\ \A j \in 1..Len(cur) : d[j] = cur[j]
    BY <2>1 DEF CallInv, WordTypes
  <2>4. \A j \in 1..Len(cur) : cur[j] = [cur[1] EXCEPT !.i = j]
    BY <2>1 DEF FrameInv, CurInv
  <2>5. IsMessage(d)
    BY <1>1, <2>2, <2>3, <2>4 DEF IsMessage
  <2>6. /\ Len(delivered') = Len(delivered) + 1 /\ Len(delivered) \in Nat
        /\ delivered'[Len(delivered) + 1] = d
        /\ \A k \in 1..Len(delivered) : delivered'[k] = delivered[k]
    BY <2>1 DEF CallInv, WordTypes
  <2>7. ASSUME NEW k \in 1..Len(delivered') PROVE IsMessage(delivered'[k])
    <3>1. CASE k = Len(delivered) + 1
      BY <3>1, <2>5, <2>6
    <3>2. CASE k # Len(delivered) + 1
      <4>1. k \in 1..Len(delivered) /\ delivered'[k] = delivered[k]
        BY <3>2, <2>6
      <4>. QED  BY <4>1 DEF WholeMessages
    <3>. QED  BY <3>1, <3>2
  <2>. QED  BY <2>7 DEF WholeMessages
<1>2. CASE ~(HelperReadArg /\ Len(cur) + 1 = WordsOf(cur[1].kind))
  <2>1. delivered' = delivered
    BY <1>2 DEF Next, SenderStep, TaskStep, Call, NativesemWait, Write, WriteFull,
       WriteWoken, Request, NativesemPost, ExterServer, ExterTaskWait, HelperEnter,
       HelperRefused, HelperPoll, HelperReadCmd, HelperReadArg, HelperEnd, VsyncEnter,
       VsyncLeave, vars, history
  <2>. QED  BY <2>1 DEF WholeMessages
<1>. QED  BY <1>1, <1>2

(* exter_int_helper hands exec only whole messages: the command of one sender and
   then its arguments, all of them and in order, however the writer slept. *)
THEOREM MessagesAreWhole == Spec => []WholeMessages
<1>1. Init => WholeMessages
  BY DEF Init, WholeMessages
<1>2. CallInv /\ FrameInv /\ WholeMessages /\ [Next]_vars
        => (CallInv /\ FrameInv /\ WholeMessages)'
  BY CallInvStep, FrameInvStep, WholeStep
<1>. QED  BY <1>1, <1>2, CallInvInit, FrameInvInit, PTL DEF Spec
=============================================================================
