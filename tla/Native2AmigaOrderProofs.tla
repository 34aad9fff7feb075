----------------------- MODULE Native2AmigaOrderProofs -----------------------
(***************************************************************************)
(* More proofs about Native2Amiga without a reset: the messages of one     *)
(* host thread are delivered in the order of its calls, each once, for any *)
(* number of threads and calls.  Counting what is delivered is enough when *)
(* the words in the pipe are numbered on from it: the first word of a      *)
(* thread in the stream belongs to its next message, each other word to    *)
(* the message of its last word before or to the one after that, and the   *)
(* last word to the last message the thread has begun to write.            *)
(***************************************************************************)
EXTENDS Native2AmigaProofs, FiniteSetTheorems

\* The messages of a sender among those delivered, and those whose first word it has
\* written.
Count(done, s) == Cardinality({l \in 1..Len(done) : done[l][1].s = s})

Begun(s) == spc[s] = "lock" \/ (spc[s] \in {"write", "sleep"} /\ next[s] = 1)

Asked(s) == posted[s] - (IF Begun(s) THEN 1 ELSE 0)

\* No word of s at the positions from j to k of a stream of words.
NoneOf(words, s, j, k) == \A m \in j..k : words[m].s # s

NumberInv ==
    \A s \in Senders :
        /\ msg[s].s = s
        /\ spc[s] # "idle" => msg[s].id = posted[s] /\ posted[s] >= 1

\* In the stream the messages of a sender are numbered on from those delivered.
FirstOfInv ==
    \A k \in 1..Len(Stream) :
        NoneOf(Stream, Stream[k].s, 1, k - 1) => Stream[k].id = Count(delivered, Stream[k].s) + 1

NextOfInv ==
    \A k \in 1..Len(Stream) : \A j \in 1..(k - 1) :
        Stream[j].s = Stream[k].s /\ NoneOf(Stream, Stream[k].s, j + 1, k - 1)
            => Stream[k].id = Stream[j].id + (IF Stream[k].i = 1 THEN 1 ELSE 0)

LastOfInv ==
    \A s \in Senders :
        /\ NoneOf(Stream, s, 1, Len(Stream)) => Count(delivered, s) = Asked(s)
        /\ \A k \in 1..Len(Stream) :
              Stream[k].s = s /\ NoneOf(Stream, s, k + 1, Len(Stream)) => Stream[k].id = Asked(s)

OrderInv == NumberInv /\ FirstOfInv /\ NextOfInv /\ LastOfInv

\* The part of DeliveredInOrder that is not WholeMessages.
Numbered ==
    \A k \in 1..Len(delivered) :
        delivered[k][1].id
            = Cardinality({l \in 1..k : delivered[l][1].s = delivered[k][1].s})

-----------------------------------------------------------------------------
LEMMA CountIs ==
    ASSUME CallInv, NEW s
    PROVE  /\ IsFiniteSet({l \in 1..Len(delivered) : delivered[l][1].s = s})
           /\ Count(delivered, s) \in Nat
<1>. DEFINE D == {l \in 1..Len(delivered) : delivered[l][1].s = s}
<1>1. Len(delivered) \in Int /\ 1 \in Int  BY LenProperties DEF CallInv, WordTypes
<1>2. IsFiniteSet(1..Len(delivered))  BY <1>1, FS_Interval
<1>3. IsFiniteSet(D)  BY <1>2, FS_Subset
<1>. QED  BY <1>3, FS_CardinalityType DEF Count

\* A message more is delivered.
LEMMA CountMore ==
    ASSUME CallInv, NEW d, delivered' = Append(delivered, d), NEW s
    PROVE  Count(delivered', s) = Count(delivered, s) + (IF d[1].s = s THEN 1 ELSE 0)
<1>. DEFINE n1 == Len(delivered) + 1
            D == {l \in 1..Len(delivered) : delivered[l][1].s = s}
            E == {l \in 1..Len(delivered') : delivered'[l][1].s = s}
<1>1. /\ Len(delivered) \in Nat /\ Len(delivered') = n1 /\ delivered'[n1] = d
      /\ \A l \in 1..Len(delivered) : delivered'[l] = delivered[l]
      /\ 1..n1 = 1..Len(delivered) \cup {n1} /\ n1 \notin 1..Len(delivered)
  BY LenProperties DEF CallInv, WordTypes
<1>. HIDE DEF n1
<1>2. IsFiniteSet(D) /\ n1 \notin D /\ Cardinality(D) \in Nat
  BY <1>1, CountIs DEF Count
<1>3. CASE d[1].s = s
  <2>1. E = D \cup {n1}  BY <1>1, <1>3
  <2>2. Cardinality(D \cup {n1}) = Cardinality(D) + 1
    <3>. HIDE DEF D
    <3>. QED  BY <1>2, FS_AddElement
  <2>. QED  BY <2>1, <2>2, <1>3 DEF Count
<1>4. CASE d[1].s # s
  <2>1. E = D  BY <1>1, <1>4
  <2>2. Cardinality(E) = Cardinality(D) + 0
    <3>. HIDE DEF D, E
    <3>. QED  BY <2>1, <1>2
  <2>. QED  BY <2>2, <1>4 DEF Count
<1>. QED  BY <1>3, <1>4

LEMMA OrderInvInit == Init => OrderInv /\ Numbered
<1>. SUFFICES ASSUME Init PROVE OrderInv /\ Numbered
  OBVIOUS
<1>1. Len(Stream) = 0 /\ Len(delivered) = 0 /\ 1..0 = {}
  BY CallInvInit, StreamIs DEF Init
<1>2. ASSUME NEW s \in Senders PROVE Count(delivered, s) = 0 /\ Asked(s) = 0
  <2>1. {l \in 1..Len(delivered) : delivered[l][1].s = s} = {}  BY <1>1
  <2>. QED  BY <2>1, FS_EmptySet DEF Count, Asked, Begun, Init
<1>3. NumberInv  BY DEF Init, NumberInv
<1>4. FirstOfInv /\ NextOfInv /\ LastOfInv
  BY <1>1, <1>2 DEF FirstOfInv, NextOfInv, LastOfInv
<1>. QED  BY <1>1, <1>3, <1>4 DEF OrderInv, Numbered

\* A step that neither writes nor delivers.
LEMMA SameOrder ==
    ASSUME OrderInv, NumberInv', UNCHANGED <<Stream, delivered>>,
           \A s \in Senders : Asked(s)' = Asked(s)
    PROVE  OrderInv'
<1>1. FirstOfInv' /\ NextOfInv'
  BY DEF OrderInv, FirstOfInv, NextOfInv, NoneOf, Count
<1>2. LastOfInv'
  BY DEF OrderInv, LastOfInv, NoneOf, Count
<1>. QED  BY <1>1, <1>2 DEF OrderInv

LEMMA SenderOrder ==
    ASSUME CallInv, OrderInv, NEW s \in Senders,
           \/ Call(s) \/ NativesemWait(s) \/ WriteFull(s) \/ Request(s) \/ NativesemPost(s)
    PROVE  OrderInv'
<1>1. UNCHANGED <<queue, cur, delivered>>
  BY DEF Call, NativesemWait, WriteFull, Request, NativesemPost, pipe, task, history
<1>2. UNCHANGED Stream  BY <1>1 DEF Stream
<1>3. /\ spc \in [Senders -> {"idle", "lock", "write", "sleep", "request", "unlock"}]
      /\ msg \in [Senders -> Messages] /\ next \in [Senders -> 1..5]
      /\ posted \in [Senders -> Nat] /\ (spc[s] = "lock" => next[s] = 1)
  BY DEF CallInv, SenderTypes, WriterInv
<1>4. CASE Call(s)
  <2>1. PICK kind \in Kinds :
           msg' = [msg EXCEPT ![s] = [s |-> s, id |-> posted[s] + 1, kind |-> kind]]
    BY <1>4 DEF Call
  <2>2. /\ spc[s] = "idle" /\ posted' = [posted EXCEPT ![s] = posted[s] + 1]
        /\ next' = [next EXCEPT ![s] = 1] /\ spc' = [spc EXCEPT ![s] = "lock"]
    BY <1>4 DEF Call, Goto
  <2>3. NumberInv'  BY <2>1, <2>2, <1>3 DEF OrderInv, NumberInv
  <2>4. ASSUME NEW t \in Senders PROVE Asked(t)' = Asked(t)
    BY <2>2, <1>3 DEF Asked, Begun
  <2>. QED  BY <2>3, <2>4, <1>1, <1>2, SameOrder
<1>5. CASE NativesemWait(s) \/ WriteFull(s) \/ Request(s) \/ NativesemPost(s)
  <2>1. /\ UNCHANGED <<msg, next, posted>> /\ spc[s] # "idle"
        /\ \/ spc[s] = "lock" /\ spc' = [spc EXCEPT ![s] = "write"]
           \/ spc[s] = "write" /\ spc' = [spc EXCEPT ![s] = "sleep"]
           \/ spc[s] = "request" /\ spc' = [spc EXCEPT ![s] = "unlock"]
           \/ spc[s] = "unlock" /\ spc' = [spc EXCEPT ![s] = "idle"]
    BY <1>5 DEF NativesemWait, WriteFull, Request, NativesemPost, Goto
  <2>2. NumberInv'  BY <2>1, <1>3 DEF OrderInv, NumberInv
  <2>3. ASSUME NEW t \in Senders PROVE Asked(t)' = Asked(t)
    BY <2>1, <1>3 DEF Asked, Begun
  <2>. QED  BY <2>2, <2>3, <1>1, <1>2, SameOrder
<1>. QED  BY <1>4, <1>5

LEMMA QuietOrder ==
    ASSUME CallInv, FrameInv, OrderInv, CallInv',
           \/ ExterServer \/ ExterTaskWait \/ HelperEnter \/ HelperRefused \/ HelperPoll
           \/ HelperReadCmd \/ HelperEnd \/ VsyncEnter \/ VsyncLeave \/ UNCHANGED vars
    PROVE  OrderInv'
<1>1. UNCHANGED <<spc, msg, next, posted, delivered>>
  BY DEF ExterServer, ExterTaskWait, HelperEnter, HelperRefused, HelperPoll,
     HelperReadCmd, HelperEnd, VsyncEnter, VsyncLeave, vars, pipe, sender, task, history
<1>2. Stream' = Stream
  <2>1. CASE HelperReadCmd
    <3>1. queue # <<>> /\ queue' = Tail(queue) /\ cur = <<>> /\ cur' = <<Head(queue)>>
      BY <2>1, ReadCmdFrames DEF HelperReadCmd, TakeWord
    <3>. QED  BY <3>1 DEF Stream, CallInv, PipeTypes
  <2>2. CASE ~HelperReadCmd
    <3>1. UNCHANGED <<queue, cur>>
      BY <2>2 DEF ExterServer, ExterTaskWait, HelperEnter, HelperRefused, HelperPoll,
         HelperEnd, VsyncEnter, VsyncLeave, vars, pipe, sender, task, history
    <3>. QED  BY <3>1 DEF Stream
  <2>. QED  BY <2>1, <2>2
<1>3. NumberInv'  BY <1>1 DEF OrderInv, NumberInv
<1>4. ASSUME NEW t \in Senders PROVE Asked(t)' = Asked(t)
  BY <1>1 DEF Asked, Begun
<1>. QED  BY <1>1, <1>2, <1>3, <1>4, SameOrder

-----------------------------------------------------------------------------
(* A word is written. *)

LEMMA WriteOrder ==
    ASSUME CallInv, FrameInv, OrderInv, CallInv', NEW s \in Senders,
           Write(s) \/ WriteWoken(s)
    PROVE  OrderInv'
<1>. DEFINE w == Word(msg[s], next[s])
            L == Len(Stream)
<1>1. /\ queue' = Append(queue, w) /\ UNCHANGED <<cur, msg, posted, delivered>>
      /\ next' = [next EXCEPT ![s] = next[s] + 1]
      /\ spc' = [spc EXCEPT ![s] =
                    IF next[s] = WordsOf(msg[s].kind) THEN "request" ELSE "write"]
      /\ spc[s] \in {"write", "sleep"}
  BY DEF Write, WriteWoken, Written, Goto, task, history
<1>2. /\ spc \in [Senders -> {"idle", "lock", "write", "sleep", "request", "unlock"}]
      /\ msg \in [Senders -> Messages] /\ next \in [Senders -> 1..5]
      /\ posted \in [Senders -> Nat]
      /\ next[s] <= WordsOf(msg[s].kind) /\ WordsOf(msg[s].kind) \in 2..4
  BY <1>1, Lengths DEF CallInv, SenderTypes, WriterInv, Messages
<1>3. /\ w \in Words /\ w.i = next[s] /\ w.s = s /\ w.id = posted[s] /\ posted[s] >= 1
  BY <1>1, <1>2 DEF Word, Words, Messages, OrderInv, NumberInv
<1>4. /\ L \in Nat /\ Len(Stream') = L + 1
      /\ \A k \in 1..L : Stream'[k] = Stream[k] /\ Stream[k] \in Words
      /\ Stream'[L + 1] = w
  <2>1. Stream' = Append(Stream, w)
    BY <1>1, <1>3 DEF Stream, CallInv, PipeTypes, WordTypes
  <2>2. Stream \in Seq(Words)  BY StreamIs
  <2>3. \A k \in 1..L : Stream[k] \in Words  BY <2>2, ElementOfSeq
  <2>. QED  BY <2>1, <2>2, <2>3, <1>3, AppendProperties, LenProperties
<1>5. Asked(s) = (IF next[s] = 1 THEN posted[s] - 1 ELSE posted[s]) /\ Asked(s)' = posted[s]
  BY <1>1, <1>2, <1>3 DEF Asked, Begun
<1>6. \A t \in Senders : t # s => Asked(t)' = Asked(t)
  BY <1>1, <1>2 DEF Asked, Begun
<1>7. \A t : Count(delivered', t) = Count(delivered, t)  BY <1>1 DEF Count
<1>8. next[s] # 1 => L >= 1 /\ Stream[L].s = s
  <2>1. ASSUME next[s] # 1 PROVE L >= 1 /\ Stream[L].s = s
    <3>1. Writing(s)  BY <2>1, <1>1, <1>2 DEF Writing
    <3>2. Stream # <<>> /\ Stream[L] = Word(msg[s], next[s] - 1)
      BY <3>1 DEF FrameInv, EndInv
    <3>3. L # 0  BY <3>2, StreamIs, EmptySeq
    <3>. QED  BY <3>2, <3>3, <1>4 DEF Word, OrderInv, NumberInv
  <2>. QED  BY <2>1
<1>. HIDE DEF w, L
<1>9. /\ \A t, j : \A k \in 0..L :
            j \in Nat \ {0} => (NoneOf(Stream', t, j, k) <=> NoneOf(Stream, t, j, k))
  <2>1. SUFFICES ASSUME NEW t, NEW j \in Nat \ {0}, NEW k \in 0..L
                 PROVE  NoneOf(Stream', t, j, k) <=> NoneOf(Stream, t, j, k)
    OBVIOUS
  <2>2. \A m \in j..k : m \in 1..L  BY <1>4
  <2>3. \A m \in j..k : Stream'[m] = Stream[m]  BY <2>2, <1>4
  <2>. QED  BY <2>3 DEF NoneOf
<1>10. NumberInv'
  BY <1>1, <1>2, <1>3 DEF OrderInv, NumberInv
<1>11. FirstOfInv'
  <2>. SUFFICES ASSUME NEW k \in 1..Len(Stream'), NoneOf(Stream', Stream'[k].s, 1, k - 1)
                PROVE  Stream'[k].id = Count(delivered', Stream'[k].s) + 1
    BY DEF FirstOfInv
  <2>0. k - 1 \in 0..L /\ NoneOf(Stream, Stream'[k].s, 1, k - 1)
    <3>1. k - 1 \in 0..L /\ 1 \in Nat \ {0}  BY <1>4
    <3>. QED  BY <3>1, <1>9
  <2>1. CASE k \in 1..L
    <3>1. Stream'[k] = Stream[k] /\ k \in 1..Len(Stream)  BY <2>1, <1>4 DEF L
    <3>. QED  BY <2>0, <3>1, <1>7 DEF OrderInv, FirstOfInv
  <2>2. CASE k = L + 1
    <3>1. Stream'[k] = w /\ NoneOf(Stream, s, 1, L)  BY <2>0, <2>2, <1>3, <1>4
    <3>2. Count(delivered, s) = Asked(s)  BY <3>1 DEF OrderInv, LastOfInv, L
    <3>3. next[s] = 1  BY <3>1, <1>4, <1>8 DEF NoneOf
    <3>. QED  BY <3>1, <3>2, <3>3, <1>2, <1>3, <1>5, <1>7
  <2>. QED  BY <2>1, <2>2, <1>4
<1>12. NextOfInv'
  <2>. SUFFICES ASSUME NEW k \in 1..Len(Stream'), NEW j \in 1..(k - 1),
                       Stream'[j].s = Stream'[k].s, NoneOf(Stream', Stream'[k].s, j + 1, k - 1)
                PROVE  Stream'[k].id
                          = Stream'[j].id + (IF Stream'[k].i = 1 THEN 1 ELSE 0)
    BY DEF NextOfInv
  <2>0. j \in 1..L /\ NoneOf(Stream, Stream'[k].s, j + 1, k - 1)
    <3>1. j \in 1..L /\ k - 1 \in 0..L /\ j + 1 \in Nat \ {0}  BY <1>4
    <3>. QED  BY <3>1, <1>9
  <2>1. CASE k \in 1..L
    <3>1. /\ Stream'[k] = Stream[k] /\ k \in 1..Len(Stream)
          /\ Stream'[j] = Stream[j] /\ j \in 1..(k - 1)
      BY <2>0, <2>1, <1>4 DEF L
    <3>. QED  BY <2>0, <3>1 DEF OrderInv, NextOfInv
  <2>2. CASE k = L + 1
    <3>1. Stream'[k] = w /\ Stream'[j] = Stream[j] /\ Stream[j].s = s
      BY <2>0, <2>2, <1>3, <1>4
    <3>2. NoneOf(Stream, s, j + 1, L)  BY <2>0, <2>2, <3>1, <1>3, <1>4
    <3>3. Stream[j].id = Asked(s)  BY <2>0, <3>1, <3>2 DEF OrderInv, LastOfInv, L
    <3>. QED  BY <3>1, <3>3, <1>2, <1>3, <1>5
  <2>. QED  BY <2>1, <2>2, <1>4
<1>13. LastOfInv'
  <2>. SUFFICES ASSUME NEW t \in Senders
                PROVE  /\ NoneOf(Stream', t, 1, Len(Stream')) => Count(delivered', t) = Asked(t)'
                       /\ \A k \in 1..Len(Stream') :
                             Stream'[k].s = t /\ NoneOf(Stream', t, k + 1, Len(Stream'))
                                 => Stream'[k].id = Asked(t)'
    BY DEF LastOfInv
  <2>1. CASE t = s
    <3>1. L + 1 \in 1..Len(Stream') /\ Stream'[L + 1].s = s  BY <1>3, <1>4
    <3>2. ~NoneOf(Stream', s, 1, Len(Stream'))  BY <3>1 DEF NoneOf
    <3>3. ASSUME NEW k \in 1..Len(Stream'), NoneOf(Stream', s, k + 1, Len(Stream'))
          PROVE  k = L + 1
      <4>1. CASE k \in 1..L
        <5>1. L + 1 \in (k + 1)..Len(Stream')  BY <4>1, <1>4
        <5>. QED  BY <5>1, <3>1, <3>3 DEF NoneOf
      <4>. QED  BY <4>1, <1>4
    <3>. QED  BY <2>1, <3>2, <3>3, <1>3, <1>4, <1>5
  <2>2. CASE t # s
    <3>1. ASSUME NoneOf(Stream', t, 1, Len(Stream')) PROVE Count(delivered', t) = Asked(t)'
      <4>1. NoneOf(Stream, t, 1, L)
        BY <3>1, <1>4 DEF NoneOf
      <4>. QED  BY <4>1, <2>2, <1>6, <1>7 DEF OrderInv, LastOfInv, L
    <3>2. ASSUME NEW k \in 1..Len(Stream'), Stream'[k].s = t,
                 NoneOf(Stream', t, k + 1, Len(Stream'))
          PROVE  Stream'[k].id = Asked(t)'
      <4>1. k \in 1..L /\ Stream'[k] = Stream[k]  BY <2>2, <3>2, <1>3, <1>4
      <4>2. NoneOf(Stream, t, k + 1, L)
        <5>1. \A m \in (k + 1)..L : m \in (k + 1)..Len(Stream') /\ Stream'[m] = Stream[m]
          BY <4>1, <1>4
        <5>. QED  BY <5>1, <3>2 DEF NoneOf
      <4>. QED  BY <4>1, <4>2, <2>2, <3>2, <1>6 DEF OrderInv, LastOfInv, L
    <3>. QED  BY <3>1, <3>2
  <2>. QED  BY <2>1, <2>2
<1>. QED  BY <1>10, <1>11, <1>12, <1>13 DEF OrderInv

-----------------------------------------------------------------------------
(* A message is delivered: its words leave the front of the stream. *)

LEMMA ReadShape ==
    ASSUME CallInv, FrameInv, HelperReadArg
    PROVE  LET c == Len(cur) + 1
               d == Append(cur, Head(queue))
           IN  \/ UNCHANGED <<Stream, delivered>>
               \/ /\ delivered' = Append(delivered, d) /\ d[1] = Stream[1]
                  /\ c \in Nat /\ c >= 2 /\ c <= Len(Stream)
                  /\ Len(Stream) \in Nat /\ Len(Stream') = Len(Stream) - c
                  /\ \A k \in 1..Len(Stream') : Stream'[k] = Stream[k + c]
                  /\ \A j \in 1..c : Stream[j].s = Stream[1].s /\ Stream[j].id = Stream[1].id
<1>. DEFINE c == Len(cur) + 1
            d == Append(cur, Head(queue))
<1>1. /\ queue # <<>> /\ queue' = Tail(queue) /\ cur # <<>>
      /\ cur \in Seq(Words) /\ queue \in Seq(Words)
      /\ Len(cur) \in Nat /\ Len(cur) >= 1
  BY DEF HelperReadArg, TakeWord, CallInv, WordTypes, PipeTypes
<1>2. /\ Head(queue) = [cur[1] EXCEPT !.i = Len(cur) + 1] /\ cur[1] \in Words
  BY <1>1, NextArgument
<1>3. CASE Len(cur) + 1 # WordsOf(cur[1].kind)
  <2>1. cur' = Append(cur, Head(queue)) /\ delivered' = delivered
    BY <1>3 DEF HelperReadArg
  <2>2. Stream' = Stream  BY <1>1, <2>1 DEF Stream
  <2>. QED  BY <2>1, <2>2
<1>4. CASE Len(cur) + 1 = WordsOf(cur[1].kind)
  <2>1. cur' = <<>> /\ delivered' = Append(delivered, d)
    BY <1>4 DEF HelperReadArg
  <2>2. Stream' = Tail(queue)  BY <1>1, <2>1 DEF Stream
  <2>3. /\ Len(Stream) \in Nat /\ Len(Stream') = Len(Stream) - c /\ c <= Len(Stream)
        /\ \A k \in 1..Len(Stream') : Stream'[k] = Stream[k + c]
        /\ Stream[c] = Head(queue)
        /\ \A j \in 1..Len(cur) : Stream[j] = cur[j]
    BY <1>1, <2>2, StreamIs
  <2>4. \A j \in 1..Len(cur) : cur[j] = [cur[1] EXCEPT !.i = j]
    BY <1>1 DEF FrameInv, CurInv
  <2>5. Stream[1] = cur[1] /\ d[1] = cur[1] /\ 1 \in 1..Len(cur)
    BY <1>1, <2>3
  <2>6. ASSUME NEW j \in 1..c PROVE Stream[j].s = Stream[1].s /\ Stream[j].id = Stream[1].id
    <3>1. CASE j = c  BY <3>1, <2>3, <2>5, <1>2 DEF Words
    <3>2. CASE j # c
      <4>1. j \in 1..Len(cur)  BY <3>2, <1>1
      <4>2. Stream[j] = [cur[1] EXCEPT !.i = j]  BY <4>1, <2>3, <2>4
      <4>. QED  BY <4>2, <2>5, <1>2 DEF Words
    <3>. QED  BY <3>1, <3>2
  <2>. HIDE DEF c, d
  <2>7. c \in Nat /\ c >= 2  BY <1>1 DEF c
  <2>. QED  BY <2>1, <2>3, <2>5, <2>6, <2>7 DEF c, d
<1>. QED  BY <1>3, <1>4

LEMMA ReadOrder ==
    ASSUME CallInv, FrameInv, OrderInv, Numbered, CallInv', FrameInv', HelperReadArg
    PROVE  OrderInv' /\ Numbered'
<1>1. UNCHANGED <<spc, msg, next, posted>>
  BY DEF HelperReadArg, sender
<1>2. NumberInv'  BY <1>1 DEF OrderInv, NumberInv
<1>3. \A t : Asked(t)' = Asked(t)  BY <1>1 DEF Asked, Begun
<1>4. CASE UNCHANGED <<Stream, delivered>>
  <2>1. OrderInv'  BY <1>2, <1>3, <1>4, SameOrder
  <2>2. Numbered'  BY <1>4 DEF Numbered
  <2>. QED  BY <2>1, <2>2
<1>5. CASE ~UNCHANGED <<Stream, delivered>>
  <2>1. PICK c, d :
           /\ delivered' = Append(delivered, d) /\ d[1] = Stream[1]
           /\ c \in Nat /\ c >= 2 /\ c <= Len(Stream)
           /\ Len(Stream) \in Nat /\ Len(Stream') = Len(Stream) - c
           /\ \A k \in 1..Len(Stream') : Stream'[k] = Stream[k + c]
           /\ \A j \in 1..c : Stream[j].s = Stream[1].s /\ Stream[j].id = Stream[1].id
    BY <1>5, ReadShape
  <2>2. PICK p : p = Stream[1].s  OBVIOUS
  <2>3. Stream[1].id = Count(delivered, p) + 1
    <3>1. 1 \in 1..Len(Stream) /\ NoneOf(Stream, p, 1, 1 - 1)  BY <2>1 DEF NoneOf
    <3>. QED  BY <3>1, <2>2 DEF OrderInv, FirstOfInv
  <2>4. /\ \A t : t # p => Count(delivered', t) = Count(delivered, t)
        /\ Count(delivered', p) = Count(delivered, p) + 1
    <3>1. ASSUME NEW t
          PROVE  Count(delivered', t) = Count(delivered, t) + (IF d[1].s = t THEN 1 ELSE 0)
      BY <2>1, CountMore
    <3>2. \A t : Count(delivered, t) \in Nat  BY CountIs
    <3>. QED  BY <3>1, <3>2, <2>1, <2>2
  \* Where the new stream has no word of t, the old one has none behind the message.
  <2>5. ASSUME NEW t, NEW j \in Nat \ {0}, NEW k \in 0..Len(Stream'),
               NoneOf(Stream', t, j, k)
        PROVE  NoneOf(Stream, t, j + c, k + c)
    <3>. SUFFICES ASSUME NEW m \in (j + c)..(k + c) PROVE Stream[m].s # t
      BY DEF NoneOf
    <3>1. m - c \in j..k /\ m - c \in 1..Len(Stream') /\ (m - c) + c = m  BY <2>1
    <3>2. Stream'[m - c] = Stream[m]  BY <3>1, <2>1
    <3>. QED  BY <3>1, <3>2, <2>5 DEF NoneOf
  \* A sender other than p has no word in the message.
  <2>6. ASSUME NEW t, t # p, NEW k \in 0..Len(Stream'), NoneOf(Stream', t, 1, k)
        PROVE  NoneOf(Stream, t, 1, k + c)
    <3>1. NoneOf(Stream, t, 1 + c, k + c)  BY <2>5, <2>6
    <3>. SUFFICES ASSUME NEW m \in 1..(k + c) PROVE Stream[m].s # t
      BY DEF NoneOf
    <3>2. CASE m \in 1..c  BY <3>2, <2>1, <2>2, <2>6
    <3>3. CASE m \in (1 + c)..(k + c)  BY <3>1, <3>3 DEF NoneOf
    <3>. QED  BY <3>2, <3>3, <2>1
  <2>7. FirstOfInv'
    <3>. SUFFICES ASSUME NEW k \in 1..Len(Stream'), NoneOf(Stream', Stream'[k].s, 1, k - 1)
                  PROVE  Stream'[k].id = Count(delivered', Stream'[k].s) + 1
      BY DEF FirstOfInv
    <3>1. /\ k - 1 \in 0..Len(Stream') /\ k + c \in 1..Len(Stream)
          /\ (k - 1) + c = (k + c) - 1 /\ Stream'[k] = Stream[k + c]
      BY <2>1
    <3>2. CASE Stream'[k].s # p
      <4>1. NoneOf(Stream, Stream'[k].s, 1, (k + c) - 1)  BY <3>1, <3>2, <2>6
      <4>2. Stream[k + c].id = Count(delivered, Stream[k + c].s) + 1
        BY <4>1, <3>1 DEF OrderInv, FirstOfInv
      <4>. QED  BY <4>2, <3>1, <3>2, <2>4
    <3>3. CASE Stream'[k].s = p
      <4>1. 1 \in Nat \ {0} /\ NoneOf(Stream', p, 1, k - 1)  BY <3>3
      <4>2. NoneOf(Stream, p, 1 + c, (k - 1) + c)  BY <4>1, <3>1, <2>5
      <4>3. c + 1 = 1 + c /\ c \in 1..((k + c) - 1)  BY <3>1, <2>1
      <4>4. Stream[c].s = Stream[k + c].s /\ NoneOf(Stream, Stream[k + c].s, c + 1, (k + c) - 1)
        <5>1. Stream[c].s = p  BY <4>3, <2>1, <2>2
        <5>. QED  BY <5>1, <4>2, <4>3, <3>1, <3>3
      <4>5. Stream[k + c].id = Stream[c].id + (IF Stream[k + c].i = 1 THEN 1 ELSE 0)
        BY <4>3, <4>4, <3>1 DEF OrderInv, NextOfInv
      <4>6. Stream'[k].i = 1
        <5>1. CASE k = 1
          <6>1. Stream' # <<>>  BY <5>1, StreamIs, EmptySeq
          <6>. QED  BY <6>1, <5>1 DEF FrameInv, FirstInv
        <5>2. CASE k # 1 /\ Stream'[k].i # 1
          <6>1. k \in 2..Len(Stream') /\ k - 1 \in 1..(k - 1) /\ k - 1 \in 1..Len(Stream')
            BY <5>2
          <6>2. Stream'[k] = [Stream'[k - 1] EXCEPT !.i = @ + 1]
            BY <6>1, <5>2 DEF FrameInv, FramesIntact
          <6>3. Stream'[k - 1] \in Words
            <7>1. Stream' \in Seq(Words)
              BY ConcatProperties DEF Stream, CallInv, PipeTypes, WordTypes
            <7>. QED  BY <7>1, <6>1, ElementOfSeq
          <6>4. Stream'[k].s = Stream'[k - 1].s  BY <6>2, <6>3 DEF Words
          <6>. QED  BY <6>1, <6>4, <3>3, <4>1 DEF NoneOf
        <5>. QED  BY <5>1, <5>2
      <4>7. Stream[c].id = Count(delivered, p) + 1  BY <4>3, <2>1, <2>3
      <4>8. Count(delivered, p) \in Nat  BY CountIs
      <4>. QED  BY <4>5, <4>6, <4>7, <4>8, <3>1, <3>3, <2>4
    <3>. QED  BY <3>2, <3>3
  <2>8. NextOfInv'
    <3>. SUFFICES ASSUME NEW k \in 1..Len(Stream'), NEW j \in 1..(k - 1),
                         Stream'[j].s = Stream'[k].s,
                         NoneOf(Stream', Stream'[k].s, j + 1, k - 1)
                  PROVE  Stream'[k].id
                            = Stream'[j].id + (IF Stream'[k].i = 1 THEN 1 ELSE 0)
      BY DEF NextOfInv
    <3>1. /\ k - 1 \in 0..Len(Stream') /\ k + c \in 1..Len(Stream)
          /\ (k - 1) + c = (k + c) - 1 /\ Stream'[k] = Stream[k + c]
          /\ j \in 1..Len(Stream') /\ Stream'[j] = Stream[j + c]
          /\ j + c \in 1..((k + c) - 1) /\ (j + 1) + c = (j + c) + 1
          /\ j + 1 \in Nat \ {0}
      <4>1. /\ k \in Nat /\ j \in Nat /\ 1 <= j /\ j <= k - 1 /\ k <= Len(Stream')
            /\ Len(Stream') \in Nat
        BY <2>1
      <4>2. c \in Nat /\ Len(Stream) = Len(Stream') + c  BY <2>1
      <4>3. /\ k - 1 \in 0..Len(Stream') /\ k + c \in 1..Len(Stream)
            /\ (k - 1) + c = (k + c) - 1
        BY <4>1, <4>2
      <4>4. /\ j \in 1..Len(Stream') /\ j + c \in 1..((k + c) - 1)
            /\ (j + 1) + c = (j + c) + 1 /\ j + 1 \in Nat \ {0}
        BY <4>1, <4>2
      <4>5. Stream'[k] = Stream[k + c] /\ Stream'[j] = Stream[j + c]  BY <4>4, <2>1
      <4>. QED  BY <4>3, <4>4, <4>5
    <3>2. NoneOf(Stream, Stream'[k].s, (j + 1) + c, (k - 1) + c)  BY <3>1, <2>5
    <3>3. NoneOf(Stream, Stream[k + c].s, (j + c) + 1, (k + c) - 1)  BY <3>1, <3>2
    <3>4. Stream[k + c].id = Stream[j + c].id + (IF Stream[k + c].i = 1 THEN 1 ELSE 0)
      BY <3>1, <3>3 DEF OrderInv, NextOfInv
    <3>. QED  BY <3>1, <3>4
  <2>9. LastOfInv'
    <3>. SUFFICES ASSUME NEW t \in Senders
                  PROVE  /\ NoneOf(Stream', t, 1, Len(Stream'))
                               => Count(delivered', t) = Asked(t)
                         /\ \A k \in 1..Len(Stream') :
                               Stream'[k].s = t /\ NoneOf(Stream', t, k + 1, Len(Stream'))
                                   => Stream'[k].id = Asked(t)
      BY <1>3 DEF LastOfInv
    <3>1. Len(Stream') \in 0..Len(Stream') /\ Len(Stream') + c = Len(Stream)  BY <2>1
    <3>2. ASSUME NEW k \in 1..Len(Stream'), Stream'[k].s = t,
                 NoneOf(Stream', t, k + 1, Len(Stream'))
          PROVE  Stream'[k].id = Asked(t)
      <4>1. /\ k + 1 \in Nat \ {0} /\ k + c \in 1..Len(Stream)
            /\ Stream'[k] = Stream[k + c] /\ (k + 1) + c = (k + c) + 1
        BY <2>1
      <4>2. NoneOf(Stream, t, (k + 1) + c, Len(Stream') + c)  BY <4>1, <3>1, <3>2, <2>5
      <4>3. NoneOf(Stream, t, (k + c) + 1, Len(Stream))  BY <4>1, <4>2, <3>1
      <4>. QED  BY <4>1, <4>3, <3>2 DEF OrderInv, LastOfInv
    <3>3. ASSUME NoneOf(Stream', t, 1, Len(Stream')) PROVE Count(delivered', t) = Asked(t)
      <4>1. CASE t # p
        <5>1. NoneOf(Stream, t, 1, Len(Stream') + c)  BY <4>1, <3>1, <3>3, <2>6
        <5>. QED  BY <5>1, <4>1, <3>1, <2>4 DEF OrderInv, LastOfInv
      <4>2. CASE t = p
        <5>1. 1 \in Nat \ {0} /\ 1 + c = c + 1 /\ c \in 1..Len(Stream) /\ c \in 1..c
          BY <2>1
        <5>2. NoneOf(Stream, t, 1 + c, Len(Stream') + c)  BY <5>1, <3>1, <3>3, <2>5
        <5>3. NoneOf(Stream, t, c + 1, Len(Stream)) /\ Stream[c].s = t
          BY <5>1, <5>2, <4>2, <3>1, <2>1, <2>2
        <5>4. Stream[c].id = Asked(t)  BY <5>1, <5>3 DEF OrderInv, LastOfInv
        <5>5. Stream[c].id = Count(delivered, p) + 1  BY <5>1, <2>1, <2>3
        <5>. QED  BY <5>4, <5>5, <4>2, <2>4
      <4>. QED  BY <4>1, <4>2
    <3>. QED  BY <3>2, <3>3
  <2>10. Numbered'
    <3>. DEFINE n1 == Len(delivered) + 1
    <3>1. /\ Len(delivered) \in Nat /\ Len(delivered') = n1 /\ delivered'[n1] = d
          /\ \A l \in 1..Len(delivered) : delivered'[l] = delivered[l]
      BY <2>1, LenProperties DEF CallInv, WordTypes
    <3>. SUFFICES ASSUME NEW k \in 1..Len(delivered')
                  PROVE  delivered'[k][1].id
                            = Cardinality({l \in 1..k : delivered'[l][1].s
                                                          = delivered'[k][1].s})
      BY DEF Numbered
    <3>2. CASE k = n1
      <4>1. delivered'[k][1].s = p /\ delivered'[k][1].id = Count(delivered, p) + 1
        BY <3>1, <3>2, <2>1, <2>2, <2>3
      <4>2. Count(delivered', p) = Cardinality({l \in 1..k : delivered'[l][1].s = p})
        BY <3>1, <3>2 DEF Count
      <4>. QED  BY <4>1, <4>2, <2>4
    <3>3. CASE k # n1
      <4>1. k \in 1..Len(delivered) /\ delivered'[k] = delivered[k]  BY <3>1, <3>3
      <4>2. \A l \in 1..k : delivered'[l] = delivered[l]  BY <3>1, <4>1
      <4>3. {l \in 1..k : delivered'[l][1].s = delivered'[k][1].s}
              = {l \in 1..k : delivered[l][1].s = delivered[k][1].s}
        BY <4>1, <4>2
      <4>. QED  BY <4>1, <4>3 DEF Numbered
    <3>. QED  BY <3>2, <3>3
  <2>. QED  BY <1>2, <2>7, <2>8, <2>9, <2>10 DEF OrderInv
<1>. QED  BY <1>4, <1>5

-----------------------------------------------------------------------------
LEMMA OrderInvStep ==
    ASSUME CallInv, FrameInv, OrderInv, Numbered, [Next]_vars
    PROVE  CallInv' /\ FrameInv' /\ OrderInv' /\ Numbered'
<1>1. CallInv' /\ FrameInv'  BY CallInvStep, FrameInvStep
<1>2. CASE \E s \in Senders : Call(s) \/ SenderStep(s)
  <2>1. delivered' = delivered
    BY <1>2 DEF Call, SenderStep, NativesemWait, Write, WriteFull, WriteWoken, Request,
       NativesemPost, history
  <2>2. OrderInv'  BY <1>1, <1>2, SenderOrder, WriteOrder DEF SenderStep
  <2>. QED  BY <1>1, <2>1, <2>2 DEF Numbered
<1>3. CASE HelperReadArg  BY <1>1, <1>3, ReadOrder
<1>4. CASE \/ ExterServer \/ ExterTaskWait \/ HelperEnter \/ HelperRefused \/ HelperPoll
           \/ HelperReadCmd \/ HelperEnd \/ VsyncEnter \/ VsyncLeave \/ UNCHANGED vars
  <2>1. delivered' = delivered
    BY <1>4 DEF ExterServer, ExterTaskWait, HelperEnter, HelperRefused, HelperPoll,
       HelperReadCmd, HelperEnd, VsyncEnter, VsyncLeave, vars, history
  <2>2. OrderInv'  BY <1>1, <1>4, QuietOrder
  <2>. QED  BY <1>1, <2>1, <2>2 DEF Numbered
<1>. QED  BY <1>2, <1>3, <1>4 DEF Next, TaskStep

(* What the Amiga is asked to do is what the host threads asked for: every answer of
   exter_int_helper is one whole message, and the messages of one thread come in the
   order of its calls, each once and none left out. *)
THEOREM DeliveryIsInOrder == Spec => []DeliveredInOrder
<1>1. Init => CallInv /\ FrameInv /\ OrderInv /\ Numbered
  BY CallInvInit, FrameInvInit, OrderInvInit
<1>2. CallInv /\ FrameInv /\ OrderInv /\ Numbered /\ [Next]_vars
        => (CallInv /\ FrameInv /\ OrderInv /\ Numbered)'
  BY OrderInvStep
<1>3. WholeMessages /\ Numbered => DeliveredInOrder
  BY DEF WholeMessages, Numbered, DeliveredInOrder
<1>. QED  BY <1>1, <1>2, <1>3, MessagesAreWhole, PTL DEF Spec
=============================================================================
