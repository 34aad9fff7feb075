------------------------ MODULE FilesysPacketsProofs ------------------------
(***************************************************************************)
(* Proofs about FilesysPackets, for any number of packets, any limit of    *)
(* commands handed over and any size of back_pipe.  Four facts carry them: *)
(* a packet is in the handler's queue exactly until it is replied; what    *)
(* the host has in its hands is pending, or has timed out; a record found  *)
(* or unlinked by one of the two threads that share the list of waiting    *)
(* records has been in it, and keeps its packet from being taken for a     *)
(* new one; and the counters say who owns the dummy message, which is on   *)
(* its way whenever back_pipe holds more than one word.                    *)
(***************************************************************************)
EXTENDS FilesysPackets, SequenceTheorems, FiniteSetTheorems, TLAPS

Distinct(s) == \A i, j \in 1..Len(s) : s[i] = s[j] => i = j

\* No message is twice at the port, no packet twice in the queue, the pipe or the list.
QueueInv == Distinct(port) /\ Distinct(list) /\ Distinct(unit_pipe) /\ Distinct(waiting)

\* A packet is at the port, then in the handler's queue until it is replied; the host
\* has it only while it is pending or after its wait has timed out.
PacketInv ==
    \A p \in Packets :
        /\ Contains(port, p) => status[p] = "none" /\ replies[p] = 0
        /\ Contains(list, p) <=> status[p] # "none" /\ replies[p] = 0
        /\ InThread(p) => status[p] \in {"pending", "timeout"}
        /\ status[p] \in {"pending", "unstarted"} => replies[p] = 0
        /\ status[p] = "pending" => InThread(p) \/ p \in cut

\* The thread works on a packet that does not wait.
Held ==
    \/ fpc \in {"handle", "link", "unlink", "grant"}
    \/ fpc \in {"write", "count", "mark"} /\ mark

\* The thread has a packet in one place, until it has queued a record for it.
ThreadInv ==
    /\ fpc # "read" => cmd \in Packets
    /\ Held => /\ status[cmd] = "pending"
               /\ ~Contains(waiting, cmd) /\ ~Contains(unit_pipe, cmd)
    /\ \A p \in Packets :
          Contains(unit_pipe, p) => status[p] = "pending" /\ ~Contains(waiting, p)
    /\ fpc = "write" /\ ~mark /\ status[cmd] = "pending" =>
          Contains(waiting, cmd) \/ cmd \in cut \/ broken

\* The record the thread has in its hands, and the one the emulation thread has.
RecordInv ==
    /\ fpc \in {"unlink", "grant"} =>
          /\ frec \in Packets /\ frec # cmd /\ ~Contains(unit_pipe, frec)
          /\ status[frec] \in {"pending", "timeout"}
    /\ fpc = "grant" => broken \/ ~Contains(waiting, frec)
    /\ tpc # "idle" => trec \in Packets
    /\ tpc = "unlink" => status[trec] \notin {"none", "pending"}

CountInv == IsFiniteSet(Outstanding) /\ OutstandingIsCounted

\* Who owns the dummy message is written in the counters.
DummyInv ==
    /\ cmds_acked # cmds_complete <=> Contains(port, Dummy) \/ epc = "put"
    /\ ~(Contains(port, Dummy) /\ epc \in {"ack", "put"})
    /\ epc = "ack" => cmds_acked = cmds_complete /\ cmds_acked # cmds_sent

\* More than one word in back_pipe means a dummy message; the thread has already
\* counted when it writes the second.
DrainInv ==
    /\ back_pipe >= 2 => DummyComes
    /\ fpc \in {"mark", "back"} /\ back_pipe >= 1 =>
          cmds_acked # cmds_sent \/ Contains(port, Dummy) \/ epc \in {"ack", "put"}

PacketsInv ==
    /\ TypeOK /\ at \in Nat \ {0}
    /\ QueueInv /\ PacketInv /\ ThreadInv /\ RecordInv /\ CountInv /\ DummyInv /\ DrainInv

-----------------------------------------------------------------------------
(* Sequences without repetition. *)

LEMMA AppendDistinct ==
    ASSUME NEW S, NEW s \in Seq(S), NEW e \in S
    PROVE  /\ Append(s, e) \in Seq(S) /\ Len(Append(s, e)) = Len(s) + 1
           /\ \A x : Contains(Append(s, e), x) <=> Contains(s, x) \/ x = e
           /\ Distinct(s) /\ ~Contains(s, e) => Distinct(Append(s, e))
<1>1. /\ Append(s, e) \in Seq(S) /\ Len(Append(s, e)) = Len(s) + 1 /\ Len(s) \in Nat
      /\ \A i \in 1..Len(s) : Append(s, e)[i] = s[i]
      /\ Append(s, e)[Len(s) + 1] = e
      /\ 1..(Len(s) + 1) = 1..Len(s) \cup {Len(s) + 1}
  BY AppendProperties, LenProperties
<1>. QED  BY <1>1 DEF Contains, Distinct

LEMMA TailDistinct ==
    ASSUME NEW S, NEW s \in Seq(S), s # <<>>
    PROVE  /\ Tail(s) \in Seq(S) /\ Len(Tail(s)) = Len(s) - 1 /\ Head(s) \in S
           /\ Contains(s, Head(s)) /\ Len(s) \in Nat \ {0}
           /\ Distinct(s) =>
                 /\ Distinct(Tail(s))
                 /\ \A x : Contains(Tail(s), x) <=> Contains(s, x) /\ x # Head(s)
<1>1. /\ Tail(s) \in Seq(S) /\ Len(Tail(s)) = Len(s) - 1 /\ Len(s) \in Nat \ {0}
      /\ \A i \in 1..(Len(s) - 1) : Tail(s)[i] = s[i + 1]
      /\ Head(s) = s[1] /\ Head(s) \in S
  BY HeadTailProperties, LenProperties, EmptySeq
<1>2. \A i \in 1..Len(s) : i = 1 \/ \E j \in 1..(Len(s) - 1) : i = j + 1
  <2>1. \A i \in 1..Len(s) : i # 1 => i - 1 \in 1..(Len(s) - 1) /\ i = (i - 1) + 1
    BY <1>1
  <2>. QED  BY <2>1
<1>3. \A j \in 1..(Len(s) - 1) : j + 1 \in 1..Len(s) /\ j + 1 # 1
  BY <1>1
<1>4. ASSUME Distinct(s) PROVE Distinct(Tail(s))
  BY <1>1, <1>3, <1>4 DEF Distinct
<1>5. ASSUME Distinct(s), NEW x
      PROVE  Contains(Tail(s), x) <=> Contains(s, x) /\ x # Head(s)
  <2>1. Contains(Tail(s), x) <=> \E j \in 1..(Len(s) - 1) : s[j + 1] = x
    BY <1>1 DEF Contains
  <2>2. \A j \in 1..(Len(s) - 1) : s[j + 1] # s[1]
    BY <1>1, <1>3, <1>5 DEF Distinct
  <2>. QED  BY <2>1, <2>2, <1>1, <1>2, <1>3 DEF Contains
<1>. QED  BY <1>1, <1>4, <1>5 DEF Contains

LEMMA ConsDistinct ==
    ASSUME NEW S, NEW s \in Seq(S), NEW e \in S
    PROVE  /\ <<e>> \o s \in Seq(S)
           /\ \A x : Contains(<<e>> \o s, x) <=> Contains(s, x) \/ x = e
           /\ Distinct(s) /\ ~Contains(s, e) => Distinct(<<e>> \o s)
<1>. DEFINE t == <<e>> \o s
<1>1. /\ t \in Seq(S) /\ Len(t) = Len(s) + 1 /\ Len(s) \in Nat /\ t[1] = e
      /\ \A i \in 1..Len(s) : t[i + 1] = s[i]
  BY ConcatProperties, LenProperties
<1>2. \A i \in 1..Len(t) : i = 1 \/ \E j \in 1..Len(s) : i = j + 1
  <2>1. \A i \in 1..Len(t) : i # 1 => i - 1 \in 1..Len(s) /\ i = (i - 1) + 1
    BY <1>1
  <2>. QED  BY <2>1
<1>3. \A j \in 1..Len(s) : j + 1 \in 1..Len(t) /\ j + 1 # 1
  BY <1>1
<1>4. 1 \in 1..Len(t)  BY <1>1
<1>. HIDE DEF t
<1>5. ASSUME NEW x PROVE Contains(t, x) <=> Contains(s, x) \/ x = e
  <2>1. Contains(t, x) <=> \E i \in 1..Len(t) : t[i] = x  BY DEF Contains
  <2>2. Contains(s, x) <=> \E j \in 1..Len(s) : t[j + 1] = x  BY <1>1 DEF Contains
  <2>. QED  BY <2>1, <2>2, <1>1, <1>2, <1>3, <1>4
<1>6. ASSUME Distinct(s), ~Contains(s, e) PROVE Distinct(t)
  <2>1. \A i, j \in 1..Len(s) : t[i + 1] = t[j + 1] => i = j
    BY <1>1, <1>6 DEF Distinct
  <2>2. \A j \in 1..Len(s) : t[j + 1] # t[1]
    BY <1>1, <1>6 DEF Contains
  <2>3. SUFFICES ASSUME NEW i \in 1..Len(t), NEW j \in 1..Len(t), t[i] = t[j]
                 PROVE  i = j
    BY DEF Distinct
  <2>4. i = 1 \/ \E k \in 1..Len(s) : i = k + 1  BY <1>2
  <2>5. j = 1 \/ \E k \in 1..Len(s) : j = k + 1  BY <1>2
  <2>. QED  BY <2>1, <2>2, <2>3, <2>4, <2>5
<1>. QED  BY <1>1, <1>5, <1>6 DEF t

LEMMA RemoveDistinct ==
    ASSUME NEW S, NEW s \in Seq(S), NEW k \in 1..Len(s)
    PROVE  /\ RemoveAt(s, k) \in Seq(S)
           /\ Distinct(s) =>
                 /\ Distinct(RemoveAt(s, k))
                 /\ \A x : Contains(RemoveAt(s, k), x) <=> Contains(s, x) /\ x # s[k]
<1>. DEFINE r == RemoveAt(s, k)
            a == SubSeq(s, 1, k - 1)
            b == SubSeq(s, k + 1, Len(s))
<1>1. Len(s) \in Nat /\ k \in Nat  BY LenProperties
<1>2. /\ a \in Seq(S) /\ Len(a) = k - 1 /\ \A i \in 1..(k - 1) : a[i] = s[i]
  BY <1>1, SubSeqProperties
<1>3. /\ b \in Seq(S) /\ Len(b) = Len(s) - k
      /\ \A i \in 1..(Len(s) - k) : b[i] = s[k + i]
  BY <1>1, SubSeqProperties
<1>4. /\ r \in Seq(S) /\ Len(r) = Len(s) - 1
      /\ \A i \in 1..(Len(s) - 1) : r[i] = IF i < k THEN a[i] ELSE b[i - (k - 1)]
  <2>1. r = a \o b  BY DEF RemoveAt
  <2>. HIDE DEF a, b, r
  <2>2. /\ a \o b \in Seq(S) /\ Len(a \o b) = Len(a) + Len(b)
        /\ \A i \in 1..(Len(a) + Len(b)) :
              (a \o b)[i] = IF i <= Len(a) THEN a[i] ELSE b[i - Len(a)]
    BY <1>2, <1>3, ConcatProperties
  <2>3. Len(a) + Len(b) = Len(s) - 1  BY <1>1, <1>2, <1>3
  <2>4. \A i \in 1..(Len(s) - 1) : i <= Len(a) <=> i < k  BY <1>1, <1>2
  <2>. QED  BY <1>2, <2>1, <2>2, <2>3, <2>4
<1>5. \A i \in 1..(Len(s) - 1) : r[i] = IF i < k THEN s[i] ELSE s[i + 1]
  <2>. HIDE DEF a, b, r
  <2>. QED  BY <1>1, <1>2, <1>3, <1>4
<1>. HIDE DEF r
<1>6. \A i \in 1..Len(s) : \/ i = k
                           \/ i < k /\ i \in 1..(Len(s) - 1) /\ r[i] = s[i]
                           \/ i > k /\ i - 1 \in 1..(Len(s) - 1) /\ r[i - 1] = s[i]
  BY <1>1, <1>5
<1>7. ASSUME Distinct(s) PROVE Distinct(r)
  <2>. SUFFICES ASSUME NEW i \in 1..Len(r), NEW j \in 1..Len(r), r[i] = r[j]
                PROVE  i = j
    BY DEF Distinct
  <2>. DEFINE u == IF i < k THEN i ELSE i + 1
              v == IF j < k THEN j ELSE j + 1
  <2>1. u \in 1..Len(s) /\ v \in 1..Len(s) /\ s[u] = s[v]
    BY <1>1, <1>4, <1>5
  <2>2. u = v
    <3>. HIDE DEF u, v
    <3>. QED  BY <2>1, <1>7 DEF Distinct
  <2>. QED  BY <2>2, <1>1, <1>4
<1>8. ASSUME Distinct(s), NEW x PROVE Contains(r, x) <=> Contains(s, x) /\ x # s[k]
  <2>1. ASSUME Contains(r, x) PROVE Contains(s, x) /\ x # s[k]
    <3>1. PICK i \in 1..(Len(s) - 1) : r[i] = x  BY <2>1, <1>4 DEF Contains
    <3>2. PICK j \in 1..Len(s) : j # k /\ s[j] = x
      <4>1. CASE i < k  BY <4>1, <3>1, <1>1, <1>5
      <4>2. CASE ~(i < k)
        <5>1. i + 1 \in 1..Len(s) /\ i + 1 # k /\ s[i + 1] = x
          BY <4>2, <3>1, <1>1, <1>5
        <5>. QED  BY <5>1
      <4>. QED  BY <4>1, <4>2
    <3>. QED  BY <3>2, <1>8 DEF Contains, Distinct
  <2>2. ASSUME Contains(s, x), x # s[k] PROVE Contains(r, x)
    <3>1. PICK i \in 1..Len(s) : s[i] = x  BY <2>2 DEF Contains
    <3>. QED  BY <3>1, <2>2, <1>4, <1>6 DEF Contains
  <2>. QED  BY <2>1, <2>2
<1>. QED  BY <1>4, <1>7, <1>8 DEF r

LEMMA EmptyDistinct == Distinct(<<>>) /\ \A x : ~Contains(<<>>, x)
  BY DEF Distinct, Contains

\* The end of a sequence, after its k-th element.
LEMMA SuffixDistinct ==
    ASSUME NEW S, NEW s \in Seq(S), NEW k \in 1..Len(s)
    PROVE  /\ SubSeq(s, k + 1, Len(s)) \in Seq(S)
           /\ Distinct(s) => Distinct(SubSeq(s, k + 1, Len(s)))
           /\ \A x : Contains(SubSeq(s, k + 1, Len(s)), x) <=>
                       \E i \in (k + 1)..Len(s) : s[i] = x
<1>. DEFINE b == SubSeq(s, k + 1, Len(s))
<1>1. Len(s) \in Nat /\ k \in Nat  BY LenProperties
<1>2. /\ b \in Seq(S) /\ Len(b) = Len(s) - k
      /\ \A i \in 1..(Len(s) - k) : b[i] = s[k + i]
  BY <1>1, SubSeqProperties
<1>. HIDE DEF b
<1>3. /\ \A i \in 1..(Len(s) - k) : k + i \in (k + 1)..Len(s) /\ k + i \in 1..Len(s)
      /\ \A i \in (k + 1)..Len(s) : i - k \in 1..(Len(s) - k) /\ k + (i - k) = i
  BY <1>1
<1>4. ASSUME Distinct(s) PROVE Distinct(b)
  <2>. SUFFICES ASSUME NEW i \in 1..Len(b), NEW j \in 1..Len(b), b[i] = b[j]
                PROVE  i = j
    BY DEF Distinct
  <2>1. k + i = k + j  BY <1>2, <1>3, <1>4 DEF Distinct
  <2>. QED  BY <2>1, <1>1, <1>2
<1>5. ASSUME NEW x PROVE Contains(b, x) <=> \E i \in (k + 1)..Len(s) : s[i] = x
  <2>1. Contains(b, x) <=> \E i \in 1..(Len(s) - k) : b[i] = x  BY <1>2 DEF Contains
  <2>2. \A i \in (k + 1)..Len(s) : b[i - k] = s[i]  BY <1>2, <1>3
  <2>. QED  BY <2>1, <2>2, <1>2, <1>3
<1>. QED  BY <1>2, <1>4, <1>5 DEF b

-----------------------------------------------------------------------------
USE DEF handler, thread, timer, records, counters, BeginScan
USE StartedAssumption, BackSizeAssumption, DummyAssumption

LEMMA InitKeeps == Init => PacketsInv
<1>. SUFFICES ASSUME Init PROVE PacketsInv
  OBVIOUS
<1>1. TypeOK /\ at \in Nat \ {0}
  <2>1. /\ port \in Seq(Packets \cup {Dummy}) /\ list \in Seq(Packets)
        /\ unit_pipe \in Seq(Packets) /\ waiting \in Seq(Packets)
    BY EmptySeq DEF Init
  <2>2. status \in [Packets -> Statuses] /\ replies \in [Packets -> 0..1]
    BY DEF Init, Statuses
  <2>3. back_pipe \in 0..BackSize /\ cmds_acked \in 0..cmds_sent /\ cmds_complete \in 0..cmds_acked
    BY DEF Init
  <2>4. /\ signals \subseteq {"port", "ctrl_d"} /\ cut \subseteq Packets
        /\ at \in Nat \ {0} /\ started \in Nat /\ cmds_sent \in Nat
    BY DEF Init
  <2>5. mark \in BOOLEAN /\ locks \in BOOLEAN /\ broken \in BOOLEAN /\ intreq \in BOOLEAN
    BY DEF Init
  <2>6. /\ hpc \in {"get", "wait", "scan"} /\ done \in {"processed", "timeout"}
        /\ fpc = "read" /\ tpc = "idle" /\ epc \in {"idle", "scan", "ack", "put"}
    BY DEF Init
  <2>7. /\ cmd \in Packets \cup {Dummy} /\ frec \in Packets \cup {Dummy}
        /\ fprev \in Packets \cup {Dummy} /\ trec \in Packets \cup {Dummy}
        /\ tprev \in Packets \cup {Dummy}
    BY DEF Init
  <2>. QED  BY <2>1, <2>2, <2>3, <2>4, <2>5, <2>6, <2>7 DEF TypeOK
<1>2. QueueInv /\ PacketInv /\ ThreadInv /\ RecordInv /\ DummyInv /\ DrainInv
  BY EmptyDistinct DEF Init, QueueInv, PacketInv, ThreadInv, RecordInv, DummyInv, DrainInv,
     InThread, Held
<1>3. CountInv
  <2>1. Outstanding = {}  BY EmptyDistinct DEF Init, Outstanding
  <2>. QED  BY <2>1, FS_EmptySet DEF Init, CountInv, OutstandingIsCounted
<1>. QED  BY <1>1, <1>2, <1>3 DEF PacketsInv

LEMMA Facts ==
    ASSUME PacketsInv
    PROVE  /\ port \in Seq(Packets \cup {Dummy}) /\ list \in Seq(Packets)
           /\ unit_pipe \in Seq(Packets) /\ Len(unit_pipe) \in Nat
           /\ waiting \in Seq(Packets) /\ cut \subseteq Packets /\ broken \in BOOLEAN
           /\ started \in Nat /\ started <= MaxStarted
           /\ Distinct(port) /\ Distinct(list) /\ Distinct(unit_pipe) /\ Distinct(waiting)
  BY LenProperties DEF PacketsInv, TypeOK, QueueInv, CountInv, OutstandingIsCounted

\* The pipe holds packets that are counted, each once.
LEMMA PipeIsShort == ASSUME PacketsInv PROVE Len(unit_pipe) <= MaxStarted
<1>1. \A i \in 1..Len(unit_pipe) : unit_pipe[i] \in Outstanding
  <2>1. SUFFICES ASSUME NEW i \in 1..Len(unit_pipe) PROVE unit_pipe[i] \in Outstanding
    OBVIOUS
  <2>2. unit_pipe[i] \in Packets /\ Contains(unit_pipe, unit_pipe[i])
    BY Facts, ElementOfSeq DEF Contains
  <2>. QED  BY <2>2 DEF PacketsInv, PacketInv, ThreadInv, Outstanding
<1>2. unit_pipe \in Injection(1..Len(unit_pipe), Outstanding)
  <2>1. unit_pipe \in [1..Len(unit_pipe) -> Packets]  BY Facts, LenProperties
  <2>2. Distinct(unit_pipe)  BY Facts
  <2>3. unit_pipe \in [1..Len(unit_pipe) -> Outstanding]  BY <1>1, <2>1
  <2>. QED  BY <2>2, <2>3 DEF Injection, IsInjective, Distinct
<1>3. Cardinality(1..Len(unit_pipe)) = Len(unit_pipe)
  <2>. DEFINE n == Len(unit_pipe)
  <2>1. n \in Int /\ 1 \in Int /\ n >= 0  BY Facts
  <2>. HIDE DEF n
  <2>2. Cardinality(1..n) = IF 1 > n THEN 0 ELSE n - 1 + 1  BY <2>1, FS_Interval
  <2>3. Cardinality(1..n) = n  BY <2>1, <2>2
  <2>. QED  BY <2>3 DEF n
<1>4. IsFiniteSet(Outstanding) /\ started = Cardinality(Outstanding)
  BY DEF PacketsInv, CountInv, OutstandingIsCounted
<1>5. Cardinality(1..Len(unit_pipe)) <= Cardinality(Outstanding)
  BY <1>2, <1>4, FS_Injection
<1>. QED  BY <1>3, <1>4, <1>5, Facts

-----------------------------------------------------------------------------
(* What leaves a part of the invariant alone. *)

\* A step that moves no packet and no record.
LEMMA SamePlaces ==
    ASSUME PacketsInv,
           UNCHANGED <<list, status, unit_pipe, thread, timer, records, replies>>,
           Distinct(port'), \A p \in Packets : Contains(port', p) => Contains(port, p)
    PROVE  QueueInv' /\ PacketInv' /\ ThreadInv' /\ RecordInv'
  BY DEF PacketsInv, QueueInv, PacketInv, ThreadInv, RecordInv, InThread, Held

\* A step that never makes a packet unstarted or started.
LEMMA SameCount ==
    ASSUME PacketsInv, UNCHANGED <<list, started>>,
           \A p \in Packets : status'[p] = "unstarted" <=> status[p] = "unstarted"
    PROVE  CountInv'
  BY DEF PacketsInv, CountInv, OutstandingIsCounted, Outstanding

\* A step that has nothing to do with the dummy message.
LEMMA SameDummy ==
    ASSUME PacketsInv, UNCHANGED <<counters, intreq, epc, back_pipe>>,
           Contains(port', Dummy) <=> Contains(port, Dummy),
           \/ fpc' = fpc
           \/ fpc = "mark" /\ fpc' = "back"
           \/ fpc # "request" /\ fpc' \notin {"mark", "back"}
    PROVE  DummyInv' /\ DrainInv'
<1>1. DummyInv'  BY DEF PacketsInv, DummyInv
<1>2. DummyComes => DummyComes'  BY DEF DummyComes
<1>3. DrainInv'  BY <1>2 DEF PacketsInv, DrainInv
<1>. QED  BY <1>1, <1>3

-----------------------------------------------------------------------------
(* The handler process. *)

LEMMA SendKeeps ==
    ASSUME PacketsInv, NEW p \in Packets, SendPacket(p) PROVE PacketsInv'
<1>1. /\ status[p] = "none" /\ replies[p] = 0 /\ ~Contains(port, p)
      /\ port' = Append(port, p) /\ signals' = signals \cup {"port"}
      /\ UNCHANGED <<handler, status, unit_pipe, back_pipe, thread, timer, records,
                     counters, intreq, epc, replies>>
  BY DEF SendPacket
<1>2. /\ port' \in Seq(Packets \cup {Dummy}) /\ Distinct(port')
      /\ \A x : Contains(port', x) <=> Contains(port, x) \/ x = p
  BY <1>1, Facts, AppendDistinct
<1>3. TypeOK' /\ at' \in Nat \ {0}  BY <1>1, <1>2 DEF PacketsInv, TypeOK
<1>4. QueueInv'  BY <1>1, <1>2 DEF PacketsInv, QueueInv
<1>5. PacketInv'  BY <1>1, <1>2 DEF PacketsInv, PacketInv, InThread
<1>6. ThreadInv' /\ RecordInv'  BY <1>1 DEF PacketsInv, ThreadInv, RecordInv, Held
<1>7. CountInv'  BY <1>1, SameCount
<1>8. DummyInv' /\ DrainInv'
  <2>1. Contains(port', Dummy) <=> Contains(port, Dummy)  BY <1>2
  <2>. QED  BY <2>1, <1>1, SameDummy
<1>. QED  BY <1>3, <1>4, <1>5, <1>6, <1>7, <1>8 DEF PacketsInv

\* The first message at the port, if it is a packet.
LEMMA PacketAtPort ==
    ASSUME PacketsInv, GetPacket
    PROVE  /\ hpc = "get" /\ Head(port) \in Packets /\ Contains(port, Head(port))
           /\ status[Head(port)] = "none" /\ replies[Head(port)] = 0
           /\ ~Contains(list, Head(port)) /\ ~InThread(Head(port))
           /\ Tail(port) \in Seq(Packets \cup {Dummy}) /\ Distinct(Tail(port))
           /\ \A x : Contains(Tail(port), x) <=> Contains(port, x) /\ x # Head(port)
           /\ Contains(Tail(port), Dummy) <=> Contains(port, Dummy)
<1>1. /\ hpc = "get" /\ Head(port) \in Packets /\ Contains(port, Head(port))
      /\ Tail(port) \in Seq(Packets \cup {Dummy}) /\ Distinct(Tail(port))
      /\ \A x : Contains(Tail(port), x) <=> Contains(port, x) /\ x # Head(port)
  BY Facts, TailDistinct DEF GetPacket
<1>2. Head(port) # Dummy  BY <1>1
<1>3. status[Head(port)] = "none" /\ replies[Head(port)] = 0
  BY <1>1 DEF PacketsInv, PacketInv
<1>4. ~Contains(list, Head(port)) /\ ~InThread(Head(port))
  BY <1>1, <1>3 DEF PacketsInv, PacketInv
<1>. QED  BY <1>1, <1>2, <1>3, <1>4

LEMMA StartKeeps == ASSUME PacketsInv, StartCommand PROVE PacketsInv'
<1>. DEFINE p == Head(port)
<1>1. /\ status' = [status EXCEPT ![p] = "pending"]
      /\ unit_pipe' = Append(unit_pipe, p) /\ list' = <<p>> \o list
      /\ started' = started + 1 /\ started < MaxStarted /\ port' = Tail(port)
      /\ UNCHANGED <<signals, hpc, done, at, back_pipe, thread, timer, records,
                     counters, intreq, epc, replies>>
  BY DEF StartCommand, Room
<1>2. /\ hpc = "get" /\ p \in Packets /\ Contains(port, p)
      /\ status[p] = "none" /\ replies[p] = 0 /\ ~Contains(list, p) /\ ~InThread(p)
      /\ port' \in Seq(Packets \cup {Dummy}) /\ Distinct(port')
      /\ \A x : Contains(port', x) <=> Contains(port, x) /\ x # p
      /\ Contains(port', Dummy) <=> Contains(port, Dummy)
  BY <1>1, PacketAtPort DEF StartCommand
<1>. HIDE DEF p
<1>3. PICK q \in Packets : q = p  BY <1>2
<1>4. /\ list' \in Seq(Packets) /\ Distinct(list')
      /\ \A x : Contains(list', x) <=> Contains(list, x) \/ x = q
  BY <1>1, <1>2, <1>3, Facts, ConsDistinct
<1>5. ~Contains(unit_pipe, q) /\ ~Contains(waiting, q)
  BY <1>2, <1>3 DEF InThread
<1>6. /\ unit_pipe' \in Seq(Packets) /\ Distinct(unit_pipe')
      /\ \A x : Contains(unit_pipe', x) <=> Contains(unit_pipe, x) \/ x = q
  BY <1>1, <1>3, <1>5, Facts, AppendDistinct
<1>7. \A r \in Packets : status'[r] = IF r = q THEN "pending" ELSE status[r]
  BY <1>1, <1>3 DEF PacketsInv, TypeOK
<1>8. TypeOK' /\ at' \in Nat \ {0}
  <2>1. status' \in [Packets -> Statuses] /\ started' \in Nat
    BY <1>1, <1>3, Facts DEF PacketsInv, TypeOK, Statuses
  <2>. QED  BY <2>1, <1>1, <1>2, <1>4, <1>6 DEF PacketsInv, TypeOK
<1>9. QueueInv'  BY <1>1, <1>2, <1>4, <1>6 DEF PacketsInv, QueueInv
<1>10. PacketInv'
  <2>1. \A r \in Packets : r # q => (InThread(r)' <=> InThread(r))
    BY <1>1, <1>6 DEF InThread
  <2>2. InThread(q)'  BY <1>6 DEF InThread
  <2>3. PacketInv  BY DEF PacketsInv
  <2>4. replies'[q] = 0 /\ ~Contains(port', q) /\ Contains(list', q)
    BY <1>1, <1>2, <1>3, <1>4
  <2>5. \A r \in Packets : r # q =>
           /\ status'[r] = status[r] /\ replies'[r] = replies[r] /\ cut' = cut
           /\ Contains(port', r) => Contains(port, r)
           /\ Contains(list', r) <=> Contains(list, r)
    BY <1>1, <1>2, <1>3, <1>4, <1>7
  <2>. QED  BY <2>1, <2>2, <2>3, <2>4, <2>5, <1>7 DEF PacketInv
<1>11. ThreadInv'
  <2>1. Held => cmd \in Packets /\ cmd # q
    BY <1>2, <1>3 DEF PacketsInv, ThreadInv, Held
  <2>2. fpc = "write" => cmd \in Packets /\ cmd # q
    BY <1>2, <1>3 DEF PacketsInv, ThreadInv, InThread
  <2>. QED  BY <2>1, <2>2, <1>1, <1>5, <1>6, <1>7 DEF PacketsInv, ThreadInv, Held
<1>12. RecordInv'
  BY <1>1, <1>2, <1>3, <1>6, <1>7 DEF PacketsInv, RecordInv
<1>13. CountInv'
  <2>1. q \notin Outstanding  BY <1>2, <1>3 DEF Outstanding
  <2>3. Outstanding' = Outstanding \cup {q}
    BY <1>7, <1>4 DEF Outstanding
  <2>4. IsFiniteSet(Outstanding) /\ started = Cardinality(Outstanding)
    BY DEF PacketsInv, CountInv, OutstandingIsCounted
  <2>5. /\ IsFiniteSet(Outstanding \cup {q})
        /\ Cardinality(Outstanding \cup {q}) = Cardinality(Outstanding) + 1
    BY <2>1, <2>4, FS_AddElement
  <2>6. started' <= MaxStarted  BY <1>1, Facts
  <2>. QED
    BY <2>3, <2>4, <2>5, <2>6, <1>1 DEF CountInv, OutstandingIsCounted
<1>14. DummyInv' /\ DrainInv'  BY <1>1, <1>2, SameDummy
<1>. QED  BY <1>8, <1>9, <1>10, <1>11, <1>12, <1>13, <1>14 DEF PacketsInv

LEMMA RefuseKeeps == ASSUME PacketsInv, RefuseCommand PROVE PacketsInv'
<1>. DEFINE p == Head(port)
<1>1. /\ replies' = [replies EXCEPT ![p] = replies[p] + 1] /\ port' = Tail(port)
      /\ UNCHANGED <<signals, handler, status, unit_pipe, back_pipe, thread, timer,
                     records, counters, intreq, epc>>
  BY DEF RefuseCommand
<1>2. /\ p \in Packets /\ status[p] = "none" /\ replies[p] = 0 /\ ~Contains(list, p)
      /\ port' \in Seq(Packets \cup {Dummy}) /\ Distinct(port')
      /\ \A x : Contains(port', x) <=> Contains(port, x) /\ x # p
      /\ Contains(port', Dummy) <=> Contains(port, Dummy)
  BY <1>1, PacketAtPort DEF RefuseCommand
<1>. HIDE DEF p
<1>3. PICK q \in Packets : q = p  BY <1>2
<1>4. TypeOK' /\ at' \in Nat \ {0}
  <2>1. replies' \in [Packets -> 0..1]  BY <1>1, <1>2, <1>3 DEF PacketsInv, TypeOK
  <2>. QED  BY <2>1, <1>1, <1>2 DEF PacketsInv, TypeOK
<1>5. QueueInv'  BY <1>1, <1>2 DEF PacketsInv, QueueInv
<1>6. PacketInv'
  <2>1. \A r \in Packets : InThread(r)' <=> InThread(r)  BY <1>1 DEF InThread
  <2>2. \A r \in Packets : replies'[r] = IF r = q THEN 1 ELSE replies[r]
    BY <1>1, <1>2, <1>3 DEF PacketsInv, TypeOK
  <2>. QED  BY <2>1, <2>2, <1>1, <1>2, <1>3 DEF PacketsInv, PacketInv
<1>7. ThreadInv' /\ RecordInv'  BY <1>1 DEF PacketsInv, ThreadInv, RecordInv, Held
<1>8. CountInv'  BY <1>1, SameCount
<1>9. DummyInv' /\ DrainInv'  BY <1>1, <1>2, SameDummy
<1>. QED  BY <1>4, <1>5, <1>6, <1>7, <1>8, <1>9 DEF PacketsInv

LEMMA PostponeKeeps == ASSUME PacketsInv, PostponeCommand PROVE PacketsInv'
<1>. DEFINE p == Head(port)
<1>1. /\ status' = [status EXCEPT ![p] = "unstarted"]
      /\ list' = <<p>> \o list /\ port' = Tail(port)
      /\ UNCHANGED <<signals, hpc, done, at, started, unit_pipe, back_pipe, thread,
                     timer, records, counters, intreq, epc, replies>>
  BY DEF PostponeCommand
<1>2. /\ p \in Packets /\ status[p] = "none" /\ replies[p] = 0 /\ ~Contains(list, p)
      /\ ~InThread(p)
      /\ port' \in Seq(Packets \cup {Dummy}) /\ Distinct(port')
      /\ \A x : Contains(port', x) <=> Contains(port, x) /\ x # p
      /\ Contains(port', Dummy) <=> Contains(port, Dummy)
  BY <1>1, PacketAtPort DEF PostponeCommand
<1>. HIDE DEF p
<1>3. PICK q \in Packets : q = p  BY <1>2
<1>4. /\ list' \in Seq(Packets) /\ Distinct(list')
      /\ \A x : Contains(list', x) <=> Contains(list, x) \/ x = q
  BY <1>1, <1>2, <1>3, Facts, ConsDistinct
<1>5. \A r \in Packets : status'[r] = IF r = q THEN "unstarted" ELSE status[r]
  BY <1>1, <1>3 DEF PacketsInv, TypeOK
<1>6. TypeOK' /\ at' \in Nat \ {0}
  <2>1. status' \in [Packets -> Statuses]
    BY <1>1, <1>3 DEF PacketsInv, TypeOK, Statuses
  <2>. QED  BY <2>1, <1>1, <1>2, <1>4 DEF PacketsInv, TypeOK
<1>7. QueueInv'  BY <1>1, <1>2, <1>4 DEF PacketsInv, QueueInv
<1>8. \A r \in Packets : InThread(r)' <=> InThread(r)  BY <1>1 DEF InThread
<1>9. PacketInv'
  BY <1>1, <1>2, <1>3, <1>4, <1>5, <1>8 DEF PacketsInv, PacketInv
<1>10. ThreadInv'
  <2>1. Held => cmd \in Packets /\ cmd # q
    BY <1>2, <1>3 DEF PacketsInv, ThreadInv, Held
  <2>2. fpc = "write" => cmd \in Packets /\ cmd # q
    BY <1>2, <1>3 DEF PacketsInv, ThreadInv, InThread
  <2>3. ~Contains(unit_pipe, q)  BY <1>2, <1>3 DEF InThread
  <2>. QED  BY <2>1, <2>2, <2>3, <1>1, <1>5 DEF PacketsInv, ThreadInv, Held
<1>11. RecordInv'  BY <1>1, <1>2, <1>3, <1>5 DEF PacketsInv, RecordInv
<1>12. CountInv'
  <2>1. Outstanding' = Outstanding
    BY <1>2, <1>3, <1>4, <1>5 DEF Outstanding
  <2>. QED  BY <2>1, <1>1 DEF PacketsInv, CountInv, OutstandingIsCounted
<1>13. DummyInv' /\ DrainInv'  BY <1>1, <1>2, SameDummy
<1>. QED  BY <1>6, <1>7, <1>9, <1>10, <1>11, <1>12, <1>13 DEF PacketsInv

LEMMA DummyKeeps == ASSUME PacketsInv, GetDummy PROVE PacketsInv'
<1>1. /\ port # <<>> /\ Head(port) = Dummy /\ port' = Tail(port)
      /\ cmds_complete' = cmds_acked /\ back_pipe' = 0
      /\ hpc' = "scan" /\ done' = "processed" /\ at' = 1
      /\ UNCHANGED <<signals, list, started, status, unit_pipe, thread, timer, records,
                     cmds_sent, cmds_acked, intreq, epc, replies>>
  BY DEF GetDummy
<1>2. /\ port' \in Seq(Packets \cup {Dummy}) /\ Distinct(port') /\ Contains(port, Dummy)
      /\ \A x : Contains(port', x) <=> Contains(port, x) /\ x # Dummy
  BY <1>1, Facts, TailDistinct
<1>3. TypeOK' /\ at' \in Nat \ {0}  BY <1>1, <1>2 DEF PacketsInv, TypeOK
<1>4. QueueInv' /\ PacketInv' /\ ThreadInv' /\ RecordInv'  BY <1>1, <1>2, SamePlaces
<1>5. CountInv'  BY <1>1, SameCount
<1>6. DummyInv'  BY <1>1, <1>2 DEF PacketsInv, DummyInv
<1>7. DrainInv'  BY <1>1 DEF DrainInv
<1>. QED  BY <1>3, <1>4, <1>5, <1>6, <1>7 DEF PacketsInv

\* The handler waits, wakes, or walks its queue.
LEMMA WalkKeeps ==
    ASSUME PacketsInv, HandlerWait \/ HandlerWake \/ ScanNext \/ ScanEnd
    PROVE  PacketsInv'
<1>1. UNCHANGED <<port, list, started, status, unit_pipe, back_pipe, thread, timer,
                  records, counters, intreq, epc, replies>>
  BY DEF HandlerWait, HandlerWake, ScanNext, ScanEnd
<1>2. TypeOK' /\ at' \in Nat \ {0}
  <2>1. /\ hpc' \in {"get", "wait", "scan"} /\ done' \in {"processed", "timeout"}
        /\ at' \in Nat \ {0} /\ signals' \subseteq {"port", "ctrl_d"}
    <3>1. /\ hpc \in {"get", "wait", "scan"} /\ done \in {"processed", "timeout"}
          /\ at \in Nat \ {0} /\ signals \subseteq {"port", "ctrl_d"}
      BY DEF PacketsInv, TypeOK
    <3>2. CASE HandlerWait  BY <3>1, <3>2 DEF HandlerWait
    <3>3. CASE HandlerWake  BY <3>1, <3>3 DEF HandlerWake
    <3>4. CASE ScanNext  BY <3>1, <3>4 DEF ScanNext
    <3>5. CASE ScanEnd  BY <3>1, <3>5 DEF ScanEnd
    <3>. QED  BY <3>2, <3>3, <3>4, <3>5
  <2>. QED  BY <2>1, <1>1 DEF PacketsInv, TypeOK
<1>3. QueueInv' /\ PacketInv' /\ ThreadInv' /\ RecordInv'  BY <1>1, Facts, SamePlaces
<1>4. CountInv'  BY <1>1, SameCount
<1>5. DummyInv' /\ DrainInv'  BY <1>1, SameDummy
<1>. QED  BY <1>2, <1>3, <1>4, <1>5 DEF PacketsInv

LEMMA ReplyKeeps == ASSUME PacketsInv, ScanReply PROVE PacketsInv'
<1>1. /\ hpc = "scan" /\ at <= Len(list) /\ status[list[at]] = done
      /\ replies' = [replies EXCEPT ![list[at]] = replies[list[at]] + 1]
      /\ list' = RemoveAt(list, at) /\ started' = started - 1
      /\ UNCHANGED <<port, signals, hpc, done, at, status, unit_pipe, back_pipe, thread,
                     timer, records, counters, intreq, epc>>
  BY DEF ScanReply
<1>2. at \in 1..Len(list)
  BY <1>1, LenProperties, Facts DEF PacketsInv, TypeOK
<1>3. PICK p \in Packets : p = list[at]
  BY <1>2, Facts, ElementOfSeq
<1>4. /\ list' \in Seq(Packets) /\ Distinct(list')
      /\ \A x : Contains(list', x) <=> Contains(list, x) /\ x # p
  BY <1>1, <1>2, <1>3, Facts, RemoveDistinct
<1>5. /\ Contains(list, p) /\ status[p] \in {"processed", "timeout"} /\ replies[p] = 0
      /\ ~Contains(port, p)
  BY <1>1, <1>2, <1>3 DEF Contains, PacketsInv, TypeOK, PacketInv
<1>6. CountInv' /\ started' \in Nat
  <2>1. p \in Outstanding /\ Outstanding' = Outstanding \ {p}
    BY <1>1, <1>4, <1>5 DEF Outstanding
  <2>2. IsFiniteSet(Outstanding) /\ started = Cardinality(Outstanding)
    BY DEF PacketsInv, CountInv, OutstandingIsCounted
  <2>3. /\ IsFiniteSet(Outstanding \ {p})
        /\ Cardinality(Outstanding \ {p}) = Cardinality(Outstanding) - 1
    BY <2>1, <2>2, FS_RemoveElement
  <2>4. Cardinality(Outstanding \ {p}) \in Nat
    BY <2>3, FS_CardinalityType
  <2>. QED
    BY <2>1, <2>2, <2>3, <2>4, <1>1, Facts DEF CountInv, OutstandingIsCounted
<1>7. TypeOK' /\ at' \in Nat \ {0}
  <2>1. replies' \in [Packets -> 0..1]  BY <1>1, <1>3, <1>5 DEF PacketsInv, TypeOK
  <2>. QED  BY <2>1, <1>1, <1>4, <1>6 DEF PacketsInv, TypeOK
<1>8. QueueInv'  BY <1>1, <1>4 DEF PacketsInv, QueueInv
<1>9. PacketInv'
  <2>1. \A r \in Packets : InThread(r)' <=> InThread(r)  BY <1>1 DEF InThread
  <2>2. \A r \in Packets : replies'[r] = IF r = p THEN 1 ELSE replies[r]
    BY <1>1, <1>3, <1>5 DEF PacketsInv, TypeOK
  <2>. QED  BY <2>1, <2>2, <1>1, <1>4, <1>5 DEF PacketsInv, PacketInv
<1>10. ThreadInv' /\ RecordInv'  BY <1>1 DEF PacketsInv, ThreadInv, RecordInv, Held
<1>11. DummyInv' /\ DrainInv'  BY <1>1, SameDummy
<1>. QED  BY <1>6, <1>7, <1>8, <1>9, <1>10, <1>11 DEF PacketsInv

-----------------------------------------------------------------------------
(* The list of waiting records, which two threads change. *)

\* What is taken out of the list is the record, or cut off with it.
LEMMA UnlinkFacts ==
    ASSUME PacketsInv, NEW r \in Packets, NEW prev, Unlink(r, prev)
    PROVE  /\ waiting' \in Seq(Packets) /\ Distinct(waiting')
           /\ cut \subseteq cut' /\ cut' \subseteq Packets
           /\ broken' \in BOOLEAN /\ (broken => broken')
           /\ \A p \in Packets : Contains(waiting', p) => Contains(waiting, p)
           /\ \A p \in Packets :
                 Contains(waiting, p) => p = r \/ Contains(waiting', p) \/ p \in cut'
           /\ broken' \/ ~Contains(waiting', r)
<1>. DEFINE k == IndexIn(r)
<1>1. CASE ~(Contains(waiting, r) /\ (prev = Dummy \/ Contains(waiting, prev)))
  <2>1. broken' = TRUE /\ waiting' = waiting /\ cut' = cut  BY <1>1 DEF Unlink
  <2>. QED  BY <2>1, Facts
<1>2. CASE Contains(waiting, r) /\ (prev = Dummy \/ Contains(waiting, prev))
  <2>1. /\ waiting' = IF prev = Dummy THEN SubSeq(waiting, k + 1, Len(waiting))
                      ELSE RemoveAt(waiting, k)
        /\ cut' = IF prev = Dummy
                  THEN cut \cup {p \in Packets : \E i \in 1..(k - 1) : waiting[i] = p}
                  ELSE cut
        /\ broken' = broken
    BY <1>2 DEF Unlink
  <2>2. /\ k \in 1..Len(waiting) /\ waiting[k] = r /\ Len(waiting) \in Nat
    <3>1. DOMAIN waiting = 1..Len(waiting) /\ Len(waiting) \in Nat
      BY Facts, LenProperties
    <3>2. \E i \in DOMAIN waiting : waiting[i] = r  BY <3>1, <1>2 DEF Contains
    <3>. QED  BY <3>1, <3>2 DEF IndexIn
  <2>. HIDE DEF k
  <2>3. cut \subseteq cut' /\ cut' \subseteq Packets /\ broken' \in BOOLEAN
    BY <2>1, Facts
  <2>4. CASE prev = Dummy
    <3>1. waiting' = SubSeq(waiting, k + 1, Len(waiting))  BY <2>1, <2>4
    <3>2. /\ waiting' \in Seq(Packets) /\ Distinct(waiting')
          /\ \A x : Contains(waiting', x) <=>
                      \E i \in (k + 1)..Len(waiting) : waiting[i] = x
      BY <3>1, <2>2, Facts, SuffixDistinct
    <3>3. \A p \in Packets : p \in cut' <=>
             p \in cut \/ \E i \in 1..(k - 1) : waiting[i] = p
      BY <2>1, <2>4, Facts
    <3>4. \A i \in 1..Len(waiting) : i \in 1..(k - 1) \/ i = k \/ i \in (k + 1)..Len(waiting)
      BY <2>2
    <3>5. \A i \in (k + 1)..Len(waiting) : i \in 1..Len(waiting) /\ i # k
      BY <2>2
    <3>6. \A p \in Packets : Contains(waiting', p) => Contains(waiting, p) /\ p # r
      BY <3>2, <3>5, <2>2, Facts DEF Contains, Distinct
    <3>7. \A p \in Packets :
             Contains(waiting, p) => p = r \/ Contains(waiting', p) \/ p \in cut'
      BY <3>2, <3>3, <3>4, <2>2 DEF Contains
    <3>. QED  BY <2>1, <2>3, <3>2, <3>6, <3>7
  <2>5. CASE prev # Dummy
    <3>1. waiting' = RemoveAt(waiting, k)  BY <2>1, <2>5
    <3>2. /\ waiting' \in Seq(Packets) /\ Distinct(waiting')
          /\ \A x : Contains(waiting', x) <=> Contains(waiting, x) /\ x # r
      BY <3>1, <2>2, Facts, RemoveDistinct
    <3>. QED  BY <2>1, <2>3, <3>2
  <2>. QED  BY <2>4, <2>5
<1>. QED  BY <1>1, <1>2

LEMMA FindKeeps ==
    ASSUME PacketsInv, NEW p \in Packets, TimeoutFind(p) PROVE PacketsInv'
<1>1. /\ tpc = "idle" /\ trec' = p /\ tpc' = "mark"
      /\ UNCHANGED <<port, signals, handler, status, unit_pipe, back_pipe, thread,
                     records, counters, intreq, epc, replies>>
  BY DEF TimeoutFind
<1>2. tprev' \in Packets \cup {Dummy}
  <2>1. PICK i \in DOMAIN waiting : tprev' = Before(i)  BY DEF TimeoutFind
  <2>2. i \in 1..Len(waiting) /\ Len(waiting) \in Nat  BY <2>1, Facts, LenProperties
  <2>3. i # 1 => i - 1 \in 1..Len(waiting)  BY <2>2
  <2>4. i # 1 => waiting[i - 1] \in Packets  BY <2>3, Facts, ElementOfSeq
  <2>. QED  BY <2>1, <2>4 DEF Before
<1>3. TypeOK' /\ at' \in Nat \ {0}  BY <1>1, <1>2 DEF PacketsInv, TypeOK
<1>4. QueueInv' /\ PacketInv' /\ ThreadInv'
  BY <1>1 DEF PacketsInv, QueueInv, PacketInv, ThreadInv, InThread, Held
<1>5. RecordInv'  BY <1>1 DEF PacketsInv, RecordInv
<1>6. CountInv'  BY <1>1, SameCount
<1>7. DummyInv' /\ DrainInv'  BY <1>1, SameDummy
<1>. QED  BY <1>3, <1>4, <1>5, <1>6, <1>7 DEF PacketsInv

LEMMA TimeoutMarkKeeps == ASSUME PacketsInv, TimeoutMark PROVE PacketsInv'
<1>1. /\ tpc = "mark" /\ Contains(waiting, trec) /\ tpc' = "unlink"
      /\ status' = [status EXCEPT ![trec] = "timeout"]
      /\ signals' = signals \cup {"ctrl_d"}
      /\ UNCHANGED <<port, handler, unit_pipe, back_pipe, thread, trec, tprev, records,
                     counters, intreq, epc, replies>>
  BY DEF TimeoutMark
<1>2. trec \in Packets  BY <1>1 DEF PacketsInv, RecordInv
<1>3. \A p \in Packets : status'[p] = IF p = trec THEN "timeout" ELSE status[p]
  BY <1>1, <1>2 DEF PacketsInv, TypeOK
<1>4. status[trec] \in {"pending", "timeout"} /\ ~Contains(port, trec)
  BY <1>1, <1>2 DEF PacketsInv, PacketInv, InThread
<1>5. TypeOK' /\ at' \in Nat \ {0}
  <2>1. status' \in [Packets -> Statuses]
    BY <1>1, <1>2 DEF PacketsInv, TypeOK, Statuses
  <2>. QED  BY <2>1, <1>1 DEF PacketsInv, TypeOK
<1>6. QueueInv'  BY <1>1 DEF PacketsInv, QueueInv
<1>7. PacketInv'
  <2>1. \A p \in Packets : InThread(p)' <=> InThread(p)  BY <1>1 DEF InThread
  <2>. QED  BY <2>1, <1>1, <1>2, <1>3, <1>4 DEF PacketsInv, PacketInv
<1>8. ThreadInv'
  <2>1. Held => cmd \in Packets /\ cmd # trec  BY <1>1 DEF PacketsInv, ThreadInv, Held
  <2>2. ~Contains(unit_pipe, trec)  BY <1>1, <1>2 DEF PacketsInv, ThreadInv
  <2>3. fpc = "write" => cmd \in Packets  BY DEF PacketsInv, ThreadInv
  <2>. QED  BY <2>1, <2>2, <2>3, <1>1, <1>3 DEF PacketsInv, ThreadInv, Held
<1>9. RecordInv'  BY <1>1, <1>2, <1>3 DEF PacketsInv, RecordInv
<1>10. CountInv'  BY <1>1, <1>3, <1>4, SameCount
<1>11. DummyInv' /\ DrainInv'  BY <1>1, SameDummy
<1>. QED  BY <1>5, <1>6, <1>7, <1>8, <1>9, <1>10, <1>11 DEF PacketsInv

LEMMA TooLateKeeps == ASSUME PacketsInv, TimeoutTooLate PROVE PacketsInv'
<1>1. /\ broken' = TRUE
      /\ UNCHANGED <<port, signals, handler, status, unit_pipe, back_pipe, thread, timer,
                     waiting, cut, counters, intreq, epc, replies>>
  BY DEF TimeoutTooLate
<1>2. TypeOK' /\ at' \in Nat \ {0}  BY <1>1 DEF PacketsInv, TypeOK
<1>3. QueueInv' /\ PacketInv' /\ ThreadInv' /\ RecordInv'
  BY <1>1 DEF PacketsInv, QueueInv, PacketInv, ThreadInv, RecordInv, InThread, Held
<1>4. CountInv'  BY <1>1, SameCount
<1>5. DummyInv' /\ DrainInv'  BY <1>1, SameDummy
<1>. QED  BY <1>2, <1>3, <1>4, <1>5 DEF PacketsInv

LEMMA TimeoutUnlinkKeeps == ASSUME PacketsInv, TimeoutUnlink PROVE PacketsInv'
<1>1. /\ tpc = "unlink" /\ Unlink(trec, tprev)
      /\ tpc' = "idle" /\ trec' = Dummy /\ tprev' = Dummy
      /\ UNCHANGED <<port, signals, handler, status, unit_pipe, back_pipe, thread,
                     counters, intreq, epc, replies>>
  BY DEF TimeoutUnlink
<1>2. trec \in Packets /\ status[trec] \notin {"none", "pending"}
  BY <1>1 DEF PacketsInv, RecordInv
<1>3. /\ waiting' \in Seq(Packets) /\ Distinct(waiting')
      /\ cut \subseteq cut' /\ cut' \subseteq Packets
      /\ broken' \in BOOLEAN /\ (broken => broken')
      /\ \A p \in Packets : Contains(waiting', p) => Contains(waiting, p)
      /\ \A p \in Packets :
            Contains(waiting, p) => p = trec \/ Contains(waiting', p) \/ p \in cut'
  BY <1>1, <1>2, UnlinkFacts
<1>4. TypeOK' /\ at' \in Nat \ {0}  BY <1>1, <1>3 DEF PacketsInv, TypeOK
<1>5. QueueInv'  BY <1>1, <1>3 DEF PacketsInv, QueueInv
<1>6. PacketInv'
  <2>1. \A p \in Packets : /\ InThread(p)' => InThread(p)
                           /\ InThread(p) => InThread(p)' \/ p = trec \/ p \in cut'
    BY <1>1, <1>3 DEF InThread
  <2>. QED  BY <2>1, <1>1, <1>2, <1>3 DEF PacketsInv, PacketInv
<1>7. ThreadInv'
  <2>1. fpc # "read" => cmd \in Packets  BY DEF PacketsInv, ThreadInv
  <2>2. Held => ~Contains(waiting', cmd)  BY <2>1, <1>3 DEF PacketsInv, ThreadInv, Held
  <2>. QED  BY <2>1, <2>2, <1>1, <1>2, <1>3 DEF PacketsInv, ThreadInv, Held
<1>8. RecordInv'  BY <1>1, <1>3 DEF PacketsInv, RecordInv
<1>9. CountInv'  BY <1>1, SameCount
<1>10. DummyInv' /\ DrainInv'  BY <1>1, SameDummy
<1>. QED  BY <1>4, <1>5, <1>6, <1>7, <1>8, <1>9, <1>10 DEF PacketsInv

-----------------------------------------------------------------------------
(* The thread of the unit. *)

LEMMA ReadKeeps == ASSUME PacketsInv, ReadCommand PROVE PacketsInv'
<1>1. /\ fpc = "read" /\ unit_pipe # <<>> /\ cmd' = Head(unit_pipe) /\ fpc' = "handle"
      /\ unit_pipe' = Tail(unit_pipe)
      /\ UNCHANGED <<port, signals, handler, status, back_pipe, mark, locks, frec, fprev,
                     timer, records, counters, intreq, epc, replies>>
  BY DEF ReadCommand
<1>2. /\ unit_pipe' \in Seq(Packets) /\ Distinct(unit_pipe') /\ cmd' \in Packets
      /\ Contains(unit_pipe, cmd')
      /\ \A x : Contains(unit_pipe', x) <=> Contains(unit_pipe, x) /\ x # cmd'
  BY <1>1, Facts, TailDistinct
<1>3. TypeOK' /\ at' \in Nat \ {0}  BY <1>1, <1>2 DEF PacketsInv, TypeOK
<1>4. QueueInv'  BY <1>1, <1>2 DEF PacketsInv, QueueInv
<1>5. PacketInv'
  <2>1. \A p \in Packets : InThread(p)' <=> InThread(p)
    BY <1>1, <1>2 DEF InThread
  <2>. QED  BY <2>1, <1>1 DEF PacketsInv, PacketInv
<1>6. ThreadInv' /\ RecordInv'
  BY <1>1, <1>2 DEF PacketsInv, ThreadInv, RecordInv, Held
<1>7. CountInv'  BY <1>1, SameCount
<1>8. DummyInv' /\ DrainInv'  BY <1>1, SameDummy
<1>. QED  BY <1>3, <1>4, <1>5, <1>6, <1>7, <1>8 DEF PacketsInv

\* The packet is processed, or the search for a place in the list begins.
LEMMA HandleKeeps == ASSUME PacketsInv, HandlePacket \/ QueueRead PROVE PacketsInv'
<1>1. /\ fpc = "handle" /\ fpc' \in {"link", "write"} /\ (fpc' = "write" => mark')
      /\ mark' \in BOOLEAN /\ frec' \in {frec, Dummy}
      /\ UNCHANGED <<port, signals, handler, status, unit_pipe, back_pipe, cmd, locks,
                     timer, records, counters, intreq, epc, replies>>
  BY DEF HandlePacket, QueueRead, PacketsInv, TypeOK
<1>2. fprev' \in Packets \cup {Dummy}
  <2>1. waiting # <<>> => Head(waiting) \in Packets  BY Facts, TailDistinct
  <2>. QED  BY <2>1 DEF HandlePacket, QueueRead, FirstRecord
<1>3. TypeOK' /\ at' \in Nat \ {0}  BY <1>1, <1>2 DEF PacketsInv, TypeOK
<1>4. QueueInv'  BY <1>1 DEF PacketsInv, QueueInv
<1>5. PacketInv'
  <2>1. \A p \in Packets : InThread(p)' <=> InThread(p)  BY <1>1 DEF InThread
  <2>. QED  BY <2>1, <1>1 DEF PacketsInv, PacketInv
<1>6. ThreadInv'  BY <1>1 DEF PacketsInv, ThreadInv, Held
<1>7. RecordInv'  BY <1>1 DEF PacketsInv, RecordInv
<1>8. CountInv'  BY <1>1, SameCount
<1>9. DummyInv' /\ DrainInv'  BY <1>1, SameDummy
<1>. QED  BY <1>3, <1>4, <1>5, <1>6, <1>7, <1>8, <1>9 DEF PacketsInv

LEMMA LinkKeeps == ASSUME PacketsInv, QueueLink PROVE PacketsInv'
<1>1. /\ fpc = "link" /\ fpc' = "write" /\ mark' = FALSE /\ fprev' = Dummy
      /\ UNCHANGED <<port, signals, handler, status, unit_pipe, back_pipe, cmd, locks,
                     frec, timer, cut, counters, intreq, epc, replies>>
      /\ \/ waiting' = <<cmd>> \o waiting /\ broken' = broken
         \/ broken' = TRUE /\ waiting' = waiting
  BY DEF QueueLink
<1>2. cmd \in Packets /\ status[cmd] = "pending" /\ ~Contains(waiting, cmd)
      /\ ~Contains(unit_pipe, cmd)
  BY <1>1 DEF PacketsInv, ThreadInv, Held
<1>3. /\ waiting' \in Seq(Packets) /\ Distinct(waiting') /\ broken' \in BOOLEAN
      /\ \A x : Contains(waiting', x) => Contains(waiting, x) \/ x = cmd
      /\ \A x : Contains(waiting, x) => Contains(waiting', x)
      /\ Contains(waiting', cmd) \/ broken'
  <2>1. /\ waiting \in Seq(Packets) /\ Distinct(waiting) /\ broken \in BOOLEAN
    BY Facts
  <2>2. /\ <<cmd>> \o waiting \in Seq(Packets) /\ Distinct(<<cmd>> \o waiting)
        /\ \A x : Contains(<<cmd>> \o waiting, x) <=> Contains(waiting, x) \/ x = cmd
    BY <2>1, <1>2, ConsDistinct
  <2>3. CASE waiting' = <<cmd>> \o waiting /\ broken' = broken
    BY <2>1, <2>2, <2>3
  <2>4. CASE broken' = TRUE /\ waiting' = waiting
    BY <2>1, <2>4
  <2>. QED  BY <1>1, <2>3, <2>4
<1>4. TypeOK' /\ at' \in Nat \ {0}
  <2>1. fprev' \in Packets \cup {Dummy} /\ mark' \in BOOLEAN  BY <1>1
  <2>2. waiting' \in Seq(Packets) /\ broken' \in BOOLEAN  BY <1>3
  <2>. QED  BY <2>1, <2>2, <1>1 DEF PacketsInv, TypeOK
<1>5. QueueInv'  BY <1>1, <1>3 DEF PacketsInv, QueueInv
<1>6. PacketInv'
  <2>1. \A p \in Packets : InThread(p)' <=> InThread(p)  BY <1>1, <1>3 DEF InThread
  <2>. QED  BY <2>1, <1>1 DEF PacketsInv, PacketInv
<1>7. ThreadInv'  BY <1>1, <1>2, <1>3 DEF PacketsInv, ThreadInv, Held
<1>8. RecordInv'  BY <1>1 DEF PacketsInv, RecordInv
<1>9. CountInv'  BY <1>1, SameCount
<1>10. DummyInv' /\ DrainInv'  BY <1>1, SameDummy
<1>. QED  BY <1>4, <1>5, <1>6, <1>7, <1>8, <1>9, <1>10 DEF PacketsInv

LEMMA GrantFindKeeps ==
    ASSUME PacketsInv, NEW p \in Packets, GrantFind(p) PROVE PacketsInv'
<1>1. /\ fpc = "handle" /\ frec' = p /\ fpc' = "unlink"
      /\ UNCHANGED <<port, signals, handler, status, unit_pipe, back_pipe, cmd, mark,
                     locks, timer, records, counters, intreq, epc, replies>>
  BY DEF GrantFind
<1>2. Contains(waiting, p) /\ fprev' \in Packets \cup {Dummy}
  <2>1. PICK i \in DOMAIN waiting : waiting[i] = p /\ fprev' = Before(i)
    BY DEF GrantFind
  <2>2. i \in 1..Len(waiting) /\ Len(waiting) \in Nat  BY <2>1, Facts, LenProperties
  <2>3. i # 1 => i - 1 \in 1..Len(waiting)  BY <2>2
  <2>4. i # 1 => waiting[i - 1] \in Packets  BY <2>3, Facts, ElementOfSeq
  <2>. QED  BY <2>1, <2>2, <2>4 DEF Before, Contains
<1>3. /\ p # cmd /\ ~Contains(unit_pipe, p) /\ status[p] \in {"pending", "timeout"}
  BY <1>1, <1>2 DEF PacketsInv, PacketInv, ThreadInv, InThread, Held
<1>4. TypeOK' /\ at' \in Nat \ {0}  BY <1>1, <1>2 DEF PacketsInv, TypeOK
<1>5. QueueInv'  BY <1>1 DEF PacketsInv, QueueInv
<1>6. PacketInv'
  <2>1. \A q \in Packets : InThread(q)' <=> InThread(q)  BY <1>1 DEF InThread
  <2>. QED  BY <2>1, <1>1 DEF PacketsInv, PacketInv
<1>7. ThreadInv'  BY <1>1 DEF PacketsInv, ThreadInv, Held
<1>8. RecordInv'  BY <1>1, <1>3 DEF PacketsInv, RecordInv
<1>9. CountInv'  BY <1>1, SameCount
<1>10. DummyInv' /\ DrainInv'  BY <1>1, SameDummy
<1>. QED  BY <1>4, <1>5, <1>6, <1>7, <1>8, <1>9, <1>10 DEF PacketsInv

LEMMA GrantUnlinkKeeps == ASSUME PacketsInv, GrantUnlink PROVE PacketsInv'
<1>1. /\ fpc = "unlink" /\ Unlink(frec, fprev) /\ fpc' = "grant"
      /\ UNCHANGED <<port, signals, handler, status, unit_pipe, back_pipe, cmd, mark,
                     locks, frec, fprev, timer, counters, intreq, epc, replies>>
  BY DEF GrantUnlink
<1>2. /\ frec \in Packets /\ frec # cmd /\ ~Contains(unit_pipe, frec)
      /\ status[frec] \in {"pending", "timeout"}
  BY <1>1 DEF PacketsInv, RecordInv
<1>3. /\ waiting' \in Seq(Packets) /\ Distinct(waiting')
      /\ cut \subseteq cut' /\ cut' \subseteq Packets
      /\ broken' \in BOOLEAN /\ (broken => broken')
      /\ \A p \in Packets : Contains(waiting', p) => Contains(waiting, p)
      /\ \A p \in Packets :
            Contains(waiting, p) => p = frec \/ Contains(waiting', p) \/ p \in cut'
      /\ broken' \/ ~Contains(waiting', frec)
  BY <1>1, <1>2, UnlinkFacts
<1>4. TypeOK' /\ at' \in Nat \ {0}  BY <1>1, <1>3 DEF PacketsInv, TypeOK
<1>5. QueueInv'  BY <1>1, <1>3 DEF PacketsInv, QueueInv
<1>6. PacketInv'
  <2>1. \A p \in Packets : /\ InThread(p)' => InThread(p) \/ p = frec
                           /\ InThread(p) => InThread(p)' \/ p \in cut'
    BY <1>1, <1>3 DEF InThread
  <2>. QED  BY <2>1, <1>1, <1>2, <1>3 DEF PacketsInv, PacketInv
<1>7. ThreadInv'
  <2>1. cmd \in Packets /\ Held  BY <1>1 DEF PacketsInv, ThreadInv, Held
  <2>. QED  BY <2>1, <1>1, <1>3 DEF PacketsInv, ThreadInv, Held
<1>8. RecordInv'  BY <1>1, <1>2, <1>3 DEF PacketsInv, RecordInv
<1>9. CountInv'  BY <1>1, SameCount
<1>10. DummyInv' /\ DrainInv'  BY <1>1, SameDummy
<1>. QED  BY <1>4, <1>5, <1>6, <1>7, <1>8, <1>9, <1>10 DEF PacketsInv

LEMMA GrantMarkKeeps == ASSUME PacketsInv, GrantMark, ~broken PROVE PacketsInv'
<1>1. /\ fpc = "grant" /\ fpc' = "handle" /\ fprev' = Dummy
      /\ status' = [status EXCEPT ![frec] = "processed"]
      /\ UNCHANGED <<port, signals, handler, unit_pipe, back_pipe, cmd, mark, locks, frec,
                     timer, records, counters, intreq, epc, replies>>
  BY DEF GrantMark
<1>2. /\ frec \in Packets /\ frec # cmd /\ ~Contains(unit_pipe, frec)
      /\ status[frec] \in {"pending", "timeout"} /\ ~Contains(waiting, frec)
  BY <1>1 DEF PacketsInv, RecordInv
<1>3. \A p \in Packets : status'[p] = IF p = frec THEN "processed" ELSE status[p]
  BY <1>1, <1>2 DEF PacketsInv, TypeOK
<1>4. TypeOK' /\ at' \in Nat \ {0}
  <2>1. status' \in [Packets -> Statuses]
    BY <1>1, <1>2 DEF PacketsInv, TypeOK, Statuses
  <2>. QED  BY <2>1, <1>1 DEF PacketsInv, TypeOK
<1>5. QueueInv'  BY <1>1 DEF PacketsInv, QueueInv
<1>6. PacketInv'
  <2>1. ~InThread(frec)'  BY <1>1, <1>2 DEF InThread
  <2>2. \A p \in Packets : p # frec => (InThread(p)' <=> InThread(p))
    BY <1>1 DEF InThread
  <2>. QED  BY <2>1, <2>2, <1>1, <1>2, <1>3 DEF PacketsInv, PacketInv
<1>7. ThreadInv'
  <2>1. cmd \in Packets /\ Held  BY <1>1 DEF PacketsInv, ThreadInv, Held
  <2>. QED  BY <2>1, <1>1, <1>2, <1>3 DEF PacketsInv, ThreadInv, Held
<1>8. RecordInv'  BY <1>1, <1>2, <1>3 DEF PacketsInv, RecordInv
<1>9. CountInv'  BY <1>1, <1>2, <1>3, SameCount
<1>10. DummyInv' /\ DrainInv'  BY <1>1, SameDummy
<1>. QED  BY <1>4, <1>5, <1>6, <1>7, <1>8, <1>9, <1>10 DEF PacketsInv

\* A packet that waits leaves the hands of the thread with the write-back.
LEMMA WriteKeeps == ASSUME PacketsInv, WriteBack, ~broken PROVE PacketsInv'
<1>1. /\ fpc = "write" /\ fpc' = "count"
      /\ UNCHANGED <<port, signals, handler, status, unit_pipe, back_pipe, cmd, mark,
                     locks, frec, fprev, timer, records, counters, intreq, epc, replies>>
  BY DEF WriteBack
<1>2. TypeOK' /\ at' \in Nat \ {0}  BY <1>1 DEF PacketsInv, TypeOK
<1>3. QueueInv' /\ RecordInv'  BY <1>1 DEF PacketsInv, QueueInv, RecordInv
<1>4. PacketInv'
  <2>1. \A p \in Packets :
           /\ InThread(p)' => InThread(p)
           /\ InThread(p) => InThread(p)' \/ (p = cmd /\ ~mark /\ ~Contains(waiting, p))
    BY <1>1 DEF InThread
  <2>2. ~mark /\ status[cmd] = "pending" => Contains(waiting, cmd) \/ cmd \in cut
    BY <1>1 DEF PacketsInv, ThreadInv
  <2>. QED  BY <2>1, <2>2, <1>1 DEF PacketsInv, PacketInv
<1>5. ThreadInv'  BY <1>1 DEF PacketsInv, ThreadInv, Held
<1>6. CountInv'  BY <1>1, SameCount
<1>7. DummyInv' /\ DrainInv'  BY <1>1, SameDummy
<1>. QED  BY <1>2, <1>3, <1>4, <1>5, <1>6, <1>7 DEF PacketsInv

LEMMA CountKeeps == ASSUME PacketsInv, CountSent PROVE PacketsInv'
<1>1. /\ fpc = "count" /\ fpc' = "mark" /\ cmds_sent' = cmds_sent + 1
      /\ UNCHANGED <<port, signals, handler, status, unit_pipe, back_pipe, cmd, mark,
                     locks, frec, fprev, timer, records, cmds_acked, cmds_complete,
                     intreq, epc, replies>>
  BY DEF CountSent
<1>2. cmds_sent \in Nat /\ cmds_acked \in 0..cmds_sent  BY DEF PacketsInv, TypeOK
<1>3. cmds_sent' \in Nat /\ cmds_acked \in 0..cmds_sent' /\ cmds_acked # cmds_sent'
  BY <1>1, <1>2
<1>4. TypeOK' /\ at' \in Nat \ {0}  BY <1>1, <1>3 DEF PacketsInv, TypeOK
<1>5. QueueInv' /\ RecordInv'  BY <1>1 DEF PacketsInv, QueueInv, RecordInv
<1>6. PacketInv'
  <2>1. \A p \in Packets : InThread(p)' <=> InThread(p)  BY <1>1 DEF InThread
  <2>. QED  BY <2>1, <1>1 DEF PacketsInv, PacketInv
<1>7. ThreadInv'  BY <1>1 DEF PacketsInv, ThreadInv, Held
<1>8. CountInv'  BY <1>1, SameCount
<1>9. DummyInv'  BY <1>1, <1>3 DEF PacketsInv, DummyInv
<1>10. DrainInv'
  <2>1. DummyComes => DummyComes'  BY <1>1, <1>3 DEF DummyComes
  <2>. QED  BY <2>1, <1>1, <1>3 DEF PacketsInv, DrainInv
<1>. QED  BY <1>4, <1>5, <1>6, <1>7, <1>8, <1>9, <1>10 DEF PacketsInv

LEMMA MarkKeeps == ASSUME PacketsInv, MarkProcessed PROVE PacketsInv'
<1>1. /\ fpc = "mark" /\ fpc' = "back" /\ cmd \in Packets /\ mark' = FALSE
      /\ locks' \in BOOLEAN
      /\ status' = IF mark THEN [status EXCEPT ![cmd] = "processed"] ELSE status
      /\ UNCHANGED <<port, signals, handler, unit_pipe, back_pipe, cmd, frec, fprev,
                     timer, records, counters, intreq, epc, replies>>
  BY DEF MarkProcessed, PacketsInv, ThreadInv
<1>2. mark => /\ ~Contains(waiting, cmd) /\ ~Contains(unit_pipe, cmd)
              /\ status[cmd] = "pending"
  BY <1>1 DEF PacketsInv, ThreadInv, Held
<1>3. \A p \in Packets :
         status'[p] = IF mark /\ p = cmd THEN "processed" ELSE status[p]
  BY <1>1 DEF PacketsInv, TypeOK
<1>4. TypeOK' /\ at' \in Nat \ {0}
  <2>1. status' \in [Packets -> Statuses]  BY <1>1 DEF PacketsInv, TypeOK, Statuses
  <2>2. /\ fpc' = "back" /\ mark' \in BOOLEAN /\ locks' \in BOOLEAN
        /\ UNCHANGED <<port, signals, handler, unit_pipe, back_pipe, cmd, frec, fprev,
                       timer, records, counters, intreq, epc, replies>>
    BY <1>1
  <2>. HIDE <1>1
  <2>3. TypeOK /\ at \in Nat \ {0}  BY DEF PacketsInv
  <2>4. /\ port' \in Seq(Packets \cup {Dummy}) /\ list' \in Seq(Packets)
        /\ unit_pipe' \in Seq(Packets) /\ waiting' \in Seq(Packets)
        /\ replies' \in [Packets -> 0..1] /\ at' \in Nat \ {0}
    BY <2>2, <2>3 DEF TypeOK
  <2>. QED  BY <2>1, <2>2, <2>3, <2>4 DEF TypeOK
<1>5. QueueInv'  BY <1>1 DEF PacketsInv, QueueInv
<1>6. PacketInv'
  <2>1. mark => ~InThread(cmd)'  BY <1>1, <1>2 DEF InThread
  <2>2. \A p \in Packets : ~(mark /\ p = cmd) => (InThread(p)' <=> InThread(p))
    BY <1>1 DEF InThread
  <2>. QED  BY <2>1, <2>2, <1>1, <1>2, <1>3 DEF PacketsInv, PacketInv
<1>7. ThreadInv'  BY <1>1, <1>2, <1>3 DEF PacketsInv, ThreadInv, Held
<1>8. RecordInv'  BY <1>1, <1>2, <1>3 DEF PacketsInv, RecordInv
<1>9. CountInv'  BY <1>1, <1>2, <1>3, SameCount
<1>10. DummyInv' /\ DrainInv'  BY <1>1, SameDummy
<1>. QED  BY <1>4, <1>5, <1>6, <1>7, <1>8, <1>9, <1>10 DEF PacketsInv

\* The locks are sent back, or the interrupt is requested.
LEMMA AnnounceKeeps ==
    ASSUME PacketsInv, SendBackLocks \/ RequestInterrupt PROVE PacketsInv'
<1>1. /\ fpc \in {"back", "request"} /\ fpc' \in {"request", "read"}
      /\ UNCHANGED <<port, signals, handler, status, unit_pipe, cmd, mark, frec, fprev,
                     timer, records, counters, epc, replies>>
  BY DEF SendBackLocks, RequestInterrupt
<1>2. TypeOK' /\ at' \in Nat \ {0}
  <2>1. back_pipe' \in 0..BackSize
    BY DEF PacketsInv, TypeOK, SendBackLocks, RequestInterrupt
  <2>2. intreq' \in BOOLEAN /\ locks' \in BOOLEAN
    BY DEF PacketsInv, TypeOK, SendBackLocks, RequestInterrupt
  <2>. QED  BY <2>1, <2>2, <1>1 DEF PacketsInv, TypeOK
<1>3. QueueInv' /\ RecordInv'  BY <1>1 DEF PacketsInv, QueueInv, RecordInv
<1>4. PacketInv'
  <2>1. \A p \in Packets : InThread(p)' <=> InThread(p)  BY <1>1 DEF InThread
  <2>. QED  BY <2>1, <1>1 DEF PacketsInv, PacketInv
<1>5. ThreadInv'
  <2>1. ~Held /\ ~Held'  BY <1>1 DEF Held
  <2>. QED  BY <2>1, <1>1 DEF PacketsInv, ThreadInv
<1>6. CountInv'  BY <1>1, SameCount
<1>7. DummyInv'  BY <1>1 DEF PacketsInv, DummyInv
<1>8. DrainInv'
  <2>1. CASE SendBackLocks
    <3>1. fpc = "back" /\ fpc' = "request" /\ back_pipe' \in {back_pipe, back_pipe + 1}
          /\ intreq' = intreq /\ back_pipe \in Nat
      BY <2>1 DEF SendBackLocks, PacketsInv, TypeOK
    <3>2. back_pipe' >= 2 =>
             \/ back_pipe >= 2
             \/ cmds_acked # cmds_sent \/ Contains(port, Dummy) \/ epc \in {"ack", "put"}
      BY <3>1 DEF PacketsInv, DrainInv
    <3>3. back_pipe >= 2 =>
             cmds_acked # cmds_sent \/ Contains(port, Dummy) \/ epc \in {"ack", "put"}
      BY DEF PacketsInv, DrainInv, DummyComes
    <3>. QED  BY <3>1, <3>2, <3>3, <1>1 DEF DrainInv, DummyComes
  <2>2. CASE RequestInterrupt
    <3>1. fpc' = "read" /\ intreq' = TRUE /\ back_pipe' = back_pipe
      BY <2>2 DEF RequestInterrupt
    <3>. QED  BY <3>1, <1>1 DEF PacketsInv, DrainInv, DummyComes
  <2>. QED  BY <2>1, <2>2
<1>. QED  BY <1>2, <1>3, <1>4, <1>5, <1>6, <1>7, <1>8 DEF PacketsInv

-----------------------------------------------------------------------------
(* The interrupt. *)

LEMMA InterruptKeeps ==
    ASSUME PacketsInv, OtherInterrupt \/ ExterTask \/ ScanUnit \/ AckSent
    PROVE  PacketsInv'
<1>1. UNCHANGED <<port, signals, handler, status, unit_pipe, back_pipe, thread, timer,
                  records, cmds_sent, cmds_complete, replies>>
  BY DEF OtherInterrupt, ExterTask, ScanUnit, AckSent
<1>2. TypeOK' /\ at' \in Nat \ {0}
  <2>1. cmds_acked' \in 0..cmds_sent' /\ cmds_complete' \in 0..cmds_acked'
    BY <1>1 DEF PacketsInv, TypeOK, OtherInterrupt, ExterTask, ScanUnit, AckSent
  <2>2. intreq' \in BOOLEAN
    BY DEF PacketsInv, TypeOK, OtherInterrupt, ExterTask, ScanUnit, AckSent
  <2>3. epc' \in {"idle", "scan", "ack", "put"}
    BY DEF PacketsInv, TypeOK, OtherInterrupt, ExterTask, ScanUnit, AckSent
  <2>4. TypeOK /\ at \in Nat \ {0}  BY DEF PacketsInv
  <2>. QED  BY <2>1, <2>2, <2>3, <2>4, <1>1 DEF TypeOK
<1>3. QueueInv' /\ PacketInv' /\ ThreadInv' /\ RecordInv'  BY <1>1, Facts, SamePlaces
<1>4. CountInv'  BY <1>1, SameCount
<1>5. DummyInv /\ DrainInv /\ cmds_acked <= cmds_sent
  BY DEF PacketsInv, TypeOK
<1>6. DummyInv' /\ (DummyComes => DummyComes')
      /\ (cmds_acked # cmds_sent \/ epc \in {"ack", "put"} =>
             cmds_acked' # cmds_sent' \/ Contains(port', Dummy) \/ epc' \in {"ack", "put"})
  <2>1. CASE OtherInterrupt
    BY <2>1, <1>1, <1>5 DEF OtherInterrupt, DummyInv, DummyComes
  <2>2. CASE ExterTask
    BY <2>2, <1>1, <1>5 DEF ExterTask, DummyInv, DummyComes
  <2>3. CASE ScanUnit
    BY <2>3, <1>1, <1>5 DEF ScanUnit, MessageDue, DummyInv, DummyComes
  <2>4. CASE AckSent
    BY <2>4, <1>1, <1>5 DEF AckSent, DummyInv, DummyComes
  <2>. QED  BY <2>1, <2>2, <2>3, <2>4
<1>7. DrainInv'  BY <1>1, <1>5, <1>6 DEF DrainInv
<1>. QED  BY <1>2, <1>3, <1>4, <1>6, <1>7 DEF PacketsInv

LEMMA PutKeeps == ASSUME PacketsInv, PutDummy PROVE PacketsInv'
<1>1. /\ epc = "put" /\ epc' = "idle" /\ port' = Append(port, Dummy)
      /\ signals' = signals \cup {"port"}
      /\ UNCHANGED <<handler, status, unit_pipe, back_pipe, thread, timer, records,
                     counters, intreq, replies>>
  BY DEF PutDummy
<1>2. ~Contains(port, Dummy) /\ cmds_acked # cmds_complete
  BY <1>1 DEF PacketsInv, DummyInv
<1>3. /\ port' \in Seq(Packets \cup {Dummy}) /\ Distinct(port')
      /\ \A x : Contains(port', x) <=> Contains(port, x) \/ x = Dummy
  BY <1>1, <1>2, Facts, AppendDistinct
<1>4. TypeOK' /\ at' \in Nat \ {0}  BY <1>1, <1>3 DEF PacketsInv, TypeOK
<1>5. \A p \in Packets : Contains(port', p) => Contains(port, p)  BY <1>3
<1>6. QueueInv' /\ PacketInv' /\ ThreadInv' /\ RecordInv'  BY <1>1, <1>3, <1>5, SamePlaces
<1>7. CountInv'  BY <1>1, SameCount
<1>8. DummyInv'  BY <1>1, <1>2, <1>3 DEF DummyInv
<1>9. DrainInv'  BY <1>1, <1>3 DEF DrainInv, DummyComes
<1>. QED  BY <1>4, <1>6, <1>7, <1>8, <1>9 DEF PacketsInv

-----------------------------------------------------------------------------
LEMMA PacketsInvStep == PacketsInv /\ [Next]_vars => PacketsInv'
<1>. SUFFICES ASSUME PacketsInv, [Next]_vars PROVE PacketsInv'
  OBVIOUS
<1>1. CASE \E p \in Packets : SendPacket(p)
  BY <1>1, SendKeeps
<1>2. CASE TimerStep
  BY <1>2, FindKeeps, TimeoutMarkKeeps, TooLateKeeps, TimeoutUnlinkKeeps DEF TimerStep
<1>3. CASE HandlerStep
  BY <1>3, StartKeeps, RefuseKeeps, PostponeKeeps, DummyKeeps, WalkKeeps, ReplyKeeps
     DEF HandlerStep
<1>4. CASE ThreadStep /\ ~broken
  BY <1>4, ReadKeeps, HandleKeeps, LinkKeeps, GrantFindKeeps, GrantUnlinkKeeps,
     GrantMarkKeeps, WriteKeeps, CountKeeps, MarkKeeps, AnnounceKeeps DEF ThreadStep
<1>5. CASE OtherInterrupt \/ ExterStep
  BY <1>5, InterruptKeeps, PutKeeps DEF ExterStep
<1>6. CASE UNCHANGED vars
  <2>1. TypeOK' /\ at' \in Nat \ {0}  BY <1>6 DEF vars, PacketsInv, TypeOK
  <2>2. QueueInv' /\ PacketInv' /\ ThreadInv' /\ RecordInv'
    BY <1>6, Facts, SamePlaces DEF vars
  <2>3. CountInv'  BY <1>6, SameCount DEF vars
  <2>4. DummyInv' /\ DrainInv'  BY <1>6, SameDummy DEF vars
  <2>. QED  BY <2>1, <2>2, <2>3, <2>4 DEF PacketsInv
<1>. QED  BY <1>1, <1>2, <1>3, <1>4, <1>5, <1>6 DEF Next

(* The inductive invariant holds in every behaviour. *)
THEOREM PacketsInvariant == Spec => []PacketsInv
  BY InitKeeps, PacketsInvStep, PTL DEF Spec

(* Types; with them, that no packet is replied twice and that no counter of the dummy
   message overtakes the one it follows. *)
THEOREM TypeCorrect == Spec => []TypeOK
<1>1. PacketsInv => TypeOK  BY DEF PacketsInv
<1>. QED  BY <1>1, PacketsInvariant, PTL

LEMMA HeldIsNotReplied == PacketsInv => RepliedAfterProcessed
  BY DEF PacketsInv, TypeOK, PacketInv, RepliedAfterProcessed

(* A packet goes back to its client once, and not while the host has it in the pipe, in
   the hands of the thread, which writes it back and marks it, or among the waiting
   records, whatever the two threads do to the list of those; unless its wait for a
   record has timed out. *)
THEOREM RepliedOnlyAfterProcessed == Spec => []RepliedAfterProcessed
  BY HeldIsNotReplied, PacketsInvariant, PTL

(* What the host writes late is a packet whose wait has timed out, or the one the
   thread had last, which gets the result of the one that times out. *)
THEOREM LateWriteIsATimeout == Spec => LateWritesAreTimeouts
<1>. DEFINE Late == \A p \in Packets : Writes(p) /\ replies[p] > 0 =>
                        status[p] = "timeout" \/ (TimeoutMark /\ p = cmd)
<1>1. PacketsInv /\ [Next]_vars => [Late]_vars
  <2>. SUFFICES ASSUME PacketsInv, NEW p \in Packets, Writes(p), replies[p] > 0,
                       ~(TimeoutMark /\ p = cmd)
                PROVE  status[p] = "timeout"
    OBVIOUS
  <2>1. InThread(p)
    BY DEF Writes, InThread, HandlePacket, WriteBack, MarkProcessed, GrantMark, TimeoutMark
  <2>. QED  BY <2>1, HeldIsNotReplied DEF RepliedAfterProcessed
<1>. QED  BY <1>1, PacketsInvariant, PTL DEF Spec, LateWritesAreTimeouts

(* What the handler takes for pending is with the host, or its record was cut off the
   list by an unlink that had found the head of the list before it was queued. *)
THEOREM PendingIsWithTheHost == Spec => []PendingIsHeld
<1>1. PacketsInv => PendingIsHeld  BY DEF PacketsInv, PacketInv, PendingIsHeld
<1>. QED  BY <1>1, PacketsInvariant, PTL

(* D5 counts exactly the commands handed over and not replied, and stays in its
   limit. *)
THEOREM StartedIsExact == Spec => []OutstandingIsCounted
<1>1. PacketsInv => OutstandingIsCounted  BY DEF PacketsInv, CountInv
<1>. QED  BY <1>1, PacketsInvariant, PTL

(* The one dummy message of the unit is not sent while it is on its way: whoever has
   it, the counters say so. *)
THEOREM DummyIsFreeWhenSent == Spec => []OneDummyAtATime
<1>1. ASSUME PacketsInv PROVE OneDummyAtATime
  <2>1. DOMAIN port = 1..Len(port)  BY Facts, LenProperties
  <2>2. CASE Contains(port, Dummy)
    <3>1. PICK i \in 1..Len(port) : port[i] = Dummy  BY <2>2 DEF Contains
    <3>2. Dummies = {i}
      BY <2>1, <3>1, <1>1 DEF Dummies, PacketsInv, QueueInv, Distinct
    <3>3. epc \notin {"ack", "put"}  BY <2>2, <1>1 DEF PacketsInv, DummyInv
    <3>4. Cardinality(Dummies) = 1  BY <3>2, FS_Singleton
    <3>. QED  BY <3>3, <3>4 DEF OneDummyAtATime
  <2>3. CASE ~Contains(port, Dummy)
    <3>1. Dummies = {}  BY <2>1, <2>3 DEF Dummies, Contains
    <3>2. Cardinality(Dummies) = 0  BY <3>1, FS_EmptySet
    <3>. QED  BY <3>2 DEF OneDummyAtATime
  <2>. QED  BY <2>2, <2>3
<1>. QED  BY <1>1, PacketsInvariant, PTL

(* The limit of the handler bounds unit_pipe, whatever the thread does; and while
   back_pipe holds more than one word, a dummy message is on its way or due, for which
   the handler takes them all out, so no size above one lets the thread sleep on words
   nobody comes for. *)
THEOREM PipesAreDrained == Spec => []PipesDrain
<1>1. PacketsInv => PipesDrain
  BY PipeIsShort DEF PacketsInv, DrainInv, PipesDrain
<1>. QED  BY <1>1, PacketsInvariant, PTL
=============================================================================
