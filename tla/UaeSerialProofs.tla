-------------------------- MODULE UaeSerialProofs --------------------------
(***************************************************************************)
(* Proofs about UaeSerial, for any requests and any number of AbortIO      *)
(* calls: what happens to a request that is not aborted.  A listed request *)
(* waits for data and has no message anywhere, or it is ready and its one  *)
(* message is on the way to dev_thread or in its hands; either way its     *)
(* buffer is live and it has not been replied yet.  AbortIO breaks this    *)
(* for its request, which may then have two messages, and for no other.    *)
(***************************************************************************)
EXTENDS UaeSerial, SequenceTheorems, FiniteSetTheorems, WellFoundedInduction, TLAPS

Entries == [req : Async, ready : BOOLEAN]

Once(s, x) == \A i, j \in 1..Len(s) : s[i] = x /\ s[j] = x => i = j

ListedIn(s, q) == \E i \in 1..Len(s) : s[i].req = q

ReadyIn(s, q) == \E i \in 1..Len(s) : s[i].req = q /\ s[i].ready

WaitingIn(s, q) == \E i \in 1..Len(s) : s[i].req = q /\ ~s[i].ready

OnceIn(s, q) == \A i, j \in 1..Len(s) : s[i].req = q /\ s[j].req = q => i = j

\* Where the message of a request may be.
AtEmulation(q) == epc \in {"lock", "write"} /\ ereq = q
AtSerial(q) == spc \in {"lock", "write"} /\ sreq = q
AtDevice(q) == dpc \in {"find", "reply", "release", "do"} /\ dreq = q
InPipe(q) == Contains(requests, q)
Sent(q) == AtEmulation(q) \/ AtSerial(q) \/ AtDevice(q) \/ InPipe(q)

\* The threads have requests where they need one, and dev_thread's is listed while it
\* replies and frees it; only AbortIO makes the emulation thread look for one.
ThreadsInv ==
    /\ ~resetting /\ epc \notin {"reset", "look"}
    /\ epc = "abort" => ereq \in aborted
    /\ spc \in {"lock", "write"} => sreq \in Async
    /\ dpc \in {"find", "reply", "release", "do"} => dreq \in Requests
    /\ dpc \in {"reply", "release"} => ListedIn(ar, dreq)
    /\ dpc = "release" => replies[dreq] > 0

\* The holders of the semaphores, by their places.
SemInv ==
    /\ async_sem = "serial" <=> spc \in {"lock", "write"}
    /\ pipe_sem = "emulation" <=> epc = "write"
    /\ pipe_sem = "serial" <=> spc = "write"

\* The last message of the unit is sent when the program has all its requests back.
CloseInv ==
    /\ spc = "closed" <=> epc = "closed" \/ AtEmulation(NoRequest)
    /\ InPipe(NoRequest) \/ dpc = "ended" => spc = "closed"
    /\ spc = "closed" => \A q \in Requests : buffer[q] = "none" \/ replies[q] > 0

\* The message of a request is in one place.
OnePlace(q) ==
    /\ Once(requests, q)
    /\ AtEmulation(q) => ~AtSerial(q) /\ ~AtDevice(q) /\ ~InPipe(q)
    /\ AtSerial(q) => ~AtDevice(q) /\ ~InPipe(q)
    /\ AtDevice(q) => ~InPipe(q)

\* A listed request waits for data, or it is ready and its message is on the way.
RequestInv(q) ==
    /\ OnePlace(q)
    /\ OnceIn(ar, q)
    /\ WaitingIn(ar, q) => ~Sent(q)
    /\ ReadyIn(ar, q) => Sent(q) /\ ~AtEmulation(q)
    /\ AtSerial(q) => ReadyIn(ar, q)
    /\ AtDevice(q) /\ dpc = "do" => ~ListedIn(ar, q)
    /\ Sent(q) \/ ListedIn(ar, q) =>
          buffer[q] = "live" /\ (replies[q] = 0 \/ (dpc = "release" /\ dreq = q))
    /\ buffer[q] = "none" => replies[q] = 0
    /\ q \notin misused

SerialInv ==
    /\ TypeOK /\ ThreadsInv /\ SemInv /\ CloseInv
    /\ \A q \in Requests \ aborted : RequestInv(q)

-----------------------------------------------------------------------------
(* The pipe and the list. *)

LEMMA AppendOnce ==
    ASSUME NEW S, NEW s \in Seq(S), NEW e \in S
    PROVE  /\ Append(s, e) \in Seq(S) /\ Len(Append(s, e)) = Len(s) + 1
           /\ \A x : Contains(Append(s, e), x) <=> Contains(s, x) \/ x = e
           /\ \A x : Once(s, x) /\ (x = e => ~Contains(s, x)) => Once(Append(s, e), x)
<1>1. /\ Append(s, e) \in Seq(S) /\ Len(Append(s, e)) = Len(s) + 1 /\ Len(s) \in Nat
      /\ \A i \in 1..Len(s) : Append(s, e)[i] = s[i]
      /\ Append(s, e)[Len(s) + 1] = e
      /\ 1..(Len(s) + 1) = 1..Len(s) \cup {Len(s) + 1}
  BY AppendProperties, LenProperties
<1>. QED  BY <1>1 DEF Contains, Once

LEMMA TailOnce ==
    ASSUME NEW S, NEW s \in Seq(S), s # <<>>
    PROVE  /\ Tail(s) \in Seq(S) /\ Len(Tail(s)) = Len(s) - 1 /\ Head(s) \in S
           /\ Len(s) \in Nat \ {0} /\ Contains(s, Head(s))
           /\ \A x : Contains(Tail(s), x) => Contains(s, x)
           /\ \A x : Contains(s, x) /\ x # Head(s) => Contains(Tail(s), x)
           /\ \A x : Once(s, x) => Once(Tail(s), x)
           /\ Once(s, Head(s)) => ~Contains(Tail(s), Head(s))
<1>1. /\ Tail(s) \in Seq(S) /\ Len(Tail(s)) = Len(s) - 1 /\ Len(s) \in Nat \ {0}
      /\ \A i \in 1..(Len(s) - 1) : Tail(s)[i] = s[i + 1]
      /\ Head(s) = s[1] /\ Head(s) \in S
  BY HeadTailProperties, LenProperties, EmptySeq
<1>2. \A i \in 1..Len(s) : i = 1 \/ \E j \in 1..(Len(s) - 1) : i = j + 1
  <2>1. \A i \in 1..Len(s) : i # 1 => i - 1 \in 1..(Len(s) - 1) /\ i = (i - 1) + 1
    BY <1>1
  <2>. QED  BY <2>1
<1>3. \A j \in 1..(Len(s) - 1) : j + 1 \in 1..Len(s) /\ j + 1 # 1
  BY <1>1
<1>4. ASSUME NEW x
      PROVE  Contains(Tail(s), x) <=> \E j \in 1..(Len(s) - 1) : s[j + 1] = x
  BY <1>1 DEF Contains
<1>5. ASSUME NEW x, Once(s, x) PROVE Once(Tail(s), x)
  BY <1>1, <1>3, <1>5 DEF Once
<1>6. ASSUME Once(s, Head(s)) PROVE ~Contains(Tail(s), Head(s))
  BY <1>1, <1>3, <1>4, <1>6 DEF Once
<1>7. ASSUME NEW x, Contains(s, x), x # Head(s) PROVE Contains(Tail(s), x)
  BY <1>1, <1>2, <1>4, <1>7 DEF Contains
<1>8. ASSUME NEW x, Contains(Tail(s), x) PROVE Contains(s, x)
  BY <1>3, <1>4, <1>8 DEF Contains
<1>. QED  BY <1>1, <1>5, <1>6, <1>7, <1>8 DEF Contains

\* A new entry at the end of the list.
LEMMA AppendEntry ==
    ASSUME NEW s \in Seq(Entries), NEW q \in Async
    PROVE  LET t == Append(s, [req |-> q, ready |-> FALSE])
           IN  /\ t \in Seq(Entries)
               /\ \A x : /\ ListedIn(t, x) <=> ListedIn(s, x) \/ x = q
                         /\ WaitingIn(t, x) <=> WaitingIn(s, x) \/ x = q
                         /\ ReadyIn(t, x) <=> ReadyIn(s, x)
                         /\ OnceIn(s, x) /\ (x = q => ~ListedIn(s, x)) => OnceIn(t, x)
<1>. DEFINE e == [req |-> q, ready |-> FALSE]
            t == Append(s, e)
<1>1. e \in Entries /\ e.req = q /\ ~e.ready  BY DEF Entries
<1>. HIDE DEF e
<1>2. /\ t \in Seq(Entries) /\ Len(t) = Len(s) + 1 /\ Len(s) \in Nat
      /\ \A i \in 1..Len(s) : t[i] = s[i]
      /\ t[Len(s) + 1] = e
      /\ 1..(Len(s) + 1) = 1..Len(s) \cup {Len(s) + 1}
      /\ Len(s) + 1 \notin 1..Len(s)
  BY <1>1, AppendProperties, LenProperties
<1>. HIDE DEF t
<1>3. /\ \A i \in 1..Len(s) : i \in 1..Len(t) /\ t[i] = s[i]
      /\ Len(s) + 1 \in 1..Len(t) /\ t[Len(s) + 1] = e
      /\ \A i \in 1..Len(t) : i \in 1..Len(s) \/ i = Len(s) + 1
  BY <1>2
<1>4. ASSUME NEW x
      PROVE  /\ ListedIn(t, x) <=> ListedIn(s, x) \/ x = q
             /\ WaitingIn(t, x) <=> WaitingIn(s, x) \/ x = q
             /\ ReadyIn(t, x) <=> ReadyIn(s, x)
             /\ OnceIn(s, x) /\ (x = q => ~ListedIn(s, x)) => OnceIn(t, x)
  <2>1. ListedIn(t, x) <=> ListedIn(s, x) \/ x = q  BY <1>1, <1>3 DEF ListedIn
  <2>2. WaitingIn(t, x) <=> WaitingIn(s, x) \/ x = q  BY <1>1, <1>3 DEF WaitingIn
  <2>3. ReadyIn(t, x) <=> ReadyIn(s, x)  BY <1>1, <1>3 DEF ReadyIn
  <2>4. OnceIn(s, x) /\ (x = q => ~ListedIn(s, x)) => OnceIn(t, x)
    BY <1>1, <1>3 DEF OnceIn, ListedIn
  <2>. QED  BY <2>1, <2>2, <2>3, <2>4
<1>. QED  BY <1>2, <1>4 DEF t, e

\* An entry becomes ready.
LEMMA EntryReady ==
    ASSUME NEW s \in Seq(Entries), NEW k \in 1..Len(s)
    PROVE  LET t == [s EXCEPT ![k].ready = TRUE]
           IN  /\ t \in Seq(Entries)
               /\ \A x : ListedIn(t, x) <=> ListedIn(s, x)
               /\ \A x : OnceIn(s, x) => OnceIn(t, x)
               /\ \A x : x # s[k].req => /\ WaitingIn(t, x) <=> WaitingIn(s, x)
                                         /\ ReadyIn(t, x) <=> ReadyIn(s, x)
               /\ ReadyIn(t, s[k].req)
               /\ OnceIn(s, s[k].req) => ~WaitingIn(t, s[k].req)
<1>. DEFINE t == [s EXCEPT ![k].ready = TRUE]
<1>1. Len(s) \in Nat /\ s[k] \in Entries /\ \A i \in 1..Len(s) : s[i] \in Entries
  BY LenProperties, ElementOfSeq
<1>2. [s[k] EXCEPT !.ready = TRUE] \in Entries
  BY <1>1 DEF Entries
<1>3. t = [s EXCEPT ![k] = [s[k] EXCEPT !.ready = TRUE]]
  OBVIOUS
<1>4. t \in Seq(Entries) /\ Len(t) = Len(s)
  BY <1>2, <1>3, ExceptSeq
<1>5. \A i \in 1..Len(s) :
          /\ t[i].req = s[i].req
          /\ i # k => t[i] = s[i]
          /\ i = k => t[i].ready
  BY <1>1, LenProperties DEF Entries
<1>. HIDE DEF t
<1>6. \A x : ListedIn(t, x) <=> ListedIn(s, x)
  BY <1>4, <1>5 DEF ListedIn
<1>7. \A x : OnceIn(s, x) => OnceIn(t, x)
  BY <1>4, <1>5 DEF OnceIn
<1>8. ASSUME NEW x, x # s[k].req
      PROVE  (WaitingIn(t, x) <=> WaitingIn(s, x)) /\ (ReadyIn(t, x) <=> ReadyIn(s, x))
  BY <1>4, <1>5, <1>8 DEF WaitingIn, ReadyIn
<1>9. ReadyIn(t, s[k].req)
  BY <1>4, <1>5 DEF ReadyIn
<1>10. OnceIn(s, s[k].req) => ~WaitingIn(t, s[k].req)
  BY <1>4, <1>5 DEF WaitingIn, OnceIn
<1>. QED  BY <1>4, <1>6, <1>7, <1>8, <1>9, <1>10 DEF t

\* An entry is unlinked.
LEMMA EntryGone ==
    ASSUME NEW s \in Seq(Entries), NEW k \in 1..Len(s)
    PROVE  LET t == RemoveAt(s, k)
           IN  /\ t \in Seq(Entries)
               /\ \A x : OnceIn(s, x) => OnceIn(t, x)
               /\ \A x : x # s[k].req => /\ ListedIn(t, x) <=> ListedIn(s, x)
                                         /\ WaitingIn(t, x) <=> WaitingIn(s, x)
                                         /\ ReadyIn(t, x) <=> ReadyIn(s, x)
               /\ OnceIn(s, s[k].req) => ~ListedIn(t, s[k].req)
<1>. DEFINE t == RemoveAt(s, k)
            a == SubSeq(s, 1, k - 1)
            b == SubSeq(s, k + 1, Len(s))
<1>1. Len(s) \in Nat /\ k \in Nat  BY LenProperties
<1>2. /\ a \in Seq(Entries) /\ Len(a) = k - 1 /\ \A i \in 1..(k - 1) : a[i] = s[i]
  BY <1>1, SubSeqProperties
<1>3. /\ b \in Seq(Entries) /\ Len(b) = Len(s) - k
      /\ \A i \in 1..(Len(s) - k) : b[i] = s[k + i]
  BY <1>1, SubSeqProperties
<1>4. /\ t \in Seq(Entries) /\ Len(t) = Len(s) - 1
      /\ \A i \in 1..(Len(s) - 1) : t[i] = IF i < k THEN a[i] ELSE b[i - (k - 1)]
  <2>1. t = a \o b  BY DEF RemoveAt
  <2>. HIDE DEF a, b, t
  <2>2. /\ a \o b \in Seq(Entries) /\ Len(a \o b) = Len(a) + Len(b)
        /\ \A i \in 1..(Len(a) + Len(b)) :
              (a \o b)[i] = IF i <= Len(a) THEN a[i] ELSE b[i - Len(a)]
    BY <1>2, <1>3, ConcatProperties
  <2>3. Len(a) + Len(b) = Len(s) - 1  BY <1>1, <1>2, <1>3
  <2>4. \A i \in 1..(Len(s) - 1) : i <= Len(a) <=> i < k  BY <1>1, <1>2
  <2>. QED  BY <1>2, <2>1, <2>2, <2>3, <2>4
<1>5. \A i \in 1..(Len(s) - 1) : t[i] = IF i < k THEN s[i] ELSE s[i + 1]
  <2>. HIDE DEF a, b, t
  <2>. QED  BY <1>1, <1>2, <1>3, <1>4
<1>. HIDE DEF t
\* Where an entry of t was, and where one of s is now.
<1>6. \A i \in 1..Len(t) : \E j \in 1..Len(s) : j # k /\ t[i] = s[j]
  <2>1. SUFFICES ASSUME NEW i \in 1..Len(t) PROVE \E j \in 1..Len(s) : j # k /\ t[i] = s[j]
    OBVIOUS
  <2>2. CASE i < k
    <3>1. i \in 1..Len(s) /\ i # k /\ t[i] = s[i]  BY <2>2, <1>1, <1>4, <1>5
    <3>. QED  BY <3>1
  <2>3. CASE ~(i < k)
    <3>1. i + 1 \in 1..Len(s) /\ i + 1 # k /\ t[i] = s[i + 1]  BY <2>3, <1>1, <1>4, <1>5
    <3>. QED  BY <3>1
  <2>. QED  BY <2>2, <2>3
<1>7. \A j \in 1..Len(s) : j # k => \E i \in 1..Len(t) : t[i] = s[j]
  <2>1. SUFFICES ASSUME NEW j \in 1..Len(s), j # k PROVE \E i \in 1..Len(t) : t[i] = s[j]
    OBVIOUS
  <2>2. CASE j < k
    <3>1. j \in 1..Len(t) /\ t[j] = s[j]  BY <2>2, <1>1, <1>4, <1>5
    <3>. QED  BY <3>1
  <2>3. CASE j > k
    <3>1. j - 1 \in 1..Len(t) /\ t[j - 1] = s[j]  BY <2>3, <1>1, <1>4, <1>5
    <3>. QED  BY <3>1
  <2>. QED  BY <2>1, <2>2, <2>3, <1>1
<1>8. ASSUME NEW x, OnceIn(s, x) PROVE OnceIn(t, x)
  <2>. SUFFICES ASSUME NEW i \in 1..Len(t), NEW j \in 1..Len(t), t[i].req = x, t[j].req = x
                PROVE  i = j
    BY DEF OnceIn
  <2>. DEFINE u == IF i < k THEN i ELSE i + 1
              v == IF j < k THEN j ELSE j + 1
  <2>1. u \in 1..Len(s) /\ v \in 1..Len(s) /\ t[i] = s[u] /\ t[j] = s[v]
    BY <1>1, <1>4, <1>5
  <2>2. u = v
    <3>. HIDE DEF u, v
    <3>. QED  BY <2>1, <1>8 DEF OnceIn
  <2>. QED  BY <2>2, <1>1, <1>4
<1>9. ASSUME NEW x, x # s[k].req
      PROVE  /\ ListedIn(t, x) <=> ListedIn(s, x)
             /\ WaitingIn(t, x) <=> WaitingIn(s, x)
             /\ ReadyIn(t, x) <=> ReadyIn(s, x)
  <2>1. ListedIn(t, x) <=> ListedIn(s, x)  BY <1>6, <1>7, <1>9 DEF ListedIn
  <2>2. WaitingIn(t, x) <=> WaitingIn(s, x)  BY <1>6, <1>7, <1>9 DEF WaitingIn
  <2>3. ReadyIn(t, x) <=> ReadyIn(s, x)  BY <1>6, <1>7, <1>9 DEF ReadyIn
  <2>. QED  BY <2>1, <2>2, <2>3
<1>10. ASSUME OnceIn(s, s[k].req) PROVE ~ListedIn(t, s[k].req)
  BY <1>6, <1>10 DEF OnceIn, ListedIn
<1>. QED  BY <1>4, <1>8, <1>9, <1>10 DEF t

LEMMA InList ==
    ASSUME NEW s \in Seq(Entries)
    PROVE  /\ \A x : ListedIn(s, x) <=> ReadyIn(s, x) \/ WaitingIn(s, x)
           /\ \A x : ListedIn(s, x) => x \in Async
<1>1. \A i \in 1..Len(s) : s[i] \in Entries  BY ElementOfSeq
<1>. QED  BY <1>1 DEF ListedIn, ReadyIn, WaitingIn, Entries

\* The first entry of a request exists if there is one.
LEMMA FirstEntry ==
    ASSUME ar \in Seq(Entries), NEW q, Listed(q)
    PROVE  /\ IndexOf(q) \in 1..Len(ar) /\ ar[IndexOf(q)].req = q /\ ListedIn(ar, q)
<1>1. DOMAIN ar = 1..Len(ar) /\ Len(ar) \in Nat  BY LenProperties
<1>. DEFINE T == {i \in 1..Len(ar) : ar[i].req = q}
<1>2. T \subseteq Nat /\ T # {}  BY <1>1 DEF Listed
<1>3. PICK m \in T : \A j \in T : <<j, m>> \notin OpToRel(<, Nat)
  BY <1>2, WFMin, NatLessThanWellFounded, Zenon
<1>4. \A j \in T : ~(j < m)  BY <1>2, <1>3 DEF OpToRel
<1>5. \A j \in 1..(m - 1) : ar[j].req # q
  <2>. SUFFICES ASSUME NEW j \in 1..(m - 1), ar[j].req = q PROVE FALSE
    OBVIOUS
  <2>1. m \in 1..Len(ar)  BY <1>3
  <2>2. j \in 1..Len(ar) /\ j < m  BY <1>1, <2>1
  <2>. QED  BY <2>2, <1>4
<1>. HIDE DEF T
<1>6. \E i \in DOMAIN ar : ar[i].req = q /\ \A j \in 1..(i - 1) : ar[j].req # q
  BY <1>1, <1>3, <1>5 DEF T
<1>7. IndexOf(q) \in DOMAIN ar /\ ar[IndexOf(q)].req = q
  BY <1>6 DEF IndexOf
<1>. QED  BY <1>1, <1>7 DEF ListedIn

LEMMA ListedIsListed == ASSUME ar \in Seq(Entries) PROVE \A q : Listed(q) <=> ListedIn(ar, q)
  BY LenProperties DEF Listed, ListedIn

-----------------------------------------------------------------------------
USE CapacityAssumption, RequestAssumption
USE DEF emulation, serial, device

LEMMA Facts ==
    ASSUME SerialInv
    PROVE  /\ requests \in Seq(Requests \cup {NoRequest}) /\ Len(requests) \in Nat
           /\ Len(requests) <= Capacity
           /\ ar \in Seq(Entries) /\ Async \subseteq Requests
           /\ buffer \in [Requests -> {"none", "live", "freed"}]
           /\ replies \in [Requests -> Nat]
           /\ \A q : Listed(q) <=> ListedIn(ar, q)
           /\ \A q : ListedIn(ar, q) => q \in Async
           /\ \A q : ListedIn(ar, q) <=> ReadyIn(ar, q) \/ WaitingIn(ar, q)
           /\ \A q \in Requests \ aborted : RequestInv(q)
<1>1. requests \in Seq(Requests \cup {NoRequest}) /\ Len(requests) <= Capacity
  BY DEF SerialInv, TypeOK
<1>2. Len(requests) \in Nat  BY <1>1, LenProperties
<1>3. ar \in Seq(Entries) /\ Async \subseteq Requests
  BY DEF SerialInv, TypeOK, Entries, Async
<1>4. /\ \A q : Listed(q) <=> ListedIn(ar, q)
      /\ \A q : ListedIn(ar, q) => q \in Async
      /\ \A q : ListedIn(ar, q) <=> ReadyIn(ar, q) \/ WaitingIn(ar, q)
  BY <1>3, ListedIsListed, InList
<1>. QED  BY <1>1, <1>2, <1>3, <1>4 DEF SerialInv, TypeOK

LEMMA InitKeeps == Init => SerialInv
<1>. SUFFICES ASSUME Init PROVE SerialInv
  OBVIOUS
<1>1. Len(requests) = 0 /\ Len(ar) = 0 /\ 1..0 = {}
  BY EmptySeq DEF Init
<1>2. TypeOK
  <2>1. /\ requests \in Seq(Requests \cup {NoRequest}) /\ Len(requests) <= Capacity
        /\ ar \in Seq([req : Async, ready : BOOLEAN])
    BY <1>1, EmptySeq DEF Init
  <2>2. /\ buffer \in [Requests -> {"none", "live", "freed"}]
        /\ replies \in [Requests -> Nat]
    BY DEF Init
  <2>3. resetting \in BOOLEAN  BY DEF Init
  <2>4. aborted \subseteq Requests /\ misused \subseteq Requests  BY DEF Init
  <2>. QED  BY <2>1, <2>2, <2>3, <2>4 DEF Init, TypeOK
<1>3. ~InPipe(NoRequest) /\ \A q : ~InPipe(q) /\ Once(requests, q)
  BY <1>1 DEF InPipe, Contains, Once
<1>4. \A q : ~ListedIn(ar, q) /\ ~ReadyIn(ar, q) /\ ~WaitingIn(ar, q) /\ OnceIn(ar, q)
  BY <1>1 DEF ListedIn, ReadyIn, WaitingIn, OnceIn
<1>5. \A q : ~Sent(q) /\ ~AtEmulation(q) /\ ~AtSerial(q) /\ ~AtDevice(q)
  BY <1>3 DEF Init, Sent, AtEmulation, AtSerial, AtDevice
<1>6. ThreadsInv /\ SemInv /\ CloseInv
  BY <1>3, <1>5 DEF Init, ThreadsInv, SemInv, CloseInv
<1>7. ASSUME NEW q \in Requests PROVE RequestInv(q)
  BY <1>3, <1>4, <1>5 DEF Init, RequestInv, OnePlace
<1>. QED  BY <1>2, <1>6, <1>7 DEF SerialInv

\* What Misuse adds.
LEMMA MisuseAdds ==
    ASSUME SerialInv, NEW q \in Requests
    PROVE  /\ Misuse(q) \subseteq Requests
           /\ \A x : x \in Misuse(q) => x \in misused \/ (x = q /\ buffer[q] = "freed")
  BY DEF SerialInv, TypeOK, Misuse

-----------------------------------------------------------------------------
(* The emulation thread. *)

LEMMA BeginKeeps == ASSUME SerialInv, NEW p \in Requests, BeginIO(p) PROVE SerialInv'
<1>1. /\ epc = "run" /\ buffer[p] = "none" /\ epc' = "lock" /\ ereq' = p
      /\ buffer' = [buffer EXCEPT ![p] = "live"]
      /\ UNCHANGED <<requests, ar, async_sem, pipe_sem, resetting, aborted, serial,
                     device, replies, misused>>
  BY DEF BeginIO
<1>2. spc # "closed" /\ epc # "write" /\ ~InPipe(NoRequest) /\ dpc # "ended"
  BY <1>1 DEF SerialInv, CloseInv, AtEmulation
<1>3. TypeOK'  BY <1>1 DEF SerialInv, TypeOK
<1>4. ThreadsInv' /\ SemInv'  BY <1>1 DEF SerialInv, ThreadsInv, SemInv
<1>5. CloseInv'  BY <1>1, <1>2 DEF CloseInv, AtEmulation, InPipe
<1>6. ASSUME NEW q \in Requests \ aborted' PROVE RequestInv(q)'
  <2>1. RequestInv(q) /\ (ListedIn(ar, q) <=> ReadyIn(ar, q) \/ WaitingIn(ar, q))
    BY <1>1, <1>6, Facts
  <2>. QED
    BY <2>1, <1>1, <1>6, Facts
       DEF RequestInv, OnePlace, Sent, AtEmulation, AtSerial, AtDevice, InPipe
<1>. QED  BY <1>3, <1>4, <1>5, <1>6 DEF SerialInv

LEMMA AbortKeeps == ASSUME SerialInv, NEW p \in Requests, AbortIO(p) PROVE SerialInv'
<1>1. /\ epc = "run" /\ buffer[p] # "none" /\ aborted' = aborted \cup {p}
      /\ UNCHANGED <<requests, async_sem, pipe_sem, resetting, serial, device, buffer,
                     replies, misused>>
  BY DEF AbortIO
<1>2. \/ /\ Listed(p) /\ ar' = [ar EXCEPT ![IndexOf(p)].ready = TRUE]
         /\ epc' = "abort" /\ ereq' = p
      \/ UNCHANGED <<ar, epc, ereq>>
  BY DEF AbortIO
<1>3. /\ ar' \in Seq(Entries)
      /\ \A x : ListedIn(ar', x) <=> ListedIn(ar, x)
      /\ \A x : OnceIn(ar, x) => OnceIn(ar', x)
      /\ \A x : x # p => /\ WaitingIn(ar', x) <=> WaitingIn(ar, x)
                         /\ ReadyIn(ar', x) <=> ReadyIn(ar, x)
  <2>1. CASE Listed(p) /\ ar' = [ar EXCEPT ![IndexOf(p)].ready = TRUE]
    BY <2>1, Facts, FirstEntry, EntryReady
  <2>2. CASE UNCHANGED ar  BY <2>2, Facts
  <2>. QED  BY <2>1, <2>2, <1>2
<1>4. TypeOK'
  <2>1. ar' \in Seq([req : Async, ready : BOOLEAN])  BY <1>3 DEF Entries
  <2>2. epc' \in {"run", "abort"} /\ ereq' \in Requests \cup {NoRequest}
    BY <1>1, <1>2 DEF SerialInv, TypeOK
  <2>. QED  BY <2>1, <2>2, <1>1 DEF SerialInv, TypeOK
<1>5. ThreadsInv' /\ SemInv'
  BY <1>1, <1>2, <1>3 DEF SerialInv, ThreadsInv, SemInv
<1>6. CloseInv'
  BY <1>1, <1>2 DEF SerialInv, CloseInv, AtEmulation, InPipe
<1>7. ASSUME NEW q \in Requests \ aborted' PROVE RequestInv(q)'
  <2>1. RequestInv(q) /\ q # p
    BY <1>1, <1>7, Facts
  <2>. QED
    BY <2>1, <1>1, <1>2, <1>3
       DEF RequestInv, OnePlace, Sent, AtEmulation, AtSerial, AtDevice, InPipe
<1>. QED  BY <1>4, <1>5, <1>6, <1>7 DEF SerialInv

LEMMA CloseKeeps == ASSUME SerialInv, Close PROVE SerialInv'
<1>1. /\ epc = "run" /\ \A q \in Requests : buffer[q] = "none" \/ replies[q] > 0
      /\ spc = "idle" /\ epc' = "lock" /\ ereq' = NoRequest /\ spc' = "closed"
      /\ UNCHANGED <<requests, ar, async_sem, pipe_sem, resetting, aborted, sreq,
                     device, buffer, replies, misused>>
  BY DEF Close
<1>2. TypeOK'  BY <1>1 DEF SerialInv, TypeOK
<1>3. ThreadsInv' /\ SemInv'  BY <1>1 DEF SerialInv, ThreadsInv, SemInv
<1>4. CloseInv'  BY <1>1 DEF CloseInv, AtEmulation
<1>5. ASSUME NEW q \in Requests \ aborted' PROVE RequestInv(q)'
  BY <1>1, <1>5, Facts
     DEF RequestInv, OnePlace, Sent, AtEmulation, AtSerial, AtDevice, InPipe
<1>. QED  BY <1>2, <1>3, <1>4, <1>5 DEF SerialInv

LEMMA MarkKeeps == ASSUME SerialInv, MarkAborted PROVE SerialInv'
<1>1. /\ epc = "abort" /\ epc' = "lock" /\ misused' = Misuse(ereq)
      /\ UNCHANGED <<requests, ar, async_sem, pipe_sem, ereq, resetting, aborted,
                     serial, device, buffer, replies>>
  BY DEF MarkAborted
<1>2. ereq \in aborted /\ ereq \in Requests /\ ereq # NoRequest
  BY <1>1 DEF SerialInv, ThreadsInv, TypeOK
<1>3. misused' \subseteq Requests /\ \A x : x \in misused' => x \in misused \/ x = ereq
  BY <1>1, <1>2, MisuseAdds
<1>4. TypeOK'  BY <1>1, <1>3 DEF SerialInv, TypeOK
<1>5. ThreadsInv' /\ SemInv'  BY <1>1 DEF SerialInv, ThreadsInv, SemInv
<1>6. CloseInv'  BY <1>1, <1>2 DEF SerialInv, CloseInv, AtEmulation, InPipe
<1>7. ASSUME NEW q \in Requests \ aborted' PROVE RequestInv(q)'
  BY <1>1, <1>2, <1>3, <1>7, Facts
     DEF RequestInv, OnePlace, Sent, AtEmulation, AtSerial, AtDevice, InPipe
<1>. QED  BY <1>4, <1>5, <1>6, <1>7 DEF SerialInv

\* Taking pipe_sem moves no message.
LEMMA LockKeeps == ASSUME SerialInv, EmuLock \/ SignalLock PROVE SerialInv'
<1>1. UNCHANGED <<requests, ar, async_sem, ereq, resetting, aborted, sreq, device,
                  buffer, replies, misused>>
  BY DEF EmuLock, SignalLock
<1>2. \/ epc = "lock" /\ epc' = "write" /\ UNCHANGED spc
      \/ spc = "lock" /\ spc' = "write" /\ UNCHANGED epc
  BY DEF EmuLock, SignalLock
<1>3. TypeOK'  BY DEF SerialInv, TypeOK, EmuLock, SignalLock
<1>4. ThreadsInv'  BY <1>1, <1>2 DEF SerialInv, ThreadsInv
<1>5. SemInv'  BY DEF SerialInv, SemInv, EmuLock, SignalLock
<1>6. CloseInv'  BY <1>1, <1>2 DEF SerialInv, CloseInv, AtEmulation, InPipe
<1>7. ASSUME NEW q \in Requests \ aborted' PROVE RequestInv(q)'
  BY <1>1, <1>2, <1>7, Facts
     DEF RequestInv, OnePlace, Sent, AtEmulation, AtSerial, AtDevice, InPipe
<1>. QED  BY <1>3, <1>4, <1>5, <1>6, <1>7 DEF SerialInv

LEMMA EmuWriteKeeps == ASSUME SerialInv, EmuWrite PROVE SerialInv'
<1>1. /\ epc = "write" /\ Len(requests) < Capacity /\ requests' = Append(requests, ereq)
      /\ pipe_sem' = "free"
      /\ UNCHANGED <<ar, async_sem, ereq, resetting, aborted, serial, device, buffer,
                     replies, misused>>
  BY DEF EmuWrite
<1>2. /\ ereq = NoRequest => epc' = "closed"
      /\ ereq # NoRequest => epc' = "run"
  BY DEF EmuWrite, SerialInv, ThreadsInv
<1>3. ereq \in Requests \cup {NoRequest}  BY DEF SerialInv, TypeOK
<1>4. /\ requests' \in Seq(Requests \cup {NoRequest}) /\ Len(requests') = Len(requests) + 1
      /\ \A x : Contains(requests', x) <=> Contains(requests, x) \/ x = ereq
      /\ \A x : Once(requests, x) /\ (x = ereq => ~Contains(requests, x))
                    => Once(requests', x)
  <2>. DEFINE S == Requests \cup {NoRequest}
  <2>1. requests \in Seq(S) /\ ereq \in S  BY <1>3, Facts
  <2>. HIDE DEF S
  <2>2. /\ Append(requests, ereq) \in Seq(S)
        /\ Len(Append(requests, ereq)) = Len(requests) + 1
        /\ \A x : Contains(Append(requests, ereq), x) <=> Contains(requests, x) \/ x = ereq
        /\ \A x : Once(requests, x) /\ (x = ereq => ~Contains(requests, x))
                      => Once(Append(requests, ereq), x)
    BY <2>1, AppendOnce
  <2>. QED  BY <2>2, <1>1 DEF S
<1>5. TypeOK'
  <2>1. Len(requests') <= Capacity /\ epc' \in {"closed", "run"}  BY <1>1, <1>2, <1>4, Facts
  <2>. QED  BY <2>1, <1>1, <1>4 DEF SerialInv, TypeOK
<1>6. ThreadsInv'  BY <1>1, <1>2 DEF SerialInv, ThreadsInv
<1>7. SemInv'  BY <1>1, <1>2 DEF SerialInv, SemInv
<1>8. CloseInv'  BY <1>1, <1>2, <1>4 DEF SerialInv, CloseInv, AtEmulation, InPipe
<1>9. ASSUME NEW q \in Requests \ aborted' PROVE RequestInv(q)'
  <2>1. RequestInv(q) /\ q # NoRequest  BY <1>1, <1>9, Facts
  <2>2. AtEmulation(q) <=> q = ereq  BY <1>1 DEF AtEmulation
  <2>3. ~AtEmulation(q)'  BY <2>1, <1>1, <1>2 DEF AtEmulation
  <2>4. Sent(q)' <=> Sent(q)
    BY <2>2, <2>3, <1>1, <1>4 DEF Sent, AtSerial, AtDevice, InPipe
  <2>5. OnePlace(q)'
    BY <2>1, <2>2, <2>3, <1>1, <1>4 DEF RequestInv, OnePlace, AtSerial, AtDevice, InPipe
  <2>. QED
    BY <2>1, <2>3, <2>4, <2>5, <1>1 DEF RequestInv, AtSerial, AtDevice
<1>. QED  BY <1>5, <1>6, <1>7, <1>8, <1>9 DEF SerialInv

-----------------------------------------------------------------------------
(* The serial thread. *)

LEMMA SignalKeeps == ASSUME SerialInv, NEW p \in Async, SignalComplete(p) PROVE SerialInv'
<1>1. /\ spc = "idle" /\ spc' = "lock" /\ sreq' = p /\ misused' = Misuse(p)
      /\ async_sem' = "serial"
      /\ UNCHANGED <<requests, pipe_sem, emulation, device, buffer, replies>>
  BY DEF SignalComplete
<1>2. PICK k \in 1..Len(ar) : ~ar[k].ready /\ ar[k].req = p
                              /\ ar' = [ar EXCEPT ![k].ready = TRUE]
  BY Facts, LenProperties DEF SignalComplete, Completes, Waiting
<1>3. /\ ar' \in Seq(Entries)
      /\ \A x : ListedIn(ar', x) <=> ListedIn(ar, x)
      /\ \A x : OnceIn(ar, x) => OnceIn(ar', x)
      /\ \A x : x # p => /\ WaitingIn(ar', x) <=> WaitingIn(ar, x)
                         /\ ReadyIn(ar', x) <=> ReadyIn(ar, x)
      /\ ReadyIn(ar', p)
      /\ OnceIn(ar, p) => ~WaitingIn(ar', p)
  BY <1>2, Facts, EntryReady
<1>4. p \in Requests /\ WaitingIn(ar, p) /\ ListedIn(ar, p)
  BY <1>2, Facts DEF WaitingIn, ListedIn
<1>5. /\ misused' \subseteq Requests
      /\ \A x : x \in misused' => x \in misused \/ (x = p /\ buffer[p] = "freed")
  BY <1>1, <1>4, MisuseAdds
<1>6. TypeOK'
  <2>1. ar' \in Seq([req : Async, ready : BOOLEAN])  BY <1>3 DEF Entries
  <2>. QED  BY <2>1, <1>1, <1>4, <1>5 DEF SerialInv, TypeOK
<1>7. ThreadsInv' /\ SemInv'
  BY <1>1, <1>3 DEF SerialInv, ThreadsInv, SemInv
<1>8. CloseInv'  BY <1>1 DEF SerialInv, CloseInv, AtEmulation, InPipe
<1>9. ASSUME NEW q \in Requests \ aborted' PROVE RequestInv(q)'
  <2>1. RequestInv(q)  BY <1>1, <1>9, Facts
  <2>2. CASE q # p
    BY <2>1, <2>2, <1>1, <1>3, <1>5
       DEF RequestInv, OnePlace, Sent, AtEmulation, AtSerial, AtDevice, InPipe
  <2>3. CASE q = p
    <3>1. ~Sent(q) /\ buffer[q] = "live" /\ (replies[q] = 0 \/ (dpc = "release" /\ dreq = q))
      BY <2>1, <2>3, <1>4 DEF RequestInv
    <3>2. AtSerial(q)' /\ ~AtEmulation(q)' /\ ~AtDevice(q)' /\ ~InPipe(q)'
      BY <3>1, <2>3, <1>1 DEF Sent, AtEmulation, AtSerial, AtDevice, InPipe
    <3>3. OnePlace(q)'
      BY <3>2, <2>1, <1>1 DEF RequestInv, OnePlace
    <3>4. /\ OnceIn(ar', q) /\ ReadyIn(ar', q) /\ ~WaitingIn(ar', q) /\ q \notin misused'
      BY <3>1, <2>1, <2>3, <1>3, <1>5 DEF RequestInv
    <3>. QED
      BY <3>1, <3>2, <3>3, <3>4, <1>1 DEF RequestInv, Sent
  <2>. QED  BY <2>2, <2>3
<1>. QED  BY <1>6, <1>7, <1>8, <1>9 DEF SerialInv

LEMMA SignalSendKeeps == ASSUME SerialInv, SignalWrite PROVE SerialInv'
<1>1. /\ spc = "write" /\ Len(requests) < Capacity /\ requests' = Append(requests, sreq)
      /\ pipe_sem' = "free" /\ async_sem' = "free" /\ spc' = "idle"
      /\ UNCHANGED <<ar, emulation, sreq, device, buffer, replies, misused>>
  BY DEF SignalWrite
<1>2. sreq \in Requests /\ sreq # NoRequest
  BY <1>1, Facts DEF SerialInv, ThreadsInv
<1>3. /\ requests' \in Seq(Requests \cup {NoRequest}) /\ Len(requests') = Len(requests) + 1
      /\ \A x : Contains(requests', x) <=> Contains(requests, x) \/ x = sreq
      /\ \A x : Once(requests, x) /\ (x = sreq => ~Contains(requests, x))
                    => Once(requests', x)
  <2>. DEFINE S == Requests \cup {NoRequest}
  <2>1. requests \in Seq(S) /\ sreq \in S  BY <1>2, Facts
  <2>. HIDE DEF S
  <2>2. /\ Append(requests, sreq) \in Seq(S)
        /\ Len(Append(requests, sreq)) = Len(requests) + 1
        /\ \A x : Contains(Append(requests, sreq), x) <=> Contains(requests, x) \/ x = sreq
        /\ \A x : Once(requests, x) /\ (x = sreq => ~Contains(requests, x))
                      => Once(Append(requests, sreq), x)
    BY <2>1, AppendOnce
  <2>. QED  BY <2>2, <1>1 DEF S
<1>4. TypeOK'
  <2>1. Len(requests') <= Capacity  BY <1>1, <1>3, Facts
  <2>. QED  BY <2>1, <1>1, <1>3 DEF SerialInv, TypeOK
<1>5. ThreadsInv' /\ SemInv'
  BY <1>1 DEF SerialInv, ThreadsInv, SemInv
<1>6. CloseInv'  BY <1>1, <1>2, <1>3 DEF SerialInv, CloseInv, AtEmulation, InPipe
<1>7. ASSUME NEW q \in Requests \ aborted' PROVE RequestInv(q)'
  <2>1. RequestInv(q)  BY <1>1, <1>7, Facts
  <2>2. AtSerial(q) <=> q = sreq  BY <1>1 DEF AtSerial
  <2>3. ~AtSerial(q)'  BY <1>1 DEF AtSerial
  <2>4. Sent(q)' <=> Sent(q)
    BY <2>2, <2>3, <1>1, <1>3 DEF Sent, AtEmulation, AtDevice, InPipe
  <2>5. OnePlace(q)'
    BY <2>1, <2>2, <2>3, <1>1, <1>3 DEF RequestInv, OnePlace, AtEmulation, AtDevice, InPipe
  <2>. QED
    BY <2>1, <2>3, <2>4, <2>5, <1>1 DEF RequestInv, AtEmulation, AtDevice
<1>. QED  BY <1>4, <1>5, <1>6, <1>7 DEF SerialInv

-----------------------------------------------------------------------------
(* dev_thread. *)

LEMMA DevReadKeeps == ASSUME SerialInv, DevRead PROVE SerialInv'
<1>1. /\ dpc = "read" /\ requests # <<>> /\ dreq' = Head(requests)
      /\ requests' = Tail(requests)
      /\ dpc' = IF dreq' = NoRequest THEN "ended" ELSE "find"
      /\ UNCHANGED <<ar, async_sem, pipe_sem, emulation, serial, buffer, replies, misused>>
  BY DEF DevRead
<1>2. /\ requests' \in Seq(Requests \cup {NoRequest}) /\ Len(requests') = Len(requests) - 1
      /\ dreq' \in Requests \cup {NoRequest} /\ Contains(requests, dreq')
      /\ \A x : Contains(requests', x) => Contains(requests, x)
      /\ \A x : Contains(requests, x) /\ x # dreq' => Contains(requests', x)
      /\ \A x : Once(requests, x) => Once(requests', x)
      /\ Once(requests, dreq') => ~Contains(requests', dreq')
  <2>. DEFINE S == Requests \cup {NoRequest}
  <2>1. requests \in Seq(S)  BY Facts
  <2>. HIDE DEF S
  <2>2. /\ Tail(requests) \in Seq(S) /\ Len(Tail(requests)) = Len(requests) - 1
        /\ Head(requests) \in S /\ Contains(requests, Head(requests))
        /\ \A x : Contains(Tail(requests), x) => Contains(requests, x)
        /\ \A x : Contains(requests, x) /\ x # Head(requests)
                      => Contains(Tail(requests), x)
        /\ \A x : Once(requests, x) => Once(Tail(requests), x)
        /\ Once(requests, Head(requests)) => ~Contains(Tail(requests), Head(requests))
    BY <2>1, <1>1, TailOnce
  <2>. QED  BY <2>2, <1>1 DEF S
<1>3. TypeOK'
  <2>1. Len(requests') <= Capacity /\ dpc' \in {"ended", "find"}  BY <1>1, <1>2, Facts
  <2>. QED  BY <2>1, <1>1, <1>2 DEF SerialInv, TypeOK
<1>4. ThreadsInv' /\ SemInv'  BY <1>1, <1>2 DEF SerialInv, ThreadsInv, SemInv
<1>5. CloseInv'
  BY <1>1, <1>2 DEF SerialInv, CloseInv, AtEmulation, InPipe
<1>6. ASSUME NEW q \in Requests \ aborted' PROVE RequestInv(q)'
  <2>1. RequestInv(q) /\ q # NoRequest  BY <1>1, <1>6, Facts
  <2>2. ~AtDevice(q) /\ (AtDevice(q)' <=> q = dreq')
    BY <2>1, <1>1 DEF AtDevice
  <2>3. InPipe(q) <=> InPipe(q)' \/ q = dreq'
    BY <1>2 DEF InPipe
  <2>4. q = dreq' => ~InPipe(q)'
    BY <2>1, <1>2 DEF InPipe, RequestInv, OnePlace
  <2>5. (AtEmulation(q)' <=> AtEmulation(q)) /\ (AtSerial(q)' <=> AtSerial(q))
    BY <1>1 DEF AtEmulation, AtSerial
  <2>6. Sent(q)' <=> Sent(q)  BY <2>2, <2>3, <2>5 DEF Sent
  <2>7. OnePlace(q)'
    BY <2>1, <2>2, <2>3, <2>4, <2>5, <1>2 DEF RequestInv, OnePlace
  <2>8. dpc' # "do" /\ dpc # "release" BY <1>1
  <2>. QED  BY <2>1, <2>5, <2>6, <2>7, <2>8, <1>1 DEF RequestInv
<1>. QED  BY <1>3, <1>4, <1>5, <1>6 DEF SerialInv

LEMMA DevFindKeeps == ASSUME SerialInv, DevFind PROVE SerialInv'
<1>1. /\ dpc = "find"
      /\ UNCHANGED <<requests, async_sem, pipe_sem, emulation, serial, dreq, buffer,
                     replies, misused>>
  BY DEF DevFind
<1>2. \/ /\ ListedIn(ar, dreq) /\ ar' = [ar EXCEPT ![IndexOf(dreq)].ready = TRUE]
         /\ dpc' = "reply"
      \/ ~ListedIn(ar, dreq) /\ dpc' = "do" /\ UNCHANGED ar
  BY Facts DEF DevFind
<1>3. /\ ar' \in Seq(Entries)
      /\ \A x : ListedIn(ar', x) <=> ListedIn(ar, x)
      /\ \A x : OnceIn(ar, x) => OnceIn(ar', x)
      /\ \A x : x # dreq => /\ WaitingIn(ar', x) <=> WaitingIn(ar, x)
                            /\ ReadyIn(ar', x) <=> ReadyIn(ar, x)
      /\ ListedIn(ar, dreq) => ReadyIn(ar', dreq)
      /\ ListedIn(ar, dreq) /\ OnceIn(ar, dreq) => ~WaitingIn(ar', dreq)
      /\ ~ListedIn(ar, dreq) => ~ReadyIn(ar', dreq) /\ ~WaitingIn(ar', dreq)
  <2>1. CASE ListedIn(ar, dreq) /\ ar' = [ar EXCEPT ![IndexOf(dreq)].ready = TRUE]
    <3>1. PICK k \in 1..Len(ar) : k = IndexOf(dreq) /\ ar[k].req = dreq
      BY <2>1, Facts, FirstEntry
    <3>2. ar \in Seq(Entries) /\ ar' = [ar EXCEPT ![k].ready = TRUE]  BY <2>1, <3>1, Facts
    <3>3. /\ ar' \in Seq(Entries)
          /\ \A x : ListedIn(ar', x) <=> ListedIn(ar, x)
          /\ \A x : OnceIn(ar, x) => OnceIn(ar', x)
          /\ \A x : x # ar[k].req => /\ WaitingIn(ar', x) <=> WaitingIn(ar, x)
                                     /\ ReadyIn(ar', x) <=> ReadyIn(ar, x)
          /\ ReadyIn(ar', ar[k].req)
          /\ OnceIn(ar, ar[k].req) => ~WaitingIn(ar', ar[k].req)
      BY <3>2, EntryReady
    <3>. QED  BY <2>1, <3>1, <3>3
  <2>2. CASE ~ListedIn(ar, dreq) /\ UNCHANGED ar
    BY <2>2, Facts DEF ListedIn, ReadyIn, WaitingIn
  <2>. QED  BY <2>1, <2>2, <1>2
<1>4. TypeOK'
  <2>1. ar' \in Seq([req : Async, ready : BOOLEAN])  BY <1>3 DEF Entries
  <2>2. dpc' \in {"reply", "do"}  BY <1>2
  <2>. QED  BY <2>1, <2>2, <1>1 DEF SerialInv, TypeOK
<1>5. ThreadsInv' /\ SemInv'
  BY <1>1, <1>2, <1>3 DEF SerialInv, ThreadsInv, SemInv
<1>6. CloseInv'  BY <1>1, <1>2 DEF SerialInv, CloseInv, AtEmulation, InPipe
<1>7. ASSUME NEW q \in Requests \ aborted' PROVE RequestInv(q)'
  <2>1. RequestInv(q)  BY <1>1, <1>7, Facts
  <2>2. /\ AtEmulation(q)' <=> AtEmulation(q)
        /\ AtSerial(q)' <=> AtSerial(q)
        /\ AtDevice(q)' <=> AtDevice(q)
        /\ InPipe(q)' <=> InPipe(q)
        /\ AtDevice(q) <=> q = dreq
    BY <1>1, <1>2 DEF AtEmulation, AtSerial, AtDevice, InPipe
  <2>3. (Sent(q)' <=> Sent(q)) /\ OnePlace(q)'
    BY <2>1, <2>2, <1>1 DEF Sent, RequestInv, OnePlace
  <2>4. CASE q # dreq
    BY <2>1, <2>2, <2>3, <2>4, <1>1, <1>3 DEF RequestInv
  <2>5. CASE q = dreq
    <3>1. AtDevice(q) /\ Sent(q) /\ ~AtEmulation(q) /\ ~AtSerial(q)
      BY <2>1, <2>2, <2>5 DEF RequestInv, OnePlace, Sent
    <3>2. ~WaitingIn(ar', q)  BY <2>1, <2>5, <1>3 DEF RequestInv
    <3>3. dpc' = "do" => ~ListedIn(ar', q)  BY <2>5, <1>2, <1>3
    <3>. QED  BY <2>1, <2>2, <2>3, <3>1, <3>2, <3>3, <1>1, <1>3 DEF RequestInv
  <2>. QED  BY <2>4, <2>5
<1>. QED  BY <1>4, <1>5, <1>6, <1>7 DEF SerialInv

LEMMA DevReplyKeeps == ASSUME SerialInv, DevReply PROVE SerialInv'
<1>1. /\ dpc = "reply" /\ dpc' = "release"
      /\ replies' = [replies EXCEPT ![dreq] = replies[dreq] + 1]
      /\ UNCHANGED <<requests, ar, async_sem, pipe_sem, emulation, serial, dreq, buffer,
                     misused>>
  BY DEF DevReply, ReplyMsg
<1>2. dreq \in Requests /\ ListedIn(ar, dreq)
  BY <1>1 DEF SerialInv, ThreadsInv
<1>3. /\ replies' \in [Requests -> Nat] /\ replies'[dreq] > 0
      /\ \A q \in Requests : q # dreq => replies'[q] = replies[q]
      /\ \A q \in Requests : replies[q] > 0 => replies'[q] > 0
  BY <1>1, <1>2, Facts
<1>4. TypeOK'  BY <1>1, <1>3 DEF SerialInv, TypeOK
<1>5. ThreadsInv' /\ SemInv'  BY <1>1, <1>2, <1>3 DEF SerialInv, ThreadsInv, SemInv
<1>6. CloseInv'  BY <1>1, <1>3 DEF SerialInv, CloseInv, AtEmulation, InPipe
<1>7. ASSUME NEW q \in Requests \ aborted' PROVE RequestInv(q)'
  <2>1. RequestInv(q)  BY <1>1, <1>7, Facts
  <2>2. /\ AtEmulation(q)' <=> AtEmulation(q)
        /\ AtSerial(q)' <=> AtSerial(q)
        /\ AtDevice(q)' <=> AtDevice(q)
        /\ InPipe(q)' <=> InPipe(q)
        /\ q = dreq => AtDevice(q)
    BY <1>1 DEF AtEmulation, AtSerial, AtDevice, InPipe
  <2>3. (Sent(q)' <=> Sent(q)) /\ OnePlace(q)'
    BY <2>1, <2>2, <1>1 DEF Sent, RequestInv, OnePlace
  <2>4. q = dreq => buffer[q] # "none"
    BY <2>1, <2>2 DEF RequestInv, Sent
  <2>. QED  BY <2>1, <2>2, <2>3, <2>4, <1>1, <1>3 DEF RequestInv
<1>. QED  BY <1>4, <1>5, <1>6, <1>7 DEF SerialInv

LEMMA DevReleaseKeeps == ASSUME SerialInv, DevRelease PROVE SerialInv'
<1>1. /\ dpc = "release" /\ dpc' = "read" /\ ar' = RemoveAt(ar, IndexOf(dreq))
      /\ buffer' = [buffer EXCEPT ![dreq] = "freed"]
      /\ UNCHANGED <<requests, async_sem, pipe_sem, emulation, serial, dreq, replies,
                     misused>>
  BY DEF DevRelease
<1>2. dreq \in Requests /\ ListedIn(ar, dreq) /\ replies[dreq] > 0
  BY <1>1 DEF SerialInv, ThreadsInv
<1>3. PICK k \in 1..Len(ar) : k = IndexOf(dreq) /\ ar[k].req = dreq
  BY <1>2, Facts, FirstEntry
<1>4. /\ ar' \in Seq(Entries)
      /\ \A x : OnceIn(ar, x) => OnceIn(ar', x)
      /\ \A x : x # dreq => /\ ListedIn(ar', x) <=> ListedIn(ar, x)
                            /\ WaitingIn(ar', x) <=> WaitingIn(ar, x)
                            /\ ReadyIn(ar', x) <=> ReadyIn(ar, x)
      /\ OnceIn(ar, dreq) => ~ListedIn(ar', dreq)
  <2>1. ar \in Seq(Entries) /\ ar' = RemoveAt(ar, k)  BY <1>1, <1>3, Facts
  <2>. QED  BY <2>1, <1>3, EntryGone
<1>5. /\ buffer' \in [Requests -> {"none", "live", "freed"}]
      /\ buffer'[dreq] = "freed"
      /\ \A q \in Requests : q # dreq => buffer'[q] = buffer[q]
  BY <1>1, <1>2, Facts
<1>6. TypeOK'
  <2>1. ar' \in Seq([req : Async, ready : BOOLEAN])  BY <1>4 DEF Entries
  <2>. QED  BY <2>1, <1>1, <1>5 DEF SerialInv, TypeOK
<1>7. ThreadsInv' /\ SemInv'  BY <1>1 DEF SerialInv, ThreadsInv, SemInv
<1>8. CloseInv'
  BY <1>1, <1>2, <1>5 DEF SerialInv, CloseInv, AtEmulation, InPipe
<1>9. ASSUME NEW q \in Requests \ aborted' PROVE RequestInv(q)'
  <2>1. RequestInv(q)  BY <1>1, <1>9, Facts
  <2>2. /\ AtEmulation(q)' <=> AtEmulation(q)
        /\ AtSerial(q)' <=> AtSerial(q)
        /\ InPipe(q)' <=> InPipe(q)
        /\ ~AtDevice(q)' /\ (AtDevice(q) <=> q = dreq)
    BY <1>1 DEF AtEmulation, AtSerial, AtDevice, InPipe
  <2>3. CASE q # dreq
    <3>1. (Sent(q)' <=> Sent(q)) /\ OnePlace(q)'
      BY <2>1, <2>2, <2>3, <1>1 DEF Sent, RequestInv, OnePlace
    <3>. QED  BY <2>1, <2>2, <2>3, <3>1, <1>1, <1>4, <1>5 DEF RequestInv
  <2>4. CASE q = dreq
    <3>1. ~Sent(q)'
      BY <2>1, <2>2, <2>4 DEF Sent, RequestInv, OnePlace
    <3>2. ~ListedIn(ar', q) /\ OnceIn(ar', q)
      BY <2>1, <2>4, <1>4 DEF RequestInv
    <3>3. ~ReadyIn(ar', q) /\ ~WaitingIn(ar', q)
      BY <3>2 DEF ReadyIn, WaitingIn, ListedIn
    <3>4. OnePlace(q)'
      BY <2>1, <2>2, <2>4, <1>1 DEF OnePlace, RequestInv
    <3>. QED  BY <2>1, <2>2, <2>4, <3>1, <3>2, <3>3, <3>4, <1>1, <1>5 DEF RequestInv, Sent
  <2>. QED  BY <2>3, <2>4
<1>. QED  BY <1>6, <1>7, <1>8, <1>9 DEF SerialInv

\* A new request is done at once and replied, or it is listed.
LEMMA DevDoKeeps == ASSUME SerialInv, DevDoNow \/ DevDoLater PROVE SerialInv'
<1>1. /\ dpc = "do" /\ dpc' = "read" /\ misused' = Misuse(dreq)
      /\ UNCHANGED <<requests, async_sem, pipe_sem, emulation, serial, dreq, buffer>>
  BY DEF DevDoNow, DevDoLater
<1>2. dreq \in Requests
  BY <1>1 DEF SerialInv, ThreadsInv
<1>3. /\ misused' \subseteq Requests
      /\ \A x : x \in misused' => x \in misused \/ (x = dreq /\ buffer[dreq] = "freed")
  BY <1>1, <1>2, MisuseAdds
<1>4. /\ replies' \in [Requests -> Nat]
      /\ \A q \in Requests : replies[q] > 0 => replies'[q] > 0
      /\ \A q \in Requests : q # dreq => replies'[q] = replies[q]
  <2>1. CASE DevDoNow
    <3>1. replies' = [replies EXCEPT ![dreq] = replies[dreq] + 1]
      BY <2>1 DEF DevDoNow, ReplyMsg
    <3>. QED  BY <3>1, <1>2, Facts
  <2>2. CASE DevDoLater
    <3>1. replies' = replies  BY <2>2 DEF DevDoLater
    <3>. QED  BY <3>1, Facts
  <2>. QED  BY <2>1, <2>2
<1>5. /\ ar' \in Seq(Entries)
      /\ \A x : x # dreq => /\ ListedIn(ar', x) <=> ListedIn(ar, x)
                            /\ WaitingIn(ar', x) <=> WaitingIn(ar, x)
                            /\ ReadyIn(ar', x) <=> ReadyIn(ar, x)
                            /\ OnceIn(ar, x) => OnceIn(ar', x)
      /\ OnceIn(ar, dreq) /\ ~ListedIn(ar, dreq) => OnceIn(ar', dreq) /\ ~ReadyIn(ar', dreq)
      /\ ListedIn(ar', dreq) => ListedIn(ar, dreq) \/ replies' = replies
  <2>1. CASE DevDoNow
    <3>1. ar' = ar  BY <2>1 DEF DevDoNow
    <3>. QED  BY <3>1, Facts
  <2>2. CASE DevDoLater
    <3>1. dreq \in Async /\ ar' = Append(ar, [req |-> dreq, ready |-> FALSE])
          /\ replies' = replies
      BY <2>2 DEF DevDoLater
    <3>. QED  BY <3>1, Facts, AppendEntry
  <2>. QED  BY <2>1, <2>2
<1>6. TypeOK'
  <2>1. ar' \in Seq([req : Async, ready : BOOLEAN])  BY <1>5 DEF Entries
  <2>. QED  BY <2>1, <1>1, <1>3, <1>4 DEF SerialInv, TypeOK
<1>7. ThreadsInv' /\ SemInv'  BY <1>1 DEF SerialInv, ThreadsInv, SemInv
<1>8. CloseInv'
  BY <1>1, <1>4 DEF SerialInv, CloseInv, AtEmulation, InPipe
<1>9. ASSUME NEW q \in Requests \ aborted' PROVE RequestInv(q)'
  <2>1. RequestInv(q)  BY <1>1, <1>9, Facts
  <2>2. /\ AtEmulation(q)' <=> AtEmulation(q)
        /\ AtSerial(q)' <=> AtSerial(q)
        /\ InPipe(q)' <=> InPipe(q)
        /\ ~AtDevice(q)' /\ (AtDevice(q) <=> q = dreq)
    BY <1>1 DEF AtEmulation, AtSerial, AtDevice, InPipe
  <2>3. CASE q # dreq
    <3>1. (Sent(q)' <=> Sent(q)) /\ OnePlace(q)'
      BY <2>1, <2>2, <2>3, <1>1 DEF Sent, RequestInv, OnePlace
    <3>. QED  BY <2>1, <2>2, <2>3, <3>1, <1>1, <1>3, <1>4, <1>5 DEF RequestInv
  <2>4. CASE q = dreq
    <3>1. ~Sent(q)'
      BY <2>1, <2>2, <2>4 DEF Sent, RequestInv, OnePlace
    <3>2. ~ListedIn(ar, q) /\ buffer[q] = "live" /\ replies[q] = 0 /\ Sent(q)
      BY <2>1, <2>2, <2>4, <1>1 DEF RequestInv, Sent
    <3>3. OnceIn(ar', q) /\ ~ReadyIn(ar', q)
      BY <2>1, <2>4, <3>2, <1>5 DEF RequestInv
    <3>4. OnePlace(q)'
      BY <2>1, <2>2, <2>4, <1>1 DEF OnePlace, RequestInv
    <3>5. ListedIn(ar', q) => replies'[q] = 0
      BY <2>4, <3>2, <1>5
    <3>6. q \notin misused'
      BY <2>1, <2>4, <3>2, <1>3 DEF RequestInv
    <3>. QED
      BY <2>2, <3>1, <3>2, <3>3, <3>4, <3>5, <3>6, <1>1 DEF RequestInv, Sent
  <2>. QED  BY <2>3, <2>4
<1>. QED  BY <1>6, <1>7, <1>8, <1>9 DEF SerialInv

-----------------------------------------------------------------------------
LEMMA SerialInvStep == SerialInv /\ [Next]_vars => SerialInv'
<1>. SUFFICES ASSUME SerialInv, [Next]_vars PROVE SerialInv'
  OBVIOUS
<1>1. CASE \E q \in Requests : BeginIO(q) \/ AbortIO(q)
  BY <1>1, BeginKeeps, AbortKeeps
<1>2. CASE Close \/ EmulationStep
  BY <1>2, CloseKeeps, MarkKeeps, LockKeeps, EmuWriteKeeps DEF EmulationStep
<1>3. CASE SerialStep
  BY <1>3, SignalKeeps, LockKeeps, SignalSendKeeps DEF SerialStep
<1>4. CASE DeviceStep
  BY <1>4, DevReadKeeps, DevFindKeeps, DevReplyKeeps, DevReleaseKeeps, DevDoKeeps
     DEF DeviceStep
<1>5. CASE UNCHANGED vars
  <2>1. TypeOK'  BY <1>5 DEF vars, SerialInv, TypeOK
  <2>2. ThreadsInv' /\ SemInv' /\ CloseInv'
    BY <1>5 DEF vars, SerialInv, ThreadsInv, SemInv, CloseInv, AtEmulation, InPipe
  <2>3. ASSUME NEW q \in Requests \ aborted' PROVE RequestInv(q)'
    BY <1>5, <2>3, Facts DEF vars, RequestInv, OnePlace, Sent, AtEmulation, AtSerial,
       AtDevice, InPipe
  <2>. QED  BY <2>1, <2>2, <2>3 DEF SerialInv
<1>. QED  BY <1>1, <1>2, <1>3, <1>4, <1>5 DEF Next

(* The inductive invariant holds in every behaviour. *)
THEOREM SerialInvariant == Spec => []SerialInv
  BY InitKeeps, SerialInvStep, PTL DEF Spec

(* Types; with them, that dev_thread only unlinks a request that is in the list and
   that the pipe never holds more than it can. *)
THEOREM TypeCorrect == Spec => []TypeOK
<1>1. SerialInv => TypeOK  BY DEF SerialInv
<1>. QED  BY <1>1, SerialInvariant, PTL

(* No list node and no buffer is used after it was freed, except those of requests
   AbortIO was called for. *)
THEOREM MisuseNeedsAbort == Spec => []OnlyAbortsMisuse
<1>1. SerialInv => OnlyAbortsMisuse
  BY DEF SerialInv, TypeOK, RequestInv, OnlyAbortsMisuse
<1>. QED  BY <1>1, SerialInvariant, PTL

(* A request that was not aborted has one message on its way to dev_thread at a time,
   so dev_thread never takes a completion for a new command. *)
THEOREM OneMessageEach == Spec => []OneMessageAtATime
<1>1. ASSUME SerialInv, NEW q \in Requests \ aborted PROVE Messages(q) <= 1
  <2>1. OnePlace(q) /\ DOMAIN requests = 1..Len(requests)
    BY <1>1, Facts, LenProperties DEF RequestInv
  <2>. DEFINE D == {i \in DOMAIN requests : requests[i] = q}
  <2>2. Cardinality(D) = IF InPipe(q) THEN 1 ELSE 0
    <3>1. CASE InPipe(q)
      <4>1. PICK i \in 1..Len(requests) : requests[i] = q
        BY <3>1 DEF InPipe, Contains
      <4>2. D = {i}  BY <4>1, <2>1 DEF OnePlace, Once
      <4>. QED  BY <4>2, <3>1, FS_Singleton
    <3>2. CASE ~InPipe(q)
      <4>1. D = {}  BY <3>2, <2>1 DEF InPipe, Contains
      <4>. QED  BY <4>1, <3>2, FS_EmptySet
    <3>. QED  BY <3>1, <3>2
  <2>3. Messages(q) = (IF InPipe(q) THEN 1 ELSE 0) + (IF AtEmulation(q) THEN 1 ELSE 0)
                      + (IF AtSerial(q) THEN 1 ELSE 0) + (IF AtDevice(q) THEN 1 ELSE 0)
    <3>. HIDE DEF D
    <3>1. Messages(q) = Cardinality(D) + (IF AtEmulation(q) THEN 1 ELSE 0)
                        + (IF AtSerial(q) THEN 1 ELSE 0) + (IF AtDevice(q) THEN 1 ELSE 0)
      BY DEF D, Messages, AtEmulation, AtSerial, AtDevice
    <3>. QED  BY <3>1, <2>2
  <2>. HIDE DEF D
  <2>4. CASE InPipe(q)
    <3>1. ~AtEmulation(q) /\ ~AtSerial(q) /\ ~AtDevice(q)  BY <2>1, <2>4 DEF OnePlace
    <3>. QED  BY <2>3, <2>4, <3>1
  <2>5. CASE ~InPipe(q)
    <3>1. /\ ~(AtEmulation(q) /\ AtSerial(q)) /\ ~(AtEmulation(q) /\ AtDevice(q))
          /\ ~(AtSerial(q) /\ AtDevice(q))
      BY <2>1 DEF OnePlace
    <3>. QED  BY <2>3, <2>5, <3>1
  <2>. QED  BY <2>4, <2>5
<1>2. SerialInv => OneMessageAtATime  BY <1>1 DEF OneMessageAtATime
<1>. QED  BY <1>2, SerialInvariant, PTL

(* When dev_thread has ended, no request but an aborted one is left in the list: the
   message that ends it is the last one, and the program had everything back. *)
THEOREM ListEmptiesOut == Spec => []NothingLeftBehind
<1>1. ASSUME SerialInv PROVE NothingLeftBehind
  <2>. SUFFICES ASSUME dpc = "ended", NEW i \in DOMAIN ar, ar[i].req \notin aborted
                PROVE  FALSE
    BY DEF NothingLeftBehind
  <2>1. i \in 1..Len(ar)  BY <1>1, Facts, LenProperties
  <2>2. ListedIn(ar, ar[i].req)  BY <2>1 DEF ListedIn
  <2>3. PICK q \in Requests : q = ar[i].req  BY <1>1, <2>2, Facts
  <2>4. RequestInv(q) /\ ListedIn(ar, q)  BY <1>1, <2>2, <2>3, Facts
  <2>5. buffer[q] = "live" /\ replies[q] = 0  BY <2>4 DEF RequestInv
  <2>6. buffer[q] = "none" \/ replies[q] > 0
    BY <1>1 DEF SerialInv, CloseInv
  <2>. QED  BY <2>5, <2>6
<1>. QED  BY <1>1, SerialInvariant, PTL

(* pipe_sem keeps the three words of a message together: the emulation thread and the
   serial thread are never both writing. *)
THEOREM OneWriter == Spec => [](~(epc = "write" /\ spc = "write"))
<1>1. SerialInv => ~(epc = "write" /\ spc = "write")
  BY DEF SerialInv, SemInv
<1>. QED  BY <1>1, SerialInvariant, PTL
-----------------------------------------------------------------------------
(* With dev_reset.  It aborts whatever is listed, so nothing is kept of the state of
   a request; the semaphores and the list itself stay sound. *)

ResetInv ==
    /\ TypeOK /\ SemInv
    /\ epc \in {"abort", "look"} => ereq \in Requests
    /\ spc \in {"lock", "write"} => sreq \in Async
    /\ dpc \in {"find", "reply", "release", "do"} => dreq \in Requests
    /\ dpc \in {"reply", "release"} => ListedIn(ar, dreq)

ResetNext == Next \/ ResetBegin \/ ResetHead \/ ResetLook \/ ResetClose

LEMMA ListFacts ==
    ASSUME ResetInv
    PROVE  /\ ar \in Seq(Entries) /\ Async \subseteq Requests
           /\ \A q : Listed(q) <=> ListedIn(ar, q)
           /\ \A q : ListedIn(ar, q) => q \in Async
<1>1. ar \in Seq(Entries) /\ Async \subseteq Requests
  BY DEF ResetInv, TypeOK, Entries, Async
<1>. QED  BY <1>1, ListedIsListed, InList

\* A request found in the list is made ready: nothing is linked or unlinked.
LEMMA MadeReady ==
    ASSUME ResetInv, NEW q,
           \/ Listed(q) /\ ar' = [ar EXCEPT ![IndexOf(q)].ready = TRUE]
           \/ UNCHANGED ar
    PROVE  ar' \in Seq(Entries) /\ \A x : ListedIn(ar', x) <=> ListedIn(ar, x)
<1>1. CASE Listed(q) /\ ar' = [ar EXCEPT ![IndexOf(q)].ready = TRUE]
  BY <1>1, ListFacts, FirstEntry, EntryReady
<1>2. CASE UNCHANGED ar  BY <1>2, ListFacts
<1>. QED  BY <1>1, <1>2

LEMMA ResetEmulation ==
    ASSUME ResetInv,
           \/ \E q \in Requests : BeginIO(q) \/ AbortIO(q)
           \/ Close \/ EmuLock \/ MarkAborted
           \/ ResetBegin \/ ResetHead \/ ResetLook \/ ResetClose
    PROVE  ResetInv'
<1>1. UNCHANGED <<requests, async_sem, device, replies>>
  BY DEF BeginIO, AbortIO, Close, EmuLock, MarkAborted, ResetBegin, ResetHead,
     ResetLook, ResetClose
<1>2. ar' \in Seq(Entries) /\ \A x : ListedIn(ar', x) <=> ListedIn(ar, x)
  <2>1. CASE UNCHANGED ar  BY <2>1, MadeReady
  <2>2. CASE \E q \in Requests : AbortIO(q)  BY <2>2, MadeReady DEF AbortIO
  <2>3. CASE ResetLook  BY <2>3, MadeReady DEF ResetLook
  <2>. QED
    BY <2>1, <2>2, <2>3
       DEF BeginIO, Close, EmuLock, MarkAborted, ResetBegin, ResetHead, ResetClose
<1>3. /\ ereq' \in Requests \cup {NoRequest}
      /\ epc' \in {"abort", "look"} => ereq' \in Requests
  <2>1. CASE ResetHead
    <3>1. Head(ar) \in Entries  BY <2>1, ListFacts, HeadTailProperties DEF ResetHead
    <3>2. Head(ar).req \in Requests  BY <3>1, ListFacts DEF Entries
    <3>. QED  BY <2>1, <3>2 DEF ResetHead
  <2>. QED
    BY <2>1 DEF ResetInv, TypeOK, BeginIO, AbortIO, Close, EmuLock, MarkAborted,
       ResetBegin, ResetLook, ResetClose
<1>4. /\ epc' \in {"run", "abort", "lock", "write", "closed", "reset", "look"}
      /\ resetting' \in BOOLEAN /\ aborted' \subseteq Requests
      /\ buffer' \in [Requests -> {"none", "live", "freed"}]
      /\ misused' \subseteq Requests
  BY DEF ResetInv, TypeOK, BeginIO, AbortIO, Close, EmuLock, MarkAborted, ResetBegin,
     ResetHead, ResetLook, ResetClose, Misuse
<1>5. /\ SemInv' /\ pipe_sem' \in {"free", "emulation", "serial"} /\ UNCHANGED sreq
      /\ spc' \in {"idle", "lock", "write", "closed"}
      /\ spc' \in {"lock", "write"} => spc \in {"lock", "write"}
  BY DEF ResetInv, TypeOK, SemInv, BeginIO, AbortIO, Close, EmuLock, MarkAborted,
     ResetBegin, ResetHead, ResetLook, ResetClose
<1>6. TypeOK'  BY <1>1, <1>2, <1>3, <1>4, <1>5 DEF ResetInv, TypeOK, Entries
<1>. QED  BY <1>1, <1>2, <1>3, <1>5, <1>6 DEF ResetInv

LEMMA ResetWrite == ASSUME ResetInv, EmuWrite \/ SignalWrite PROVE ResetInv'
<1>1. requests' \in Seq(Requests \cup {NoRequest}) /\ Len(requests') <= Capacity
  <2>1. PICK q \in Requests \cup {NoRequest} :
           requests' = Append(requests, q) /\ Len(requests) < Capacity
    BY DEF ResetInv, TypeOK, EmuWrite, SignalWrite
  <2>2. requests \in Seq(Requests \cup {NoRequest}) /\ Len(requests) \in Nat
    BY LenProperties DEF ResetInv, TypeOK
  <2>. QED  BY <2>1, <2>2, AppendProperties
<1>2. UNCHANGED <<ar, ereq, resetting, aborted, sreq, device, buffer, replies, misused>>
  BY DEF EmuWrite, SignalWrite
<1>3. /\ epc' \in {"run", "abort", "lock", "write", "closed", "reset", "look"}
      /\ spc' \in {"idle", "lock", "write", "closed"}
      /\ epc' \in {"abort", "look"} => epc \in {"abort", "look"}
      /\ spc' \in {"lock", "write"} => spc \in {"lock", "write"}
      /\ async_sem' \in {"free", "serial"} /\ pipe_sem' \in {"free", "emulation", "serial"}
      /\ SemInv'
  BY DEF ResetInv, TypeOK, SemInv, EmuWrite, SignalWrite
<1>. QED  BY <1>1, <1>2, <1>3 DEF ResetInv, TypeOK

LEMMA ResetSignal ==
    ASSUME ResetInv, (\E q \in Async : SignalComplete(q)) \/ SignalLock
    PROVE  ResetInv'
<1>1. CASE SignalLock  BY <1>1 DEF ResetInv, TypeOK, SemInv, SignalLock
<1>2. CASE \E q \in Async : SignalComplete(q)
  <2>1. PICK q \in Async : SignalComplete(q)  BY <1>2
  <2>2. q \in Requests  BY <2>1, ListFacts
  <2>3. ar' \in Seq(Entries) /\ \A x : ListedIn(ar', x) <=> ListedIn(ar, x)
    <3>1. PICK i \in DOMAIN ar : ar' = [ar EXCEPT ![i].ready = TRUE]
      BY <2>1 DEF SignalComplete
    <3>2. i \in 1..Len(ar)  BY <3>1, ListFacts, LenProperties
    <3>. QED  BY <3>1, <3>2, ListFacts, EntryReady
  <2>4. TypeOK'  BY <2>1, <2>2, <2>3 DEF ResetInv, TypeOK, Entries, SignalComplete, Misuse
  <2>5. SemInv'  BY <2>1 DEF ResetInv, SemInv, SignalComplete
  <2>. QED  BY <2>1, <2>3, <2>4, <2>5 DEF ResetInv, SignalComplete
<1>. QED  BY <1>1, <1>2

LEMMA ResetDevice == ASSUME ResetInv, DeviceStep PROVE ResetInv'
<1>1. UNCHANGED <<async_sem, pipe_sem, emulation, serial>>
  BY DEF DeviceStep, DevRead, DevFind, DevReply, DevRelease, DevDoNow, DevDoLater
<1>2. SemInv'  BY <1>1 DEF ResetInv, SemInv
<1>3. CASE DevRead
  <2>1. requests \in Seq(Requests \cup {NoRequest}) /\ requests # <<>>
    BY <1>3 DEF ResetInv, TypeOK, DevRead
  <2>2. /\ Head(requests) \in Requests \cup {NoRequest}
        /\ Tail(requests) \in Seq(Requests \cup {NoRequest})
        /\ Len(Tail(requests)) = Len(requests) - 1 /\ Len(requests) \in Nat
    BY <2>1, HeadTailProperties, LenProperties
  <2>3. TypeOK'  BY <1>1, <1>3, <2>2 DEF ResetInv, TypeOK, DevRead
  <2>. QED  BY <1>1, <1>2, <1>3, <2>2, <2>3 DEF ResetInv, DevRead
<1>4. CASE DevFind
  <2>1. ar' \in Seq(Entries) /\ \A x : ListedIn(ar', x) <=> ListedIn(ar, x)
    BY <1>4, MadeReady DEF DevFind
  <2>2. dpc' = "reply" => ListedIn(ar, dreq)  BY <1>4, ListFacts DEF DevFind
  <2>3. TypeOK'  BY <1>1, <1>4, <2>1 DEF ResetInv, TypeOK, Entries, DevFind
  <2>. QED  BY <1>1, <1>2, <1>4, <2>1, <2>2, <2>3 DEF ResetInv, DevFind
<1>5. CASE DevReply \/ DevDoNow
  <2>1. /\ dreq \in Requests /\ replies' = [replies EXCEPT ![dreq] = @ + 1]
        /\ UNCHANGED <<requests, ar, dreq, buffer>> /\ misused' \in {misused, Misuse(dreq)}
        /\ (dpc = "reply" /\ dpc' = "release") \/ dpc' = "read"
    BY <1>5 DEF ResetInv, DevReply, DevDoNow, ReplyMsg
  <2>2. TypeOK'  BY <1>1, <2>1 DEF ResetInv, TypeOK, Misuse
  <2>. QED  BY <1>1, <1>2, <2>1, <2>2 DEF ResetInv
<1>6. CASE DevRelease
  <2>1. Listed(dreq) /\ dreq \in Requests  BY <1>6, ListFacts DEF ResetInv, DevRelease
  <2>2. ar' \in Seq(Entries)  BY <1>6, <2>1, ListFacts, FirstEntry, EntryGone DEF DevRelease
  <2>3. TypeOK'  BY <1>1, <1>6, <2>1, <2>2 DEF ResetInv, TypeOK, Entries, DevRelease
  <2>. QED  BY <1>1, <1>2, <1>6, <2>3 DEF ResetInv, DevRelease
<1>7. CASE DevDoLater
  <2>1. dreq \in Async /\ dreq \in Requests  BY <1>7, ListFacts DEF DevDoLater
  <2>2. ar' \in Seq(Entries)  BY <1>7, <2>1, ListFacts, AppendEntry DEF DevDoLater
  <2>3. TypeOK'  BY <1>1, <1>7, <2>1, <2>2 DEF ResetInv, TypeOK, Entries, DevDoLater, Misuse
  <2>. QED  BY <1>1, <1>2, <1>7, <2>3 DEF ResetInv, DevDoLater
<1>. QED  BY <1>3, <1>4, <1>5, <1>6, <1>7 DEF DeviceStep

(* Whatever dev_reset aborts, dev_thread only replies and unlinks what is in the list,
   async_sem and pipe_sem have the holder that the code means, and the two writers of
   the pipe exclude each other: the three words of a message stay together. *)
THEOREM ResetKeepsList ==
    ResetSpec => [](/\ TypeOK /\ ~(epc = "write" /\ spc = "write")
                    /\ (dpc \in {"reply", "release"} => Listed(dreq)))
<1>1. Init => ResetInv
  <2>1. Init => SerialInv /\ epc = "run" /\ spc = "idle" /\ dpc = "read"
    BY InitKeeps DEF Init
  <2>. QED  BY <2>1 DEF SerialInv, ResetInv
<1>2. ResetInv /\ [ResetNext]_vars => ResetInv'
  <2>1. ResetInv /\ UNCHANGED vars => ResetInv'
    BY DEF ResetInv, TypeOK, SemInv, ListedIn, vars
  <2>. QED
    BY <2>1, ResetEmulation, ResetWrite, ResetSignal, ResetDevice
       DEF ResetNext, Next, EmulationStep, SerialStep
<1>3. ResetInv => /\ TypeOK /\ ~(epc = "write" /\ spc = "write")
                  /\ (dpc \in {"reply", "release"} => Listed(dreq))
  BY ListFacts DEF ResetInv, SemInv
<1>. QED  BY <1>1, <1>2, <1>3, PTL DEF ResetSpec, ResetNext
=============================================================================
