------------------------- MODULE ActionQueueProofs -------------------------
(* Theorems about the action queue, for every limit and any number of posts. *)
EXTENDS ActionQueue, SequenceTheorems, TLAPS

LEMMA AppendRecent ==
    ASSUME NEW d \in Seq(Nat), NEW n \in Nat, Ascending(d), Recent(d, n)
    PROVE  LET e == Append(d, n + 1) IN
           /\ e \in Seq(Nat) /\ Len(e) = Len(d) + 1
           /\ Ascending(e) /\ Recent(e, n + 1)
           /\ Range(e) = Range(d) \cup {n + 1}
<1>. DEFINE e == Append(d, n + 1)
<1>1. /\ e \in Seq(Nat) /\ Len(e) = Len(d) + 1 /\ DOMAIN e = 1..(Len(d) + 1)
      /\ DOMAIN d = 1..Len(d) /\ Len(d) \in Nat
      /\ \A i \in 1..Len(d) : e[i] = d[i] /\ d[i] \in Nat
      /\ e[Len(d) + 1] = n + 1
  BY AppendProperties, ElementOfSeq, LenProperties
<1>. HIDE DEF e
<1>2. \A i \in 1..Len(d) : d[i] <= n
  BY <1>1 DEF Recent
<1>3. Ascending(e)
  <2>. SUFFICES ASSUME NEW i \in 1..Len(e), NEW j \in 1..Len(e), i < j
                PROVE  e[i] < e[j]
    BY DEF Ascending
  <2>1. i \in 1..Len(d) /\ e[i] = d[i]
    BY <1>1
  <2>2. CASE j \in 1..Len(d)
    BY <1>1, <2>1, <2>2 DEF Ascending
  <2>3. CASE j = Len(d) + 1
    BY <1>1, <1>2, <2>1, <2>3
  <2>4. j \in 1..Len(d) \/ j = Len(d) + 1
    <3>1. Len(e) = Len(d) + 1 /\ Len(d) \in Nat
      BY <1>1
    <3>. QED  BY <3>1
  <2>. QED  BY <2>2, <2>3, <2>4
<1>4. Recent(e, n + 1)
  <2>. SUFFICES ASSUME NEW i \in 1..Len(e)
                PROVE  e[i] + (Len(e) - i) <= n + 1
    BY DEF Recent
  <2>1. CASE i \in 1..Len(d)
    <3>1. d[i] + (Len(d) - i) <= n /\ d[i] \in Nat /\ e[i] = d[i]
      BY <1>1, <2>1 DEF Recent
    <3>. QED  BY <1>1, <3>1, <2>1
  <2>2. CASE i = Len(d) + 1
    BY <1>1, <2>2
  <2>. QED  BY <1>1, <2>1, <2>2
<1>5. Range(e) = Range(d) \cup {n + 1}
  BY <1>1 DEF Range
<1>. QED  BY <1>1, <1>3, <1>4, <1>5 DEF e

LEMMA TailRecent ==
    ASSUME NEW d \in Seq(Nat), NEW n \in Nat, d # <<>>, Ascending(d), Recent(d, n)
    PROVE  LET e == Tail(d) IN
           /\ e \in Seq(Nat) /\ Len(e) = Len(d) - 1
           /\ Ascending(e) /\ Recent(e, n)
           /\ Range(e) = Range(d) \ {Head(d)}
           /\ Head(d) \in Nat /\ Head(d) \in Range(d) /\ Head(d) + (Len(d) - 1) <= n
<1>. DEFINE e == Tail(d)
<1>1. /\ e \in Seq(Nat) /\ Len(e) = Len(d) - 1 /\ DOMAIN e = 1..(Len(d) - 1)
      /\ DOMAIN d = 1..Len(d) /\ Len(d) \in Nat /\ Len(d) >= 1 /\ Head(d) = d[1]
      /\ \A i \in 1..(Len(d) - 1) : e[i] = d[i + 1]
      /\ \A i \in 1..Len(d) : d[i] \in Nat
  BY HeadTailProperties, ElementOfSeq, LenProperties, EmptySeq
<1>. HIDE DEF e
<1>2. Ascending(e)
  <2>. SUFFICES ASSUME NEW i \in 1..Len(e), NEW j \in 1..Len(e), i < j
                PROVE  e[i] < e[j]
    BY DEF Ascending
  <2>1. Len(e) = Len(d) - 1 /\ Len(d) \in Nat
    BY <1>1
  <2>2. /\ i \in 1..(Len(d) - 1) /\ i + 1 \in 1..Len(d)
        /\ j \in 1..(Len(d) - 1) /\ j + 1 \in 1..Len(d) /\ i + 1 < j + 1
    BY <2>1
  <2>3. e[i] = d[i + 1] /\ e[j] = d[j + 1]
    BY <1>1, <2>2
  <2>. QED  BY <2>2, <2>3 DEF Ascending
<1>3. Recent(e, n)
  <2>. SUFFICES ASSUME NEW i \in 1..Len(e)
                PROVE  e[i] + (Len(e) - i) <= n
    BY DEF Recent
  <2>1. i \in 1..(Len(d) - 1) /\ i + 1 \in 1..Len(d)
    BY <1>1
  <2>3. e[i] = d[i + 1]
    BY <1>1, <2>1
  <2>2. d[i + 1] + (Len(d) - (i + 1)) <= n
    BY <2>1 DEF Recent
  <2>. QED  BY <1>1, <2>1, <2>2, <2>3
<1>4. \A i \in 2..Len(d) : d[i] # d[1]
  BY <1>1 DEF Ascending
<1>5. ASSUME NEW x \in Range(d), x # d[1]
      PROVE  x \in Range(e)
  <2>1. PICK i \in 1..Len(d) : d[i] = x
    BY <1>1 DEF Range
  <2>2. i - 1 \in 1..(Len(d) - 1) /\ e[i - 1] = x
    BY <1>1, <1>5, <2>1
  <2>. QED  BY <1>1, <2>2 DEF Range
<1>6. ASSUME NEW x \in Range(e)
      PROVE  x \in Range(d) /\ x # d[1]
  <2>1. PICK i \in 1..(Len(d) - 1) : e[i] = x
    BY <1>1 DEF Range
  <2>2. i + 1 \in 2..Len(d) /\ d[i + 1] = x
    BY <1>1, <2>1
  <2>3. d[i + 1] # d[1] /\ i + 1 \in DOMAIN d
    BY <1>1, <1>4, <2>2
  <2>. QED  BY <2>2, <2>3 DEF Range
<1>7. Range(e) = Range(d) \ {Head(d)}
  BY <1>1, <1>5, <1>6
<1>8. Head(d) \in Nat /\ Head(d) \in Range(d) /\ Head(d) + (Len(d) - 1) <= n
  <2>1. 1 \in 1..Len(d) /\ 1 \in DOMAIN d
    BY <1>1
  <2>. QED  BY <1>1, <2>1 DEF Recent, Range
<1>. QED  BY <1>1, <1>2, <1>3, <1>7, <1>8 DEF e

(* The bookkeeping part of the invariant, named to be proved apart. *)
StoreInv ==
    /\ RetainedIsBounded
    /\ \A id \in DOMAIN results : id \in 1..Len(outcome) /\ results[id] = outcome[id]
    /\ \A id \in 1..Len(outcome) : id \in DOMAIN results \/ id <= retired_below
    /\ retired_below <= Len(outcome)
    /\ Recent(done_order, Len(outcome))

StoreType ==
    /\ DOMAIN results \subseteq Nat /\ results \in [DOMAIN results -> BOOLEAN]
    /\ consumed \subseteq Nat /\ done_order \in Seq(Nat) /\ retired_below \in Nat

PassInv ==
    main # "idle" =>
        Begun <= last /\ last <= last_assigned /\ passed + last <= MaxPending + Begun

RestType ==
    /\ pending \in Seq(Nat) /\ Len(pending) <= MaxPending
    /\ next_id \in Nat /\ last_assigned \in Nat
    /\ main \in {"idle", "pass", "execute"} /\ last \in Nat /\ r \in Nat
    /\ outcome \in Seq(BOOLEAN) /\ passed \in Nat
    /\ answer \in Nat \X {"pending", "done", "failed", "unknown"}

LEMMA Parts ==
    QueueInv <=> /\ RestType /\ StoreType /\ ExecutedInOrder
                 /\ next_id = last_assigned + 1 /\ StoreInv /\ PassInv
  BY DEF QueueInv, TypeOK, RestType, StoreType, StoreInv, PassInv

LEMMA PartsNext ==
    ASSUME RestType', StoreType', ExecutedInOrder', (next_id = last_assigned + 1)',
           StoreInv', PassInv'
    PROVE  QueueInv'
  BY DEF QueueInv, TypeOK, RestType, StoreType, StoreInv, PassInv

LEMMA QueueInvInit == Init => QueueInv
<1>. SUFFICES ASSUME Init PROVE QueueInv
  OBVIOUS
<1>. USE LimitAssumption DEF Init
<1>1. RestType /\ StoreType
  BY DEF RestType, StoreType
<1>2. ExecutedInOrder
  BY DEF ExecutedInOrder, Begun
<1>3. StoreInv
  BY DEF StoreInv, RetainedIsBounded, Range, Ascending, Recent
<1>4. PassInv /\ next_id = last_assigned + 1
  BY DEF PassInv
<1>. QED  BY <1>1, <1>2, <1>3, <1>4, Parts

(* The order of the store and its contents after a completion. *)
LEMMA StoreFits ==
    ASSUME StoreType, StoreInv, outcome \in Seq(BOOLEAN), NEW id, id = Len(outcome) + 1,
           NEW ok \in BOOLEAN, StoreResult(id, ok), Len(done_order) < MaxResults
    PROVE  /\ done_order' = Append(done_order, id)
           /\ DOMAIN results' = DOMAIN results \cup {id} /\ results'[id] = ok
           /\ \A i \in DOMAIN results : results'[i] = results[i]
           /\ results' \in [DOMAIN results' -> BOOLEAN]
           /\ retired_below' = retired_below /\ consumed' = consumed
<1>1. id \notin DOMAIN results /\ Len(outcome) \in Nat
  BY LenProperties DEF StoreInv
<1>2. Len(Append(done_order, id)) = Len(done_order) + 1 /\ Len(done_order) \in Nat
  BY <1>1, AppendProperties, LenProperties DEF StoreType
<1>3. /\ results' = Stored(id, ok) /\ done_order' = Append(done_order, id)
      /\ retired_below' = retired_below /\ consumed' = consumed
  BY <1>2, LimitAssumption DEF StoreResult
<1>. QED  BY <1>1, <1>3 DEF Stored, StoreType

(* The invariant of the store after either, or after a result is lost. *)
LEMMA FinishKeepsStore ==
    ASSUME StoreType, StoreInv, outcome \in Seq(BOOLEAN), NEW id, id = Len(outcome) + 1,
           NEW ok \in BOOLEAN, outcome' = Append(outcome, ok),
           StoreResult(id, ok) \/ LoseResult(id)
    PROVE  StoreType' /\ StoreInv'
<1>. DEFINE n == Len(outcome)
            order == Append(done_order, id)
<1>1. /\ n \in Nat /\ Len(outcome') = n + 1
      /\ \A i \in 1..n : outcome'[i] = outcome[i]
      /\ outcome'[n + 1] = ok
  BY AppendProperties, LenProperties
<1>2. /\ order \in Seq(Nat) /\ Len(order) = Len(done_order) + 1
      /\ Ascending(order) /\ Recent(order, n + 1)
      /\ Range(order) = Range(done_order) \cup {id}
  BY <1>1, AppendRecent DEF StoreInv, RetainedIsBounded, StoreType
<1>3. /\ Len(done_order) \in Nat /\ Len(done_order) <= MaxResults
      /\ Range(done_order) = DOMAIN results /\ consumed \subseteq DOMAIN results
      /\ DOMAIN results \subseteq 1..n /\ \A i \in DOMAIN results : results[i] = outcome[i]
      /\ \A i \in 1..n : i \in DOMAIN results \/ i <= retired_below
      /\ retired_below <= n /\ retired_below \in Nat
      /\ Ascending(done_order) /\ Recent(done_order, n) /\ done_order \in Seq(Nat)
      /\ results \in [DOMAIN results -> BOOLEAN]
  BY LenProperties DEF StoreInv, RetainedIsBounded, StoreType
<1>. HIDE DEF n, order
<1>4. id = n + 1 /\ id \notin DOMAIN results
  BY <1>1, <1>3 DEF n
<1>5. CASE StoreResult(id, ok) /\ Len(done_order) < MaxResults
  <2>1. /\ done_order' = order
        /\ DOMAIN results' = DOMAIN results \cup {id} /\ results'[id] = ok
        /\ \A i \in DOMAIN results : results'[i] = results[i]
        /\ results' \in [DOMAIN results' -> BOOLEAN]
        /\ retired_below' = retired_below /\ consumed' = consumed
    BY <1>5, StoreFits DEF order
  <2>2. StoreType'
    BY <1>1, <1>2, <1>3, <1>4, <2>1 DEF StoreType
  <2>3. RetainedIsBounded'
    BY <1>2, <1>3, <1>5, <2>1, LimitAssumption DEF RetainedIsBounded
  <2>4. \A i \in DOMAIN results' : i \in 1..Len(outcome') /\ results'[i] = outcome'[i]
    BY <1>1, <1>3, <1>4, <2>1
  <2>5. /\ \A i \in 1..Len(outcome') : i \in DOMAIN results' \/ i <= retired_below'
        /\ retired_below' <= Len(outcome')
    BY <1>1, <1>3, <1>4, <2>1
  <2>6. Recent(done_order', Len(outcome'))
    BY <1>1, <1>2, <2>1
  <2>. QED  BY <2>2, <2>3, <2>4, <2>5, <2>6 DEF StoreInv
<1>6. CASE StoreResult(id, ok) /\ Len(done_order) >= MaxResults
  <2>. DEFINE oldest == Head(order)
  <2>1. /\ results' = Restrict(Stored(id, ok), (DOMAIN results \cup {id}) \ {oldest})
        /\ done_order' = Tail(order) /\ consumed' = consumed \ {oldest}
        /\ retired_below' = IF retired_below < oldest THEN oldest ELSE retired_below
    <3>1. ~(Len(order) <= MaxResults)
      BY <1>2, <1>3, <1>6, LimitAssumption
    <3>. QED  BY <1>6, <3>1, Zenon DEF StoreResult, Retire, order
  <2>2. order # <<>>
    BY <1>2, <1>3, EmptySeq
  <2>3. /\ Tail(order) \in Seq(Nat) /\ Len(Tail(order)) = Len(order) - 1
        /\ Ascending(Tail(order)) /\ Recent(Tail(order), n + 1)
        /\ Range(Tail(order)) = Range(order) \ {oldest}
        /\ oldest \in Nat /\ oldest \in Range(order)
        /\ oldest + (Len(order) - 1) <= n + 1
    BY <1>1, <1>2, <2>2, TailRecent
  <2>. HIDE DEF oldest
  <2>10. oldest # id /\ oldest <= n
    BY <1>1, <1>2, <1>3, <1>4, <1>6, <2>3, LimitAssumption
  <2>11. /\ DOMAIN results' = (DOMAIN results \cup {id}) \ {oldest}
         /\ results'[id] = ok
         /\ \A i \in DOMAIN results \ {oldest} : results'[i] = results[i]
         /\ results' \in [DOMAIN results' -> BOOLEAN]
    BY <1>3, <1>4, <2>1, <2>10 DEF Stored, Restrict
  <2>4. StoreType'
    <3>1. retired_below' \in Nat
      BY <1>3, <2>1, <2>3
    <3>2. consumed' \subseteq Nat /\ DOMAIN results' \subseteq Nat
      BY <1>1, <1>3, <1>4, <2>1, <2>11
    <3>. QED  BY <2>1, <2>3, <2>11, <3>1, <3>2 DEF StoreType
  <2>5. RetainedIsBounded'
    <3>1. Len(done_order') <= MaxResults
      BY <1>2, <1>3, <1>6, <2>1, <2>3, LimitAssumption
    <3>2. Range(done_order') = DOMAIN results' /\ consumed' \subseteq DOMAIN results'
      BY <1>2, <1>3, <1>4, <2>1, <2>3, <2>11
    <3>. QED  BY <2>1, <2>3, <3>1, <3>2 DEF RetainedIsBounded
  <2>6. \A i \in DOMAIN results' : i \in 1..Len(outcome') /\ results'[i] = outcome'[i]
    BY <1>1, <1>3, <1>4, <2>11
  <2>8. /\ \A i \in 1..Len(outcome') : i \in DOMAIN results' \/ i <= retired_below'
        /\ retired_below' <= Len(outcome')
    <3>1. retired_below <= retired_below' /\ oldest <= retired_below' /\ retired_below' <= n
      BY <1>3, <2>1, <2>3, <2>10
    <3>2. retired_below' \in Nat
      BY <1>3, <2>1, <2>3
    <3>3. ASSUME NEW i \in 1..n
          PROVE  i \in DOMAIN results' \/ i <= retired_below'
      <4>1. CASE i = oldest
        BY <3>1, <4>1
      <4>2. CASE i # oldest /\ i \in DOMAIN results
        BY <2>11, <4>2
      <4>3. CASE i <= retired_below
        BY <1>1, <1>3, <3>1, <3>2, <4>3
      <4>. QED  BY <1>3, <4>1, <4>2, <4>3
    <3>4. n + 1 \in DOMAIN results'
      BY <1>4, <2>10, <2>11
    <3>. QED  BY <1>1, <3>1, <3>2, <3>3, <3>4
  <2>9. Recent(done_order', Len(outcome'))
    BY <1>1, <2>1, <2>3
  <2>. QED  BY <2>4, <2>5, <2>6, <2>8, <2>9 DEF StoreInv
<1>7. CASE LoseResult(id)
  <2>1. /\ results' = results /\ consumed' = consumed /\ done_order' = done_order
        /\ retired_below' = id
    BY <1>1, <1>3, <1>4, <1>7 DEF LoseResult, Retire
  <2>2. StoreType'
    BY <1>1, <1>3, <1>4, <2>1 DEF StoreType
  <2>3. RetainedIsBounded'
    BY <1>3, <2>1 DEF RetainedIsBounded
  <2>4. \A i \in DOMAIN results' : i \in 1..Len(outcome') /\ results'[i] = outcome'[i]
    BY <1>1, <1>3, <2>1
  <2>5. /\ \A i \in 1..Len(outcome') : i \in DOMAIN results' \/ i <= retired_below'
        /\ retired_below' <= Len(outcome')
    BY <1>1, <1>4, <2>1
  <2>6. \A i \in 1..Len(done_order) : done_order[i] \in Nat
    BY <1>3, ElementOfSeq
  <2>7. Recent(done_order', Len(outcome'))
    BY <1>1, <1>3, <2>1, <2>6 DEF Recent
  <2>. QED  BY <2>2, <2>3, <2>4, <2>5, <2>7 DEF StoreInv
<1>8. Len(done_order) < MaxResults \/ Len(done_order) >= MaxResults
  BY <1>3, LimitAssumption
<1>. QED  BY <1>5, <1>6, <1>7, <1>8

-----------------------------------------------------------------------------
(* The actions. *)

LEMMA PostKeeps == QueueInv /\ Post => QueueInv'
<1>. SUFFICES ASSUME QueueInv, Post PROVE QueueInv'
  OBVIOUS
<1>1. RestType /\ StoreType /\ ExecutedInOrder /\ StoreInv /\ PassInv
      /\ next_id = last_assigned + 1
  BY Parts
<1>2. /\ pending' \in Seq(Nat) /\ Len(pending') = Len(pending) + 1
      /\ \A i \in 1..Len(pending) : pending'[i] = pending[i]
      /\ pending'[Len(pending) + 1] = next_id /\ Len(pending) \in Nat
  BY <1>1, AppendProperties, LenProperties DEF Post, RestType
<1>3. Len(outcome) \in Nat /\ Begun \in Nat /\ Begun' = Begun
  BY <1>1, LenProperties DEF RestType, Begun, Post, pass
<1>4. RestType'
  BY <1>1, <1>2, LimitAssumption DEF Post, RestType, pass
<1>5. ExecutedInOrder'
  <2>1. \A i \in 1..Len(pending') : pending'[i] = Begun' + i
    <3>. SUFFICES ASSUME NEW i \in 1..(Len(pending) + 1) PROVE pending'[i] = Begun + i
      BY <1>2, <1>3
    <3>1. CASE i \in 1..Len(pending)
      BY <1>1, <1>2, <3>1 DEF ExecutedInOrder
    <3>2. CASE i = Len(pending) + 1
      BY <1>1, <1>2, <1>3, <3>2 DEF ExecutedInOrder
    <3>3. i \in 1..Len(pending) \/ i = Len(pending) + 1
      <4>1. Len(pending) \in Nat
        BY <1>2
      <4>. QED  BY <4>1
    <3>. QED  BY <3>1, <3>2, <3>3
  <2>2. last_assigned' = Begun' + Len(pending')
    BY <1>1, <1>2, <1>3 DEF ExecutedInOrder, Post
  <2>3. main' = "execute" => r' = Begun'
    BY <1>1, <1>3 DEF ExecutedInOrder, Post, pass
  <2>. QED  BY <2>1, <2>2, <2>3 DEF ExecutedInOrder
<1>6. StoreType' /\ StoreInv'
  BY <1>1 DEF Post, retained, StoreType, StoreInv, RetainedIsBounded
<1>7. PassInv'
  BY <1>1, <1>3, LimitAssumption DEF PassInv, Post, pass, RestType
<1>8. next_id' = last_assigned' + 1
  BY DEF Post
<1>. QED  BY <1>4, <1>5, <1>6, <1>7, <1>8, PartsNext

LEMMA BeginPassKeeps == QueueInv /\ BeginPass => QueueInv'
<1>. SUFFICES ASSUME QueueInv, BeginPass PROVE QueueInv'
  OBVIOUS
<1>1. RestType /\ StoreType /\ ExecutedInOrder /\ StoreInv /\ PassInv
      /\ next_id = last_assigned + 1
  BY Parts
<1>2. Len(outcome) \in Nat /\ Len(pending) \in Nat /\ Begun = Len(outcome) /\ Begun' = Begun
  BY <1>1, LenProperties DEF RestType, Begun, BeginPass
<1>3. RestType' /\ ExecutedInOrder' /\ next_id' = last_assigned' + 1
  BY <1>1, <1>2 DEF BeginPass, RestType, ExecutedInOrder, ids
<1>4. StoreType' /\ StoreInv'
  BY <1>1 DEF BeginPass, retained, StoreType, StoreInv, RetainedIsBounded
<1>5. PassInv'
  BY <1>1, <1>2, LimitAssumption DEF PassInv, BeginPass, ids, RestType, ExecutedInOrder
<1>. QED  BY <1>3, <1>4, <1>5, PartsNext

LEMMA PopKeeps == QueueInv /\ Pop => QueueInv'
<1>. SUFFICES ASSUME QueueInv, Pop PROVE QueueInv'
  OBVIOUS
<1>1. RestType /\ StoreType /\ ExecutedInOrder /\ StoreInv /\ PassInv
      /\ next_id = last_assigned + 1
  BY Parts
<1>2. /\ pending' \in Seq(Nat) /\ Len(pending') = Len(pending) - 1
      /\ \A i \in 1..Len(pending') : pending'[i] = pending[i + 1]
      /\ Len(pending) \in Nat /\ Len(pending) >= 1 /\ r' = pending[1] /\ r' \in Nat
  BY <1>1, HeadTailProperties, LenProperties, EmptySeq, ElementOfSeq DEF Pop, HasNext, RestType
<1>3. Len(outcome) \in Nat /\ Begun = Len(outcome) /\ Begun' = Len(outcome) + 1
  BY <1>1, LenProperties DEF RestType, Begun, Pop
<1>4. r' = Begun + 1 /\ r' <= last
  BY <1>1, <1>2 DEF ExecutedInOrder, Pop, HasNext
<1>5. RestType'
  BY <1>1, <1>2, LimitAssumption DEF Pop, RestType, ids
<1>6. ExecutedInOrder'
  <2>1. \A i \in 1..Len(pending') : i + 1 \in 1..Len(pending) /\ pending'[i] = Begun + (i + 1)
    BY <1>1, <1>2 DEF ExecutedInOrder
  <2>2. last_assigned' = Begun' + Len(pending')
    BY <1>1, <1>2, <1>3 DEF ExecutedInOrder, Pop, ids
  <2>. QED  BY <1>2, <1>3, <1>4, <2>1, <2>2 DEF ExecutedInOrder
<1>7. StoreType' /\ StoreInv'
  BY <1>1 DEF Pop, retained, StoreType, StoreInv, RetainedIsBounded
<1>8. PassInv'
  BY <1>1, <1>2, <1>3, <1>4, LimitAssumption DEF PassInv, Pop, ids, RestType
<1>9. next_id' = last_assigned' + 1
  BY <1>1 DEF Pop, ids
<1>. QED  BY <1>5, <1>6, <1>7, <1>8, <1>9, PartsNext

LEMMA FinishKeeps == ASSUME QueueInv, NEW ok \in BOOLEAN, Finish(ok) PROVE QueueInv'
<1>1. RestType /\ StoreType /\ ExecutedInOrder /\ StoreInv /\ PassInv
      /\ next_id = last_assigned + 1
  BY Parts
<1>2. /\ Len(outcome) \in Nat /\ outcome' \in Seq(BOOLEAN)
      /\ Len(outcome') = Len(outcome) + 1
  BY <1>1, AppendProperties, LenProperties DEF RestType, Finish
<1>3. Begun = Len(outcome) + 1 /\ Begun' = Begun /\ main' = "pass" /\ main = "execute"
  BY <1>2 DEF Begun, Finish
<1>4. r = Len(outcome) + 1
  BY <1>1, <1>3 DEF ExecutedInOrder
<1>5. StoreType' /\ StoreInv'
  BY <1>1, <1>4, FinishKeepsStore DEF Finish, RestType
<1>6. RestType'
  BY <1>1, <1>2, <1>3 DEF Finish, RestType, ids
<1>7. ExecutedInOrder' /\ PassInv' /\ next_id' = last_assigned' + 1
  BY <1>1, <1>3 DEF Finish, ExecutedInOrder, PassInv, ids
<1>. QED  BY <1>5, <1>6, <1>7, PartsNext

LEMMA EndPassKeeps == QueueInv /\ EndPass => QueueInv'
<1>. SUFFICES ASSUME QueueInv, EndPass PROVE QueueInv'
  OBVIOUS
<1>1. RestType /\ StoreType /\ ExecutedInOrder /\ StoreInv /\ PassInv
      /\ next_id = last_assigned + 1
  BY Parts
<1>2. Begun' = Begun /\ main' = "idle"
  BY DEF Begun, EndPass
<1>3. RestType' /\ ExecutedInOrder' /\ PassInv' /\ next_id' = last_assigned' + 1
  BY <1>1, <1>2 DEF EndPass, RestType, ExecutedInOrder, PassInv, ids
<1>4. StoreType' /\ StoreInv'
  BY <1>1 DEF EndPass, retained, StoreType, StoreInv, RetainedIsBounded
<1>. QED  BY <1>3, <1>4, PartsNext

LEMMA ResultType ==
    ASSUME NEW id PROVE Result(id) \in {"pending", "done", "failed", "unknown"}
  BY DEF Result

LEMMA PollKeeps == ASSUME QueueInv, NEW id \in PolledIds, Poll(id) PROVE QueueInv'
<1>1. RestType /\ StoreType /\ ExecutedInOrder /\ StoreInv /\ PassInv
      /\ next_id = last_assigned + 1
  BY Parts
<1>2. RestType'
  BY <1>1, ResultType, LimitAssumption DEF Poll, RestType, ids, pass, PolledIds
<1>3. ExecutedInOrder' /\ PassInv' /\ next_id' = last_assigned' + 1
  BY <1>1 DEF Poll, ExecutedInOrder, PassInv, Begun, ids, pass
<1>4. consumed' \subseteq DOMAIN results
  BY <1>1 DEF Poll, StoreInv, RetainedIsBounded
<1>5. StoreType' /\ StoreInv'
  BY <1>1, <1>4 DEF Poll, StoreType, StoreInv, RetainedIsBounded
<1>. QED  BY <1>2, <1>3, <1>5, PartsNext

LEMMA QueueInvStep == QueueInv /\ [Next]_vars => QueueInv'
<1>. SUFFICES ASSUME QueueInv, [Next]_vars PROVE QueueInv'
  OBVIOUS
<1>1. CASE Post  BY <1>1, PostKeeps
<1>2. CASE BeginPass  BY <1>2, BeginPassKeeps
<1>3. CASE Pop  BY <1>3, PopKeeps
<1>4. CASE \E ok \in BOOLEAN : Finish(ok)  BY <1>4, FinishKeeps
<1>5. CASE EndPass  BY <1>5, EndPassKeeps
<1>6. CASE \E id \in PolledIds : Poll(id)  BY <1>6, PollKeeps
<1>7. CASE UNCHANGED vars
  BY <1>7 DEF vars, ids, retained, pass, QueueInv, TypeOK, ExecutedInOrder, Begun,
              RetainedIsBounded
<1>. QED  BY <1>1, <1>2, <1>3, <1>4, <1>5, <1>6, <1>7 DEF Next, MainStep

-----------------------------------------------------------------------------
(* The theorems. *)

THEOREM InvariantHolds == Spec => []QueueInv
  BY QueueInvInit, QueueInvStep, PTL DEF Spec

(* Every field of the queue keeps its type and pending_ its limit. *)
THEOREM TypeCorrect == Spec => []TypeOK
<1>1. QueueInv => TypeOK  BY DEF QueueInv
<1>. QED  BY InvariantHolds, <1>1, PTL

(* Every accepted action is executed once and in posting order. *)
THEOREM OrderKept == Spec => []ExecutedInOrder
<1>1. QueueInv => ExecutedInOrder  BY DEF QueueInv
<1>. QED  BY InvariantHolds, <1>1, PTL

(* Front ends that keep posting cannot hold the main thread in one pass. *)
THEOREM PassBounded == Spec => []PassIsBounded
<1>1. QueueInv => PassIsBounded
  <2>. SUFFICES ASSUME QueueInv, main # "idle" PROVE passed <= MaxPending
    BY DEF PassIsBounded
  <2>1. Begun <= last /\ passed + last <= MaxPending + Begun
    BY DEF QueueInv
  <2>2. Begun \in Nat /\ last \in Nat /\ passed \in Nat /\ MaxPending \in Nat
    BY LenProperties, LimitAssumption DEF QueueInv, TypeOK, Begun
  <2>. QED  BY <2>1, <2>2
<1>. QED  BY InvariantHolds, <1>1, PTL

(* The store of results holds the latest completions only. *)
THEOREM RetainedBounded == Spec => []RetainedIsBounded
<1>1. QueueInv => RetainedIsBounded  BY DEF QueueInv
<1>. QED  BY InvariantHolds, <1>1, PTL

(* What poll computes from three containers and a limit is the promised answer. *)
LEMMA PollTellsPromise ==
    ASSUME QueueInv, NEW id \in Nat PROVE Result(id) = Promise!Result(id)
<1>. USE DEF Result, Promise!Result
<1>1. /\ DOMAIN results \subseteq 1..Len(outcome)
      /\ \A i \in DOMAIN results : results[i] = outcome[i]
      /\ \A i \in 1..Len(outcome) : i \in DOMAIN results \/ i <= retired_below
      /\ retired_below <= Len(outcome) /\ retired_below \in Nat
      /\ Len(outcome) \in Nat /\ Len(outcome) <= last_assigned /\ last_assigned \in Nat
  BY LenProperties DEF QueueInv, TypeOK, ExecutedInOrder, Begun
<1>2. CASE id \in DOMAIN results
  BY <1>1, <1>2
<1>3. CASE id \notin DOMAIN results /\ id = 0
  BY <1>1, <1>3
<1>4. CASE id \notin DOMAIN results /\ id \in 1..Len(outcome)
  BY <1>1, <1>4
<1>5. CASE id \notin DOMAIN results /\ Len(outcome) < id
  BY <1>1, <1>5
<1>. QED  BY <1>1, <1>2, <1>3, <1>4, <1>5

LEMMA FinishIsPromised ==
    ASSUME QueueInv, NEW ok \in BOOLEAN, Finish(ok) PROVE Promise!Finish(ok)
<1>. DEFINE id == Len(outcome) + 1
            kept == DOMAIN results \ consumed
<1>1. RestType /\ StoreType /\ ExecutedInOrder /\ StoreInv
  BY Parts
<1>2. r = id /\ id <= last_assigned /\ Len(outcome) \in Nat
  BY <1>1, LenProperties DEF ExecutedInOrder, Begun, Finish, RestType
<1>3. outcome' = Append(outcome, ok) /\ last_assigned' = last_assigned /\ answer' = answer
  BY DEF Finish, ids
<1>4. CASE LoseResult(r)
  BY <1>2, <1>3, <1>4 DEF LoseResult, Promise!Finish
<1>5. CASE StoreResult(r, ok) /\ Len(done_order) < MaxResults
  <2>1. DOMAIN results' = DOMAIN results \cup {id} /\ consumed' = consumed
    BY <1>1, <1>2, <1>5, StoreFits DEF RestType
  <2>2. id \notin DOMAIN results /\ consumed \subseteq DOMAIN results
    BY <1>1, <1>2 DEF StoreInv, RetainedIsBounded
  <2>3. kept' = kept \cup {id}
    BY <2>1, <2>2
  <2>. QED  BY <1>2, <1>3, <2>3 DEF Promise!Finish
<1>6. CASE StoreResult(r, ok) /\ Len(done_order) >= MaxResults
  <2>. DEFINE order == Append(done_order, id)
              oldest == Head(order)
  <2>1. Len(done_order) = MaxResults /\ done_order \in Seq(Nat)
    BY <1>1, <1>6, LenProperties, LimitAssumption DEF StoreInv, StoreType, RetainedIsBounded
  <2>2. /\ order \in Seq(Nat) /\ Len(order) = MaxResults + 1
        /\ Ascending(order) /\ Recent(order, id)
    BY <1>1, <1>2, <2>1, AppendRecent DEF StoreInv, RetainedIsBounded, StoreType
  <2>3. order # <<>>
    BY <2>2, EmptySeq, LimitAssumption
  <2>. HIDE DEF order
  <2>4. oldest \in Nat /\ oldest + MaxResults <= id
    <3>1. oldest \in Nat /\ oldest + (Len(order) - 1) <= id
      BY <1>2, <2>2, <2>3, TailRecent
    <3>. QED  BY <2>2, <3>1, LimitAssumption
  <2>5. /\ DOMAIN results' = (DOMAIN results \cup {id}) \ {oldest}
        /\ consumed' = consumed \ {oldest}
    <3>1. ~(Len(order) <= MaxResults)
      BY <2>2, LimitAssumption
    <3>2. /\ results' = Restrict(Stored(r, ok), (DOMAIN results \cup {r}) \ {oldest})
          /\ consumed' = consumed \ {oldest}
      BY <1>2, <1>6, <3>1, Zenon DEF StoreResult, Retire, order
    <3>. QED  BY <1>2, <3>2 DEF Restrict
  <2>. HIDE DEF oldest
  <2>6. kept' = (kept \cup {id}) \ {oldest}
    <3>1. id \notin DOMAIN results /\ consumed \subseteq DOMAIN results
      BY <1>1, <1>2 DEF StoreInv, RetainedIsBounded
    <3>. QED  BY <2>5, <3>1
  <2>7. \A i \in (kept \cup {id}) \ kept' : i + MaxResults <= id
    BY <2>4, <2>6
  <2>. QED  BY <1>2, <1>3, <2>6, <2>7 DEF Promise!Finish
<1>7. Len(done_order) < MaxResults \/ Len(done_order) >= MaxResults
  BY <1>1, LenProperties, LimitAssumption DEF StoreType
<1>. QED  BY <1>4, <1>5, <1>6, <1>7 DEF Finish

(* The queue implements the promise of amiberry_actions.h: an action is pending
   until it has executed, actions finish in posting order, exactly one poll sees
   a result, and only results older than max_results completions are forgotten. *)
THEOREM QueueKeepsPromise == Spec => KeepsPromise
<1>1. Init => Promise!Init
  BY DEF Init, Promise!Init
<1>2. QueueInv /\ [Next]_vars => [Promise!Next]_(Promise!vars)
  <2>. SUFFICES ASSUME QueueInv, [Next]_vars PROVE [Promise!Next]_(Promise!vars)
    OBVIOUS
  <2>. USE DEF Promise!vars
  <2>1. CASE Post
    <3>1. last_assigned' = last_assigned + 1
      BY <2>1 DEF Post, QueueInv
    <3>. QED  BY <2>1, <3>1 DEF Post, retained, Promise!Next, Promise!Accept
  <2>2. CASE BeginPass \/ Pop \/ EndPass
    BY <2>2 DEF BeginPass, Pop, EndPass, ids, retained
  <2>3. CASE \E ok \in BOOLEAN : Finish(ok)
    BY <2>3, FinishIsPromised DEF Promise!Next
  <2>4. ASSUME NEW id \in PolledIds, Poll(id) PROVE Promise!Poll(id)
    <3>1. Result(id) = Promise!Result(id)
      BY PollTellsPromise, LimitAssumption DEF PolledIds
    <3>2. consumed \subseteq DOMAIN results
      BY DEF QueueInv, RetainedIsBounded
    <3>. QED  BY <2>4, <3>1, <3>2 DEF Poll, Promise!Poll, ids
  <2>5. CASE \E id \in PolledIds : Poll(id)
    BY <2>4, <2>5 DEF Promise!Next
  <2>6. CASE UNCHANGED vars
    BY <2>6 DEF vars, ids, retained
  <2>. QED  BY <2>1, <2>2, <2>3, <2>5, <2>6 DEF Next, MainStep
<1>. QED  BY InvariantHolds, <1>1, <1>2, PTL DEF Spec, KeepsPromise, Promise!Spec
=============================================================================
