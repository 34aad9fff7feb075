--------------------------- MODULE CommPipeProofs ---------------------------
(* Theorems about the communication pipe, for every size of the ring, every
   chunk size below it and any number of words. *)
EXTENDS CommPipe, SequenceTheorems, TLAPS

(* Reducing an index that is at most one turn ahead needs no division. *)
LEMMA WrapIsModulo ==
    ASSUME NEW i \in 0..(2 * Size - 1)
    PROVE  /\ i % Size = Wrap(i)
           /\ Wrap(i) \in Slots
<1>1. CASE i < Size
  <2>1. i % Size = i  BY <1>1, SizeAssumption, SMT
  <2>. QED  BY <1>1, <2>1, SizeAssumption DEF Wrap, Slots
<1>2. CASE i >= Size
  <2>1. i % Size = i - Size  BY <1>2, SizeAssumption, SMT
  <2>. QED  BY <1>2, <2>1, SizeAssumption DEF Wrap, Slots
<1>. QED  BY <1>1, <1>2, SizeAssumption

(* The reader's distance to the writer, as the code computes it, is the
   number of words in the ring. *)
LEMMA FillIsCount ==
    ASSUME TypeOK, RingInv
    PROVE  Fill = Count
<1>. DEFINE i == wrp + Size - rdp
<1>1. i \in 0..(2 * Size - 1)
  BY SizeAssumption DEF TypeOK, Slots
<1>2. Fill = Wrap(i)
  BY <1>1, WrapIsModulo DEF Fill
<1>3. sent \in Nat /\ recv \in Nat /\ rdp \in 0..(Size - 1)
  BY SizeAssumption, MaxWordsAssumption DEF TypeOK, Slots
<1>. QED  BY <1>2, <1>3, SizeAssumption DEF RingInv, Wrap, Count

LEMMA PipeInvInit == Init => PipeInv
<1>. SUFFICES ASSUME Init PROVE PipeInv
  OBVIOUS
<1>. USE SizeAssumption, ChunksAssumption, MaxWordsAssumption DEF Init
<1>1. TypeOK
  <2>1. data \in [Slots -> 0..MaxWords]
    OBVIOUS
  <2>2. /\ writer_waiting \in BOOLEAN /\ reader_waiting \in BOOLEAN
        /\ locked \in BOOLEAN /\ no_buffer \in BOOLEAN
    BY Zenon
  <2>. QED  BY <2>1, <2>2 DEF TypeOK, Slots, WriterPlaces, ReaderPlaces
<1>2. LockInv
  BY DEF LockInv, ReaderHolds
<1>3. RingInv
  BY DEF RingInv, Wrap, Count, WriterBefore
<1>4. FullInv
  BY DEF FullInv
<1>5. EmptyInv
  BY DEF EmptyInv
<1>. QED  BY <1>1, <1>2, <1>3, <1>4, <1>5 DEF PipeInv

(* The actions that change the ring or a Boolean need their conjuncts one by
   one; each is a lemma, and the others follow at once in PipeInvStep. *)
LEMMA WriteReleaseKeeps == PipeInv /\ WriteRelease => PipeInv'
<1>. SUFFICES ASSUME PipeInv, WriteRelease PROVE PipeInv'
  OBVIOUS
<1>. USE SizeAssumption, ChunksAssumption, MaxWordsAssumption
         DEF Wrap, Count, Slots, WriterPlaces, ReaderPlaces, WriterBefore,
             ReaderHolds, sems, ring, flags, writer, reader, history,
             AfterWake, WakeReader, HasData
<1>1. TypeOK'
  <2>1. locked' \in BOOLEAN
    BY Zenon DEF WriteRelease
  <2>. QED  BY <2>1
    DEF WriteRelease, PipeInv, TypeOK, LockInv, RingInv, FullInv, EmptyInv
<1>2. LockInv'
  BY DEF WriteRelease, PipeInv, TypeOK, LockInv, FullInv, EmptyInv
<1>3. RingInv'
  BY DEF WriteRelease, PipeInv, TypeOK, RingInv
<1>4. FullInv'
  BY DEF WriteRelease, PipeInv, TypeOK, LockInv, RingInv, FullInv, EmptyInv
<1>5. EmptyInv'
  BY DEF WriteRelease, PipeInv, TypeOK, LockInv, RingInv, FullInv, EmptyInv
<1>. QED  BY <1>1, <1>2, <1>3, <1>4, <1>5 DEF PipeInv

LEMMA WriteClearKeeps == PipeInv /\ WriteClear => PipeInv'
<1>. SUFFICES ASSUME PipeInv, WriteClear PROVE PipeInv'
  OBVIOUS
<1>. USE SizeAssumption, ChunksAssumption, MaxWordsAssumption
         DEF Wrap, Count, Slots, WriterPlaces, ReaderPlaces, WriterBefore,
             ReaderHolds, sems, ring, flags, writer, reader, history,
             AfterWake, WakeReader, HasData
<1>1. TypeOK'
  <2>1. reader_waiting' \in BOOLEAN
    BY Zenon DEF WriteClear
  <2>. QED  BY <2>1
    DEF WriteClear, PipeInv, TypeOK, LockInv, RingInv, FullInv, EmptyInv
<1>2. LockInv'
  BY DEF WriteClear, PipeInv, TypeOK, LockInv, FullInv, EmptyInv
<1>3. RingInv'
  BY DEF WriteClear, PipeInv, TypeOK, RingInv
<1>4. FullInv'
  BY DEF WriteClear, PipeInv, TypeOK, LockInv, RingInv, FullInv, EmptyInv
<1>5. EmptyInv'
  BY DEF WriteClear, PipeInv, TypeOK, LockInv, RingInv, FullInv, EmptyInv
<1>. QED  BY <1>1, <1>2, <1>3, <1>4, <1>5 DEF PipeInv

LEMMA WriteUnlockKeeps == PipeInv /\ WriteUnlock => PipeInv'
<1>. SUFFICES ASSUME PipeInv, WriteUnlock PROVE PipeInv'
  OBVIOUS
<1>. USE SizeAssumption, ChunksAssumption, MaxWordsAssumption
         DEF Wrap, Count, Slots, WriterPlaces, ReaderPlaces, WriterBefore,
             ReaderHolds, sems, ring, flags, writer, reader, history,
             AfterWake, WakeReader, HasData
<1>1. TypeOK'
  <2>1. locked' \in BOOLEAN
    BY Zenon DEF WriteUnlock
  <2>. QED  BY <2>1
    DEF WriteUnlock, PipeInv, TypeOK, LockInv, RingInv, FullInv, EmptyInv
<1>2. LockInv'
  BY DEF WriteUnlock, PipeInv, TypeOK, LockInv, FullInv, EmptyInv
<1>3. RingInv'
  BY DEF WriteUnlock, PipeInv, TypeOK, RingInv
<1>4. FullInv'
  BY DEF WriteUnlock, PipeInv, TypeOK, LockInv, RingInv, FullInv, EmptyInv
<1>5. EmptyInv'
  BY DEF WriteUnlock, PipeInv, TypeOK, LockInv, RingInv, FullInv, EmptyInv
<1>. QED  BY <1>1, <1>2, <1>3, <1>4, <1>5 DEF PipeInv

LEMMA ReadTestKeeps == PipeInv /\ ReadTest => PipeInv'
<1>. SUFFICES ASSUME PipeInv, ReadTest PROVE PipeInv'
  OBVIOUS
<1>. USE SizeAssumption, ChunksAssumption, MaxWordsAssumption
         DEF Wrap, Count, Slots, WriterPlaces, ReaderPlaces, WriterBefore,
             ReaderHolds, sems, ring, flags, writer, reader, history,
             AfterWake, WakeReader, HasData
<1>1. TypeOK'
  <2>1. writer_waiting' \in BOOLEAN
    BY Zenon DEF ReadTest
  <2>. QED  BY <2>1
    DEF ReadTest, PipeInv, TypeOK, LockInv, RingInv, FullInv, EmptyInv
<1>2. LockInv'
  BY DEF ReadTest, PipeInv, TypeOK, LockInv, FullInv, EmptyInv
<1>3. RingInv'
  BY DEF ReadTest, PipeInv, TypeOK, RingInv
<1>4. FullInv'
  BY DEF ReadTest, PipeInv, TypeOK, LockInv, RingInv, FullInv, EmptyInv
<1>5. EmptyInv'
  BY DEF ReadTest, PipeInv, TypeOK, LockInv, RingInv, FullInv, EmptyInv
<1>. QED  BY <1>1, <1>2, <1>3, <1>4, <1>5 DEF PipeInv

LEMMA WriteStoreKeeps == PipeInv /\ WriteStore => PipeInv'
<1>. SUFFICES ASSUME PipeInv, WriteStore PROVE PipeInv'
  OBVIOUS
<1>. USE SizeAssumption, ChunksAssumption, MaxWordsAssumption
         DEF Wrap, Count, Slots, WriterPlaces, ReaderPlaces, WriterBefore,
             ReaderHolds, sems, ring, flags, writer, reader, history,
             AfterWake, WakeReader, HasData
<1>1. TypeOK'
  BY DEF WriteStore, PipeInv, TypeOK, LockInv, RingInv, FullInv, EmptyInv
<1>2. LockInv'
  BY DEF WriteStore, PipeInv, TypeOK, LockInv, FullInv, EmptyInv
<1>3. RingInv'
  <2>1. Count' \in 0..(Size - 1) /\ wrp' = Wrap(rdp' + Count')
    BY DEF WriteStore, PipeInv, TypeOK, LockInv, RingInv, FullInv, EmptyInv
  <2>2. \A i \in 0..(Size - 1) :
            i < Count' => data'[Wrap(rdp' + i)] = recv' + i + 1
    <3>. SUFFICES ASSUME NEW i \in 0..(Size - 1), i < Count'
         PROVE  data'[Wrap(rdp' + i)] = recv' + i + 1
      OBVIOUS
    <3>1. Count' = Count /\ rdp' = rdp /\ recv' = recv
      BY DEF WriteStore
    <3>2. Count < Size - 1 /\ Count \in Nat /\ rdp \in 0..(Size - 1)
      BY DEF WriteStore, PipeInv, TypeOK, RingInv, FullInv
    <3>3. Wrap(rdp + i) # wrp /\ Wrap(rdp + i) \in Slots
      BY <3>1, <3>2 DEF PipeInv, RingInv
    <3>4. data'[Wrap(rdp + i)] = data[Wrap(rdp + i)]
      BY <3>3 DEF WriteStore, PipeInv, TypeOK
    <3>. QED  BY <3>1, <3>4 DEF PipeInv, RingInv
  <2>3. wpc' \in WriterBefore => nxwrp' = Wrap(wrp' + 1) /\ sent' < MaxWords
    BY DEF WriteStore, PipeInv, TypeOK, LockInv, RingInv, FullInv, EmptyInv
  <2>4. wpc' = "advance" => data'[wrp'] = sent' + 1
    BY DEF WriteStore, PipeInv, TypeOK, LockInv, RingInv, FullInv, EmptyInv
  <2>5. (rpc' = "advance" => word' = recv' + 1) /\ got' = recv'
    BY DEF WriteStore, PipeInv, TypeOK, LockInv, RingInv, FullInv, EmptyInv
  <2>. QED  BY <2>1, <2>2, <2>3, <2>4, <2>5 DEF RingInv
<1>4. FullInv'
  BY DEF WriteStore, PipeInv, TypeOK, LockInv, RingInv, FullInv, EmptyInv
<1>5. EmptyInv'
  BY DEF WriteStore, PipeInv, TypeOK, LockInv, RingInv, FullInv, EmptyInv
<1>. QED  BY <1>1, <1>2, <1>3, <1>4, <1>5 DEF PipeInv

LEMMA WriteAdvanceKeeps == PipeInv /\ WriteAdvance => PipeInv'
<1>. SUFFICES ASSUME PipeInv, WriteAdvance PROVE PipeInv'
  OBVIOUS
<1>. USE SizeAssumption, ChunksAssumption, MaxWordsAssumption
         DEF Wrap, Count, Slots, WriterPlaces, ReaderPlaces, WriterBefore,
             ReaderHolds, sems, ring, flags, writer, reader, history,
             AfterWake, WakeReader, HasData
<1>1. TypeOK'
  BY DEF WriteAdvance, PipeInv, TypeOK, LockInv, RingInv, FullInv, EmptyInv
<1>2. LockInv'
  BY DEF WriteAdvance, PipeInv, TypeOK, LockInv, FullInv, EmptyInv
<1>3. RingInv'
  <2>1. Count' \in 0..(Size - 1) /\ wrp' = Wrap(rdp' + Count')
    BY DEF WriteAdvance, PipeInv, TypeOK, LockInv, RingInv, FullInv, EmptyInv
  <2>2. \A i \in 0..(Size - 1) :
            i < Count' => data'[Wrap(rdp' + i)] = recv' + i + 1
    <3>. SUFFICES ASSUME NEW i \in 0..(Size - 1), i < Count'
         PROVE  data'[Wrap(rdp' + i)] = recv' + i + 1
      OBVIOUS
    <3>1. /\ sent \in Nat /\ recv \in Nat
          /\ Count' = Count + 1 /\ rdp' = rdp /\ recv' = recv /\ data' = data
      BY DEF WriteAdvance, PipeInv, TypeOK
    <3>2. CASE i < Count
      BY <3>1, <3>2 DEF PipeInv, RingInv
    <3>3. CASE i = Count
      <4>1. Wrap(rdp + i) = wrp /\ data[wrp] = sent + 1
        BY <3>3 DEF WriteAdvance, PipeInv, RingInv
      <4>. QED  BY <3>1, <3>3, <4>1
    <3>4. i < Count \/ i = Count
      BY <3>1
    <3>. QED  BY <3>2, <3>3, <3>4
  <2>3. wpc' \in WriterBefore => nxwrp' = Wrap(wrp' + 1) /\ sent' < MaxWords
    BY DEF WriteAdvance, PipeInv, TypeOK, LockInv, RingInv, FullInv, EmptyInv
  <2>4. wpc' = "advance" => data'[wrp'] = sent' + 1
    BY DEF WriteAdvance, PipeInv, TypeOK, LockInv, RingInv, FullInv, EmptyInv
  <2>5. (rpc' = "advance" => word' = recv' + 1) /\ got' = recv'
    BY DEF WriteAdvance, PipeInv, TypeOK, LockInv, RingInv, FullInv, EmptyInv
  <2>. QED  BY <2>1, <2>2, <2>3, <2>4, <2>5 DEF RingInv
<1>4. FullInv'
  BY DEF WriteAdvance, PipeInv, TypeOK, LockInv, RingInv, FullInv, EmptyInv
<1>5. EmptyInv'
  BY DEF WriteAdvance, PipeInv, TypeOK, LockInv, RingInv, FullInv, EmptyInv
<1>. QED  BY <1>1, <1>2, <1>3, <1>4, <1>5 DEF PipeInv

LEMMA ReadLoadKeeps == PipeInv /\ ReadLoad => PipeInv'
<1>. SUFFICES ASSUME PipeInv, ReadLoad PROVE PipeInv'
  OBVIOUS
<1>. USE SizeAssumption, ChunksAssumption, MaxWordsAssumption
         DEF Wrap, Count, Slots, WriterPlaces, ReaderPlaces, WriterBefore,
             ReaderHolds, sems, ring, flags, writer, reader, history,
             AfterWake, WakeReader, HasData
<1>1. TypeOK'
  BY DEF ReadLoad, PipeInv, TypeOK, LockInv, RingInv, FullInv, EmptyInv
<1>2. LockInv'
  BY DEF ReadLoad, PipeInv, TypeOK, LockInv, FullInv, EmptyInv
<1>3. RingInv'
  <2>0. data[rdp] = recv + 1
    <3>1. Count > 0 /\ rdp = Wrap(rdp + 0)
      BY DEF ReadLoad, PipeInv, TypeOK, EmptyInv
    <3>. QED  BY <3>1 DEF PipeInv, TypeOK, RingInv
  <2>1. Count' \in 0..(Size - 1) /\ wrp' = Wrap(rdp' + Count')
    BY DEF ReadLoad, PipeInv, TypeOK, LockInv, RingInv, FullInv, EmptyInv
  <2>2. \A i \in 0..(Size - 1) :
            i < Count' => data'[Wrap(rdp' + i)] = recv' + i + 1
    BY DEF ReadLoad, PipeInv, TypeOK, LockInv, RingInv, FullInv, EmptyInv
  <2>3. wpc' \in WriterBefore => nxwrp' = Wrap(wrp' + 1) /\ sent' < MaxWords
    BY DEF ReadLoad, PipeInv, TypeOK, LockInv, RingInv, FullInv, EmptyInv
  <2>4. wpc' = "advance" => data'[wrp'] = sent' + 1
    BY DEF ReadLoad, PipeInv, TypeOK, LockInv, RingInv, FullInv, EmptyInv
  <2>5. (rpc' = "advance" => word' = recv' + 1) /\ got' = recv'
    BY <2>0 DEF ReadLoad, PipeInv, TypeOK, LockInv, RingInv, FullInv, EmptyInv
  <2>. QED  BY <2>1, <2>2, <2>3, <2>4, <2>5 DEF RingInv
<1>4. FullInv'
  BY DEF ReadLoad, PipeInv, TypeOK, LockInv, RingInv, FullInv, EmptyInv
<1>5. EmptyInv'
  BY DEF ReadLoad, PipeInv, TypeOK, LockInv, RingInv, FullInv, EmptyInv
<1>. QED  BY <1>1, <1>2, <1>3, <1>4, <1>5 DEF PipeInv

LEMMA ReadAdvanceKeeps == PipeInv /\ ReadAdvance => PipeInv'
<1>. SUFFICES ASSUME PipeInv, ReadAdvance PROVE PipeInv'
  OBVIOUS
<1>. USE SizeAssumption, ChunksAssumption, MaxWordsAssumption
         DEF Wrap, Count, Slots, WriterPlaces, ReaderPlaces, WriterBefore,
             ReaderHolds, sems, ring, flags, writer, reader, history,
             AfterWake, WakeReader, HasData
<1>1. TypeOK'
  BY WrapIsModulo
  DEF ReadAdvance, PipeInv, TypeOK, LockInv, RingInv, FullInv, EmptyInv
<1>2. LockInv'
  BY DEF ReadAdvance, PipeInv, TypeOK, LockInv, FullInv, EmptyInv
<1>3. RingInv'
  <2>0. /\ rdp' = Wrap(rdp + 1)
        /\ recv' = recv + 1 /\ sent' = sent /\ wrp' = wrp /\ data' = data
        /\ Count > 0 /\ Count' = Count - 1
        /\ rdp \in 0..(Size - 1) /\ Count \in 0..(Size - 1)
    <3>1. rdp + 1 \in 0..(2 * Size - 1)
      BY DEF PipeInv, TypeOK
    <3>2. rdp' = Wrap(rdp + 1)
      BY <3>1, WrapIsModulo DEF ReadAdvance
    <3>. QED  BY <3>2 DEF ReadAdvance, PipeInv, TypeOK, RingInv, EmptyInv
  <2>1. Count' \in 0..(Size - 1) /\ wrp' = Wrap(rdp' + Count')
    BY <2>0 DEF PipeInv, RingInv
  <2>2. \A i \in 0..(Size - 1) :
            i < Count' => data'[Wrap(rdp' + i)] = recv' + i + 1
    <3>. SUFFICES ASSUME NEW i \in 0..(Size - 1), i < Count'
         PROVE  data'[Wrap(rdp' + i)] = recv' + i + 1
      OBVIOUS
    <3>1. i + 1 \in 0..(Size - 1) /\ i + 1 < Count
      BY <2>0
    <3>2. data[Wrap(rdp + (i + 1))] = recv + (i + 1) + 1
      BY <3>1 DEF PipeInv, RingInv
    <3>3. Wrap(rdp' + i) = Wrap(rdp + (i + 1))
      BY <2>0, <3>1
    <3>4. recv \in Nat
      BY DEF PipeInv, TypeOK
    <3>. QED  BY <2>0, <3>2, <3>3, <3>4
  <2>3. wpc' \in WriterBefore => nxwrp' = Wrap(wrp' + 1) /\ sent' < MaxWords
    BY DEF ReadAdvance, PipeInv, TypeOK, LockInv, RingInv, FullInv, EmptyInv
  <2>4. wpc' = "advance" => data'[wrp'] = sent' + 1
    BY DEF ReadAdvance, PipeInv, TypeOK, LockInv, RingInv, FullInv, EmptyInv
  <2>5. (rpc' = "advance" => word' = recv' + 1) /\ got' = recv'
    BY DEF ReadAdvance, PipeInv, TypeOK, LockInv, RingInv, FullInv, EmptyInv
  <2>. QED  BY <2>1, <2>2, <2>3, <2>4, <2>5 DEF RingInv
<1>4. FullInv'
  BY DEF ReadAdvance, PipeInv, TypeOK, LockInv, RingInv, FullInv, EmptyInv
<1>5. EmptyInv'
  BY DEF ReadAdvance, PipeInv, TypeOK, LockInv, RingInv, FullInv, EmptyInv
<1>. QED  BY <1>1, <1>2, <1>3, <1>4, <1>5 DEF PipeInv

(* The test of maybe_wake_reader: a reader that is left asleep is left with
   fewer than Chunks words and with no end of a message. *)
LEMMA WriteTestKeeps == PipeInv /\ WriteTest => PipeInv'
<1>. SUFFICES ASSUME PipeInv, WriteTest PROVE PipeInv'
  OBVIOUS
<1>. USE SizeAssumption, ChunksAssumption, MaxWordsAssumption
         DEF Wrap, Count, Slots, WriterPlaces, ReaderPlaces, WriterBefore,
             ReaderHolds, sems, ring, flags, writer, reader, history,
             AfterWake, WakeReader, HasData
<1>0. Fill = Count
  BY FillIsCount DEF PipeInv
<1>1. TypeOK'
  BY DEF WriteTest, PipeInv, TypeOK, LockInv
<1>2. LockInv'
  BY DEF WriteTest, PipeInv, TypeOK, LockInv, EmptyInv
<1>3. RingInv'
  BY DEF WriteTest, PipeInv, TypeOK, RingInv
<1>4. FullInv'
  BY DEF WriteTest, PipeInv, TypeOK, LockInv, RingInv, FullInv, EmptyInv
<1>5. EmptyInv'
  BY <1>0 DEF WriteTest, PipeInv, TypeOK, LockInv, RingInv, FullInv, EmptyInv
<1>. QED  BY <1>1, <1>2, <1>3, <1>4, <1>5 DEF PipeInv

(* Every step of either thread preserves the invariant. *)
LEMMA PipeInvStep == PipeInv /\ [Next]_vars => PipeInv'
<1>. SUFFICES ASSUME PipeInv, [Next]_vars PROVE PipeInv'
  OBVIOUS
<1>. USE SizeAssumption, ChunksAssumption, MaxWordsAssumption
         DEF Wrap, Count, Slots, WriterPlaces, ReaderPlaces, WriterBefore,
             ReaderHolds, sems, ring, flags, writer, reader, history,
             AfterWake, WakeReader, HasData, PipeInv,
             TypeOK, LockInv, RingInv, FullInv, EmptyInv
<1>1. CASE WriteCall
  <2>1. wrp + 1 \in 0..(2 * Size - 1)
    OBVIOUS
  <2>2. nxwrp' = Wrap(wrp + 1) /\ nxwrp' \in Slots
    BY <1>1, <2>1, WrapIsModulo DEF WriteCall
  <2>. QED  BY <1>1, <2>2 DEF WriteCall
<1>2. CASE WriteCheck
  BY <1>2 DEF WriteCheck
<1>3. CASE WriteLock
  BY <1>3 DEF WriteLock
<1>4. CASE WriteFull
  BY <1>4 DEF WriteFull
<1>5. CASE WriteRelease
  BY <1>5, WriteReleaseKeeps
<1>6. CASE WriteSleep
  BY <1>6 DEF WriteSleep
<1>7. CASE WriteRelock
  BY <1>7 DEF WriteRelock
<1>8. CASE WriteStore
  BY <1>8, WriteStoreKeeps
<1>9. CASE WriteAdvance
  BY <1>9, WriteAdvanceKeeps
<1>10. CASE WriteTest
  BY <1>10, WriteTestKeeps
<1>11. CASE WriteClear
  BY <1>11, WriteClearKeeps
<1>12. CASE WriteWake
  BY <1>12 DEF WriteWake
<1>13. CASE WriteUnlock
  BY <1>13, WriteUnlockKeeps
<1>14. CASE ReadCall
  BY <1>14 DEF ReadCall
<1>15. CASE PollTrue
  BY <1>15 DEF PollTrue
<1>16. CASE ReadLock
  BY <1>16 DEF ReadLock
<1>17. CASE ReadEmpty
  BY <1>17 DEF ReadEmpty
<1>18. CASE ReadRelease
  BY <1>18 DEF ReadRelease
<1>19. CASE ReadSleep
  BY <1>19 DEF ReadSleep
<1>20. CASE ReadRelock
  BY <1>20 DEF ReadRelock
<1>21. CASE ReadLoad
  BY <1>21, ReadLoadKeeps
<1>22. CASE ReadAdvance
  BY <1>22, ReadAdvanceKeeps
<1>23. CASE ReadTest
  BY <1>23, ReadTestKeeps
<1>24. CASE ReadWake
  BY <1>24 DEF ReadWake
<1>25. CASE ReadUnlock
  BY <1>25 DEF ReadUnlock
<1>26. CASE UNCHANGED vars
  BY <1>26 DEF vars
<1>. QED
  BY <1>1, <1>2, <1>3, <1>4, <1>5, <1>6, <1>7, <1>8, <1>9, <1>10, <1>11,
     <1>12, <1>13, <1>14, <1>15, <1>16, <1>17, <1>18, <1>19, <1>20, <1>21,
     <1>22, <1>23, <1>24, <1>25, <1>26
  DEF Next, WriterStep, ReaderStep

(* The ring, its lock, its flags and its semaphores stay in the states listed
   by TypeOK; in particular no semaphore ever counts above one. *)
THEOREM TypeCorrect == Spec => []TypeOK
<1>1. PipeInv => TypeOK
  BY DEF PipeInv
<1>. QED  BY <1>1, PipeInvInit, PipeInvStep, PTL DEF Spec

(* write_comm_pipe_pt and read_comm_pipe_pt_blocking never use the ring at
   the same time, although the writer's fast path takes no lock. *)
THEOREM RingIsExclusive == Spec => []RingExclusive
<1>1. PipeInv => RingExclusive
  BY DEF PipeInv, TypeOK, LockInv, EmptyInv, RingExclusive, WriterInRing,
         ReaderInRing, ReaderHolds
<1>. QED  BY <1>1, PipeInvInit, PipeInvStep, PTL DEF Spec

(* The ring never loses, repeats or overwrites a word: its slots from rdp to
   wrp are the words published and not yet consumed. *)
THEOREM RingIsFaithful == Spec => []RingHoldsPending
<1>1. PipeInv => RingHoldsPending
  <2>. SUFFICES ASSUME PipeInv PROVE RingHoldsPending
    OBVIOUS
  <2>1. Fill = Count
    BY FillIsCount DEF PipeInv
  <2>2. \A i \in 0..(Size - 1) : (rdp + i) % Size = Wrap(rdp + i)
    <3>. SUFFICES ASSUME NEW i \in 0..(Size - 1)
         PROVE  (rdp + i) % Size = Wrap(rdp + i)
      OBVIOUS
    <3>1. rdp + i \in 0..(2 * Size - 1)
      BY SizeAssumption DEF PipeInv, TypeOK, Slots
    <3>. QED  BY <3>1, WrapIsModulo
  <2>. QED  BY <2>1, <2>2 DEF PipeInv, RingInv, RingHoldsPending, Pending, Count
<1>. QED  BY <1>1, PipeInvInit, PipeInvStep, PTL DEF Spec

(* The n-th read returns the n-th word written. *)
THEOREM WordsArriveInOrder == Spec => []InOrder
<1>1. PipeInv => InOrder
  BY DEF PipeInv, RingInv, InOrder
<1>. QED  BY <1>1, PipeInvInit, PipeInvStep, PTL DEF Spec

(* The two threads are never asleep at the same time, each waiting for the
   other: a full ring is not an empty one, and the token is never lost. *)
THEOREM NoMutualSleep == Spec => []NeverBothAsleep
<1>1. PipeInv => NeverBothAsleep
  BY ChunksAssumption, SizeAssumption
  DEF PipeInv, TypeOK, FullInv, EmptyInv, NeverBothAsleep, WriterAsleep,
      ReaderAsleep
<1>. QED  BY <1>1, PipeInvInit, PipeInvStep, PTL DEF Spec

(* A reader that has seen data in the ring without the lock does not sleep in
   the read that follows, and a reader is never left asleep on a wake-up that
   was due. *)
THEOREM PollAndWakeUp ==
    Spec => [](PollIsPromise /\ NoLostWakeup /\ NoStaleToken)
<1>1. PipeInv => PollIsPromise
  BY SizeAssumption, MaxWordsAssumption
  DEF PipeInv, TypeOK, RingInv, EmptyInv, PollIsPromise, Wrap, Count,
      Slots
<1>2. PipeInv => NoLostWakeup
  BY DEF PipeInv, TypeOK, EmptyInv, NoLostWakeup, ReaderAsleep, Count
<1>3. PipeInv => NoStaleToken
  BY DEF PipeInv, FullInv, EmptyInv, NoStaleToken
<1>. QED  BY <1>1, <1>2, <1>3, PipeInvInit, PipeInvStep, PTL DEF Spec
-----------------------------------------------------------------------------
(* The implementation of the abstract channel.  Consecutive words as a
   sequence: what the ring holds, seen from the reader. *)
WordsAfter(r, n) == [i \in 1..n |-> r + i]

LEMMA AppendNextWord ==
    ASSUME NEW r \in Nat, NEW n \in Nat
    PROVE  /\ Len(WordsAfter(r, n)) = n
           /\ Append(WordsAfter(r, n), r + n + 1) = WordsAfter(r, n + 1)
<1>1. WordsAfter(r, n) \in Seq(Nat) /\ Len(WordsAfter(r, n)) = n
  BY DEF WordsAfter
<1>. QED  BY <1>1 DEF WordsAfter

LEMMA TakeFirstWord ==
    ASSUME NEW r \in Nat, NEW n \in Nat, n > 0
    PROVE  /\ WordsAfter(r, n) # <<>>
           /\ Head(WordsAfter(r, n)) = r + 1
           /\ Tail(WordsAfter(r, n)) = WordsAfter(r + 1, n - 1)
<1>1. WordsAfter(r, n) \in Seq(Nat) /\ Len(WordsAfter(r, n)) = n
  BY DEF WordsAfter
<1>2. /\ WordsAfter(r + 1, n - 1) \in Seq(Nat)
      /\ Len(WordsAfter(r + 1, n - 1)) = n - 1
  BY DEF WordsAfter
<1>3. WordsAfter(r, n) # <<>>
  BY <1>1
<1>4. Tail(WordsAfter(r, n)) = WordsAfter(r + 1, n - 1)
  <2>1. /\ Tail(WordsAfter(r, n)) \in Seq(Nat)
        /\ Len(Tail(WordsAfter(r, n))) = n - 1
        /\ \A i \in 1..(n - 1) :
              Tail(WordsAfter(r, n))[i] = WordsAfter(r, n)[i + 1]
    BY <1>1, <1>3, HeadTailProperties
  <2>2. \A i \in 1..(n - 1) :
          WordsAfter(r, n)[i + 1] = WordsAfter(r + 1, n - 1)[i]
    BY DEF WordsAfter
  <2>. QED  BY <1>2, <2>1, <2>2, SeqEqual
<1>5. Head(WordsAfter(r, n)) = r + 1
  BY <1>1 DEF WordsAfter
<1>. QED  BY <1>3, <1>4, <1>5

LEMMA RingIsWords == PipeInv => ringQueue = WordsAfter(recv, Count)
<1>. SUFFICES ASSUME PipeInv PROVE ringQueue = WordsAfter(recv, Count)
  OBVIOUS
<1>1. Fill = Count
  BY FillIsCount DEF PipeInv
<1>2. Count \in 0..(Size - 1)
  BY DEF PipeInv, RingInv
<1>3. ASSUME NEW i \in 1..Count PROVE Pending(i - 1) = recv + i
  <2>1. i - 1 \in 0..(Size - 1) /\ i - 1 < Count
    BY <1>2, SizeAssumption
  <2>2. rdp + (i - 1) \in 0..(2 * Size - 1)
    BY <2>1, SizeAssumption DEF PipeInv, TypeOK, Slots
  <2>3. (rdp + (i - 1)) % Size = Wrap(rdp + (i - 1))
    BY <2>2, WrapIsModulo
  <2>4. data[Wrap(rdp + (i - 1))] = recv + (i - 1) + 1
    BY <2>1 DEF PipeInv, RingInv
  <2>5. recv \in Nat
    BY MaxWordsAssumption DEF PipeInv, TypeOK
  <2>. QED  BY <2>3, <2>4, <2>5 DEF Pending
<1>. QED  BY <1>1, <1>3 DEF ringQueue, WordsAfter

(* The word is put when wrp moves, and got when rdp moves; every other step
   of the code leaves the abstract channel as it is. *)
LEMMA PipeStepsOfChannel ==
    ASSUME PipeInv, PipeInv', [Next]_vars
    PROVE  [Channel!Next]_(Channel!abstractVars)
<1>1. /\ ringQueue = WordsAfter(recv, Count)
      /\ ringQueue' = WordsAfter(recv, Count)'
  <2>1. (PipeInv => ringQueue = WordsAfter(recv, Count))'
    BY RingIsWords, PTL
  <2>. QED  BY <2>1, RingIsWords
<1>2. recv \in Nat /\ sent \in Nat /\ Count \in 0..(Size - 1) /\ got = recv
  BY MaxWordsAssumption DEF PipeInv, TypeOK, RingInv
<1>3. Count' \in 0..(Size - 1) /\ got' = recv'
  BY DEF PipeInv, RingInv
<1>4. CASE WriteAdvance
  <2>1. recv' = recv /\ sent' = sent + 1 /\ Count' = Count + 1 /\ got' = got
    BY <1>2, <1>4 DEF WriteAdvance, Count
  <2>2. Len(ringQueue) = Count
    BY <1>1, <1>2, AppendNextWord
  <2>3. ringQueue' = Append(ringQueue, sent + 1)
    <3>1. recv + Count + 1 = sent + 1 /\ Count \in Nat
      BY <1>2 DEF Count
    <3>2. WordsAfter(recv, Count)' = WordsAfter(recv, Count + 1)
      BY <2>1 DEF WordsAfter
    <3>. QED  BY <1>1, <1>2, <3>1, <3>2, AppendNextWord
  <2>4. Len(ringQueue) < Size - 1
    BY <1>2, <1>3, <2>1, <2>2, SizeAssumption
  <2>. QED  BY <2>1, <2>3, <2>4 DEF Channel!Next, Channel!Put
<1>5. CASE ReadAdvance
  <2>1. recv' = recv + 1 /\ sent' = sent /\ Count' = Count - 1
    BY <1>2, <1>5 DEF ReadAdvance, Count
  <2>2. Count > 0 /\ Count \in Nat
    BY <1>2, <1>5 DEF ReadAdvance, PipeInv, EmptyInv
  <2>3. WordsAfter(recv, Count)' = WordsAfter(recv + 1, Count - 1)
    BY <2>1 DEF WordsAfter
  <2>4. /\ ringQueue # <<>> /\ Head(ringQueue) = recv + 1
        /\ Tail(ringQueue) = ringQueue'
    BY <1>1, <1>2, <2>2, <2>3, TakeFirstWord
  <2>. QED  BY <1>3, <2>1, <2>4 DEF Channel!Next, Channel!Get
<1>6. ASSUME UNCHANGED <<sent, recv, got>>
      PROVE  UNCHANGED Channel!abstractVars
  <2>1. ringQueue' = ringQueue
    BY <1>1, <1>6 DEF WordsAfter, Count
  <2>. QED  BY <1>6, <2>1 DEF Channel!abstractVars
<1>7. CASE UNCHANGED vars
  BY <1>6, <1>7 DEF vars, history
<1>8. WriteAdvance \/ ReadAdvance \/ UNCHANGED <<sent, recv, got>>
  BY DEF Next, WriterStep, ReaderStep, vars, history, WriteCall,
         WriteCheck, WriteLock, WriteFull, WriteRelease, WriteSleep,
         WriteRelock, WriteStore, WriteTest, WriteClear, WriteWake,
         WriteUnlock, ReadCall, PollTrue, ReadLock, ReadEmpty, ReadRelease,
         ReadSleep, ReadRelock, ReadLoad, ReadTest, ReadWake, ReadUnlock
<1>. QED  BY <1>4, <1>5, <1>6, <1>8

(* Everything the pipe does, seen through the words between rdp and wrp, is a
   bounded first-in first-out channel. *)
THEOREM PipeImplementsChannel == Spec => ImplementsChannel
<1>1. Init => Channel!Init
  <2>. SUFFICES ASSUME Init PROVE Channel!Init
    OBVIOUS
  <2>1. Count = 0 /\ ringQueue = WordsAfter(recv, 0)
    BY PipeInvInit, RingIsWords DEF Init, Count
  <2>. QED  BY <2>1 DEF Init, WordsAfter, Channel!Init
<1>. QED
  BY <1>1, PipeInvInit, PipeInvStep, PipeStepsOfChannel, PTL
  DEF Spec, ImplementsChannel, Channel!Spec
=============================================================================
