---------------------------- MODULE FIFO_proofs -----------------------------
(***************************************************************************)
(* For every depth and every set of words: the signals of the FIFO keep    *)
(* their declared ranges, the counter agrees with the pointers, and the    *)
(* circular buffer implements the bounded queue.                           *)
(***************************************************************************)
EXTENDS FIFO, SequenceTheorems, TLAPS

\* The ranges alone are not inductive: that count stays within 0..DEPTH follows
\* from the guards, but that the word read is the oldest one follows only from
\* the agreement of the pointers.
IndInv == TypeOK /\ PointersAgree

\* Init, the clock edge and the reset establish and keep the inductive
\* invariant.
LEMMA InitIndInv == Init => IndInv
  BY DepthAssumption, ZeroAssumption DEF Init, IndInv, TypeOK, PointersAgree, Slot

LEMMA ResetIndInv == IndInv /\ Reset => IndInv'
  BY DepthAssumption, ZeroAssumption DEF Reset, IndInv, TypeOK, PointersAgree, Slot

LEMMA ClockIndInv ==
    ASSUME IndInv, NEW wr_en \in BOOLEAN, NEW rd_en \in BOOLEAN, NEW din \in Data,
           Clock(wr_en, rd_en, din)
    PROVE  IndInv'
  <1> USE DepthAssumption, ZeroAssumption DEF IndInv, TypeOK, Clock, WritePort, ReadPort,
          Occupancy, Writes, Reads, Advance
  <1>1. memory' \in [0..(DEPTH - 1) -> Data] /\ wr_ptr' \in 0..(DEPTH - 1)
    <2>1. CASE Writes(wr_en)
      BY <2>1
    <2>2. CASE ~Writes(wr_en)
      BY <2>2
    <2> QED BY <2>1, <2>2
  <1>2. dout' \in Data /\ rd_ptr' \in 0..(DEPTH - 1)
    <2>1. CASE Reads(rd_en)
      BY <2>1
    <2>2. CASE ~Reads(rd_en)
      BY <2>2
    <2> QED BY <2>1, <2>2
  <1>3. count' \in 0..DEPTH
    OBVIOUS
  <1>4. PointersAgree'
    <2>1. CASE Writes(wr_en) /\ Reads(rd_en)
      BY <2>1 DEF PointersAgree, Slot
    <2>2. CASE Writes(wr_en) /\ ~Reads(rd_en)
      BY <2>2 DEF PointersAgree, Slot
    <2>3. CASE ~Writes(wr_en) /\ Reads(rd_en)
      BY <2>3 DEF PointersAgree, Slot
    <2>4. CASE ~Writes(wr_en) /\ ~Reads(rd_en)
      BY <2>4 DEF PointersAgree, Slot
    <2> QED BY <2>1, <2>2, <2>3, <2>4
  <1> QED BY <1>1, <1>2, <1>3, <1>4

LEMMA StepIndInv == IndInv /\ [Next]_vars => IndInv'
  <1> SUFFICES ASSUME IndInv, [Next]_vars PROVE IndInv'
    OBVIOUS
  <1>1. CASE \E wr_en, rd_en \in BOOLEAN, din \in Data : Clock(wr_en, rd_en, din)
    BY <1>1, ClockIndInv
  <1>2. CASE Reset
    BY <1>2, ResetIndInv
  <1>3. CASE UNCHANGED vars
    BY <1>3 DEF IndInv, TypeOK, PointersAgree, Slot, vars
  <1> QED BY <1>1, <1>2, <1>3 DEF Next

\* The signals of FIFO.vhd never leave the ranges they are declared with.
THEOREM TypeCorrect == Spec => []TypeOK
  <1>1. Spec => []IndInv
    BY InitIndInv, StepIndInv, PTL DEF Spec
  <1> QED BY <1>1, PTL DEF IndInv

\* The occupancy counter and the two pointers never disagree.
THEOREM PointersAlwaysAgree == Spec => []PointersAgree
  <1>1. Spec => []IndInv
    BY InitIndInv, StepIndInv, PTL DEF Spec
  <1> QED BY <1>1, PTL DEF IndInv

-----------------------------------------------------------------------------

\* Slots are addresses of the memory.
LEMMA SlotRange ==
    ASSUME NEW p \in 0..(DEPTH - 1), NEW i \in 0..DEPTH
    PROVE  Slot(p, i) \in 0..(DEPTH - 1)
  BY DepthAssumption DEF Slot

\* The words held form a sequence of count words.
LEMMA ContentsSeq ==
    ASSUME IndInv
    PROVE  /\ Contents \in Seq(Data)
           /\ Len(Contents) = count
           /\ \A i \in 1..count : Contents[i] = memory[Slot(rd_ptr, i - 1)]
  <1>1. \A i \in 1..count : Slot(rd_ptr, i - 1) \in 0..(DEPTH - 1)
    BY DepthAssumption DEF IndInv, TypeOK, Slot
  <1>2. \A i \in 1..count : memory[Slot(rd_ptr, i - 1)] \in Data
    BY <1>1 DEF IndInv, TypeOK
  <1>3. count \in Nat
    BY DepthAssumption DEF IndInv, TypeOK
  <1> QED BY <1>2, <1>3, IsASeq DEF Contents

\* A write stores the word in the slot behind the last one, which no word
\* held occupies.
LEMMA WriteSlotFree ==
    ASSUME IndInv, count < DEPTH
    PROVE  \A i \in 1..count : Slot(rd_ptr, i - 1) # wr_ptr
  BY DepthAssumption DEF IndInv, TypeOK, PointersAgree, Slot

\* When the read pointer advances, the slot i words behind it becomes the slot
\* i - 1 words behind it.
LEMMA ReadShiftsSlots ==
    ASSUME IndInv, rd_ptr' = Advance(rd_ptr), NEW i \in 0..(DEPTH - 1)
    PROVE  Slot(rd_ptr', i) = Slot(rd_ptr, i + 1)
  BY DepthAssumption DEF IndInv, TypeOK, Slot, Advance

\* A clock edge of the circular buffer is a clock edge of the bounded queue.
LEMMA ClockRefines ==
    ASSUME IndInv, NEW wr_en \in BOOLEAN, NEW rd_en \in BOOLEAN, NEW din \in Data,
           Clock(wr_en, rd_en, din)
    PROVE  [q |-> Contents, dout |-> dout]'
              = Queue!QueueClock([q |-> Contents, dout |-> dout], wr_en, rd_en, din)
  <1> DEFINE kept == IF Reads(rd_en) THEN Tail(Contents) ELSE Contents
  <1>0. /\ DEPTH \in Nat \ {0} /\ count \in 0..DEPTH /\ rd_ptr \in 0..(DEPTH - 1)
        /\ wr_ptr \in 0..(DEPTH - 1) /\ memory \in [0..(DEPTH - 1) -> Data]
    BY DepthAssumption DEF IndInv, TypeOK
  <1>1. /\ Contents \in Seq(Data) /\ Len(Contents) = count
        /\ \A i \in 1..count : Contents[i] = memory[Slot(rd_ptr, i - 1)]
    BY ContentsSeq
  <1>2. IndInv'
    BY ClockIndInv
  <1>3. /\ Contents' \in Seq(Data) /\ Len(Contents') = count'
        /\ \A i \in 1..count' : Contents'[i] = memory'[Slot(rd_ptr', i - 1)]
    <2>1. /\ count' \in 0..DEPTH /\ rd_ptr' \in 0..(DEPTH - 1)
          /\ memory' \in [0..(DEPTH - 1) -> Data]
      BY <1>2 DEF IndInv, TypeOK
    <2>2. \A i \in 1..count' : Slot(rd_ptr', i - 1) \in 0..(DEPTH - 1)
      <3> SUFFICES ASSUME NEW i \in 1..count' PROVE Slot(rd_ptr', i - 1) \in 0..(DEPTH - 1)
        OBVIOUS
      <3>1. i - 1 \in 0..DEPTH
        BY <1>0, <2>1
      <3> QED BY <2>1, <3>1, SlotRange
    <2>3. \A i \in 1..count' : memory'[Slot(rd_ptr', i - 1)] \in Data
      BY <2>1, <2>2
    <2> QED BY <1>0, <2>1, <2>3, IsASeq DEF Contents
  <1>4. /\ kept \in Seq(Data)
        /\ Len(kept) = IF Reads(rd_en) THEN count - 1 ELSE count
        /\ \A i \in 1..Len(kept) : kept[i] = memory[Slot(rd_ptr', i - 1)]
    <2>1. CASE Reads(rd_en)
      <3>1. rd_ptr' = Advance(rd_ptr) /\ count > 0
        BY <2>1 DEF Clock, ReadPort, Reads
      <3>2. \A i \in 1..(count - 1) : Slot(rd_ptr', i - 1) = Slot(rd_ptr, i)
        BY <1>0, <3>1, ReadShiftsSlots
      <3>3. kept = Tail(Contents) /\ Contents # <<>>
        BY <2>1, <3>1, <1>1, EmptySeq
      <3>4. /\ kept \in Seq(Data) /\ Len(kept) = count - 1
            /\ \A i \in 1..(count - 1) : kept[i] = Contents[i + 1]
        BY <3>3, <1>1, <1>0, HeadTailProperties
      <3> QED BY <2>1, <3>2, <3>4, <1>1, <1>0
    <2>2. CASE ~Reads(rd_en)
      <3>1. \A i \in 1..count : Slot(rd_ptr', i - 1) = Slot(rd_ptr, i - 1)
        BY <2>2 DEF Clock, ReadPort, Slot
      <3> QED BY <2>2, <3>1, <1>1
    <2> QED BY <2>1, <2>2
  <1>5. count' = IF Writes(wr_en) THEN Len(kept) + 1 ELSE Len(kept)
    BY <1>0, <1>4 DEF Clock, Occupancy, Writes, Reads
  <1>6. Contents' = IF Writes(wr_en) THEN Append(kept, din) ELSE kept
    <2>1. CASE Writes(wr_en)
      <3>1. memory' = [memory EXCEPT ![wr_ptr] = din] /\ count < DEPTH
        BY <2>1 DEF Clock, WritePort, Writes
      <3>2. Len(kept) \in 0..count /\ count' = Len(kept) + 1
        BY <1>0, <1>4, <1>5, <2>1 DEF Reads
      <3>3. Slot(rd_ptr', Len(kept)) = wr_ptr
        <4>1. CASE Reads(rd_en)
          <5>1. Slot(rd_ptr', count - 1) = Slot(rd_ptr, count)
            BY <4>1, <1>0, ReadShiftsSlots DEF Clock, ReadPort, Reads
          <5> QED BY <4>1, <5>1, <1>4 DEF IndInv, PointersAgree
        <4>2. CASE ~Reads(rd_en)
          BY <4>2, <1>4 DEF Clock, ReadPort, Slot, IndInv, PointersAgree
        <4> QED BY <4>1, <4>2
      <3>4. \A i \in 1..Len(kept) : Slot(rd_ptr', i - 1) # wr_ptr
        <4>1. CASE Reads(rd_en)
          <5>1. \A i \in 1..Len(kept) : Slot(rd_ptr', i - 1) = Slot(rd_ptr, i) /\ i + 1 \in 1..count
            BY <4>1, <1>0, <1>4, ReadShiftsSlots DEF Clock, ReadPort, Reads
          <5>2. \A i \in 1..count : Slot(rd_ptr, i - 1) # wr_ptr
            BY <3>1, WriteSlotFree
          <5>3. \A i \in 1..Len(kept) : Slot(rd_ptr, (i + 1) - 1) # wr_ptr
            BY <5>1, <5>2
          <5>4. \A i \in 1..Len(kept) : (i + 1) - 1 = i
            BY <3>2
          <5> QED BY <5>1, <5>3, <5>4
        <4>2. CASE ~Reads(rd_en)
          BY <4>2, <1>4, <3>1, WriteSlotFree DEF Clock, ReadPort, Slot
        <4> QED BY <4>1, <4>2
      <3>5. \A i \in 1..Len(kept) : Slot(rd_ptr', i - 1) \in 0..(DEPTH - 1)
        BY <1>2, <3>2, <1>0 DEF IndInv, TypeOK, Slot
      <3>6. \A i \in 1..Len(kept) : Contents'[i] = kept[i]
        <4> SUFFICES ASSUME NEW i \in 1..Len(kept) PROVE Contents'[i] = kept[i]
          OBVIOUS
        <4>1. i \in 1..count'
          BY <3>2, <1>0
        <4>2. memory'[Slot(rd_ptr', i - 1)] = memory[Slot(rd_ptr', i - 1)]
          BY <3>1, <3>4, <3>5, <1>0
        <4> QED BY <1>3, <1>4, <4>1, <4>2
      <3>7. Contents'[Len(kept) + 1] = din
        BY <1>3, <3>1, <3>2, <3>3, <1>0
      <3>8. /\ Append(kept, din) \in Seq(Data)
            /\ Len(Append(kept, din)) = Len(kept) + 1
            /\ \A i \in 1..Len(kept) : Append(kept, din)[i] = kept[i]
            /\ Append(kept, din)[Len(kept) + 1] = din
        BY <1>4, AppendProperties
      <3>9. \A i \in 1..(Len(kept) + 1) : Contents'[i] = Append(kept, din)[i]
        BY <3>2, <3>6, <3>7, <3>8, <1>0
      <3> QED BY <1>3, <2>1, <3>2, <3>8, <3>9, SeqEqual
    <2>2. CASE ~Writes(wr_en)
      <3>1. memory' = memory /\ count' = Len(kept)
        BY <2>2, <1>5 DEF Clock, WritePort
      <3> QED BY <1>3, <1>4, <2>2, <3>1, SeqEqual
    <2> QED BY <2>1, <2>2
  <1>7. dout' = IF Reads(rd_en) THEN Head(Contents) ELSE dout
    <2>1. CASE Reads(rd_en)
      <3>1. Head(Contents) = Contents[1] /\ count > 0
        BY <2>1, <1>1 DEF Reads
      <3>2. Contents[1] = memory[rd_ptr]
        BY <1>0, <1>1, <3>1 DEF Slot
      <3> QED BY <2>1, <3>1, <3>2 DEF Clock, ReadPort
    <2>2. CASE ~Reads(rd_en)
      BY <2>2 DEF Clock, ReadPort
    <2> QED BY <2>1, <2>2
  <1>8. /\ Queue!Accepts([q |-> Contents, dout |-> dout], wr_en) <=> Writes(wr_en)
        /\ Queue!Delivers([q |-> Contents, dout |-> dout], rd_en) <=> Reads(rd_en)
    BY <1>1 DEF Queue!Accepts, Queue!Delivers, Writes, Reads
  <1> QED BY <1>6, <1>7, <1>8 DEF Queue!QueueClock

\* The FIFO of FIFO.vhd implements the bounded queue, for every depth and every
\* set of words.
THEOREM Refinement == Spec => ImplementsQueue
  <1>1. Init => Queue!Init
    <2> SUFFICES ASSUME Init PROVE Contents = <<>> /\ dout = Zero
      BY DEF Queue!Init, Queue!Cleared
    <2> QED BY DEF Init, Contents
  <1>2. IndInv /\ [Next]_vars => [Queue!Next]_([q |-> Contents, dout |-> dout])
    <2> SUFFICES ASSUME IndInv, [Next]_vars
                 PROVE  [Queue!Next]_([q |-> Contents, dout |-> dout])
      OBVIOUS
    <2>1. CASE \E wr_en, rd_en \in BOOLEAN, din \in Data : Clock(wr_en, rd_en, din)
      BY <2>1, ClockRefines DEF Queue!Next, Queue!Clock
    <2>2. CASE Reset
      <3>1. Contents' = <<>> /\ dout' = Zero
        BY <2>2 DEF Reset, Contents
      <3> QED BY <3>1 DEF Queue!Next, Queue!Reset, Queue!Cleared
    <2>3. CASE UNCHANGED vars
      BY <2>3 DEF vars, Contents, Slot
    <2> QED BY <2>1, <2>2, <2>3 DEF Next
  <1>3. Spec => []IndInv
    BY InitIndInv, StepIndInv, PTL DEF Spec
  <1> QED BY <1>1, <1>2, <1>3, PTL DEF Spec, ImplementsQueue, Queue!Spec
=============================================================================
