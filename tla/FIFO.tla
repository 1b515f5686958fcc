-------------------------------- MODULE FIFO --------------------------------
(***************************************************************************)
(* The FIFO of src/vhdl/FIFO.vhd: a circular buffer in a memory of DEPTH   *)
(* words with separate write and read pointers and an occupancy counter.   *)
(* One step is a rising clock edge (or the asynchronous reset); the three  *)
(* IF blocks of the VHDL process are the three groups of assignments of    *)
(* Clock, all evaluated on the values the signals had before the edge.     *)
(***************************************************************************)
EXTENDS Naturals, Sequences

CONSTANTS DEPTH, Data, Zero

ASSUME DepthAssumption == DEPTH \in Nat \ {0}
ASSUME ZeroAssumption == Zero \in Data

VARIABLES memory, wr_ptr, rd_ptr, count, dout

vars == <<memory, wr_ptr, rd_ptr, count, dout>>

full  == count = DEPTH
empty == count = 0

Writes(wr_en) == wr_en /\ count < DEPTH
Reads(rd_en)  == rd_en /\ count > 0

\* Mutant: the wrap at the end of the memory is forgotten.
AdvanceUnwrapped(ptr) == ptr + 1

\* A pointer moved on by one word, back to 0 at the end of the memory.
Advance(ptr) == IF ptr = DEPTH - 1 THEN 0 ELSE ptr + 1

Init ==
    /\ memory = [a \in 0..(DEPTH - 1) |-> Zero]
    /\ wr_ptr = 0
    /\ rd_ptr = 0
    /\ count = 0
    /\ dout = Zero

\* rst = '1': the memory keeps its contents.
Reset ==
    /\ wr_ptr' = 0
    /\ rd_ptr' = 0
    /\ count' = 0
    /\ dout' = Zero
    /\ UNCHANGED memory

\* Mutant: only the pointer is protected from a write to a full FIFO.
WritePortUnguarded(wr_en, din) ==
    /\ memory' = IF wr_en THEN [memory EXCEPT ![wr_ptr] = din] ELSE memory
    /\ wr_ptr' = IF Writes(wr_en) THEN Advance(wr_ptr) ELSE wr_ptr

WritePort(wr_en, din) ==
    IF Writes(wr_en)
      THEN /\ memory' = [memory EXCEPT ![wr_ptr] = din]
           /\ wr_ptr' = Advance(wr_ptr)
      ELSE UNCHANGED <<memory, wr_ptr>>

ReadPort(rd_en) ==
    IF Reads(rd_en)
      THEN /\ dout' = memory[rd_ptr]
           /\ rd_ptr' = Advance(rd_ptr)
      ELSE UNCHANGED <<dout, rd_ptr>>

\* Mutant: a simultaneous read and write is taken to leave the count alone,
\* also when one of them is refused.
OccupancyNaive(wr_en, rd_en) ==
    count' = IF Writes(wr_en) /\ ~rd_en THEN count + 1
             ELSE IF Reads(rd_en) /\ ~wr_en THEN count - 1
             ELSE count

Occupancy(wr_en, rd_en) ==
    count' = IF Writes(wr_en) /\ (~rd_en \/ count = 0) THEN count + 1
             ELSE IF Reads(rd_en) /\ (~wr_en \/ count = DEPTH) THEN count - 1
             ELSE count

\* rising_edge(clk)
Clock(wr_en, rd_en, din) ==
    /\ WritePort(wr_en, din)
    /\ ReadPort(rd_en)
    /\ Occupancy(wr_en, rd_en)

Next == \/ \E wr_en, rd_en \in BOOLEAN, din \in Data : Clock(wr_en, rd_en, din)
        \/ Reset

Spec == Init /\ [][Next]_vars

-----------------------------------------------------------------------------

\* The signals stay inside the integer ranges the VHDL declares for them (a
\* value outside wr_ptr : 0 to DEPTH-1 or count : 0 to DEPTH is an error).
TypeOK ==
    /\ memory \in [0..(DEPTH - 1) -> Data]
    /\ wr_ptr \in 0..(DEPTH - 1)
    /\ rd_ptr \in 0..(DEPTH - 1)
    /\ count \in 0..DEPTH
    /\ dout \in Data

\* The address i words after base in the circular memory.
Slot(base, i) == IF base + i < DEPTH THEN base + i ELSE base + i - DEPTH

\* The redundant occupancy counter and the pointers never drift apart: the
\* write pointer is always count words ahead of the read pointer.  Each block
\* of the process tests full and empty by itself, so one of them disagreeing
\* with another in a simultaneous read and write would break this for ever.
PointersAgree == wr_ptr = Slot(rd_ptr, count)

\* The words the FIFO holds, oldest first.
Contents == [i \in 1..count |-> memory[Slot(rd_ptr, i - 1)]]

Queue == INSTANCE BoundedQueue
            WITH fifo <- [q |-> Contents, dout |-> dout]

\* The circular buffer behaves as a bounded queue: through wrap-around, full,
\* empty and simultaneous accesses, words come out once each, in the order they
\* went in, and nothing is lost but a write to a full FIFO.
ImplementsQueue == Queue!Spec
=============================================================================
