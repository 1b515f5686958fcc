---------------------------- MODULE BoundedQueue ----------------------------
(***************************************************************************)
(* What the synchronous FIFO of src/vhdl/FIFO.vhd promises: a queue of at  *)
(* most DEPTH words with a registered output.  A clock edge may write and  *)
(* read at once; a write to a full queue and a read from an empty one are  *)
(* ignored, and dout keeps the last word read (the FIFO is not             *)
(* first-word-fall-through).  FIFO.tla is the circular buffer that         *)
(* implements it; Pipeline.tla uses two of these queues.                   *)
(***************************************************************************)
EXTENDS Naturals, Sequences

CONSTANTS DEPTH,   \* capacity in words
          Data,    \* the words
          Zero     \* the all-zero word, dout's value after a reset

VARIABLE fifo      \* [q : the words held, oldest first, dout : the output register]

Full(f)  == Len(f.q) = DEPTH
Empty(f) == Len(f.q) = 0

Accepts(f, wr_en)  == wr_en /\ Len(f.q) < DEPTH
Delivers(f, rd_en) == rd_en /\ Len(f.q) > 0

\* The FIFO after a clock edge.
QueueClock(f, wr_en, rd_en, din) ==
    LET kept == IF Delivers(f, rd_en) THEN Tail(f.q) ELSE f.q
    IN  [q    |-> IF Accepts(f, wr_en) THEN Append(kept, din) ELSE kept,
         dout |-> IF Delivers(f, rd_en) THEN Head(f.q) ELSE f.dout]

Cleared == [q |-> <<>>, dout |-> Zero]

-----------------------------------------------------------------------------

Init == fifo = Cleared

Clock == \E wr_en, rd_en \in BOOLEAN, din \in Data :
            fifo' = QueueClock(fifo, wr_en, rd_en, din)

Reset == fifo' = Cleared

Next == Clock \/ Reset

Spec == Init /\ [][Next]_fifo
=============================================================================
