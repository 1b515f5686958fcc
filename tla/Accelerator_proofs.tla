------------------------- MODULE Accelerator_proofs -------------------------
(***************************************************************************)
(* For every table, query, FIFO depth and timing of the CPU: the last row  *)
(* is never swallowed by the done token, no word is written to a full      *)
(* input FIFO, no row leaves the pipeline for a full output FIFO, all      *)
(* registers and counters keep their ranges, and for queries that fit the  *)
(* instructions the machine implements the query engine.  The argument is  *)
(* about where the words written last can be in the pipeline at each point *)
(* of the firmware's program; it uses that a read has at least one wait    *)
(* state (AcceleratorAssumption).                                          *)
(***************************************************************************)
EXTENDS Accelerator, SequenceTheorems, WellFoundedInduction, TLAPS

PCs == {"idle", "clear", "inst", "load", "refuse", "feed", "din", "din_valid",
        "drain", "pulse", "take", "eof", "poll", "answer"}

\* The types the argument needs.
Types ==
    /\ in_fifo.q \in Seq(Row) /\ Len(in_fifo.q) <= FIFO_DEPTH
    /\ data_in_reg \in Row
    /\ query.rows \in Seq(Row)
    /\ sent \in Nat
    /\ pc \in {"feed", "din", "din_valid"} => sent < Len(query.rows)
    /\ pc \in {"drain", "pulse", "take"} /\ ret = "full" => sent < Len(query.rows)
    /\ pc \in {"clear", "inst", "load"} => sent = 0
    /\ pc = "poll" => ret = "wait"
    /\ rwait \in 0..READ_WAIT
    /\ pc \in PCs
    /\ ret \in {"sent", "full", "wait"}

\* The pulse of a DIN_VALID write is over before the status read that follows it
\* can end.
PulseTiming == din_valid_ctrl => pc = "drain" /\ ret = "sent" /\ rwait = 0

\* While the limit is not reached, the pipeline takes a word the cycle after it
\* has entered the FIFO: the FIFO holds a word only then.
FifoTransient ==
    in_fifo.q # <<>> =>
        \/ limit_hit
        \/ pc = "drain" /\ ret = "sent" /\ ~din_valid_ctrl /\ Len(in_fifo.q) = 1

\* Instructions are loaded with the input FIFO empty.
LoadQuiet == pc \in {"inst", "load"} \/ load_inst => in_fifo.q = <<>>

\* A word is written only where the full flag allowed it.
RoomForWord ==
    pc \in {"din", "din_valid"} \/ din_valid_ctrl => Len(in_fifo.q) < FIFO_DEPTH

\* The end-of-input flag is set from the EOF write to the next query's reset.
EofPhase ==
    eof_ctrl => \/ pc \in {"idle", "clear", "answer", "poll"}
                \/ pc \in {"drain", "pulse", "take"} /\ ret = "wait"

\* When it is set, the last word has left the first stage, or is stuck behind
\* the limit.
EofAfterLast ==
    eof_ctrl => limit_hit \/ (in_fifo.q = <<>> /\ ~din_valid_ctrl /\ ~rd_en_pipe1)

\* So the done token is behind the last row.
DoneAfterLast == stage1_done => limit_hit \/ ~rd_en_pipe2

IndInv == /\ Types /\ PulseTiming /\ FifoTransient /\ LoadQuiet /\ RoomForWord
          /\ EofPhase /\ EofAfterLast /\ DoneAfterLast

-----------------------------------------------------------------------------

\* What a clock edge does to the input side of the pipeline, whatever the bus
\* carries.
HwEffect ==
    /\ in_fifo'.q \in Seq(Row) /\ Len(in_fifo'.q) <= FIFO_DEPTH
    /\ ~din_valid_ctrl => Len(in_fifo'.q) <= Len(in_fifo.q)
    /\ in_fifo'.q # <<>> => limit_hit' \/ (din_valid_ctrl /\ Len(in_fifo'.q) = 1)
    /\ rd_en_pipe1' => in_fifo.q # <<>> /\ ~limit_hit
    /\ stage1_done' => limit_hit' \/ ~rd_en_pipe2'
    /\ limit_hit => limit_hit' \/ (in_fifo'.q = <<>> /\ ~rd_en_pipe1')

LEMMA InitIndInv == Init => IndInv
  BY PipelineAssumption, AcceleratorAssumption
     DEF Init, HwInit, PipelineInit, IndInv, Types, PulseTiming, FifoTransient, LoadQuiet,
         RoomForWord, EofPhase, EofAfterLast, DoneAfterLast, In!Cleared, NoQuery, PCs,
         ZeroRow, Row, limit_hit

\* An edge with the pipeline in reset.
LEMMA ResetEffect ==
    ASSUME IndInv, PipelineReset
    PROVE  HwEffect
  BY PipelineAssumption DEF PipelineReset, HwEffect, In!Cleared, ClearFetcher, IndInv, Types

\* The limit, once reached, stays reached until the reset.
LEMMA LimitStays ==
    ASSUME NEW d, NEW v, NEW e, NEW i, NEW l, NEW r,
           PipelineClock(d, v, e, i, l, r)
    PROVE  limit_hit => limit_hit'
  BY DEF PipelineClock, InstructionFetcher, LimitStage, limit_hit

\* An edge out of reset.
LEMMA ClockEffect ==
    ASSUME IndInv, NEW i, NEW r,
           PipelineClock(data_in_reg, din_valid_ctrl, eof_ctrl, i, load_inst, r)
    PROVE  HwEffect
  <1> DEFINE q == in_fifo.q
             rd == fifo_rd_en(load_inst)
             kept == IF rd THEN Tail(q) ELSE q
             wr == din_valid_ctrl /\ Len(q) < FIFO_DEPTH
  <1>1. /\ q \in Seq(Row) /\ Len(q) \in Nat /\ Len(q) <= FIFO_DEPTH /\ data_in_reg \in Row
        /\ FIFO_DEPTH \in Nat \ {0}
    BY PipelineAssumption DEF IndInv, Types
  <1>2. limit_hit => limit_hit'
    BY LimitStays
  <1>3. rd => Len(q) > 0 /\ ~limit_hit /\ ~load_inst
    BY <1>1 DEF fifo_rd_en, In!Empty
  <1>4. in_fifo'.q = IF wr THEN Append(kept, data_in_reg) ELSE kept
    BY <1>1, <1>3 DEF PipelineClock, In!QueueClock, In!Accepts, In!Delivers
  <1>5. /\ kept \in Seq(Row)
        /\ Len(kept) = IF rd THEN Len(q) - 1 ELSE Len(q)
    BY <1>1, <1>3
  <1>6. /\ in_fifo'.q \in Seq(Row)
        /\ Len(in_fifo'.q) = IF wr THEN Len(kept) + 1 ELSE Len(kept)
    BY <1>1, <1>4, <1>5
  <1>7. Len(in_fifo'.q) <= FIFO_DEPTH /\ (~din_valid_ctrl => Len(in_fifo'.q) <= Len(q))
    BY <1>1, <1>3, <1>5, <1>6
  <1>8. in_fifo'.q # <<>> => limit_hit' \/ (din_valid_ctrl /\ Len(in_fifo'.q) = 1)
    <2> SUFFICES ASSUME ~limit_hit, in_fifo'.q # <<>>
                 PROVE  din_valid_ctrl /\ Len(in_fifo'.q) = 1
      BY <1>2
    <2>1. Len(in_fifo'.q) > 0
      BY <1>6, EmptySeq
    <2>2. CASE q = <<>>
      BY <1>1, <1>3, <1>5, <1>6, <2>1, <2>2
    <2>3. CASE q # <<>>
      <3>1. ~din_valid_ctrl /\ Len(q) = 1 /\ ~load_inst
        BY <2>3 DEF IndInv, FifoTransient, LoadQuiet
      <3>2. rd
        BY <3>1 DEF fifo_rd_en, In!Empty
      <3> QED BY <3>1, <3>2, <1>5, <1>6, <2>1
    <2> QED BY <2>2, <2>3
  <1>9. rd_en_pipe1' => q # <<>> /\ ~limit_hit
    BY <1>1, <1>3 DEF PipelineClock, Stage1
  <1>10. stage1_done' => limit_hit' \/ ~rd_en_pipe2'
    BY <1>2 DEF PipelineClock, Stage1, IndInv, EofAfterLast
  <1> QED BY <1>2, <1>6, <1>7, <1>8, <1>9, <1>10 DEF HwEffect

LEMMA AnyEdge ==
    ASSUME IndInv, NEW w, NEW a, NEW d, HwClock(w, a, d)
    PROVE  HwEffect
  BY ResetEffect, ClockEffect DEF HwClock

-----------------------------------------------------------------------------
(* What the bus access of a step does to the slave's registers. *)

LEMMA QuietBus ==
    ASSUME NoAccess
    PROVE  /\ ~din_valid_ctrl' /\ ~load_inst' /\ (eof_ctrl' => eof_ctrl)
           /\ data_in_reg' = data_in_reg
  BY DEF NoAccess, HwClock, ControlRegisters

LEMMA ControlWrite ==
    ASSUME NEW d, Write("CONTROL", d)
    PROVE  /\ din_valid_ctrl' <=> "DIN_VALID" \in d
           /\ load_inst' <=> "LOAD_INST" \in d
           /\ eof_ctrl' => "RST" \notin d /\ (eof_ctrl \/ "INPUT_EOF" \in d)
           /\ "RST" \in d => in_fifo'.q = <<>>
           /\ data_in_reg' = data_in_reg
           /\ rwait = 0 /\ rwait' = 0
  <1>1. /\ ControlRegisters(d) /\ data_in_reg' = data_in_reg
        /\ sw_rst' => PipelineReset
        /\ rwait = 0 /\ rwait' = 0
    BY DEF Write, HwClock
  <1>2. /\ din_valid_ctrl' <=> "DIN_VALID" \in d
        /\ load_inst' <=> "LOAD_INST" \in d
        /\ eof_ctrl' => "RST" \notin d /\ (eof_ctrl \/ "INPUT_EOF" \in d)
        /\ "RST" \in d => sw_rst'
    BY <1>1 DEF ControlRegisters
  <1>3. PipelineReset => in_fifo'.q = <<>>
    BY DEF PipelineReset, In!Cleared
  <1> QED BY <1>1, <1>2, <1>3

LEMMA DataWrite ==
    ASSUME NEW a, NEW d, a \in {"DATA_IN", "INSTRUCTION"}, Write(a, d)
    PROVE  /\ ~din_valid_ctrl' /\ ~load_inst' /\ (eof_ctrl' => eof_ctrl)
           /\ data_in_reg' = IF a = "DATA_IN" THEN d ELSE data_in_reg
           /\ rwait = 0 /\ rwait' = 0
  BY DEF Write, HwClock, ControlRegisters

\* The input side after an edge: a row can stay in the FIFO only behind the limit
\* or in the cycle after its pulse, and what was quiet stays quiet.
LEMMA InputSide ==
    ASSUME IndInv, HwEffect
    PROVE  /\ in_fifo'.q # <<>> =>
                 limit_hit' \/ (Len(in_fifo'.q) = 1 /\ pc = "drain" /\ ret = "sent" /\ rwait = 0)
           /\ in_fifo.q = <<>> /\ ~din_valid_ctrl => in_fifo'.q = <<>> /\ ~rd_en_pipe1'
           /\ limit_hit => limit_hit' \/ (in_fifo'.q = <<>> /\ ~rd_en_pipe1')
           /\ ~din_valid_ctrl => Len(in_fifo'.q) <= Len(in_fifo.q)
           /\ DoneAfterLast'
  <1>1. in_fifo.q = <<>> /\ ~din_valid_ctrl => in_fifo'.q = <<>>
    <2> SUFFICES ASSUME in_fifo.q = <<>>, ~din_valid_ctrl PROVE in_fifo'.q = <<>>
      OBVIOUS
    <2>1. in_fifo'.q \in Seq(Row) /\ Len(in_fifo'.q) <= 0
      BY DEF HwEffect
    <2> QED BY <2>1, EmptySeq
  <1> QED BY <1>1 DEF HwEffect, IndInv, PulseTiming, DoneAfterLast

\* The end-of-input part, for a step that leaves DIN_VALID low.
LEMMA EofStep ==
    ASSUME IndInv, HwEffect, ~din_valid_ctrl',
           eof_ctrl' => eof_ctrl \/ pc = "eof"
    PROVE  EofAfterLast'
  <1> SUFFICES ASSUME eof_ctrl'
               PROVE  limit_hit' \/ (in_fifo'.q = <<>> /\ ~rd_en_pipe1')
    BY DEF EofAfterLast
  <1>1. limit_hit \/ (in_fifo.q = <<>> /\ ~din_valid_ctrl)
    BY DEF IndInv, EofAfterLast, FifoTransient, PulseTiming
  <1> QED BY <1>1, InputSide

-----------------------------------------------------------------------------
(* The steps of the firmware. *)

\* A step that does not touch the slave and neither ends nor starts a phase in
\* which words are on their way in.
LEMMA QuietStep ==
    ASSUME IndInv, NoAccess, Types', EofPhase',
           pc' \in {"din", "din_valid"} => Len(in_fifo'.q) < FIFO_DEPTH,
           pc' \in {"inst", "load"} => pc' = pc,
           pc = "drain" /\ rwait = 0 => pc' = "drain" /\ ret' = ret
    PROVE  IndInv'
  <1>1. HwEffect
    BY AnyEdge DEF NoAccess
  <1>2. PulseTiming' /\ LoadQuiet'
    BY <1>1, QuietBus, InputSide DEF PulseTiming, LoadQuiet, IndInv
  <1>3. FifoTransient'
    BY <1>1, QuietBus, InputSide DEF FifoTransient
  <1>4. RoomForWord'
    BY QuietBus DEF RoomForWord
  <1>5. EofAfterLast' /\ DoneAfterLast'
    BY <1>1, QuietBus, InputSide, EofStep
  <1> QED BY <1>2, <1>3, <1>4, <1>5 DEF IndInv

LEMMA EdgeTypes ==
    ASSUME HwEffect
    PROVE  in_fifo'.q \in Seq(Row) /\ Len(in_fifo'.q) <= FIFO_DEPTH
  BY DEF HwEffect

LEMMA StartStep == IndInv /\ Start => IndInv'
  <1> SUFFICES ASSUME IndInv, Start PROVE IndInv'
    OBVIOUS
  <1>1. NoAccess /\ HwEffect
    BY AnyEdge DEF Start, NoAccess
  <1>2. Types'
    BY <1>1, EdgeTypes, QuietBus, QueriesAssumption DEF Start, IndInv, Types, PCs
  <1>3. EofPhase'
    BY <1>1, QuietBus DEF Start, EofPhase, IndInv
  <1> QED BY <1>1, <1>2, <1>3, QuietStep DEF Start

LEMMA RefuseStep == IndInv /\ Refuse => IndInv'
  <1> SUFFICES ASSUME IndInv, Refuse PROVE IndInv'
    OBVIOUS
  <1>1. NoAccess /\ HwEffect
    BY AnyEdge DEF Refuse, NoAccess
  <1>2. Types'
    BY <1>1, EdgeTypes, QuietBus DEF Refuse, IndInv, Types, PCs
  <1>3. EofPhase'
    BY <1>1, QuietBus DEF Refuse, EofPhase, IndInv
  <1> QED BY <1>1, <1>2, <1>3, QuietStep DEF Refuse

LEMMA FeedStatusStep == IndInv /\ FeedStatus => IndInv'
  <1> SUFFICES ASSUME IndInv, FeedStatus PROVE IndInv'
    OBVIOUS
  <1>1. NoAccess /\ HwEffect
    BY AnyEdge DEF FeedStatus, Sample, NoAccess
  <1>2. Types'
    BY <1>1, EdgeTypes, QuietBus, AcceleratorAssumption DEF FeedStatus, Sample, IndInv, Types, PCs
  <1>3. EofPhase'
    BY <1>1, QuietBus DEF FeedStatus, EofPhase, IndInv
  <1>4. pc' = "din" => Len(in_fifo'.q) < FIFO_DEPTH
    <2> SUFFICES ASSUME pc' = "din" PROVE Len(in_fifo'.q) < FIFO_DEPTH
      OBVIOUS
    <2>1. pc = "feed" /\ ~STATUS_IN_FIFO_FULL
      BY DEF FeedStatus
    <2>2. Len(in_fifo.q) \in Nat /\ Len(in_fifo.q) < FIFO_DEPTH
      BY <2>1, PipelineAssumption DEF STATUS_IN_FIFO_FULL, In!Full, IndInv, Types
    <2>3. Len(in_fifo'.q) \in Nat /\ Len(in_fifo'.q) <= Len(in_fifo.q)
      BY <1>1, <2>1, EdgeTypes, InputSide DEF IndInv, PulseTiming
    <2> QED BY <2>2, <2>3, PipelineAssumption
  <1>5. pc = "feed" /\ pc' \in {"din", "drain"}
    BY DEF FeedStatus
  <1> QED BY <1>1, <1>2, <1>3, <1>4, <1>5, QuietStep

LEMMA DrainStatusStep == IndInv /\ DrainStatus => IndInv'
  <1> SUFFICES ASSUME IndInv, DrainStatus PROVE IndInv'
    OBVIOUS
  <1>1. NoAccess /\ HwEffect
    BY AnyEdge DEF DrainStatus, Sample, NoAccess
  <1>2. /\ pc = "drain" /\ rwait = READ_WAIT /\ rwait' = 0 /\ ret' = ret
        /\ query' = query /\ sent' = sent
        /\ \/ ret = "sent" /\ sent < Len(query.rows) /\ pc' = "feed"
           \/ ret = "sent" /\ pc' = "eof"
           \/ ret = "wait" /\ pc' = "poll"
           \/ ret = "full" /\ pc' \in {"feed", "answer"}
           \/ pc' = "pulse"
    BY DEF DrainStatus, DrainReturns, TimeOut, Sample
  <1>3. Types'
    BY <1>1, <1>2, EdgeTypes, QuietBus, AcceleratorAssumption DEF IndInv, Types, PCs
  <1>4. EofPhase'
    BY <1>1, <1>2, QuietBus DEF EofPhase, IndInv
  <1> QED BY <1>1, <1>2, <1>3, <1>4, QuietStep, AcceleratorAssumption

LEMMA TakeWordStep == IndInv /\ TakeWord => IndInv'
  <1> SUFFICES ASSUME IndInv, TakeWord PROVE IndInv'
    OBVIOUS
  <1>1. NoAccess /\ HwEffect
    BY AnyEdge DEF TakeWord, Sample, NoAccess
  <1>2. Types'
    BY <1>1, EdgeTypes, QuietBus, AcceleratorAssumption DEF TakeWord, Sample, IndInv, Types, PCs
  <1>3. EofPhase'
    BY <1>1, QuietBus DEF TakeWord, EofPhase, IndInv
  <1> QED BY <1>1, <1>2, <1>3, QuietStep DEF TakeWord

LEMMA PollStep == IndInv /\ Poll => IndInv'
  <1> SUFFICES ASSUME IndInv, Poll PROVE IndInv'
    OBVIOUS
  <1>1. NoAccess /\ HwEffect
    BY AnyEdge DEF Poll, Sample, NoAccess
  <1>2. /\ pc = "poll" /\ pc' \in {"answer", "drain"} /\ ret' = ret
        /\ query' = query /\ sent' = sent /\ rwait' = 0
    BY DEF Poll, Sample, TimeOut
  <1>3. Types'
    BY <1>1, <1>2, EdgeTypes, QuietBus, AcceleratorAssumption DEF IndInv, Types, PCs
  <1>4. EofPhase'
    BY <1>1, <1>2, QuietBus DEF EofPhase, IndInv, Types
  <1> QED BY <1>1, <1>2, <1>3, <1>4, QuietStep

LEMMA ReplyStep == IndInv /\ (ReplyRows \/ ReplyCount \/ ReplySum) => IndInv'
  <1> SUFFICES ASSUME IndInv, ReplyRows \/ ReplyCount \/ ReplySum PROVE IndInv'
    OBVIOUS
  <1>1. NoAccess /\ rwait' = 0
    BY DEF ReplyRows, ReplyCount, ReplySum, Sample
  <1>2. HwEffect
    BY <1>1, AnyEdge DEF NoAccess
  <1>3. /\ pc = "answer" /\ pc' = "idle" /\ ret' = ret /\ query' = query /\ sent' = sent
    BY DEF ReplyRows, ReplyCount, ReplySum, Reply
  <1>4. Types'
    BY <1>1, <1>2, <1>3, EdgeTypes, QuietBus, AcceleratorAssumption DEF IndInv, Types, PCs
  <1>5. EofPhase'
    BY <1>1, <1>3, QuietBus DEF EofPhase, IndInv
  <1> QED BY <1>1, <1>3, <1>4, <1>5, QuietStep

\* Waiting in a read and idling keep the firmware where it is.
LEMMA WaitStep == IndInv /\ (ReadWait \/ Idle) => IndInv'
  <1> SUFFICES ASSUME IndInv, ReadWait \/ Idle PROVE IndInv'
    OBVIOUS
  <1>1. NoAccess /\ rwait' \in 0..READ_WAIT
    BY AcceleratorAssumption DEF ReadWait, Idle, cpuVars, IndInv, Types
  <1>2. HwEffect
    BY <1>1, AnyEdge DEF NoAccess
  <1>3. pc' = pc /\ ret' = ret /\ query' = query /\ sent' = sent
    BY DEF ReadWait, Idle, cpuVars
  <1>4. Types'
    BY <1>1, <1>2, <1>3, EdgeTypes, QuietBus DEF IndInv, Types
  <1>5. EofPhase'
    BY <1>1, <1>3, QuietBus DEF EofPhase, IndInv
  <1>6. pc' \in {"din", "din_valid"} => Len(in_fifo'.q) < FIFO_DEPTH
    <2> SUFFICES ASSUME pc \in {"din", "din_valid"} PROVE Len(in_fifo'.q) < FIFO_DEPTH
      BY <1>3
    <2>1. Len(in_fifo.q) \in Nat /\ Len(in_fifo.q) < FIFO_DEPTH
      BY DEF IndInv, Types, RoomForWord
    <2>2. Len(in_fifo'.q) \in Nat /\ Len(in_fifo'.q) <= Len(in_fifo.q)
      BY <1>2, EdgeTypes, InputSide DEF IndInv, PulseTiming
    <2> QED BY <2>1, <2>2, PipelineAssumption
  <1> QED BY <1>1, <1>3, <1>4, <1>5, <1>6, QuietStep

LEMMA ClearStep == IndInv /\ Clear => IndInv'
  <1> SUFFICES ASSUME IndInv, Clear PROVE IndInv'
    OBVIOUS
  <1>1. Write("CONTROL", {"RST"}) /\ HwEffect
    BY AnyEdge DEF Clear, Write
  <1>2. /\ ~din_valid_ctrl' /\ ~load_inst' /\ ~eof_ctrl' /\ in_fifo'.q = <<>>
        /\ data_in_reg' = data_in_reg /\ rwait' = 0
    BY <1>1, ControlWrite
  <1>3. Len(query.rows) \in Nat /\ (query.rows # <<>> => Len(query.rows) > 0)
    BY EmptySeq DEF IndInv, Types
  <1>4. Types'
    BY <1>1, <1>2, <1>3, EdgeTypes, AcceleratorAssumption
       DEF Clear, AfterInstructions, IndInv, Types, PCs
  <1>5. DoneAfterLast'
    BY <1>1, InputSide
  <1> QED BY <1>2, <1>4, <1>5, PipelineAssumption
          DEF IndInv, PulseTiming, FifoTransient, LoadQuiet, RoomForWord, EofPhase, EofAfterLast

LEMMA SendInstructionStep == IndInv /\ SendInstruction => IndInv'
  <1> SUFFICES ASSUME IndInv, SendInstruction PROVE IndInv'
    OBVIOUS
  <1>1. pc = "inst" /\ pc' = "load" /\ ret' = ret /\ query' = query /\ sent' = sent
    BY DEF SendInstruction
  <1>2. HwEffect
    BY AnyEdge DEF SendInstruction, Write
  <1>3. /\ ~din_valid_ctrl' /\ ~load_inst' /\ (eof_ctrl' => eof_ctrl)
        /\ data_in_reg' = data_in_reg /\ rwait' = 0
    BY DataWrite DEF SendInstruction
  <1>4. in_fifo'.q = <<>>
    BY <1>1, <1>2, InputSide DEF IndInv, LoadQuiet, PulseTiming
  <1>5. Types'
    BY <1>1, <1>2, <1>3, EdgeTypes, AcceleratorAssumption DEF IndInv, Types, PCs
  <1>6. DoneAfterLast'
    BY <1>2, InputSide
  <1>7. ~eof_ctrl'
    BY <1>1, <1>3 DEF IndInv, EofPhase
  <1> QED BY <1>1, <1>3, <1>4, <1>5, <1>6, <1>7, PipelineAssumption
          DEF IndInv, PulseTiming, FifoTransient, LoadQuiet, RoomForWord, EofPhase, EofAfterLast

LEMMA LoadInstructionStep == IndInv /\ LoadInstruction => IndInv'
  <1> SUFFICES ASSUME IndInv, LoadInstruction PROVE IndInv'
    OBVIOUS
  <1>1. /\ pc = "load" /\ ret' = ret /\ query' = query /\ sent' = sent /\ sent = 0
        /\ pc' \in {"inst", "refuse", "feed", "answer"} /\ (pc' = "feed" => query.rows # <<>>)
    BY DEF LoadInstruction, AfterInstructions, IndInv, Types
  <1>2. Write("CONTROL", {"LOAD_INST"}) /\ HwEffect
    BY AnyEdge DEF LoadInstruction, Write
  <1>3. /\ ~din_valid_ctrl' /\ (eof_ctrl' => eof_ctrl)
        /\ data_in_reg' = data_in_reg /\ rwait' = 0
    BY <1>2, ControlWrite
  <1>4. in_fifo'.q = <<>>
    BY <1>1, <1>2, InputSide DEF IndInv, LoadQuiet, PulseTiming
  <1>5. Len(query.rows) \in Nat /\ (query.rows # <<>> => Len(query.rows) > 0)
    BY EmptySeq DEF IndInv, Types
  <1>6. Types'
    BY <1>1, <1>2, <1>3, <1>5, EdgeTypes, AcceleratorAssumption DEF IndInv, Types, PCs
  <1>7. DoneAfterLast'
    BY <1>2, InputSide
  <1>8. ~eof_ctrl'
    BY <1>1, <1>3 DEF IndInv, EofPhase
  <1> QED BY <1>1, <1>3, <1>4, <1>6, <1>7, <1>8, PipelineAssumption
          DEF IndInv, PulseTiming, FifoTransient, LoadQuiet, RoomForWord, EofPhase, EofAfterLast

LEMMA WriteWordStep == IndInv /\ WriteWord => IndInv'
  <1> SUFFICES ASSUME IndInv, WriteWord PROVE IndInv'
    OBVIOUS
  <1>1. pc = "din" /\ pc' = "din_valid" /\ ret' = ret /\ query' = query /\ sent' = sent
    BY DEF WriteWord
  <1>2. HwEffect
    BY AnyEdge DEF WriteWord, Write
  <1>3. /\ ~din_valid_ctrl' /\ ~load_inst' /\ (eof_ctrl' => eof_ctrl)
        /\ data_in_reg' = query.rows[sent + 1] /\ rwait' = 0
    BY DataWrite DEF WriteWord
  <1>4. query.rows[sent + 1] \in Row
    BY <1>1 DEF IndInv, Types
  <1>5. Types'
    BY <1>1, <1>2, <1>3, <1>4, EdgeTypes, AcceleratorAssumption DEF IndInv, Types, PCs
  <1>6. ~eof_ctrl' /\ ~din_valid_ctrl
    BY <1>1, <1>3 DEF IndInv, EofPhase, PulseTiming
  <1>7. RoomForWord'
    <2>1. Len(in_fifo.q) \in Nat /\ Len(in_fifo.q) < FIFO_DEPTH
      BY <1>1 DEF IndInv, Types, RoomForWord
    <2>2. Len(in_fifo'.q) \in Nat /\ Len(in_fifo'.q) <= Len(in_fifo.q)
      BY <1>2, <1>6, EdgeTypes, InputSide
    <2> QED BY <2>1, <2>2, PipelineAssumption DEF RoomForWord
  <1>8. FifoTransient' /\ DoneAfterLast'
    BY <1>1, <1>2, InputSide DEF FifoTransient
  <1> QED BY <1>1, <1>3, <1>5, <1>6, <1>7, <1>8
          DEF IndInv, PulseTiming, LoadQuiet, EofPhase, EofAfterLast

LEMMA PushWordStep == IndInv /\ PushWord => IndInv'
  <1> SUFFICES ASSUME IndInv, PushWord PROVE IndInv'
    OBVIOUS
  <1>1. /\ pc = "din_valid" /\ pc' = "drain" /\ ret' = "sent" /\ query' = query
        /\ sent' = sent + 1
    BY DEF PushWord
  <1>2. Write("CONTROL", {"DIN_VALID"}) /\ HwEffect
    BY AnyEdge DEF PushWord, Write
  <1>3. /\ ~load_inst' /\ (eof_ctrl' => eof_ctrl)
        /\ data_in_reg' = data_in_reg /\ rwait' = 0
    BY <1>2, ControlWrite
  <1>4. Types'
    BY <1>1, <1>2, <1>3, EdgeTypes, AcceleratorAssumption DEF IndInv, Types, PCs
  <1>5. ~eof_ctrl' /\ ~din_valid_ctrl
    BY <1>1, <1>3 DEF IndInv, EofPhase, PulseTiming
  <1>6. RoomForWord'
    <2>1. Len(in_fifo.q) \in Nat /\ Len(in_fifo.q) < FIFO_DEPTH
      BY <1>1 DEF IndInv, Types, RoomForWord
    <2>2. Len(in_fifo'.q) \in Nat /\ Len(in_fifo'.q) <= Len(in_fifo.q)
      BY <1>2, <1>5, EdgeTypes, InputSide
    <2> QED BY <2>1, <2>2, PipelineAssumption DEF RoomForWord
  <1>7. FifoTransient' /\ DoneAfterLast'
    BY <1>1, <1>2, InputSide DEF FifoTransient
  <1> QED BY <1>1, <1>3, <1>4, <1>5, <1>6, <1>7
          DEF IndInv, PulseTiming, LoadQuiet, EofPhase, EofAfterLast

\* Where the end-of-input flag is raised, the last word is already out of the
\* first stage or stuck behind the limit.
LEMMA SignalEofStep == IndInv /\ SignalEof => IndInv'
  <1> SUFFICES ASSUME IndInv, SignalEof PROVE IndInv'
    OBVIOUS
  <1>1. pc = "eof" /\ pc' = "drain" /\ ret' = "wait" /\ query' = query /\ sent' = sent
    BY DEF SignalEof
  <1>2. Write("CONTROL", {"INPUT_EOF"}) /\ HwEffect
    BY AnyEdge DEF SignalEof, Write
  <1>3. ~din_valid_ctrl' /\ ~load_inst' /\ data_in_reg' = data_in_reg /\ rwait' = 0
    BY <1>2, ControlWrite
  <1>4. Types'
    BY <1>1, <1>2, <1>3, EdgeTypes, AcceleratorAssumption DEF IndInv, Types, PCs
  <1>5. FifoTransient' /\ DoneAfterLast'
    BY <1>1, <1>2, InputSide DEF FifoTransient
  <1>6. EofAfterLast'
    BY <1>1, <1>2, <1>3, EofStep
  <1> QED BY <1>1, <1>3, <1>4, <1>5, <1>6
          DEF IndInv, PulseTiming, LoadQuiet, RoomForWord, EofPhase

LEMMA PulseReadStep == IndInv /\ PulseRead => IndInv'
  <1> SUFFICES ASSUME IndInv, PulseRead PROVE IndInv'
    OBVIOUS
  <1>1. pc = "pulse" /\ pc' = "take" /\ ret' = ret /\ query' = query /\ sent' = sent
    BY DEF PulseRead
  <1>2. Write("CONTROL", {"RD_OUT_FIFO"}) /\ HwEffect
    BY AnyEdge DEF PulseRead, Write
  <1>3. /\ ~din_valid_ctrl' /\ ~load_inst' /\ (eof_ctrl' => eof_ctrl)
        /\ data_in_reg' = data_in_reg /\ rwait' = 0
    BY <1>2, ControlWrite
  <1>4. Types'
    BY <1>1, <1>2, <1>3, EdgeTypes, AcceleratorAssumption DEF IndInv, Types, PCs
  <1>5. FifoTransient' /\ DoneAfterLast'
    BY <1>1, <1>2, InputSide DEF FifoTransient
  <1>6. EofAfterLast'
    BY <1>2, <1>3, EofStep
  <1>7. EofPhase'
    BY <1>1, <1>3 DEF EofPhase, IndInv
  <1> QED BY <1>1, <1>3, <1>4, <1>5, <1>6, <1>7
          DEF IndInv, PulseTiming, LoadQuiet, RoomForWord

LEMMA StutterStep == IndInv /\ UNCHANGED vars => IndInv'
  BY DEF IndInv, vars, hwVars, pipelineVars, slaveVars, cpuVars, fetchVars, operandVars,
         stage1Vars, limitVars, Types, PulseTiming, FifoTransient, LoadQuiet, RoomForWord,
         EofPhase, EofAfterLast, DoneAfterLast, limit_hit

LEMMA NextIndInv == IndInv /\ [Next]_vars => IndInv'
  BY StartStep, RefuseStep, FeedStatusStep, DrainStatusStep, TakeWordStep, PollStep,
     ReplyStep, WaitStep, ClearStep, SendInstructionStep, LoadInstructionStep,
     WriteWordStep, PushWordStep, SignalEofStep, PulseReadStep, StutterStep
     DEF Next, Firmware

LEMMA InvariantHolds == Spec => []IndInv
  BY InitIndInv, NextIndInv, PTL DEF Spec

-----------------------------------------------------------------------------

\* For every FIFO depth, table, query and every timing of the CPU, a row never
\* reaches limit.vhd together with the done token: the EOF write cannot overtake
\* the last row, because a status read with a wait state comes in between.
THEOREM NoRowMeetsDoneHolds == Spec => []NoRowMeetsDone
  <1>1. IndInv => NoRowMeetsDone
    BY DEF IndInv, DoneAfterLast, NoRowMeetsDone, where_valid_and
  <1> QED BY <1>1, InvariantHolds, PTL

\* For every FIFO depth, table, query and timing, no word that the firmware writes
\* meets a full input FIFO, although the full flag it acts on was read earlier.
THEOREM NoInputDroppedHolds == Spec => []NoInputDropped
  <1>1. IndInv => NoInputDropped
    BY PipelineAssumption DEF IndInv, Types, RoomForWord, NoInputDropped, In!Full
  <1> QED BY <1>1, InvariantHolds, PTL

-----------------------------------------------------------------------------
(* The output side.  A row is in one place at a time between its DIN_VALID *)
(* pulse and the output FIFO, and the next word is written only when the   *)
(* row before it has arrived.  The rows behind the limit do not count.     *)

\* A row is before the limit stage.
Coming == ~limit_hit /\ (din_valid_ctrl \/ in_fifo.q # <<>> \/ rd_en_pipe1 \/ rd_en_pipe2)

OneOnTheWay ==
    /\ Coming => ~limit_valid_out
    /\ ~limit_hit => /\ din_valid_ctrl => in_fifo.q = <<>> /\ ~rd_en_pipe1 /\ ~rd_en_pipe2
                     /\ in_fifo.q # <<>> => ~rd_en_pipe1 /\ ~rd_en_pipe2
                     /\ rd_en_pipe1 => ~rd_en_pipe2

\* Between a word and the next the output FIFO is drained: after the drain of a
\* word there is that word at most, on its way or in the FIFO, and during it the
\* word before it too.
Draining == pc \in {"drain", "pulse", "take"} /\ ret = "sent"

Occupancy ==
    /\ Len(out_fifo.q) <= 2
    /\ Draining /\ (Coming \/ limit_valid_out) => Len(out_fifo.q) <= 1
    /\ ~Draining => Len(out_fifo.q) <= 1
    /\ ~Draining /\ (Coming \/ limit_valid_out) => Len(out_fifo.q) = 0

\* The status read and the two writes of the next word are longer than the way
\* of a row through the pipeline.
Arrived ==
    /\ pc = "feed" /\ rwait > 0 => ~rd_en_pipe1
    /\ pc \in {"din", "din_valid"} => ~rd_en_pipe1 /\ ~rd_en_pipe2
    /\ pc = "din_valid" => ~limit_valid_out

\* Instructions are loaded with the pipeline empty.
LoadEmpty ==
    pc \in {"inst", "load"} \/ load_inst => ~rd_en_pipe1 /\ ~rd_en_pipe2 /\ ~limit_valid_out

RowTypes ==
    /\ in_fifo.dout \in Row /\ where_stage_dout \in Row /\ limit_stage_dout \in Row
    /\ out_fifo.q \in Seq(Row)

OutInv == RowTypes /\ OneOnTheWay /\ Occupancy /\ Arrived /\ LoadEmpty

\* What a clock edge does to the output side.  A reset leaves it empty.
Advances ==
    /\ rd_en_pipe2' => rd_en_pipe1
    /\ limit_valid_out' => rd_en_pipe2 /\ ~limit_hit
    /\ limit_hit => limit_hit'
    /\ Len(out_fifo'.q) <= Len(out_fifo.q) + 1
    /\ ~limit_valid_out => Len(out_fifo'.q) <= Len(out_fifo.q)

Emptied ==
    /\ in_fifo'.q = <<>> /\ ~rd_en_pipe1' /\ ~rd_en_pipe2' /\ ~limit_valid_out'
    /\ out_fifo'.q = <<>>

\* An edge out of reset moves every row one stage on.
LEMMA ClockAdvances ==
    ASSUME IndInv, OutInv, NEW i, NEW r,
           PipelineClock(data_in_reg, din_valid_ctrl, eof_ctrl, i, load_inst, r)
    PROVE  Advances /\ RowTypes'
  <1> DEFINE wr == out_fifo_wr_en(load_inst)
             kept == IF Out!Delivers(out_fifo, r) THEN Tail(out_fifo.q) ELSE out_fifo.q
  <1>1. /\ out_fifo.q \in Seq(Row) /\ limit_stage_dout \in Row
        /\ in_fifo.q \in Seq(Row) /\ in_fifo.dout \in Row /\ where_stage_dout \in Row
    BY DEF IndInv, Types, OutInv, RowTypes
  <1>2. kept \in Seq(Row) /\ Len(kept) \in Nat /\ Len(kept) <= Len(out_fifo.q) /\ Len(out_fifo.q) \in Nat
    BY <1>1 DEF Out!Delivers
  <1>3. out_fifo'.q = IF Out!Accepts(out_fifo, wr) THEN Append(kept, limit_stage_dout) ELSE kept
    BY DEF PipelineClock, Out!QueueClock
  <1>4. /\ out_fifo'.q \in Seq(Row)
        /\ Len(out_fifo'.q) = IF Out!Accepts(out_fifo, wr) THEN Len(kept) + 1 ELSE Len(kept)
    <2> HIDE DEF kept
    <2> QED BY <1>1, <1>2, <1>3
  <1>5. Out!Accepts(out_fifo, wr) => limit_valid_out
    BY DEF Out!Accepts, out_fifo_wr_en
  <1>6. /\ Len(out_fifo'.q) <= Len(out_fifo.q) + 1
        /\ ~limit_valid_out => Len(out_fifo'.q) <= Len(out_fifo.q)
    <2> HIDE DEF kept
    <2> QED BY <1>2, <1>4, <1>5
  <1>7. in_fifo'.dout \in Row
    BY <1>1 DEF PipelineClock, In!QueueClock, In!Delivers
  <1>8. where_stage_dout' \in Row /\ limit_stage_dout' \in Row
    BY <1>1 DEF PipelineClock, Stage1, LimitStage
  <1>9. /\ rd_en_pipe2' => rd_en_pipe1
        /\ limit_valid_out' => rd_en_pipe2 /\ ~limit_hit
    BY DEF PipelineClock, Stage1, LimitStage, where_valid_and, limit_hit
  <1>10. limit_hit => limit_hit'
    BY LimitStays
  <1> QED BY <1>4, <1>6, <1>7, <1>8, <1>9, <1>10 DEF Advances, RowTypes

\* An edge in reset.
LEMMA ResetEmpties ==
    ASSUME PipelineReset
    PROVE  Emptied /\ RowTypes'
  BY PipelineAssumption DEF PipelineReset, Emptied, RowTypes, In!Cleared, Out!Cleared, ZeroRow, Row

\* Any edge.
LEMMA EdgeAdvances ==
    ASSUME IndInv, OutInv, NEW w, NEW a, NEW d, HwClock(w, a, d)
    PROVE  HwEffect /\ (Advances \/ Emptied) /\ RowTypes'
  BY AnyEdge, ClockAdvances, ResetEmpties DEF HwClock

\* The edge of a write.
LEMMA WriteAdvances ==
    ASSUME IndInv, OutInv, NEW a, NEW d, Write(a, d)
    PROVE  HwEffect /\ (Advances \/ Emptied) /\ RowTypes'
  BY EdgeAdvances DEF Write

\* With no new word, what is on its way was on its way before, one stage earlier.
LEMMA OutputSide ==
    ASSUME IndInv, OutInv, HwEffect, Advances \/ Emptied, RowTypes', ~din_valid_ctrl'
    PROVE  /\ OneOnTheWay'
           /\ Coming' \/ limit_valid_out' => Coming /\ Len(out_fifo'.q) <= Len(out_fifo.q)
           /\ Len(out_fifo.q) \in Nat /\ Len(out_fifo'.q) \in Nat
           /\ \/ Len(out_fifo'.q) <= Len(out_fifo.q)
              \/ limit_valid_out /\ Len(out_fifo'.q) <= Len(out_fifo.q) + 1
  <1>1. Len(out_fifo.q) \in Nat /\ Len(out_fifo'.q) \in Nat
    BY DEF OutInv, RowTypes
  <1>2. CASE Emptied
    <2>1. Len(out_fifo'.q) = 0
      BY <1>2 DEF Emptied
    <2> QED BY <1>1, <1>2, <2>1 DEF Emptied, OneOnTheWay, Coming
  <1>3. CASE Advances
    <2>1. /\ ~limit_hit' => ~limit_hit
          /\ in_fifo'.q # <<>> => limit_hit' \/ din_valid_ctrl
          /\ rd_en_pipe1' => in_fifo.q # <<>> /\ ~limit_hit
          /\ rd_en_pipe2' => rd_en_pipe1
          /\ limit_valid_out' => rd_en_pipe2 /\ ~limit_hit
      BY <1>3 DEF Advances, HwEffect
    <2>2. Coming' \/ limit_valid_out' => Coming
      BY <2>1 DEF Coming
    <2>3. OneOnTheWay'
      BY <2>1 DEF Coming, OneOnTheWay, OutInv
    <2>4. Coming => ~limit_valid_out
      BY DEF OutInv, OneOnTheWay
    <2> QED BY <1>1, <1>3, <2>2, <2>3, <2>4 DEF Advances
  <1> QED BY <1>2, <1>3

\* A step that writes no word.  The drain of a word ends with the output FIFO
\* empty, and the next word is written after a status read and a write.
LEMMA OutStep ==
    ASSUME IndInv, OutInv, HwEffect, Advances \/ Emptied, RowTypes', ~din_valid_ctrl',
           Draining /\ ~Draining' => out_fifo.q = <<>>,
           pc' = "feed" /\ rwait' > 0 => pc = "feed",
           pc' = "din" => pc = "din" \/ (pc = "feed" /\ rwait > 0),
           pc' = "din_valid" => pc \in {"din", "din_valid"},
           pc' \in {"inst", "load"} \/ load_inst' => pc \in {"inst", "load"} \/ Emptied
    PROVE  OutInv'
  <1>1. Occupancy'
    <2>1. CASE Draining'
      BY <2>1, OutputSide DEF Occupancy, OutInv
    <2>2. CASE ~Draining'
      <3>1. /\ Len(out_fifo.q) <= 1
            /\ Coming \/ limit_valid_out => Len(out_fifo.q) = 0
        BY <2>2 DEF Occupancy, OutInv
      <3> QED BY <2>2, <3>1, OutputSide DEF Occupancy
    <2> QED BY <2>1, <2>2
  <1>2. /\ rd_en_pipe1' => in_fifo.q # <<>> /\ ~limit_hit
        /\ rd_en_pipe2' => rd_en_pipe1
        /\ limit_valid_out' => rd_en_pipe2
    BY DEF Advances, Emptied, HwEffect
  <1>3. Arrived'
    BY <1>2 DEF Arrived, OutInv, IndInv, FifoTransient
  <1>4. LoadEmpty'
    BY <1>2 DEF LoadEmpty, OutInv, IndInv, LoadQuiet, Emptied
  <1> QED BY <1>1, <1>3, <1>4, OutputSide DEF OutInv

\* DIN_VALID is written when the row before has arrived in the output FIFO.
LEMMA OutPushWord == IndInv /\ OutInv /\ PushWord => OutInv'
  <1> SUFFICES ASSUME IndInv, OutInv, PushWord PROVE OutInv'
    OBVIOUS
  <1>1. pc = "din_valid" /\ pc' = "drain" /\ ret' = "sent" /\ Write("CONTROL", {"DIN_VALID"})
    BY DEF PushWord
  <1>2. HwEffect /\ (Advances \/ Emptied) /\ RowTypes' /\ ~load_inst'
    BY <1>1, WriteAdvances, ControlWrite
  <1>3. ~din_valid_ctrl /\ (in_fifo.q # <<>> => limit_hit)
    BY <1>1 DEF IndInv, PulseTiming, FifoTransient
  <1>4. ~rd_en_pipe1 /\ ~rd_en_pipe2 /\ ~limit_valid_out /\ Len(out_fifo.q) <= 1
    BY <1>1 DEF OutInv, Arrived, Occupancy, Draining
  <1>5. /\ ~rd_en_pipe1' /\ ~rd_en_pipe2' /\ ~limit_valid_out'
        /\ in_fifo'.q # <<>> => limit_hit'
    BY <1>2, <1>3, <1>4 DEF HwEffect, Advances, Emptied
  <1>6. Len(out_fifo'.q) <= 1
    <2>1. Len(out_fifo.q) \in Nat /\ Len(out_fifo'.q) \in Nat
      BY <1>2 DEF OutInv, RowTypes
    <2>2. CASE Emptied
      BY <2>2 DEF Emptied
    <2>3. CASE Advances
      BY <1>4, <2>1, <2>3 DEF Advances
    <2> QED BY <1>2, <2>2, <2>3
  <1>7. Occupancy'
    <2>1. Draining' /\ Len(out_fifo'.q) \in Nat
      BY <1>1, <1>2 DEF Draining, RowTypes
    <2> QED BY <1>6, <2>1 DEF Occupancy
  <1>8. OneOnTheWay' /\ Arrived' /\ LoadEmpty'
    BY <1>1, <1>2, <1>5 DEF OneOnTheWay, Coming, Arrived, LoadEmpty
  <1> QED BY <1>2, <1>7, <1>8 DEF OutInv

\* The steps without a write.
LEMMA OutNoAccess ==
    ASSUME IndInv, OutInv, NoAccess,
           Draining /\ ~Draining' => out_fifo.q = <<>>,
           pc' = "feed" /\ rwait' > 0 => pc = "feed",
           pc' = "din" => pc = "din" \/ (pc = "feed" /\ rwait > 0),
           pc' = "din_valid" => pc \in {"din", "din_valid"},
           pc' \in {"inst", "load"} => pc \in {"inst", "load"}
    PROVE  OutInv'
  <1>1. HwEffect /\ (Advances \/ Emptied) /\ RowTypes'
    BY EdgeAdvances DEF NoAccess
  <1> QED BY <1>1, QuietBus, OutStep

\* The reads and the steps that use no access.
LEMMA OutReads ==
    IndInv /\ OutInv /\ (\/ Start \/ Refuse \/ FeedStatus \/ DrainStatus \/ TakeWord \/ Poll
                         \/ ReplyRows \/ ReplyCount \/ ReplySum \/ ReadWait \/ Idle) => OutInv'
  <1> SUFFICES ASSUME IndInv, OutInv PROVE (\/ Start \/ Refuse \/ FeedStatus \/ DrainStatus \/ TakeWord
                         \/ Poll \/ ReplyRows \/ ReplyCount \/ ReplySum \/ ReadWait \/ Idle) => OutInv'
    OBVIOUS
  <1>1. ASSUME Start PROVE OutInv'
    BY <1>1, OutNoAccess DEF Start, Draining
  <1>2. ASSUME Refuse PROVE OutInv'
    BY <1>2, OutNoAccess DEF Refuse, Draining
  <1>3. ASSUME FeedStatus PROVE OutInv'
    <2>1. pc = "feed" /\ rwait > 0 /\ NoAccess /\ pc' \in {"din", "drain"}
      BY <1>3, AcceleratorAssumption DEF FeedStatus, Sample
    <2> QED BY <2>1, OutNoAccess DEF Draining
  <1>4. ASSUME DrainStatus PROVE OutInv'
    <2>1. pc = "drain" /\ NoAccess /\ ret' = ret /\ rwait' = 0
      BY <1>4 DEF DrainStatus, Sample
    <2>2. /\ pc' \in {"feed", "eof", "poll", "answer", "pulse"}
          /\ pc' # "pulse" => out_fifo.q = <<>>
      <3>1. STATUS_OUT_FIFO_EMPTY => out_fifo.q = <<>>
        BY EmptySeq DEF STATUS_OUT_FIFO_EMPTY, Out!Empty, OutInv, RowTypes
      <3> QED BY <1>4, <3>1 DEF DrainStatus, DrainReturns, TimeOut
    <2> QED BY <2>1, <2>2, OutNoAccess DEF Draining
  <1>5. ASSUME TakeWord PROVE OutInv'
    BY <1>5, OutNoAccess DEF TakeWord, Sample, Draining
  <1>6. ASSUME Poll PROVE OutInv'
    <2>1. pc = "poll" /\ NoAccess /\ pc' \in {"answer", "drain"}
      BY <1>6 DEF Poll, Sample, TimeOut
    <2> QED BY <2>1, OutNoAccess DEF Draining
  <1>7. ASSUME ReplyRows \/ ReplyCount \/ ReplySum PROVE OutInv'
    <2>1. pc = "answer" /\ NoAccess /\ pc' = "idle"
      BY <1>7 DEF ReplyRows, ReplyCount, ReplySum, Reply, Sample
    <2> QED BY <2>1, OutNoAccess DEF Draining
  <1>8. ASSUME ReadWait \/ Idle PROVE OutInv'
    <2>1. pc' = pc /\ ret' = ret /\ NoAccess
      BY <1>8 DEF ReadWait, Idle, cpuVars
    <2> QED BY <2>1, OutNoAccess DEF Draining
  <1> QED BY <1>1, <1>2, <1>3, <1>4, <1>5, <1>6, <1>7, <1>8

\* The writes other than DIN_VALID.
LEMMA OutWrites ==
    ASSUME IndInv, OutInv,
           Clear \/ SendInstruction \/ LoadInstruction \/ WriteWord \/ SignalEof \/ PulseRead
    PROVE  OutInv'
  <1>1. CASE Clear
    <2>1. pc = "clear" /\ Write("CONTROL", {"RST"}) /\ pc' \in {"inst", "refuse", "feed", "answer"}
      BY <1>1 DEF Clear, AfterInstructions
    <2>2. HwEffect /\ RowTypes' /\ ~din_valid_ctrl' /\ ~load_inst' /\ rwait' = 0
      BY <2>1, WriteAdvances, ControlWrite
    <2>3. sw_rst'
      BY <2>1 DEF Write, HwClock, ControlRegisters
    <2>4. Emptied
      BY <2>1, <2>3, ResetEmpties DEF Write, HwClock
    <2> QED BY <2>1, <2>2, <2>4, OutStep DEF Draining
  <1>2. CASE SendInstruction
    <2>1. pc = "inst" /\ pc' = "load" /\ \E d : Write("INSTRUCTION", d)
      BY <1>2 DEF SendInstruction
    <2>2. HwEffect /\ (Advances \/ Emptied) /\ RowTypes' /\ ~din_valid_ctrl' /\ ~load_inst'
      BY <2>1, WriteAdvances, DataWrite
    <2> QED BY <2>1, <2>2, OutStep DEF Draining
  <1>3. CASE LoadInstruction
    <2>1. /\ pc = "load" /\ Write("CONTROL", {"LOAD_INST"})
          /\ pc' \in {"inst", "refuse", "feed", "answer"}
      BY <1>3 DEF LoadInstruction, AfterInstructions
    <2>2. HwEffect /\ (Advances \/ Emptied) /\ RowTypes' /\ ~din_valid_ctrl' /\ rwait' = 0
      BY <2>1, WriteAdvances, ControlWrite
    <2> QED BY <2>1, <2>2, OutStep DEF Draining
  <1>4. CASE WriteWord
    <2>1. pc = "din" /\ pc' = "din_valid" /\ \E d : Write("DATA_IN", d)
      BY <1>4 DEF WriteWord
    <2>2. HwEffect /\ (Advances \/ Emptied) /\ RowTypes' /\ ~din_valid_ctrl' /\ ~load_inst'
      BY <2>1, WriteAdvances, DataWrite
    <2> QED BY <2>1, <2>2, OutStep DEF Draining
  <1>5. CASE SignalEof
    <2>1. pc = "eof" /\ pc' = "drain" /\ Write("CONTROL", {"INPUT_EOF"})
      BY <1>5 DEF SignalEof
    <2>2. HwEffect /\ (Advances \/ Emptied) /\ RowTypes' /\ ~din_valid_ctrl' /\ ~load_inst'
      BY <2>1, WriteAdvances, ControlWrite
    <2> QED BY <2>1, <2>2, OutStep DEF Draining
  <1>6. CASE PulseRead
    <2>1. pc = "pulse" /\ pc' = "take" /\ ret' = ret /\ Write("CONTROL", {"RD_OUT_FIFO"})
      BY <1>6 DEF PulseRead
    <2>2. HwEffect /\ (Advances \/ Emptied) /\ RowTypes' /\ ~din_valid_ctrl' /\ ~load_inst'
      BY <2>1, WriteAdvances, ControlWrite
    <2> QED BY <2>1, <2>2, OutStep DEF Draining
  <1> QED BY <1>1, <1>2, <1>3, <1>4, <1>5, <1>6

\* Every step keeps the rows apart.
LEMMA NextOutInv == IndInv /\ OutInv /\ [Next]_vars => OutInv'
  <1> SUFFICES ASSUME IndInv, OutInv, [Next]_vars PROVE OutInv'
    OBVIOUS
  <1>1. CASE UNCHANGED vars
    BY <1>1 DEF OutInv, vars, hwVars, pipelineVars, slaveVars, cpuVars, fetchVars, operandVars,
                stage1Vars, limitVars, RowTypes, OneOnTheWay, Occupancy, Arrived, LoadEmpty,
                Coming, Draining, limit_hit
  <1> QED BY <1>1, OutReads, OutWrites, OutPushWord DEF Next, Firmware

\* Initially the pipeline is empty.
LEMMA InitOutInv == Init => OutInv
  BY PipelineAssumption
     DEF Init, HwInit, PipelineInit, OutInv, RowTypes, OneOnTheWay, Occupancy, Arrived,
         LoadEmpty, Coming, Draining, In!Cleared, Out!Cleared, ZeroRow, Row, limit_hit

\* With FIFOs of at least two words, whatever the table, the query and the timing, no row that
\* leaves the pipeline meets a full output FIFO, which it could not stop, or an instruction that
\* is being loaded.  (One word is not enough: the next row arrives while the one before waits for
\* a CPU that is preempted.)
THEOREM NoOutputDroppedHolds ==
    ASSUME FIFO_DEPTH > 1
    PROVE  Spec => []NoOutputDropped
  <1>1. OutInv => NoOutputDropped
    <2> SUFFICES ASSUME OutInv PROVE NoOutputDropped
      OBVIOUS
    <2>1. limit_valid_out => Len(out_fifo.q) <= 1
      BY DEF OutInv, Occupancy
    <2>2. Len(out_fifo.q) \in Nat /\ FIFO_DEPTH \in Nat
      BY PipelineAssumption DEF OutInv, RowTypes
    <2>3. limit_valid_out => ~Out!Full(out_fifo)
      BY <2>1, <2>2 DEF Out!Full
    <2> QED BY <2>3 DEF NoOutputDropped, out_fifo_wr_en, count_valid_in, OutInv, LoadEmpty
  <1> QED BY <1>1, InvariantHolds, InitOutInv, NextOutInv, PTL DEF Spec

-----------------------------------------------------------------------------
(* Types.  An instruction that reaches the fetcher names a column of the rows; *)
(* the firmware stops counting where TypeOK says.                              *)

\* A set of numbers has a least one.
LEMMA LeastNat ==
    ASSUME NEW S \in SUBSET Nat, S # {}
    PROVE  \E n \in S : \A m \in S : n <= m
  <1> DEFINE R == {ss \in Nat \X Nat : ss[1] < ss[2]}
  <1>1. IsWellFoundedOn(R, Nat)
    BY NatLessThanWellFounded, Zenon DEF OpToRel
  <1>2. PICK n \in S : \A m \in S : <<m, n>> \notin R
    <2> HIDE DEF R
    <2> QED BY <1>1, WFMin
  <1>3. \A m \in S : ~ (m < n)
    <2>1. \A m, l \in Nat : m < l => <<m, l>> \in R
      OBVIOUS
    <2> HIDE DEF R
    <2> QED BY <1>2, <2>1
  <1> QED BY <1>3

\* The words that the fetcher can decode.
Instruction == {i \in Nat : Opcode(i) \in {OP_COUNT, OP_SUM} => AggColumn(i) \in Columns}

\* The operator field of a condition.
LEMMA OpCodeType == \A op : OpCode(op) \in {0, 1, 2, 3, 4, 5}
  BY Zenon DEF OpCode

\* What the compiler packs is such a word.
LEMMA EncodedWords ==
    /\ \A l \in Nat : EncodeLimit(l) \in Instruction
    /\ \A c \in Int, v \in Int, o \in {0, 1, 2, 3, 4, 5} : EncodeWhere(c, v, o) \in Instruction
    /\ \A c \in Columns : EncodeCount(c) \in Instruction /\ EncodeSum(c) \in Instruction
  <1>1. ASSUME NEW l \in Nat PROVE EncodeLimit(l) \in Instruction
    <2>1. EncodeLimit(l) \in Nat /\ Opcode(EncodeLimit(l)) = 2
      BY DEF EncodeLimit, OP_LIMIT, Opcode
    <2> QED BY <2>1 DEF Instruction, OP_COUNT, OP_SUM
  <1>2. ASSUME NEW c \in Int, NEW v \in Int, NEW o \in {0, 1, 2, 3, 4, 5}
        PROVE  EncodeWhere(c, v, o) \in Instruction
    <2>1. EncodeWhere(c, v, o) \in Nat /\ Opcode(EncodeWhere(c, v, o)) = 1
      <3> DEFINE x == c % 64
                 y == v % 256
                 z == o % 8
      <3>1. x \in 0..63 /\ y \in 0..255 /\ z \in 0..7
        OBVIOUS
      <3>2. EncodeWhere(c, v, o) = 268435456 + x * 2048 + y * 8 + z
        BY DEF EncodeWhere, OP_WHERE
      <3> HIDE DEF x, y, z
      <3> QED BY <3>1, <3>2 DEF Opcode
    <2> QED BY <2>1 DEF Instruction, OP_COUNT, OP_SUM
  <1>3. ASSUME NEW c \in Columns
        PROVE  EncodeCount(c) \in Instruction /\ EncodeSum(c) \in Instruction
    <2>1. c \in 0..63
      BY PipelineAssumption DEF Columns
    <2>2. EncodeCount(c) \in Nat /\ AggColumn(EncodeCount(c)) = c
      BY <2>1 DEF EncodeCount, OP_COUNT, AggColumn
    <2>3. EncodeSum(c) \in Nat /\ AggColumn(EncodeSum(c)) = c
      BY <2>1 DEF EncodeSum, OP_SUM, AggColumn
    <2> QED BY <2>2, <2>3 DEF Instruction
  <1> QED BY <1>1, <1>2, <1>3

\* What a query is, also before the first one.
LEMMA QueryType ==
    ASSUME NEW q \in Queries \cup {NoQuery}
    PROVE  /\ q.rows \in Seq(Row) /\ q.limit \in Nat
           /\ q.where \in Seq(WhereCondition)
           /\ q.agg \in {"NONE", "COUNT", "SUM"} /\ q.col \in -1..(NUM_COLS - 1)
  <1>1. CASE q \in Queries
    BY <1>1, QueriesAssumption
  <1>2. CASE q = NoQuery
    <2>1. /\ q.rows = <<>> /\ q.limit = 0 /\ q.where = <<>> /\ q.agg = "NONE" /\ q.col = 0
      BY <1>2 DEF NoQuery
    <2>2. q.col \in -1..(NUM_COLS - 1)
      BY <2>1, PipelineAssumption
    <2>3. q.rows \in Seq(Row) /\ q.where \in Seq(WhereCondition)
      BY <2>1
    <2> QED BY <2>1, <2>2, <2>3
  <1> QED BY <1>1, <1>2

\* The compiler stops at a condition, or after the last one.
LEMMA WhereStopType ==
    ASSUME NEW q \in Queries \cup {NoQuery}
    PROVE  WhereStop(q) \in 1..(Len(q.where) + 1)
  <1> DEFINE bad == {i \in DOMAIN q.where : q.where[i].col < 0 \/ i > WHERE_MAX}
  <1>1. q.where \in Seq(WhereCondition) /\ Len(q.where) \in Nat
    BY QueryType
  <1>2. bad \subseteq 1..Len(q.where)
    BY <1>1
  <1>3. CASE bad = {}
    BY <1>1, <1>3 DEF WhereStop
  <1>4. CASE bad # {}
    <2>1. WhereStop(q) = CHOOSE i \in bad : \A j \in bad : i <= j
      BY <1>4 DEF WhereStop
    <2>2. \E i \in bad : \A j \in bad : i <= j
      <3> HIDE DEF bad
      <3>1. bad \subseteq Nat
        BY <1>1, <1>2
      <3> QED BY <1>4, <3>1, LeastNat
    <2>3. WhereStop(q) \in bad
      <3> HIDE DEF bad
      <3> QED BY <2>1, <2>2
    <2> QED BY <1>1, <1>2, <2>3
  <1> QED BY <1>3, <1>4

\* The program of a query is a sequence of words that the fetcher can decode.
LEMMA ProgramType ==
    ASSUME NEW q \in Queries \cup {NoQuery}
    PROVE  Program(q) \in Seq(Instruction)
  <1> DEFINE lim == IF Limit(q) > 0 THEN <<EncodeLimit(Limit(q))>> ELSE <<>>
             n == WhereStop(q) - 1
             conds == [i \in 1..n |-> EncodeWhere(q.where[i].col, q.where[i].val, OpCode(q.where[i].op))]
             agg == IF CompileFails(q) \/ q.agg = "NONE" THEN <<>>
                    ELSE IF q.agg = "COUNT" THEN <<EncodeCount(q.col)>> ELSE <<EncodeSum(q.col)>>
  <1>1. lim \in Seq(Instruction)
    <2>1. Limit(q) \in Nat
      BY QueryType, AcceleratorAssumption DEF Limit
    <2> QED BY <2>1, EncodedWords
  <1>2. conds \in Seq(Instruction)
    <2>1. n \in Nat /\ n <= Len(q.where) /\ q.where \in Seq(WhereCondition)
      BY WhereStopType, QueryType
    <2>2. ASSUME NEW i \in 1..n
          PROVE  EncodeWhere(q.where[i].col, q.where[i].val, OpCode(q.where[i].op)) \in Instruction
      <3>1. q.where[i] \in WhereCondition
        BY <2>1
      <3>2. q.where[i].col \in Int /\ q.where[i].val \in Int
        BY <3>1, PipelineAssumption DEF WhereCondition
      <3> QED BY <3>2, OpCodeType, EncodedWords
    <2> HIDE DEF n
    <2> QED BY <2>1, <2>2
  <1>3. agg \in Seq(Instruction)
    <2>1. CASE CompileFails(q) \/ q.agg = "NONE"
      BY <2>1
    <2>2. CASE ~CompileFails(q)
      <3>1. q.col \in Columns
        BY <2>2, QueryType, PipelineAssumption DEF CompileFails, SelectFails, Columns
      <3> QED BY <3>1, EncodedWords
    <2> QED BY <2>1, <2>2
  <1>4. Program(q) = lim \o conds \o agg
    BY DEF Program
  <1> HIDE DEF lim, conds, agg
  <1> QED BY <1>1, <1>2, <1>3, <1>4

-----------------------------------------------------------------------------
(* The registers. *)

Queues == {f \in [q : Seq(Row), dout : Row] : Len(f.q) <= FIFO_DEPTH}

\* A queue of rows stays one.
LEMMA QueueType ==
    ASSUME NEW f \in Queues, NEW wr, NEW rd, NEW din \in Row
    PROVE  /\ In!QueueClock(f, wr, rd, din) \in Queues
           /\ Out!QueueClock(f, wr, rd, din) \in Queues
  <1> DEFINE kept == IF rd /\ Len(f.q) > 0 THEN Tail(f.q) ELSE f.q
             q == IF wr /\ Len(f.q) < FIFO_DEPTH THEN Append(kept, din) ELSE kept
             dout == IF rd /\ Len(f.q) > 0 THEN Head(f.q) ELSE f.dout
  <1>1. f.q \in Seq(Row) /\ f.dout \in Row /\ Len(f.q) \in Nat /\ Len(f.q) <= FIFO_DEPTH
    BY DEF Queues
  <1>2. kept \in Seq(Row) /\ Len(kept) <= Len(f.q) /\ Len(kept) \in Nat /\ dout \in Row
    BY <1>1
  <1>3. q \in Seq(Row) /\ Len(q) <= FIFO_DEPTH
    <2> HIDE DEF kept
    <2> QED BY <1>1, <1>2, PipelineAssumption
  <1>4. [q |-> q, dout |-> dout] \in Queues
    <2> HIDE DEF q, dout
    <2> QED BY <1>2, <1>3 DEF Queues
  <1>5. /\ In!QueueClock(f, wr, rd, din) = [q |-> q, dout |-> dout]
        /\ Out!QueueClock(f, wr, rd, din) = [q |-> q, dout |-> dout]
    BY DEF In!QueueClock, In!Accepts, In!Delivers, Out!QueueClock, Out!Accepts, Out!Delivers
  <1> QED BY <1>4, <1>5

LEMMA ClearedType == In!Cleared \in Queues /\ Out!Cleared \in Queues /\ ZeroRow \in Row
  <1>1. ZeroRow \in Row
    BY PipelineAssumption DEF ZeroRow, Row
  <1>2. [q |-> <<>>, dout |-> ZeroRow] \in Queues
    BY <1>1, PipelineAssumption DEF Queues
  <1> QED BY <1>1, <1>2 DEF In!Cleared, Out!Cleared

\* Remainders are below the modulus.
LEMMA Remainder == \A a \in Int, m \in Nat \ {0} : a % m \in 0..(m - 1)
  OBVIOUS

\* The registers that hold flags, those that hold numbers, and those that hold rows.
FlagTypes ==
    /\ limit_active \in BOOLEAN /\ where_valid_out \in [Units -> BOOLEAN]
    /\ rd_en_pipe1 \in BOOLEAN /\ rd_en_pipe2 \in BOOLEAN /\ stage1_done \in BOOLEAN
    /\ internal_hit \in BOOLEAN /\ limit_valid_out \in BOOLEAN /\ limit_done_out \in BOOLEAN
    /\ stage3_done \in BOOLEAN

NumberTypes ==
    /\ where_inst \in [Units -> Nat] /\ where_active_cnt \in 0..NUM_WHERE
    /\ limit_count \in 0..255
    /\ acc_out \in 0..(ACC_MOD - 1) /\ sum_out \in 0..(ACC_MOD - 1)

StageTypes ==
    /\ in_fifo \in Queues /\ out_fifo \in Queues
    /\ where_stage_dout \in Row /\ limit_stage_dout \in Row

OperandTypes == limit_val_reg \in 0..255 /\ count_col_idx \in Columns

SlaveTypes ==
    /\ data_in_reg \in Row /\ inst_reg \in Instruction
    /\ write_prev \in BOOLEAN
    /\ din_valid_ctrl \in BOOLEAN /\ load_inst \in BOOLEAN /\ rd_out_fifo \in BOOLEAN
    /\ sw_rst \in BOOLEAN /\ eof_ctrl \in BOOLEAN

HwTypes == FlagTypes /\ NumberTypes /\ StageTypes /\ OperandTypes /\ SlaveTypes

LEMMA HwTypesSuffice == HwTypes => HwTypeOK
  BY DEF HwTypes, FlagTypes, NumberTypes, StageTypes, OperandTypes, SlaveTypes, Queues, Instruction,
         HwTypeOK, PipelineTypeOK

\* The reset.
LEMMA ResetTypes ==
    ASSUME PipelineReset
    PROVE  FlagTypes' /\ NumberTypes' /\ StageTypes'
  <1>1. FlagTypes'
    BY DEF PipelineReset, ClearFetcher, FlagTypes, Units
  <1>2. NumberTypes'
    <2>1. ACC_MOD - 1 \in Nat /\ NUM_WHERE \in Nat
      BY PipelineAssumption
    <2> QED BY <2>1 DEF PipelineReset, ClearFetcher, NumberTypes, Units
  <1>3. StageTypes'
    BY ClearedType DEF PipelineReset, StageTypes, Queues
  <1> QED BY <1>1, <1>2, <1>3

\* A clock edge.
LEMMA ClockTypes ==
    ASSUME HwTypes,
           PipelineClock(data_in_reg, din_valid_ctrl, eof_ctrl, inst_reg, load_inst, rd_out_fifo)
    PROVE  FlagTypes' /\ NumberTypes' /\ StageTypes'
  <1>1. FlagTypes'
    <2>1. limit_active' \in BOOLEAN
      BY DEF PipelineClock, InstructionFetcher
    <2>2. where_valid_out' \in [Units -> BOOLEAN]
      <3>1. \A i \in Units : op_result(where_inst[i], in_fifo.dout) \in BOOLEAN
        BY DEF op_result
      <3> QED BY <3>1 DEF PipelineClock, WhereFilters
    <2>3. rd_en_pipe1' \in BOOLEAN /\ rd_en_pipe2' \in BOOLEAN /\ stage1_done' \in BOOLEAN
      BY DEF PipelineClock, Stage1, HwTypes, FlagTypes, fifo_rd_en
    <2>4. internal_hit' \in BOOLEAN /\ limit_valid_out' \in BOOLEAN /\ limit_done_out' \in BOOLEAN
      BY Zenon DEF PipelineClock, LimitStage, HwTypes, FlagTypes, where_valid_and
    <2>5. stage3_done' \in BOOLEAN
      BY DEF PipelineClock
    <2> QED BY <2>1, <2>2, <2>3, <2>4, <2>5 DEF FlagTypes, Units
  <1>2. NumberTypes'
    <2>1. where_inst' \in [Units -> Nat] /\ where_active_cnt' \in 0..NUM_WHERE
      <3>1. inst_reg \in Nat
        BY DEF HwTypes, SlaveTypes, Instruction
      <3>2. \/ /\ where_active_cnt < NUM_WHERE
               /\ where_inst' = [where_inst EXCEPT ![where_active_cnt] = inst_reg]
               /\ where_active_cnt' = where_active_cnt + 1
            \/ UNCHANGED <<where_inst, where_active_cnt>>
        BY DEF PipelineClock, InstructionFetcher
      <3> QED BY <3>1, <3>2, PipelineAssumption DEF HwTypes, NumberTypes
    <2>2. limit_count' \in 0..255
      <3>1. limit_count' = (limit_count + 1) % 256 \/ limit_count' = limit_count
        BY DEF PipelineClock, LimitStage
      <3> QED BY <3>1 DEF HwTypes, NumberTypes
    <2>3. acc_out' \in 0..(ACC_MOD - 1)
      <3>1. acc_out' = (acc_out + 1) % ACC_MOD \/ acc_out' = acc_out
        BY DEF PipelineClock, CountStage
      <3>2. acc_out + 1 \in Int
        BY PipelineAssumption DEF HwTypes, NumberTypes
      <3> QED BY <3>1, <3>2, Remainder, PipelineAssumption DEF HwTypes, NumberTypes
    <2>4. sum_out' \in 0..(ACC_MOD - 1)
      <3> DEFINE digit == (limit_stage_dout[count_col_idx] - 48) % 256
      <3>1. sum_out' = (sum_out + digit) % ACC_MOD \/ sum_out' = sum_out
        BY DEF PipelineClock, SumStage
      <3>2. limit_stage_dout[count_col_idx] \in Int
        <4>1. limit_stage_dout \in [Columns -> Bytes] /\ count_col_idx \in Columns
          BY DEF HwTypes, StageTypes, OperandTypes, Row
        <4>2. limit_stage_dout[count_col_idx] \in Bytes
          BY <4>1
        <4>3. \A b \in Bytes : b \in 0..255
          BY PipelineAssumption, Zenon
        <4> HIDE DEF digit
        <4> QED BY <4>2, <4>3
      <3>3. digit \in Int
        BY <3>2
      <3> HIDE DEF digit
      <3>4. sum_out + digit \in Int
        BY <3>3, PipelineAssumption DEF HwTypes, NumberTypes
      <3> QED BY <3>1, <3>4, Remainder, PipelineAssumption DEF HwTypes, NumberTypes
    <2> QED BY <2>1, <2>2, <2>3, <2>4 DEF NumberTypes, Units
  <1>3. StageTypes'
    <2>1. /\ in_fifo \in Queues /\ out_fifo \in Queues /\ data_in_reg \in Row
          /\ limit_stage_dout \in Row /\ where_stage_dout \in Row /\ in_fifo.dout \in Row
      BY DEF HwTypes, StageTypes, SlaveTypes, Queues
    <2>2. in_fifo' \in Queues /\ out_fifo' \in Queues
      BY <2>1, QueueType DEF PipelineClock
    <2>3. where_stage_dout' \in Row /\ limit_stage_dout' \in Row
      BY <2>1 DEF PipelineClock, Stage1, LimitStage
    <2> QED BY <2>2, <2>3 DEF StageTypes, Queues
  <1> QED BY <1>1, <1>2, <1>3

\* The words that the firmware puts on the bus.
BusTypes(w, a, d) ==
    /\ w \in BOOLEAN
    /\ w /\ a = "DATA_IN" => d \in Row
    /\ w /\ a = "INSTRUCTION" => d \in Instruction

\* An edge with such a word on the bus.
LEMMA EdgeHwTypes ==
    ASSUME HwTypes, NEW w, NEW a, NEW d, BusTypes(w, a, d), HwClock(w, a, d)
    PROVE  HwTypes'
  <1>1. FlagTypes' /\ NumberTypes' /\ StageTypes'
    BY ResetTypes, ClockTypes DEF HwClock
  <1>2. OperandTypes'
    <2>1. limit_val_reg' = LimitField(inst_reg) \/ limit_val_reg' = limit_val_reg
      BY DEF HwClock, LatchOperands
    <2>2. LimitField(inst_reg) \in 0..255
      BY DEF LimitField, HwTypes, SlaveTypes, Instruction
    <2>3. \/ Opcode(inst_reg) \in {OP_COUNT, OP_SUM} /\ count_col_idx' = AggColumn(inst_reg)
          \/ count_col_idx' = count_col_idx
      BY DEF HwClock, LatchOperands
    <2>4. count_col_idx' \in Columns
      BY <2>3 DEF HwTypes, SlaveTypes, OperandTypes, Instruction
    <2>5. limit_val_reg' \in 0..255
      BY <2>1, <2>2 DEF HwTypes, OperandTypes
    <2> QED BY <2>4, <2>5 DEF OperandTypes, Columns
  <1>3. SlaveTypes'
    <2>1. data_in_reg' \in Row /\ inst_reg' \in Instruction
      BY DEF HwClock, BusTypes, HwTypes, SlaveTypes
    <2>2. /\ din_valid_ctrl' \in BOOLEAN /\ load_inst' \in BOOLEAN /\ rd_out_fifo' \in BOOLEAN
          /\ sw_rst' \in BOOLEAN /\ eof_ctrl' \in BOOLEAN
      BY DEF HwClock, ControlRegisters
    <2>3. write_prev' \in BOOLEAN
      BY DEF HwClock, BusTypes
    <2> QED BY <2>1, <2>2, <2>3 DEF SlaveTypes, Instruction
  <1> QED BY <1>1, <1>2, <1>3 DEF HwTypes

-----------------------------------------------------------------------------
(* The firmware's counters. *)

\* There is a next instruction to send or to load.
InstructionsLeft ==
    /\ query \in Queries \cup {NoQuery}
    /\ k \in 0..Len(Program(query))
    /\ pc = "clear" => k = 0
    /\ pc \in {"inst", "load"} => k < Len(Program(query))

\* The guard passes its limit only with the timeout.
GuardBounded ==
    /\ stall_guard \in 0..(STALL_MAX + 1)
    /\ pc \notin {"idle", "answer"} => stall_guard <= STALL_MAX

CaptureBounded == captured \in Seq(Row) /\ Len(captured) <= QUERY_MAX_ROWS

WordsBounded == sent \in 0..Len(query.rows)

ServedBounded ==
    /\ served \in 0..MaxQueries
    /\ pc # "idle" => served < MaxQueries

CpuTypes == InstructionsLeft /\ GuardBounded /\ CaptureBounded /\ WordsBounded /\ ServedBounded

TypeInv == HwTypes /\ CpuTypes

\* The steps that end in the same phase of the protocol leave k and query alone.
LEMMA InstructionsStep == IndInv /\ InstructionsLeft /\ Next => InstructionsLeft'
  <1> SUFFICES ASSUME IndInv, InstructionsLeft, Next PROVE InstructionsLeft'
    OBVIOUS
  <1>1. Program(query) \in Seq(Instruction) /\ Len(Program(query)) \in Nat
    BY ProgramType DEF InstructionsLeft
  <1>2. CASE Start
    <2>1. query' \in Queries /\ k' = 0 /\ pc' = "clear"
      BY <1>2 DEF Start
    <2>2. Len(Program(query')) \in Nat
      BY <2>1, ProgramType
    <2>3. Len(Program(query))' = Len(Program(query'))
      BY DEF Program, Limit, WhereStop, CompileFails, SelectFails
    <2> QED BY <2>1, <2>2, <2>3 DEF InstructionsLeft
  <1>3. query' = query => Program(query)' = Program(query)
    BY DEF Program, Limit, WhereStop, CompileFails, SelectFails
  <1>4. CASE Clear
    <2>1. /\ pc = "clear" /\ query' = query /\ k' = k /\ pc' \notin {"clear", "load"}
          /\ pc' = "inst" => 0 < Len(Program(query))
      BY <1>4 DEF Clear, AfterInstructions
    <2> QED BY <1>1, <1>3, <2>1 DEF InstructionsLeft
  <1>5. CASE LoadInstruction
    <2>1. /\ pc = "load" /\ query' = query /\ k' = k + 1 /\ pc' \notin {"clear", "load"}
          /\ pc' = "inst" => k + 1 < Len(Program(query))
      BY <1>5 DEF LoadInstruction, AfterInstructions
    <2> QED BY <1>1, <1>3, <2>1 DEF InstructionsLeft
  <1>6. CASE SendInstruction
    BY <1>1, <1>3, <1>6 DEF SendInstruction, InstructionsLeft
  <1>7. CASE ReadWait \/ Idle
    BY <1>1, <1>3, <1>7 DEF ReadWait, Idle, cpuVars, InstructionsLeft
  <1>8. CASE \/ Refuse \/ FeedStatus \/ WriteWord \/ PushWord \/ SignalEof \/ DrainStatus
             \/ PulseRead \/ TakeWord \/ Poll \/ ReplyRows \/ ReplyCount \/ ReplySum
    <2>1. query' = query /\ k' = k /\ pc' \notin {"clear", "inst", "load"}
      BY <1>8 DEF Refuse, FeedStatus, WriteWord, PushWord, SignalEof, DrainStatus, DrainReturns, TimeOut,
                  PulseRead, TakeWord, Poll, ReplyRows, ReplyCount, ReplySum, Reply
    <2> QED BY <1>1, <1>3, <2>1 DEF InstructionsLeft
  <1> QED BY <1>2, <1>4, <1>5, <1>6, <1>7, <1>8 DEF Next, Firmware

\* The guard is counted in the drain of a full input and in the wait for the end.
LEMMA GuardStep == GuardBounded /\ Next => GuardBounded'
  <1> SUFFICES ASSUME GuardBounded, Next PROVE GuardBounded'
    OBVIOUS
  <1>1. STALL_MAX \in Nat \ {0} /\ stall_guard \in Nat
    BY AcceleratorAssumption DEF GuardBounded
  <1>2. CASE stall_guard' = 0
    BY <1>1, <1>2 DEF GuardBounded
  <1>3. CASE stall_guard' = stall_guard /\ (pc' \in {"idle", "answer"} \/ pc \notin {"idle", "answer"})
    BY <1>1, <1>3 DEF GuardBounded
  <1>4. CASE /\ pc \notin {"idle", "answer"} /\ stall_guard' = stall_guard + 1
             /\ pc' = "answer" \/ stall_guard + 1 <= STALL_MAX
    BY <1>1, <1>4 DEF GuardBounded
  <1>5. CASE Start \/ PushWord \/ SignalEof
    BY <1>2, <1>5 DEF Start, PushWord, SignalEof
  <1>6. CASE DrainStatus
    <2>1. pc = "drain"
      BY <1>6 DEF DrainStatus
    <2>2. \/ stall_guard' = stall_guard
          \/ stall_guard' = stall_guard + 1 /\ pc' = "answer"
          \/ stall_guard' = stall_guard + 1 /\ ~(stall_guard + 1 > STALL_MAX)
      BY <1>6 DEF DrainStatus, DrainReturns, TimeOut
    <2>3. ~(stall_guard + 1 > STALL_MAX) => stall_guard + 1 <= STALL_MAX
      BY <1>1
    <2> QED BY <1>3, <1>4, <2>1, <2>2, <2>3
  <1>7. CASE Poll
    <2>1. pc = "poll"
      BY <1>7 DEF Poll
    <2>2. \/ stall_guard' = stall_guard
          \/ stall_guard' = stall_guard + 1 /\ pc' = "answer"
          \/ stall_guard' = stall_guard + 1 /\ stall_guard + 1 < STALL_MAX
      BY <1>7 DEF Poll, TimeOut
    <2>3. stall_guard + 1 < STALL_MAX => stall_guard + 1 <= STALL_MAX
      BY <1>1
    <2> QED BY <1>3, <1>4, <2>1, <2>2, <2>3
  <1>8. CASE ReadWait \/ Idle
    <2>1. stall_guard' = stall_guard /\ pc' = pc
      BY <1>8 DEF ReadWait, Idle, cpuVars
    <2> QED BY <1>3, <2>1
  <1>9. CASE \/ Clear \/ SendInstruction \/ LoadInstruction \/ Refuse \/ FeedStatus \/ WriteWord
             \/ PulseRead \/ TakeWord \/ ReplyRows \/ ReplyCount \/ ReplySum
    <2>1. stall_guard' = stall_guard /\ (pc' = "idle" \/ pc \notin {"idle", "answer"})
      BY <1>9 DEF Clear, SendInstruction, LoadInstruction, Refuse, FeedStatus, WriteWord, PulseRead,
                  TakeWord, ReplyRows, ReplyCount, ReplySum, Reply
    <2> QED BY <1>3, <2>1
  <1> QED BY <1>5, <1>6, <1>7, <1>8, <1>9 DEF Next, Firmware

\* A row is captured only below the cap.
LEMMA CaptureStep ==
    ASSUME HwTypes, IndInv, InstructionsLeft, CaptureBounded, Next
    PROVE  CaptureBounded'
  <1>1. captured \in Seq(Row) /\ Len(captured) \in Nat /\ QUERY_MAX_ROWS \in Nat
    BY AcceleratorAssumption DEF CaptureBounded
  <1>2. CASE captured' = <<>> \/ captured' = captured
    <2>1. CASE captured' = captured
      BY <2>1 DEF CaptureBounded
    <2>2. CASE captured' = <<>>
      <3>1. captured' \in Seq(Row) /\ Len(captured') = 0
        BY <2>2
      <3> QED BY <1>1, <3>1 DEF CaptureBounded
    <2> QED BY <1>2, <2>1, <2>2
  <1>3. CASE TakeWord
    <2>1. out_fifo.dout \in Row
      BY DEF HwTypes, StageTypes, Queues
    <2>2. CaptureLimit(query) \in Nat /\ CaptureLimit(query) <= QUERY_MAX_ROWS
      <3>1. query.limit \in Nat /\ query.rows \in Seq(Row) /\ Len(query.rows) \in Nat
        BY QueryType DEF InstructionsLeft
      <3>2. Limit(query) \in Nat
        BY <1>1, <3>1 DEF Limit
      <3> QED BY <1>1, <3>1, <3>2 DEF CaptureLimit
    <2>3. \/ captured' = captured
          \/ Len(captured) < CaptureLimit(query) /\ captured' = Append(captured, out_fifo.dout)
      BY <1>3 DEF TakeWord
    <2>4. CASE captured' = captured
      BY <1>2, <2>4
    <2>5. CASE Len(captured) < CaptureLimit(query) /\ captured' = Append(captured, out_fifo.dout)
      <3>1. captured' \in Seq(Row) /\ Len(captured') = Len(captured) + 1
        BY <1>1, <2>1, <2>5
      <3> QED BY <1>1, <2>2, <2>5, <3>1 DEF CaptureBounded
    <2> QED BY <2>3, <2>4, <2>5
  <1>4. CASE Start
    BY <1>2, <1>4 DEF Start
  <1>5. CASE DrainStatus \/ Poll
    BY <1>2, <1>5 DEF DrainStatus, DrainReturns, Poll, TimeOut
  <1>6. CASE ReadWait \/ Idle
    BY <1>2, <1>6 DEF ReadWait, Idle, cpuVars
  <1>7. CASE \/ Clear \/ SendInstruction \/ LoadInstruction \/ Refuse \/ FeedStatus \/ WriteWord
             \/ PushWord \/ SignalEof \/ PulseRead \/ ReplyRows \/ ReplyCount \/ ReplySum
    BY <1>2, <1>7 DEF Clear, SendInstruction, LoadInstruction, Refuse, FeedStatus, WriteWord, PushWord,
                      SignalEof, PulseRead, ReplyRows, ReplyCount, ReplySum, Reply
  <1> QED BY <1>3, <1>4, <1>5, <1>6, <1>7 DEF Next, Firmware

\* A word is sent only while there is one.
LEMMA WordsStep ==
    ASSUME IndInv, WordsBounded, Next
    PROVE  WordsBounded'
  <1>1. query.rows \in Seq(Row) /\ Len(query.rows) \in Nat
    BY DEF IndInv, Types
  <1>2. CASE query' = query /\ sent' = sent
    BY <1>2 DEF WordsBounded
  <1>3. CASE Start
    <2>1. sent' = 0 /\ query' \in Queries
      BY <1>3 DEF Start
    <2>2. Len(query'.rows) \in Nat
      BY <2>1, QueryType
    <2> QED BY <2>1, <2>2 DEF WordsBounded
  <1>4. CASE PushWord
    <2>1. pc = "din_valid" /\ sent' = sent + 1 /\ query' = query
      BY <1>4 DEF PushWord
    <2>2. sent < Len(query.rows) /\ sent \in Nat
      BY <2>1 DEF IndInv, Types
    <2> QED BY <1>1, <2>1, <2>2 DEF WordsBounded
  <1>5. CASE ReadWait \/ Idle
    BY <1>2, <1>5 DEF ReadWait, Idle, cpuVars
  <1>6. CASE \/ Clear \/ SendInstruction \/ LoadInstruction \/ Refuse \/ FeedStatus \/ WriteWord
             \/ SignalEof \/ DrainStatus \/ PulseRead \/ TakeWord \/ Poll
             \/ ReplyRows \/ ReplyCount \/ ReplySum
    BY <1>2, <1>6 DEF Clear, SendInstruction, LoadInstruction, Refuse, FeedStatus, WriteWord, SignalEof,
                      DrainStatus, PulseRead, TakeWord, Poll, ReplyRows, ReplyCount, ReplySum, Reply
  <1> QED BY <1>3, <1>4, <1>5, <1>6 DEF Next, Firmware

\* A query that runs is not yet counted.
LEMMA ServedStep == ServedBounded /\ Next => ServedBounded'
  <1> SUFFICES ASSUME ServedBounded, Next PROVE ServedBounded'
    OBVIOUS
  <1>1. MaxQueries \in Nat
    BY AcceleratorAssumption
  <1>2. CASE served' = served /\ (pc' = "idle" \/ pc # "idle")
    BY <1>1, <1>2 DEF ServedBounded
  <1>3. CASE Start
    BY <1>1, <1>3 DEF Start, ServedBounded
  <1>4. CASE Refuse \/ ReplyRows \/ ReplyCount \/ ReplySum
    <2>1. pc # "idle" /\ pc' = "idle" /\ served' = served + 1
      BY <1>4 DEF Refuse, ReplyRows, ReplyCount, ReplySum, Reply
    <2> QED BY <1>1, <2>1 DEF ServedBounded
  <1>5. CASE ReadWait \/ Idle
    BY <1>2, <1>5 DEF ReadWait, Idle, cpuVars
  <1>6. CASE \/ Clear \/ SendInstruction \/ LoadInstruction \/ FeedStatus \/ WriteWord
             \/ PushWord \/ SignalEof \/ DrainStatus \/ PulseRead \/ TakeWord \/ Poll
    BY <1>2, <1>6 DEF Clear, SendInstruction, LoadInstruction, FeedStatus, WriteWord, PushWord, SignalEof,
                      DrainStatus, PulseRead, TakeWord, Poll
  <1> QED BY <1>3, <1>4, <1>5, <1>6 DEF Next, Firmware

\* What the firmware writes has its type: the program's words and the table's rows.
LEMMA HwTypesStep ==
    ASSUME HwTypes, IndInv, InstructionsLeft, Next
    PROVE  HwTypes'
  <1>1. CASE NoAccess
    BY <1>1, EdgeHwTypes DEF NoAccess, BusTypes
  <1>2. ASSUME NEW d, Write("CONTROL", d) PROVE HwTypes'
    BY <1>2, EdgeHwTypes DEF Write, BusTypes
  <1>3. CASE SendInstruction
    <2>1. pc = "inst" /\ HwClock(TRUE, "INSTRUCTION", Program(query)[k + 1])
      BY <1>3 DEF SendInstruction, Write
    <2>2. Program(query) \in Seq(Instruction) /\ k + 1 \in 1..Len(Program(query))
      BY <2>1, ProgramType DEF InstructionsLeft
    <2>3. Program(query)[k + 1] \in Instruction
      BY <2>2
    <2> QED BY <2>1, <2>3, EdgeHwTypes DEF BusTypes
  <1>4. CASE WriteWord
    <2>1. pc = "din" /\ HwClock(TRUE, "DATA_IN", query.rows[sent + 1])
      BY <1>4 DEF WriteWord, Write
    <2>2. query.rows \in Seq(Row) /\ sent + 1 \in 1..Len(query.rows)
      BY <2>1 DEF IndInv, Types
    <2>3. query.rows[sent + 1] \in Row
      BY <2>2
    <2> QED BY <2>1, <2>3, EdgeHwTypes DEF BusTypes
  <1>5. CASE Clear \/ LoadInstruction \/ PushWord \/ SignalEof \/ PulseRead
    BY <1>2, <1>5 DEF Clear, LoadInstruction, PushWord, SignalEof, PulseRead
  <1>6. CASE \/ Start \/ Refuse \/ FeedStatus \/ DrainStatus \/ TakeWord \/ Poll
             \/ ReplyRows \/ ReplyCount \/ ReplySum \/ ReadWait \/ Idle
    BY <1>1, <1>6 DEF Start, Refuse, FeedStatus, DrainStatus, TakeWord, Poll, ReplyRows, ReplyCount,
                      ReplySum, ReadWait, Idle, Sample
  <1> QED BY <1>3, <1>4, <1>5, <1>6 DEF Next, Firmware

\* Initially all registers are zero and no query is known.
LEMMA InitTypeInv == Init => TypeInv
  <1> SUFFICES ASSUME Init PROVE TypeInv
    OBVIOUS
  <1>1. FlagTypes
    BY DEF Init, HwInit, PipelineInit, FlagTypes
  <1>2. NumberTypes
    <2>1. ACC_MOD - 1 \in Nat /\ NUM_WHERE \in Nat
      BY PipelineAssumption
    <2> QED BY <2>1 DEF Init, HwInit, PipelineInit, NumberTypes
  <1>3. StageTypes
    BY ClearedType DEF Init, HwInit, PipelineInit, StageTypes
  <1>4. OperandTypes
    BY PipelineAssumption DEF Init, HwInit, PipelineInit, OperandTypes, Columns
  <1>5. SlaveTypes
    <2>1. 0 \in Instruction
      BY DEF Instruction, Opcode, OP_COUNT, OP_SUM
    <2> QED BY <2>1, ClearedType DEF Init, HwInit, SlaveTypes
  <1>6. InstructionsLeft
    <2>1. query \in Queries \cup {NoQuery} /\ k = 0 /\ pc = "idle"
      BY DEF Init
    <2>2. Len(Program(query)) \in Nat
      BY <2>1, ProgramType
    <2> QED BY <2>1, <2>2 DEF InstructionsLeft
  <1>7. GuardBounded /\ ServedBounded /\ CaptureBounded
    BY AcceleratorAssumption DEF Init, GuardBounded, ServedBounded, CaptureBounded
  <1>8. WordsBounded
    BY DEF Init, WordsBounded, NoQuery
  <1> QED BY <1>1, <1>2, <1>3, <1>4, <1>5, <1>6, <1>7, <1>8 DEF TypeInv, HwTypes, CpuTypes

\* A step in which nothing happens.
LEMMA StutterTypeInv == TypeInv /\ UNCHANGED vars => TypeInv'
  <1> SUFFICES ASSUME TypeInv, UNCHANGED vars PROVE TypeInv'
    OBVIOUS
  <1>1. UNCHANGED <<pipelineVars, slaveVars>> /\ UNCHANGED cpuVars
    BY DEF vars, hwVars
  <1>2. HwTypes'
    BY <1>1 DEF TypeInv, HwTypes, FlagTypes, NumberTypes, StageTypes, OperandTypes, SlaveTypes, Queues,
                Instruction, Units, Columns, pipelineVars, slaveVars, fetchVars, operandVars,
                stage1Vars, limitVars
  <1>3. Program(query)' = Program(query)
    BY <1>1 DEF cpuVars, Program, Limit, WhereStop, CompileFails, SelectFails
  <1>4. CpuTypes'
    BY <1>1, <1>3 DEF TypeInv, CpuTypes, InstructionsLeft, GuardBounded, ServedBounded, CaptureBounded,
                      WordsBounded, cpuVars
  <1> QED BY <1>2, <1>4 DEF TypeInv

\* For every table, query and depth the registers keep their widths, the column that the
\* accumulators select is a column of the rows, and the firmware's counters and the capture buffer
\* keep within their limits.
THEOREM TypeCorrect == Spec => []TypeOK
  <1>1. IndInv /\ TypeInv /\ [Next]_vars => TypeInv'
    BY StutterTypeInv, HwTypesStep, InstructionsStep, GuardStep, CaptureStep, WordsStep, ServedStep
       DEF TypeInv, CpuTypes
  <1>2. IndInv /\ TypeInv => TypeOK
    BY HwTypesSuffice DEF TypeInv, CpuTypes, InstructionsLeft, GuardBounded, ServedBounded,
                          CaptureBounded, WordsBounded, IndInv, Types, PCs, TypeOK
  <1> QED BY <1>1, <1>2, InvariantHolds, InitTypeInv, PTL DEF Spec

-----------------------------------------------------------------------------
(* The refinement.  What follows relates the pipeline to the rows that the *)
(* engine lets pass: how many rows of the table the limit stage has        *)
(* judged, how many of those passed, how many of them have left the        *)
(* pipeline, and how many the firmware has taken off the output FIFO.      *)

\* The rows of the table, those that pass among the first n, and all that pass.
Rows == Len(query.rows)
Passed == Engine!PassingOf(query)
Passes == Engine!Passing(query)

\* A flag as a number, and the lesser of two numbers.
Bit(b) == IF b THEN 1 ELSE 0
Lesser(a, b) == IF a < b THEN a ELSE b

\* The pipeline has been reset for the query; and the query has compiled.
Active == pc \notin {"idle", "clear"}
Running == Active /\ ~CompileFails(query)

\* The instructions the fetcher has: the last one sent may still be on its way.
Loaded == k - Bit(load_inst)

\* The word of the ith condition.
CondWord(q, i) == EncodeWhere(q.where[i].col, q.where[i].val, OpCode(q.where[i].op))

\* The conditions among the first n instructions: the limit comes before them, the
\* aggregate after them.
CondsIn(q, n) ==
    LET l == Bit(Limit(q) > 0)
        c == WhereStop(q) - 1
    IN  IF n < l THEN 0 ELSE IF n - l < c THEN n - l ELSE c

\* The operands that the first n instructions set.
Configured(n) ==
    /\ limit_active <=> Limit(query) > 0 /\ n >= 1
    /\ limit_active => limit_val_reg = Limit(query) % 256
    /\ where_active_cnt = CondsIn(query, n)
    /\ \A i \in 0..(where_active_cnt - 1) : where_inst[i] = CondWord(query, i + 1)
    /\ n > Bit(Limit(query) > 0) + WhereStop(query) - 1 => count_col_idx = query.col

\* The fetcher holds the program of the query, as far as it has been sent.
Fetched ==
    Active =>
      /\ load_inst => k > 0 /\ inst_reg = Program(query)[k]
      /\ pc = "load" => inst_reg = Program(query)[k + 1] /\ ~load_inst
      /\ pc \notin {"inst", "load"} => k = Len(Program(query))
      /\ Configured(Loaded)

\* What the firmware has not yet done at the beginning of a query.
Phase ==
    /\ pc = "clear" => captured = <<>> /\ stall_guard = 0
    /\ pc = "refuse" => CompileFails(query)
    /\ pc \notin {"idle", "clear", "inst", "load", "refuse"} => ~CompileFails(query)
    /\ load_inst => sent = 0 /\ pc \in {"inst", "refuse", "feed", "answer"}
    /\ sw_rst => /\ write_prev /\ rwait = 0 /\ k = 0 /\ sent = 0 /\ captured = <<>> /\ stall_guard = 0
                 /\ ~load_inst /\ ~din_valid_ctrl /\ ~rd_out_fifo /\ ~eof_ctrl
                 /\ pc \in {"inst", "refuse", "feed", "answer"}
                 /\ pc = "answer" => query.rows = <<>>

\* The rows the limit stage has judged: all that were sent but the one on its way, and
\* but those stuck behind a limit that is reached.
Judged == IF Coming THEN sent - 1
          ELSE IF limit_hit THEN sent - Bit(din_valid_ctrl) - Len(in_fifo.q)
          ELSE sent

\* The row on its way is the last one sent, wherever it is, and the comparison units
\* have judged that row.
Stream ==
    Running =>
      /\ pc = "din_valid" => data_in_reg = query.rows[sent + 1]
      /\ limit_hit => ~rd_en_pipe1 /\ ~rd_en_pipe2
      /\ Coming =>
           /\ sent > 0
           /\ din_valid_ctrl => data_in_reg = query.rows[sent]
           /\ in_fifo.q # <<>> => in_fifo.q[1] = query.rows[sent]
           /\ rd_en_pipe1 => in_fifo.dout = query.rows[sent]
           /\ rd_en_pipe2 => /\ where_stage_dout = query.rows[sent]
                             /\ \A i \in Units : i < where_active_cnt =>
                                   (where_valid_out[i] <=> op_result(where_inst[i], query.rows[sent]))

\* The limit counter is the number of rows passed among those judged; it stops the
\* pipeline at the row that reaches the limit, not before and not after.
Counted ==
    Running =>
      /\ Judged \in 0..Rows
      /\ limit_count = IF limit_active THEN Len(Passed[Judged]) ELSE 0
      /\ internal_hit <=> limit_active /\ Len(Passed[Judged]) >= Limit(query)
      /\ limit_hit => Judged >= 1 /\ Len(Passed[Judged - 1]) < Limit(query)

\* The rows that have passed the limit stage, those that have left it, and those that
\* have left the output FIFO.
Count == Len(Passed[Judged])
Emitted == Count - Bit(limit_valid_out)
Taken == Emitted - Len(out_fifo.q)

\* The accumulators are those of the rows that have left, and the output FIFO holds the
\* ones not yet taken, in order.
Delivered ==
    Running =>
      /\ limit_valid_out =>
           /\ ~limit_done_out /\ Count >= 1 /\ limit_stage_dout = Passes[Count]
           /\ \E n \in 1..Rows : limit_stage_dout = query.rows[n]
           /\ limit_hit => ~din_valid_ctrl /\ in_fifo.q = <<>>
      /\ acc_out = Emitted
      /\ query.agg = "SUM" => /\ sum_out = Engine!Sums(query.col, Passes)[Emitted]
                              /\ sum_out <= 207 * Emitted
      /\ Taken >= 0
      /\ \A i \in 1..Len(out_fifo.q) : out_fifo.q[i] = Passes[Taken + i]

\* The row the firmware is about to store is at the output of the FIFO; the others taken
\* are stored.
InHand == pc = "take" /\ ~rd_out_fifo
Stored == Taken - Bit(InHand)

\* The capture buffer holds the rows stored, as far as it has room.
Stores ==
    Running =>
      /\ rd_out_fifo => pc = "take" /\ rwait = 0 /\ out_fifo.q # <<>>
      /\ pc = "pulse" => out_fifo.q # <<>>
      /\ InHand => Taken >= 1 /\ out_fifo.dout = Passes[Taken]
      /\ pc # "answer" => /\ Len(captured) = Lesser(Stored, QUERY_MAX_ROWS)
                          /\ \A i \in 1..Len(captured) : captured[i] = Passes[i]

\* The firmware finds the input FIFO full only behind a limit that is reached.
Full ==
    Running /\ pc \in {"drain", "pulse", "take"} /\ ret = "full" =>
      limit_hit /\ ~limit_valid_out /\ Len(in_fifo.q) = FIFO_DEPTH

\* The firmware is in the wait for the end of the query.
InWait == pc = "poll" \/ (pc \in {"drain", "pulse", "take"} /\ ret = "wait")

\* How far the done token has come at each point of that wait.
Waits ==
    /\ pc = "eof" \/ InWait => sent = Rows
    /\ InWait =>
       /\ eof_ctrl /\ ~rd_en_pipe1 /\ stall_guard <= 1
       /\ pc # "drain" \/ rwait > 0 \/ stall_guard > 0 => ~rd_en_pipe2 /\ (limit_hit \/ stage1_done)
       /\ pc # "drain" \/ stall_guard > 0 => ~limit_valid_out /\ limit_done_out
       /\ (pc = "poll" /\ rwait > 0) \/ stall_guard > 0 => stage3_done
       /\ pc = "poll" /\ stall_guard > 0 => out_fifo.q = <<>>

\* When the answer is built, nothing moves in the pipeline and every row that passes has
\* been counted.
Answered ==
    pc = "answer" =>
      /\ ~Coming /\ ~rd_en_pipe1 /\ ~rd_en_pipe2 /\ ~limit_valid_out /\ ~rd_out_fifo
      /\ Count = Len(Passes)
      /\ captured = IF Engine!Stalls(query) THEN <<>> ELSE Engine!Result(query)

EngInv == Fetched /\ Phase /\ Stream /\ Counted /\ Delivered /\ Stores /\ Full /\ Waits /\ Answered

-----------------------------------------------------------------------------
(* Functions defined by recursion.  Induction is over sets of numbers: a  *)
(* set that has no least counterexample has none.                         *)

\* A set of numbers that contains 0, and with every number its successor, contains them all.
LEMMA Induction ==
    ASSUME NEW S, 0 \in S, \A n \in Nat : n \in S => n + 1 \in S
    PROVE  \A n \in Nat : n \in S
  <1> SUFFICES ASSUME Nat \ S # {} PROVE FALSE
    OBVIOUS
  <1>1. PICK n \in Nat \ S : \A m \in Nat \ S : n <= m
    BY LeastNat
  <1>2. n # 0 /\ n - 1 \in Nat /\ ~ (n <= n - 1)
    OBVIOUS
  <1>3. n - 1 \in S
    BY <1>1, <1>2
  <1> QED BY <1>2, <1>3

\* f is the function on 0..N that starts at base and goes on by step.
Iterates(f, T, N, base, step) ==
    f \in [0..N -> T] /\ f[0] = base /\ \A n \in 1..N : f[n] = step[n][f[n - 1]]

\* Such a function exists.
LEMMA Recursion ==
    ASSUME NEW T, NEW N \in Nat, NEW base \in T, NEW step \in [Nat -> [T -> T]]
    PROVE  \E f : Iterates(f, T, N, base, step)
  <1> DEFINE Good(f, m) == f[0] = base /\ \A n \in 1..m : f[n] = step[n][f[n - 1]]
             S == {m \in Nat : \E f \in [0..m -> T] : Good(f, m)}
  <1>1. 0 \in S
    <2> DEFINE f == [i \in 0..0 |-> base]
    <2>1. f \in [0..0 -> T] /\ Good(f, 0)
      OBVIOUS
    <2> QED BY <2>1
  <1>2. ASSUME NEW m \in Nat, m \in S PROVE m + 1 \in S
    <2>1. PICK g \in [0..m -> T] : Good(g, m)
      BY <1>2
    <2> DEFINE f == [i \in 0..(m + 1) |-> IF i = m + 1 THEN step[m + 1][g[m]] ELSE g[i]]
    <2>2. f \in [0..(m + 1) -> T]
      OBVIOUS
    <2>3. f[0] = base
      BY <2>1
    <2>4. ASSUME NEW n \in 1..(m + 1) PROVE f[n] = step[n][f[n - 1]]
      BY <2>1
    <2> HIDE DEF f
    <2> QED BY <2>2, <2>3, <2>4
  <1>3. N \in S
    <2> HIDE DEF S
    <2> QED BY <1>1, <1>2, Induction
  <1> QED BY <1>3 DEF Iterates

\* Whether the nth row of q passes, s being the rows that passed before it.
Admits(q, n, s) ==
    /\ Engine!Selects(q, q.rows[n])
    /\ Limit(q) > 0 => Len(s) < Limit(q)

\* The limit of the compiler is the engine's.
LEMMA EngineLimit == ASSUME NEW q PROVE Engine!EffectiveLimit(q) = Limit(q)
  BY DEF Engine!EffectiveLimit, Limit

\* The recursion equation of the engine's passing rows.
LEMMA PassingRec ==
    ASSUME NEW q, q.rows \in Seq(Row)
    PROVE  /\ Engine!PassingOf(q) \in [0..Len(q.rows) -> Seq(Row)]
           /\ Engine!PassingOf(q)[0] = <<>>
           /\ \A n \in 1..Len(q.rows) :
                 Engine!PassingOf(q)[n] = IF Admits(q, n, Engine!PassingOf(q)[n - 1])
                                            THEN Append(Engine!PassingOf(q)[n - 1], q.rows[n])
                                            ELSE Engine!PassingOf(q)[n - 1]
  <1> DEFINE N == Len(q.rows)
             T == Seq(Row)
             E(g, n) == IF n = 0 THEN <<>>
                        ELSE IF Admits(q, n, g[n - 1]) THEN Append(g[n - 1], q.rows[n]) ELSE g[n - 1]
             step == [n \in Nat |-> [s \in T |->
                        IF n \in 1..N /\ Admits(q, n, s) THEN Append(s, q.rows[n]) ELSE s]]
             P == Engine!PassingOf(q)
  <1>1. N \in Nat /\ <<>> \in T /\ \A n \in 1..N : q.rows[n] \in Row
    OBVIOUS
  <1>2. step \in [Nat -> [T -> T]]
    <2>1. ASSUME NEW n \in Nat, NEW s \in T
          PROVE  (IF n \in 1..N /\ Admits(q, n, s) THEN Append(s, q.rows[n]) ELSE s) \in T
      BY <1>1
    <2> HIDE DEF T, N
    <2> QED BY <2>1
  <1>3. PICK f \in [0..N -> T] : f[0] = <<>> /\ \A n \in 1..N : f[n] = step[n][f[n - 1]]
    <2> DEFINE base == <<>>
    <2>1. base \in T /\ N \in Nat
      BY <1>1
    <2> HIDE DEF step, N, T, base
    <2>2. \E f : Iterates(f, T, N, base, step)
      BY <1>2, <2>1, Recursion
    <2> QED BY <2>2 DEF base, Iterates
  <1>4. f = [n \in 0..N |-> E(f, n)]
    <2>1. ASSUME NEW n \in 0..N PROVE f[n] = E(f, n)
      <3>1. CASE n = 0
        BY <1>3, <3>1
      <3>2. CASE n # 0
        <4>1. n \in 1..N /\ n - 1 \in 0..N /\ n \in Nat
          BY <1>1, <3>2
        <4>2. f[n] = step[n][f[n - 1]] /\ f[n - 1] \in T
          <5> HIDE DEF step, N, T
          <5> QED BY <1>3, <4>1
        <4>3. step[n][f[n - 1]] = IF n \in 1..N /\ Admits(q, n, f[n - 1])
                                     THEN Append(f[n - 1], q.rows[n]) ELSE f[n - 1]
          <5> HIDE DEF N, T
          <5> QED BY <4>1, <4>2
        <4> HIDE DEF step, N, T
        <4> QED BY <3>2, <4>1, <4>2, <4>3
      <3> QED BY <3>1, <3>2
    <2> HIDE DEF E, N, T
    <2> QED BY <2>1, <1>3
  <1>5. P = CHOOSE g : g = [n \in 0..N |-> E(g, n)]
    BY EngineLimit DEF Engine!PassingOf, Admits
  <1>6. P = [n \in 0..N |-> E(P, n)]
    <2> HIDE DEF E, N, P
    <2> QED BY <1>4, <1>5
  <1>7. \A n \in 0..N : P[n] = E(P, n)
    <2> HIDE DEF E, N, P
    <2> QED BY <1>6
  <1>10. P[0] = <<>>
    BY <1>1, <1>7
  <1>8. ASSUME NEW n \in 0..N PROVE P[n] \in T
    <2> DEFINE S == {m \in Nat : m <= N => P[m] \in T}
    <2> HIDE DEF P
    <2>1. 0 \in S
      BY <1>1, <1>10
    <2>2. ASSUME NEW m \in Nat, m \in S PROVE m + 1 \in S
      <3> SUFFICES ASSUME m + 1 <= N PROVE P[m + 1] \in T
        OBVIOUS
      <3>1. m + 1 \in 0..N /\ m + 1 # 0 /\ m + 1 - 1 = m /\ P[m] \in T /\ q.rows[m + 1] \in Row
        BY <1>1, <2>2
      <3>2. P[m + 1] = IF Admits(q, m + 1, P[m]) THEN Append(P[m], q.rows[m + 1]) ELSE P[m]
        BY <1>7, <3>1
      <3> QED BY <3>1, <3>2
    <2>3. n \in S
      <3> HIDE DEF S
      <3> QED BY <1>1, <2>1, <2>2, Induction
    <2> QED BY <2>3, <1>1
  <1>9. P \in [0..N -> T]
    <2> HIDE DEF E, N, T, P
    <2> QED BY <1>6, <1>8
  <1>11. ASSUME NEW n \in 1..N
         PROVE  P[n] = IF Admits(q, n, P[n - 1]) THEN Append(P[n - 1], q.rows[n]) ELSE P[n - 1]
    <2>1. n \in 0..N /\ n # 0
      BY <1>1
    <2> HIDE DEF P, N
    <2> QED BY <1>7, <2>1
  <1> QED BY <1>9, <1>10, <1>11

\* The columns of a row are bytes.
LEMMA CellType ==
    ASSUME NEW row \in Row, NEW c \in Columns
    PROVE  row[c] \in 0..255
  <1>1. row[c] \in Bytes
    BY DEF Row
  <1> QED BY <1>1, PipelineAssumption, Zenon

\* t is s with more rows at its end.
Extends(s, t) == Len(s) <= Len(t) /\ \A i \in 1..Len(s) : t[i] = s[i]

\* One more row at the end.
LEMMA ExtendsAppend ==
    ASSUME NEW s \in Seq(Row), NEW t \in Seq(Row), Extends(s, t), NEW r \in Row
    PROVE  Extends(s, Append(t, r))
  <1>1. /\ Len(s) \in Nat /\ Len(t) \in Nat /\ Len(Append(t, r)) = Len(t) + 1
        /\ \A i \in 1..Len(t) : Append(t, r)[i] = t[i]
    OBVIOUS
  <1>2. Len(s) <= Len(t) /\ \A i \in 1..Len(s) : t[i] = s[i] /\ i \in 1..Len(t)
    BY <1>1 DEF Extends
  <1> QED BY <1>1, <1>2 DEF Extends

\* The rows that passed stay in their places when more rows are looked at.
LEMMA PassingGrows ==
    ASSUME NEW q, q.rows \in Seq(Row), NEW m \in 0..Len(q.rows), NEW n \in 0..m
    PROVE  Extends(Engine!PassingOf(q)[n], Engine!PassingOf(q)[m])
  <1> DEFINE P == Engine!PassingOf(q)
             N == Len(q.rows)
             S == {l \in Nat : l <= N => \A j \in 0..l : Extends(P[j], P[l])}
  <1>1. N \in Nat /\ \A j \in 0..N : P[j] \in Seq(Row)
    BY PassingRec
  <1>2. \A j \in 0..N : Extends(P[j], P[j])
    <2> HIDE DEF P, N
    <2> QED BY <1>1 DEF Extends
  <1>3. 0 \in S
    BY <1>1, <1>2
  <1>4. ASSUME NEW l \in Nat, l \in S PROVE l + 1 \in S
    <2> SUFFICES ASSUME l + 1 <= N, NEW j \in 0..(l + 1) PROVE Extends(P[j], P[l + 1])
      OBVIOUS
    <2>1. CASE j = l + 1
      BY <1>1, <1>2, <2>1
    <2>2. CASE j \in 0..l
      <3>1. Extends(P[j], P[l]) /\ P[j] \in Seq(Row) /\ P[l] \in Seq(Row) /\ q.rows[l + 1] \in Row
        BY <1>1, <1>4, <2>2
      <3>2. P[l + 1] = Append(P[l], q.rows[l + 1]) \/ P[l + 1] = P[l]
        <4>1. l + 1 \in 1..N /\ l + 1 - 1 = l
          BY <1>1
        <4>2. \A i \in 1..N : P[i] = Append(P[i - 1], q.rows[i]) \/ P[i] = P[i - 1]
          BY PassingRec
        <4> HIDE DEF P, N
        <4> QED BY <4>1, <4>2
      <3> HIDE DEF P
      <3> QED BY <3>1, <3>2, ExtendsAppend
    <2> QED BY <2>1, <2>2
  <1>5. m \in S
    <2>1. m \in Nat
      BY <1>1
    <2> HIDE DEF S
    <2>2. \A l \in Nat : l \in S => l + 1 \in S
      BY <1>4
    <2>3. \A l \in Nat : l \in S
      BY <1>3, <2>2, Induction
    <2> QED BY <2>1, <2>3
  <1> QED BY <1>1, <1>5

\* How many rows pass: no more than were looked at, and no more than the limit.
LEMMA PassingBounds ==
    ASSUME NEW q, q.rows \in Seq(Row), Limit(q) \in Nat, NEW n \in 0..Len(q.rows)
    PROVE  /\ Len(Engine!PassingOf(q)[n]) \in Nat
           /\ Len(Engine!PassingOf(q)[n]) <= n
           /\ Limit(q) > 0 => Len(Engine!PassingOf(q)[n]) <= Limit(q)
  <1> DEFINE P == Engine!PassingOf(q)
             N == Len(q.rows)
             L == Limit(q)
             S == {l \in Nat : l <= N => Len(P[l]) <= l /\ (L > 0 => Len(P[l]) <= L)}
  <1>1. N \in Nat /\ \A j \in 0..N : P[j] \in Seq(Row) /\ Len(P[j]) \in Nat
    BY PassingRec
  <1>2. 0 \in S
    <2>1. Len(P[0]) = 0
      BY PassingRec
    <2> HIDE DEF P, L
    <2> QED BY <2>1 DEF L
  <1>3. ASSUME NEW l \in Nat, l \in S PROVE l + 1 \in S
    <2> SUFFICES ASSUME l + 1 <= N
                 PROVE  Len(P[l + 1]) <= l + 1 /\ (L > 0 => Len(P[l + 1]) <= L)
      OBVIOUS
    <2>1. Len(P[l]) <= l /\ (L > 0 => Len(P[l]) <= L) /\ P[l] \in Seq(Row) /\ Len(P[l]) \in Nat
      BY <1>1, <1>3
    <2>2. \/ Admits(q, l + 1, P[l]) /\ P[l + 1] = Append(P[l], q.rows[l + 1])
          \/ P[l + 1] = P[l]
      <3>1. l + 1 \in 1..N /\ l + 1 - 1 = l
        BY <1>1
      <3>2. \A i \in 1..N : \/ Admits(q, i, P[i - 1]) /\ P[i] = Append(P[i - 1], q.rows[i])
                           \/ P[i] = P[i - 1]
        BY PassingRec
      <3> HIDE DEF P, N
      <3> QED BY <3>1, <3>2
    <2>3. CASE P[l + 1] = P[l]
      <3> HIDE DEF P
      <3> QED BY <2>1, <2>3
    <2>4. CASE Admits(q, l + 1, P[l]) /\ P[l + 1] = Append(P[l], q.rows[l + 1])
      <3>1. Len(P[l + 1]) = Len(P[l]) + 1 /\ (L > 0 => Len(P[l]) < L)
        BY <2>1, <2>4 DEF Admits
      <3> HIDE DEF P
      <3> QED BY <2>1, <3>1
    <2> QED BY <2>2, <2>3, <2>4
  <1>4. n \in S
    <2> HIDE DEF S
    <2> QED BY <1>1, <1>2, <1>3, Induction
  <1> QED BY <1>1, <1>4

\* The next row to look at: where it ends up among all that pass.
LEMMA PassingNext ==
    ASSUME NEW q, q.rows \in Seq(Row), NEW n \in 1..Len(q.rows)
    PROVE  /\ ~Admits(q, n, Engine!PassingOf(q)[n - 1]) =>
                 Engine!PassingOf(q)[n] = Engine!PassingOf(q)[n - 1]
           /\ Admits(q, n, Engine!PassingOf(q)[n - 1]) =>
                 /\ Len(Engine!PassingOf(q)[n]) = Len(Engine!PassingOf(q)[n - 1]) + 1
                 /\ Engine!Passing(q)[Len(Engine!PassingOf(q)[n])] = q.rows[n]
  <1> DEFINE P == Engine!PassingOf(q)
             N == Len(q.rows)
  <1>1. N \in Nat /\ n - 1 \in 0..N /\ n \in 0..N /\ P[n - 1] \in Seq(Row) /\ q.rows[n] \in Row
    BY PassingRec
  <1>2. P[n] = IF Admits(q, n, P[n - 1]) THEN Append(P[n - 1], q.rows[n]) ELSE P[n - 1]
    BY PassingRec
  <1>3. Extends(P[n], P[N])
    BY <1>1, PassingGrows
  <1>4. ASSUME Admits(q, n, P[n - 1])
        PROVE  /\ Len(P[n]) = Len(P[n - 1]) + 1
               /\ P[N][Len(P[n])] = q.rows[n]
    <2>1. P[n] = Append(P[n - 1], q.rows[n])
      BY <1>2, <1>4
    <2> HIDE DEF P
    <2>2. Len(P[n]) = Len(P[n - 1]) + 1 /\ P[n][Len(P[n - 1]) + 1] = q.rows[n] /\ Len(P[n - 1]) \in Nat
      BY <1>1, <2>1
    <2> QED BY <1>3, <2>2 DEF Extends
  <1> QED BY <1>2, <1>4 DEF Engine!Passing

\* The sums over the first rows, one row at a time.
LEMMA SumsRec ==
    ASSUME NEW c \in Columns, NEW s \in Seq(Row)
    PROVE  /\ Engine!Sums(c, s) \in [0..Len(s) -> Int]
           /\ Engine!Sums(c, s)[0] = 0
           /\ \A n \in 1..Len(s) : Engine!Sums(c, s)[n] = Engine!Sums(c, s)[n - 1] + (s[n][c] - 48)
  <1> DEFINE N == Len(s)
             d(n) == s[n][c] - 48
             E(g, n) == IF n = 0 THEN 0 ELSE g[n - 1] + d(n)
             step == [n \in Nat |-> [x \in Int |-> IF n \in 1..N THEN x + d(n) ELSE x]]
             P == Engine!Sums(c, s)
  <1>1. N \in Nat /\ \A n \in 1..N : d(n) \in Int
    <2>2. ASSUME NEW n \in 1..N PROVE d(n) \in Int
      <3>1. s[n] \in Row
        OBVIOUS
      <3> DEFINE x == s[n][c]
      <3>2. x \in 0..255
        BY <3>1, CellType
      <3>3. d(n) = x - 48
        OBVIOUS
      <3> HIDE DEF x, d
      <3> QED BY <3>2, <3>3
    <2> HIDE DEF d
    <2> QED BY <2>2
  <1> HIDE DEF d
  <1>2. step \in [Nat -> [Int -> Int]]
    <2>1. ASSUME NEW n \in Nat, NEW x \in Int PROVE (IF n \in 1..N THEN x + d(n) ELSE x) \in Int
      <3> HIDE DEF N
      <3>1. CASE n \in 1..N
        <4>1. d(n) \in Int
          BY <1>1, <3>1
        <4> QED BY <3>1, <4>1
      <3>2. CASE n \notin 1..N
        BY <3>2
      <3> QED BY <3>1, <3>2
    <2> HIDE DEF N
    <2> QED BY <2>1
  <1>3. PICK f : Iterates(f, Int, N, 0, step)
    <2> HIDE DEF step, N
    <2>1. 0 \in Int /\ N \in Nat
      BY <1>1
    <2> QED BY <1>2, <2>1, Recursion, Zenon
  <1>4. f = [n \in 0..N |-> E(f, n)]
    <2>1. ASSUME NEW n \in 0..N PROVE f[n] = E(f, n)
      <3>1. CASE n = 0
        BY <1>3, <3>1 DEF Iterates
      <3>2. CASE n # 0
        <4>1. n \in 1..N /\ n - 1 \in 0..N /\ n \in Nat
          BY <1>1, <3>2
        <4>2. f[n] = step[n][f[n - 1]] /\ f[n - 1] \in Int
          <5> HIDE DEF step, N
          <5> QED BY <1>3, <4>1 DEF Iterates
        <4>3. step[n][f[n - 1]] = f[n - 1] + d(n)
          <5> HIDE DEF N
          <5> QED BY <4>1, <4>2
        <4> QED BY <3>2, <4>2, <4>3
      <3> QED BY <3>1, <3>2
    <2>2. f \in [0..N -> Int]
      BY <1>3 DEF Iterates
    <2> HIDE DEF E, N
    <2> QED BY <2>1, <2>2
  <1>5. P = CHOOSE g : g = [n \in 0..N |-> E(g, n)]
    BY DEF Engine!Sums, Engine!Digit, d
  <1>6. P = [n \in 0..N |-> E(P, n)]
    <2> HIDE DEF E, N, P
    <2> QED BY <1>4, <1>5
  <1>7. \A n \in 0..N : P[n] = E(P, n)
    <2> HIDE DEF E, N, P
    <2> QED BY <1>6
  <1>8. P[0] = 0 /\ \A n \in 1..N : P[n] = P[n - 1] + d(n)
    <2> HIDE DEF P
    <2> QED BY <1>1, <1>7
  <1>9. ASSUME NEW n \in 0..N PROVE P[n] \in Int
    <2> DEFINE S == {m \in Nat : m <= N => P[m] \in Int}
    <2> HIDE DEF P
    <2>1. 0 \in S
      BY <1>1, <1>8
    <2>2. ASSUME NEW m \in Nat, m \in S PROVE m + 1 \in S
      <3> SUFFICES ASSUME m + 1 <= N PROVE P[m + 1] \in Int
        OBVIOUS
      <3>1. m + 1 \in 1..N /\ m + 1 - 1 = m /\ P[m] \in Int
        BY <1>1, <2>2
      <3> QED BY <1>1, <1>8, <3>1
    <2>3. n \in S
      <3> HIDE DEF S
      <3> QED BY <1>1, <2>1, <2>2, Induction
    <2> QED BY <2>3, <1>1
  <1>10. P \in [0..N -> Int]
    <2> HIDE DEF E, N, P
    <2> QED BY <1>6, <1>9
  <1> QED BY <1>8, <1>10 DEF d

-----------------------------------------------------------------------------
(* The program of a query, and what the fetcher makes of it.              *)

\* The compiler stops at the first condition with an unknown column or one too many.
LEMMA WhereStops ==
    ASSUME NEW q \in Queries \cup {NoQuery}
    PROVE  /\ WhereStop(q) - 1 \in 0..NUM_WHERE
           /\ WhereStop(q) - 1 <= Len(q.where)
           /\ WhereStop(q) <= Len(q.where) <=>
                 (\E i \in DOMAIN q.where : q.where[i].col = -1) \/ Len(q.where) > WHERE_MAX
           /\ \A i \in 1..(WhereStop(q) - 1) : q.where[i].col >= 0
  <1> DEFINE bad == {i \in DOMAIN q.where : q.where[i].col < 0 \/ i > WHERE_MAX}
             W == Len(q.where)
  <1>1. /\ q.where \in Seq(WhereCondition) /\ W \in Nat /\ DOMAIN q.where = 1..W
        /\ WHERE_MAX \in Nat /\ WHERE_MAX <= NUM_WHERE /\ NUM_WHERE \in Nat
    BY QueryType, AcceleratorAssumption, PipelineAssumption
  <1>2. \A i \in 1..W : q.where[i].col \in Int /\ q.where[i].col >= -1
    <2>1. ASSUME NEW i \in 1..W PROVE q.where[i].col \in -1..(NUM_COLS - 1)
      <3>1. q.where[i] \in WhereCondition
        BY <1>1
      <3> QED BY <3>1 DEF WhereCondition
    <2> QED BY <2>1, PipelineAssumption
  <1>3. WhereStop(q) = IF bad = {} THEN W + 1 ELSE CHOOSE i \in bad : \A j \in bad : i <= j
    BY DEF WhereStop
  <1>4. \A i \in 1..W : i \in bad <=> q.where[i].col < 0 \/ i > WHERE_MAX
    BY <1>1
  <1>5. bad \subseteq 1..W
    BY <1>1
  <1>6. CASE bad = {}
    <2>1. WhereStop(q) = W + 1
      BY <1>3, <1>6
    <2>2. \A i \in 1..W : ~ (q.where[i].col < 0) /\ ~ (i > WHERE_MAX)
      <3> HIDE DEF bad
      <3> QED BY <1>4, <1>6
    <2>3. ~ (W > WHERE_MAX)
      BY <1>1, <2>2
    <2> HIDE DEF bad
    <2> QED BY <1>1, <1>2, <2>1, <2>2, <2>3
  <1>7. CASE bad # {}
    <2> HIDE DEF bad
    <2>1. PICK n \in bad : WhereStop(q) = n /\ \A j \in bad : n <= j
      <3>1. \E i \in bad : \A j \in bad : i <= j
        BY <1>1, <1>5, <1>7, LeastNat
      <3> QED BY <1>3, <1>7, <3>1
    <2>2. n \in 1..W /\ (q.where[n].col < 0 \/ n > WHERE_MAX)
      BY <1>4, <1>5, <2>1
    <2>3. \A i \in 1..(n - 1) : i \notin bad /\ i \in 1..W
      BY <1>1, <1>5, <2>1, <2>2
    <2>4. \A i \in 1..(n - 1) : ~ (q.where[i].col < 0) /\ ~ (i > WHERE_MAX)
      BY <1>4, <2>3
    <2>5. n - 1 <= WHERE_MAX
      <3>1. CASE n = 1
        BY <1>1, <3>1
      <3>2. CASE n > 1
        <4>1. n - 1 \in 1..(n - 1)
          BY <2>2, <3>2
        <4> QED BY <1>1, <2>2, <2>4, <4>1
      <3> QED BY <2>2, <3>1, <3>2
    <2>6. (\E i \in DOMAIN q.where : q.where[i].col = -1) \/ W > WHERE_MAX
      BY <1>1, <1>2, <2>2
    <2> QED BY <1>1, <1>2, <2>1, <2>2, <2>3, <2>4, <2>5, <2>6
  <1> QED BY <1>6, <1>7

\* The compiler refuses what the engine refuses.
LEMMA CompilesEngine ==
    ASSUME NEW q \in Queries \cup {NoQuery}
    PROVE  CompileFails(q) <=> Engine!Refused(q)
  <1>1. q.col < 0 <=> q.col = -1
    BY QueryType, PipelineAssumption
  <1> QED BY <1>1, WhereStops DEF CompileFails, SelectFails, Engine!Refused

\* Which word of the program is where.
LEMMA ProgramWords ==
    ASSUME NEW q \in Queries \cup {NoQuery}
    PROVE  LET l == Bit(Limit(q) > 0)
               c == WhereStop(q) - 1
               n == Len(Program(q))
           IN  /\ n \in Nat /\ n >= l + c /\ n <= l + c + 1
               /\ l = 1 => Program(q)[1] = EncodeLimit(Limit(q))
               /\ \A i \in 1..c : Program(q)[l + i] = CondWord(q, i)
               /\ ~CompileFails(q) /\ q.agg # "NONE" => n = l + c + 1
               /\ n = l + c + 1 => /\ ~CompileFails(q)
                                   /\ Program(q)[n] \in {EncodeCount(q.col), EncodeSum(q.col)}
  <1> DEFINE lim == IF Limit(q) > 0 THEN <<EncodeLimit(Limit(q))>> ELSE <<>>
             m == WhereStop(q) - 1
             conds == [i \in 1..m |-> CondWord(q, i)]
             agg == IF CompileFails(q) \/ q.agg = "NONE" THEN <<>>
                    ELSE IF q.agg = "COUNT" THEN <<EncodeCount(q.col)>> ELSE <<EncodeSum(q.col)>>
             b == Bit(Limit(q) > 0)
             a == IF CompileFails(q) \/ q.agg = "NONE" THEN 0 ELSE 1
             W == {CondWord(q, i) : i \in 1..m} \cup
                       {EncodeLimit(Limit(q)), EncodeCount(q.col), EncodeSum(q.col)}
  <1>1. Program(q) = lim \o conds \o agg
    BY DEF Program, CondWord
  <1>2. m \in Nat
    BY WhereStops, PipelineAssumption
  <1>3. /\ lim \in Seq(W) /\ Len(lim) = b /\ b \in {0, 1}
        /\ b = 1 => lim[1] = EncodeLimit(Limit(q))
    <2> DEFINE x == EncodeLimit(Limit(q))
    <2>1. x \in W
      OBVIOUS
    <2>2. lim = IF b = 1 THEN <<x>> ELSE <<>>
      BY DEF Bit
    <2>3. b \in {0, 1}
      BY DEF Bit
    <2> HIDE DEF x, W, b, lim
    <2>4. CASE b = 1
      <3>1. lim = <<x>>
        BY <2>2, <2>4
      <3>2. <<x>> \in Seq(W) /\ Len(<<x>>) = 1 /\ <<x>>[1] = x
        BY <2>1
      <3> QED BY <2>4, <3>1, <3>2 DEF x
    <2>5. CASE b = 0
      BY <2>2, <2>5
    <2> QED BY <2>3, <2>4, <2>5
  <1>4. conds \in Seq(W) /\ Len(conds) = m /\ \A i \in 1..m : conds[i] = CondWord(q, i)
    <2> HIDE DEF m
    <2> QED BY <1>2
  <1>5. /\ agg \in Seq(W) /\ Len(agg) = a /\ a \in {0, 1}
        /\ a = 1 => ~CompileFails(q) /\ agg[1] \in {EncodeCount(q.col), EncodeSum(q.col)}
    <2> DEFINE x == IF q.agg = "COUNT" THEN EncodeCount(q.col) ELSE EncodeSum(q.col)
    <2>1. x \in W /\ x \in {EncodeCount(q.col), EncodeSum(q.col)}
      OBVIOUS
    <2>2. agg = IF a = 1 THEN <<x>> ELSE <<>>
      OBVIOUS
    <2>3. a \in {0, 1} /\ (a = 1 => ~CompileFails(q))
      OBVIOUS
    <2> HIDE DEF x, W, a, agg
    <2>4. CASE a = 1
      <3>1. agg = <<x>>
        BY <2>2, <2>4
      <3>2. <<x>> \in Seq(W) /\ Len(<<x>>) = 1 /\ <<x>>[1] = x
        BY <2>1
      <3> QED BY <2>1, <2>3, <2>4, <3>1, <3>2
    <2>5. CASE a = 0
      BY <2>2, <2>5
    <2> QED BY <2>3, <2>4, <2>5
  <1>6. a = 1 <=> ~CompileFails(q) /\ q.agg # "NONE"
    OBVIOUS
  <1> HIDE DEF lim, conds, agg, m, a, b, W
  <1>7. lim \o conds \in Seq(W) /\ Len(lim \o conds) = b + m
    BY <1>3, <1>4
  <1>8. /\ \A i \in 1..b : (lim \o conds)[i] = lim[i]
        /\ \A i \in 1..m : (lim \o conds)[b + i] = conds[i]
    BY <1>2, <1>3, <1>4
  <1>9. Len(Program(q)) = b + m + a
    BY <1>1, <1>2, <1>3, <1>5, <1>7
  <1>10. /\ \A i \in 1..(b + m) : Program(q)[i] = (lim \o conds)[i]
         /\ a = 1 => Program(q)[b + m + 1] = agg[1]
    BY <1>1, <1>2, <1>3, <1>5, <1>7
  <1>11. b = 1 => Program(q)[1] = EncodeLimit(Limit(q))
    <2> SUFFICES ASSUME b = 1 PROVE Program(q)[1] = lim[1]
      BY <1>3
    <2>1. 1 \in 1..b /\ 1 \in 1..(b + m)
      BY <1>2
    <2> DEFINE lc == lim \o conds
    <2>2. lc[1] = lim[1] /\ Program(q)[1] = lc[1]
      BY <2>1, <1>8, <1>10, Zenon
    <2> QED BY <2>2, Zenon
  <1>12. \A i \in 1..m : Program(q)[b + i] = CondWord(q, i)
    BY <1>2, <1>3, <1>4, <1>8, <1>10
  <1>13. a = 1 => Program(q)[b + m + 1] \in {EncodeCount(q.col), EncodeSum(q.col)}
    BY <1>5, <1>10
  <1> QED BY <1>2, <1>3, <1>5, <1>6, <1>9, <1>11, <1>12, <1>13 DEF b, m

\* The fetcher slices what the compiler packed.
LEMMA DecodeLimit ==
    ASSUME NEW l \in Nat
    PROVE  Opcode(EncodeLimit(l)) = OP_LIMIT /\ LimitField(EncodeLimit(l)) = l % 256
  <1>1. l % 256 \in 0..255
    OBVIOUS
  <1> DEFINE x == l % 256
  <1>2. EncodeLimit(l) = 536870912 + x
    BY DEF EncodeLimit, OP_LIMIT
  <1> HIDE DEF x
  <1>3. Opcode(EncodeLimit(l)) = 2 /\ LimitField(EncodeLimit(l)) = x
    BY <1>1, <1>2 DEF Opcode, LimitField, x
  <1> QED BY <1>3 DEF x, OP_LIMIT

\* A WHERE word is decoded into the condition it was made from.
LEMMA DecodeWhere ==
    ASSUME NEW c \in 0..63, NEW v \in 0..255, NEW o \in 0..5
    PROVE  LET w == EncodeWhere(c, v, o)
           IN  /\ Opcode(w) = OP_WHERE /\ WhereColumn(w) = c
               /\ WhereValue(w) = v /\ WhereOp(w) = o
  <1>1. c % 64 = c /\ v % 256 = v /\ o % 8 = o
    OBVIOUS
  <1>2. EncodeWhere(c, v, o) = 268435456 + c * 2048 + v * 8 + o
    BY <1>1 DEF EncodeWhere, OP_WHERE
  <1> DEFINE w == 268435456 + c * 2048 + v * 8 + o
  <1>3. w \div 268435456 = 1
    OBVIOUS
  <1>4. w \div 2048 = 131072 + c /\ (131072 + c) % 64 = c
    OBVIOUS
  <1>5. w \div 8 = 33554432 + c * 256 + v /\ (33554432 + c * 256 + v) % 256 = v
    OBVIOUS
  <1>6. w % 8 = o
    OBVIOUS
  <1> HIDE DEF w
  <1>7. EncodeWhere(c, v, o) = w
    BY <1>2 DEF w
  <1> QED BY <1>3, <1>4, <1>5, <1>6, <1>7 DEF Opcode, OP_WHERE, WhereColumn, WhereValue, WhereOp

\* A COUNT or SUM word is decoded into its column.
LEMMA DecodeAgg ==
    ASSUME NEW c \in 0..63, NEW w \in {EncodeCount(c), EncodeSum(c)}
    PROVE  Opcode(w) \in {OP_COUNT, OP_SUM} /\ AggColumn(w) = c
  <1>1. c % 64 = c
    OBVIOUS
  <1>2. w = 805306368 + c \/ w = 1073741824 + c
    BY <1>1 DEF EncodeCount, EncodeSum, OP_COUNT, OP_SUM
  <1> QED BY <1>2 DEF Opcode, AggColumn, OP_COUNT, OP_SUM

\* The operators and their codes.
LEMMA OpCodes ==
    /\ OpCode("=") = 0 /\ OpCode("==") = 0 /\ OpCode("!=") = 1 /\ OpCode("<") = 2
    /\ OpCode("<=") = 3 /\ OpCode(">") = 4 /\ OpCode(">=") = 5
  BY DEF OpCode

\* A unit that holds a condition's word judges a row as the condition does.
LEMMA Verdict ==
    ASSUME NEW q \in Queries \cup {NoQuery}, Representable(q), NEW i \in DOMAIN q.where,
           q.where[i].col >= 0, NEW row \in Row
    PROVE  op_result(CondWord(q, i), row) <=> Engine!Holds(q.where[i], row)
  <1> DEFINE cond == q.where[i]
             c == cond.col
             v == cond.val
             w == CondWord(q, i)
             x == row[c]
             o == OpCode(cond.op)
  <1>1. c \in Columns /\ c \in 0..63
    <2>1. cond \in WhereCondition
      BY QueryType
    <2>2. c \in -1..(NUM_COLS - 1)
      BY <2>1 DEF WhereCondition
    <2> QED BY <2>2, PipelineAssumption DEF Columns
  <1>2. v \in 0..255 /\ cond.op \in {"=", "==", "!=", "<", "<=", ">", ">="}
    BY DEF Representable
  <1>3. o \in 0..5
    <2>1. o \in {0, 1, 2, 3, 4, 5}
      BY OpCodeType, Zenon
    <2>2. \A y \in {0, 1, 2, 3, 4, 5} : y \in 0..5
      OBVIOUS
    <2> HIDE DEF o
    <2> QED BY <2>1, <2>2, Zenon
  <1>4. WhereColumn(w) = c /\ WhereValue(w) = v /\ WhereOp(w) = o
    <2>1. w = EncodeWhere(c, v, o)
      BY DEF CondWord
    <2> HIDE DEF c, v, o, w
    <2> QED BY <1>1, <1>2, <1>3, <2>1, DecodeWhere
  <1>5. x \in 0..255
    BY <1>1, CellType
  <1>6. op_result(w, row) <=> \/ o = 0 /\ x = v
                              \/ o = 1 /\ x # v
                              \/ o = 2 /\ x < v
                              \/ o = 3 /\ x <= v
                              \/ o = 4 /\ x > v
                              \/ o = 5 /\ x >= v
    <2> HIDE DEF w, o, c, v
    <2> QED BY <1>4 DEF op_result
  <1>7. CASE cond.op \in {"=", "=="}
    <2>1. Engine!Holds(cond, row) <=> x = v
      BY <1>7 DEF Engine!Holds
    <2>2. o = 0
      BY <1>7, OpCodes
    <2> HIDE DEF cond, x, v, o, w
    <2> QED BY <1>6, <2>1, <2>2 DEF cond, w
  <1>8. CASE cond.op = "!="
    <2>1. Engine!Holds(cond, row) <=> x # v
      BY <1>8 DEF Engine!Holds
    <2>2. o = 1
      BY <1>8, OpCodes
    <2> HIDE DEF cond, x, v, o, w
    <2> QED BY <1>6, <2>1, <2>2 DEF cond, w
  <1>9. CASE cond.op = "<"
    <2>1. Engine!Holds(cond, row) <=> x < v
      BY <1>9 DEF Engine!Holds
    <2>2. o = 2
      BY <1>9, OpCodes
    <2> HIDE DEF cond, x, v, o, w
    <2> QED BY <1>6, <2>1, <2>2 DEF cond, w
  <1>10. CASE cond.op = "<="
    <2>1. Engine!Holds(cond, row) <=> x <= v
      BY <1>10 DEF Engine!Holds
    <2>2. o = 3
      BY <1>10, OpCodes
    <2> HIDE DEF cond, x, v, o, w
    <2> QED BY <1>6, <2>1, <2>2 DEF cond, w
  <1>11. CASE cond.op = ">"
    <2>1. Engine!Holds(cond, row) <=> x > v
      BY <1>11 DEF Engine!Holds
    <2>2. o = 4
      BY <1>11, OpCodes
    <2> HIDE DEF cond, x, v, o, w
    <2> QED BY <1>6, <2>1, <2>2 DEF cond, w
  <1>12. CASE cond.op = ">="
    <2>1. Engine!Holds(cond, row) <=> x >= v
      BY <1>12 DEF Engine!Holds
    <2>2. o = 5
      BY <1>12, OpCodes
    <2> HIDE DEF cond, x, v, o, w
    <2> QED BY <1>6, <2>1, <2>2 DEF cond, w
  <1> QED BY <1>2, <1>7, <1>8, <1>9, <1>10, <1>11, <1>12

\* With the whole program loaded the units select what the engine selects.
LEMMA VerdictAll ==
    ASSUME query \in Queries \cup {NoQuery}, Representable(query), ~CompileFails(query),
           Configured(Len(Program(query))), NEW row \in Row
    PROVE  (\A i \in Units : i < where_active_cnt => op_result(where_inst[i], row))
              <=> Engine!Selects(query, row)
  <1> DEFINE W == Len(query.where)
  <1>1. query.where \in Seq(WhereCondition) /\ W \in Nat /\ DOMAIN query.where = 1..W
    BY QueryType
  <1>2. WhereStop(query) - 1 = W /\ W <= NUM_WHERE /\ \A i \in 1..W : query.where[i].col >= 0
    <2>1. ~ (WhereStop(query) <= W)
      BY DEF CompileFails
    <2> QED BY <1>1, <2>1, WhereStopType, WhereStops, PipelineAssumption
  <1>3. where_active_cnt = W
    <2>1. /\ Len(Program(query)) \in Nat
          /\ Len(Program(query)) >= Bit(Limit(query) > 0) + (WhereStop(query) - 1)
      BY ProgramWords
    <2>2. Bit(Limit(query) > 0) \in {0, 1}
      BY DEF Bit
    <2> QED BY <1>1, <1>2, <2>1, <2>2 DEF Configured, CondsIn
  <1>4. \A i \in 0..(W - 1) : where_inst[i] = CondWord(query, i + 1)
    BY <1>3 DEF Configured
  <1>5. \A i \in 1..W : op_result(CondWord(query, i), row) <=> Engine!Holds(query.where[i], row)
    BY <1>1, <1>2, Verdict
  <1>6. ASSUME \A i \in Units : i < where_active_cnt => op_result(where_inst[i], row), NEW n \in 1..W
        PROVE  Engine!Holds(query.where[n], row)
    <2>1. n - 1 \in Units /\ n - 1 < where_active_cnt /\ n - 1 \in 0..(W - 1) /\ n - 1 + 1 = n
      BY <1>1, <1>2, <1>3, PipelineAssumption DEF Units
    <2>2. op_result(where_inst[n - 1], row) /\ where_inst[n - 1] = CondWord(query, n)
      BY <1>4, <1>6, <2>1
    <2> QED BY <1>5, <2>2
  <1>7. ASSUME \A i \in 1..W : Engine!Holds(query.where[i], row), NEW n \in Units, n < where_active_cnt
        PROVE  op_result(where_inst[n], row)
    <2>1. n \in 0..(W - 1) /\ n + 1 \in 1..W
      BY <1>1, <1>3, <1>7, PipelineAssumption DEF Units
    <2>2. where_inst[n] = CondWord(query, n + 1) /\ op_result(CondWord(query, n + 1), row)
      BY <1>4, <1>5, <1>7, <2>1
    <2> QED BY <2>2
  <1> QED BY <1>1, <1>6, <1>7 DEF Engine!Selects

-----------------------------------------------------------------------------
(* An edge of the clock in the middle of a query, stage by stage.         *)

\* What is computed from the query stays with it.
LEMMA SameQuery ==
    ASSUME query' = query
    PROVE  /\ Program(query)' = Program(query) /\ Limit(query)' = Limit(query)
           /\ CompileFails(query)' = CompileFails(query) /\ WhereStop(query)' = WhereStop(query)
           /\ CaptureLimit(query)' = CaptureLimit(query)
           /\ Passed' = Passed /\ Passes' = Passes /\ Rows' = Rows
           /\ Engine!Stalls(query)' = Engine!Stalls(query)
           /\ Engine!Result(query)' = Engine!Result(query)
  BY DEF Program, Limit, CompileFails, WhereStop, SelectFails, CaptureLimit, Passed, Passes, Rows,
         Engine!PassingOf, Engine!Passing, Engine!Selects, Engine!Holds, Engine!EffectiveLimit,
         Engine!Stalls, Engine!Result, Engine!FirstRows

\* The words of conditions are WHERE words.
LEMMA WhereWord ==
    ASSUME NEW q \in Queries \cup {NoQuery}, NEW i \in 1..(WhereStop(q) - 1)
    PROVE  Opcode(CondWord(q, i)) = 1
  <1>1. q.where[i] \in WhereCondition
    <2>1. i \in 1..Len(q.where) /\ q.where \in Seq(WhereCondition)
      BY WhereStops, WhereStopType, QueryType
    <2> QED BY <2>1
  <1>2. q.where[i].col \in Int /\ q.where[i].val \in Int
    BY <1>1, PipelineAssumption DEF WhereCondition
  <1> DEFINE x == q.where[i].col % 64
             y == q.where[i].val % 256
             z == OpCode(q.where[i].op) % 8
  <1>3. x \in 0..63 /\ y \in 0..255 /\ z \in 0..7
    <2>1. OpCode(q.where[i].op) \in {0, 1, 2, 3, 4, 5}
      BY OpCodeType, Zenon
    <2> QED BY <1>2, <2>1
  <1>4. CondWord(q, i) = 268435456 + x * 2048 + y * 8 + z
    BY DEF CondWord, EncodeWhere, OP_WHERE
  <1> HIDE DEF x, y, z
  <1> QED BY <1>3, <1>4 DEF Opcode

\* An edge out of reset loads the word whose pulse is on.
LEMMA FetchEdge ==
    ASSUME query \in Queries \cup {NoQuery}, query' = query,
           k \in 0..Len(Program(query)),
           where_inst \in [Units -> Nat],
           Configured(Loaded), load_inst \in BOOLEAN, limit_active \in BOOLEAN,
           load_inst => k > 0 /\ inst_reg = Program(query)[k],
           InstructionFetcher(load_inst, inst_reg), LatchOperands(load_inst, inst_reg),
           Loaded' = k
    PROVE  Configured(Loaded)'
  <1> DEFINE l == Bit(Limit(query) > 0)
             c == WhereStop(query) - 1
             n == Len(Program(query))
             L == Limit(query)
             W(i) == CondWord(query, i)
  <1>1. /\ l \in {0, 1} /\ c \in Nat /\ c <= NUM_WHERE /\ c <= Len(query.where) /\ NUM_WHERE \in Nat
        /\ (l = 1 <=> L > 0) /\ L \in Nat /\ k \in Nat
    BY WhereStops, PipelineAssumption, QueryType, AcceleratorAssumption DEF Bit, Limit
  <1>2. /\ n \in Nat /\ n >= l + c /\ n <= l + c + 1 /\ k <= n
        /\ l = 1 => Program(query)[1] = EncodeLimit(L)
        /\ \A i \in 1..c : Program(query)[l + i] = W(i)
        /\ n = l + c + 1 => /\ ~CompileFails(query)
                            /\ Program(query)[n] \in {EncodeCount(query.col), EncodeSum(query.col)}
    BY ProgramWords
  <1> DEFINE Conf(n1, la, lv, cnt, wi, cc) ==
               /\ la <=> L > 0 /\ n1 >= 1
               /\ la => lv = L % 256
               /\ cnt = IF n1 < l THEN 0 ELSE IF n1 - l < c THEN n1 - l ELSE c
               /\ \A i \in 0..(cnt - 1) : wi[i] = W(i + 1)
               /\ n1 > l + c => cc = query.col
  <1>3. Conf(Loaded, limit_active, limit_val_reg, where_active_cnt, where_inst, count_col_idx)
    <2>1. Bit(L > 0) + WhereStop(query) - 1 = l + c
      BY <1>1, WhereStopType
    <2> QED BY <2>1 DEF Configured, CondsIn
  <1>4. ASSUME Conf(k, limit_active', limit_val_reg', where_active_cnt', where_inst', count_col_idx')
        PROVE  Configured(Loaded)'
    <2>1. Bit(L > 0) + WhereStop(query) - 1 = l + c
      BY <1>1, WhereStopType
    <2>2. L' = L /\ WhereStop(query)' = WhereStop(query) /\ l' = l
      BY SameQuery DEF Bit
    <2>3. \A i \in 0..(where_active_cnt - 1)' : CondWord(query, i + 1)' = W(i + 1)
      BY DEF CondWord, OpCode
    <2> QED BY <1>4, <2>1, <2>2, <2>3 DEF Configured, CondsIn
  <1> SUFFICES Conf(k, limit_active', limit_val_reg', where_active_cnt', where_inst', count_col_idx')
    BY <1>4
  <1>5. CASE ~load_inst
    <2>1. Loaded = k
      BY <1>1, <1>5 DEF Loaded, Bit
    <2>2. /\ (limit_active' <=> limit_active) /\ limit_val_reg' = limit_val_reg
          /\ where_active_cnt' = where_active_cnt /\ where_inst' = where_inst
          /\ count_col_idx' = count_col_idx
      BY <1>5 DEF InstructionFetcher, LatchOperands
    <2> HIDE DEF l, c, n, L, W
    <2> QED BY <1>3, <2>1, <2>2
  <1>6. CASE load_inst
    <2> DEFINE w == Program(query)[k]
    <2>1. Loaded = k - 1 /\ k >= 1 /\ inst_reg = w
      BY <1>1, <1>6 DEF Loaded, Bit
    <2>2. CASE k <= l
      <3>1. k = 1 /\ l = 1 /\ L > 0 /\ w = EncodeLimit(L)
        BY <1>1, <1>2, <2>1, <2>2
      <3>2. Opcode(w) = 2 /\ LimitField(w) = L % 256
        BY <1>1, <3>1, DecodeLimit DEF OP_LIMIT
      <3>3. /\ limit_active' /\ limit_val_reg' = L % 256
            /\ where_active_cnt' = where_active_cnt /\ where_inst' = where_inst
        <4>1. limit_val_reg' = LimitField(w)
          <5> HIDE DEF w
          <5> QED BY <1>6, <2>1, <3>2 DEF LatchOperands, OP_LIMIT
        <4> HIDE DEF w
        <4>2. Opcode(inst_reg) = OP_LIMIT /\ Opcode(inst_reg) # OP_WHERE
          BY <2>1, <3>2 DEF OP_LIMIT, OP_WHERE
        <4>3. limit_active'
          BY <1>6, <4>2, Zenon DEF InstructionFetcher
        <4>4. where_active_cnt' = where_active_cnt /\ where_inst' = where_inst
          BY <4>2, Zenon DEF InstructionFetcher
        <4> QED BY <3>2, <4>1, <4>3, <4>4
      <3> HIDE DEF l, c, n, L, W
      <3> QED BY <1>1, <1>3, <2>1, <3>1, <3>3
    <2>3. CASE k > l /\ k <= l + c
      <3>1. k - l \in 1..c /\ w = W(k - l)
        <4>1. k - l \in 1..c /\ l + (k - l) = k
          BY <1>1, <2>3
        <4> HIDE DEF l, c, n, L, W
        <4> QED BY <1>2, <4>1
      <3>2. Opcode(w) = 1
        BY <3>1, <1>1, WhereWord
      <3>3. where_active_cnt = k - 1 - l /\ where_active_cnt \in Units /\ where_active_cnt < NUM_WHERE
        <4> HIDE DEF l, c, n, L, W
        <4> QED BY <1>1, <1>3, <2>1, <2>3 DEF Units
      <3>4. /\ (limit_active' <=> limit_active) /\ limit_val_reg' = limit_val_reg
            /\ where_active_cnt' = where_active_cnt + 1
            /\ where_inst' = [where_inst EXCEPT ![where_active_cnt] = w]
            /\ count_col_idx' = count_col_idx
        <4> HIDE DEF w
        <4> QED BY <1>6, <2>1, <3>2, <3>3
                DEF InstructionFetcher, LatchOperands, OP_LIMIT, OP_WHERE, OP_COUNT, OP_SUM
      <3>5. \A i \in 0..(where_active_cnt' - 1) : where_inst'[i] = W(i + 1)
        <4> SUFFICES ASSUME NEW i \in 0..(where_active_cnt' - 1) PROVE where_inst'[i] = W(i + 1)
          OBVIOUS
        <4>1. CASE i = where_active_cnt
          <5>1. i + 1 = k - l /\ where_inst'[i] = w
            BY <1>1, <3>3, <3>4, <4>1
          <5> HIDE DEF W, l
          <5> QED BY <3>1, <5>1
        <4>2. CASE i # where_active_cnt
          <5>1. i \in 0..(where_active_cnt - 1) /\ i \in Units /\ where_inst'[i] = where_inst[i]
            <6> HIDE DEF l, c, n, L, W, w
            <6>1. where_active_cnt \in Units /\ where_active_cnt' = where_active_cnt + 1
              BY <3>3, <3>4
            <6>2. i \in 0..(where_active_cnt - 1) /\ i \in Units
              BY <4>2, <6>1, PipelineAssumption DEF Units
            <6> QED BY <3>4, <4>2, <6>2
          <5> HIDE DEF l, c, n, L, W
          <5> QED BY <1>3, <5>1
        <4> QED BY <4>1, <4>2
      <3> HIDE DEF l, c, n, L, W
      <3> QED BY <1>1, <1>3, <2>1, <2>3, <3>3, <3>4, <3>5
    <2>4. CASE k > l + c
      <3>1. k = n /\ n = l + c + 1 /\ ~CompileFails(query)
        <4> HIDE DEF l, c, n, L, W
        <4> QED BY <1>1, <1>2, <2>4
      <3>2. query.col \in 0..63
        <4> DEFINE x == query.col
        <4>1. x \in -1..(NUM_COLS - 1) /\ ~ (x < 0)
          BY <3>1, QueryType DEF CompileFails, SelectFails
        <4> HIDE DEF x
        <4>2. x \in 0..63
          BY <4>1, PipelineAssumption
        <4> QED BY <4>2 DEF x
      <3>3. Opcode(w) \in {3, 4} /\ AggColumn(w) = query.col
        <4>1. w \in {EncodeCount(query.col), EncodeSum(query.col)}
          BY <1>2, <3>1
        <4> QED BY <3>2, <4>1, DecodeAgg DEF OP_COUNT, OP_SUM
      <3>4. /\ (limit_active' <=> limit_active) /\ limit_val_reg' = limit_val_reg
            /\ where_active_cnt' = where_active_cnt /\ where_inst' = where_inst
            /\ count_col_idx' = query.col
        <4> HIDE DEF w
        <4> QED BY <1>6, <2>1, <3>3
                DEF InstructionFetcher, LatchOperands, OP_LIMIT, OP_WHERE, OP_COUNT, OP_SUM
      <3> HIDE DEF l, c, n, L, W
      <3> QED BY <1>1, <1>3, <2>1, <2>4, <3>4
    <2> QED BY <1>1, <2>1, <2>2, <2>3, <2>4
  <1> QED BY <1>5, <1>6

\* A clock edge out of reset, in a step of a query that runs.
RunEdge ==
    /\ IndInv /\ OutInv /\ TypeInv /\ Fetched
    /\ Running /\ Running' /\ query' = query /\ Representable(query)
    /\ PipelineClock(data_in_reg, din_valid_ctrl, eof_ctrl, inst_reg, load_inst, rd_out_fifo)
    /\ \/ pc = "din_valid" /\ din_valid_ctrl' /\ sent' = sent + 1
       \/ ~din_valid_ctrl' /\ sent' = sent

\* Where the words are after the edge.
LEMMA Flow ==
    ASSUME RunEdge
    PROVE  /\ rd_en_pipe2' <=> rd_en_pipe1
           /\ rd_en_pipe1' <=> in_fifo.q # <<>> /\ ~limit_hit
           /\ ~limit_hit => in_fifo'.q = IF din_valid_ctrl THEN <<data_in_reg>> ELSE <<>>
           /\ limit_hit => in_fifo'.q = IF din_valid_ctrl THEN Append(in_fifo.q, data_in_reg)
                                                          ELSE in_fifo.q
           /\ in_fifo.q # <<>> /\ ~limit_hit => in_fifo'.dout = in_fifo.q[1]
           /\ where_stage_dout' = in_fifo.dout
           /\ \A i \in Units : where_valid_out'[i] <=> op_result(where_inst[i], in_fifo.dout)
           /\ rd_en_pipe1 => where_inst' = where_inst /\ where_active_cnt' = where_active_cnt
  <1> DEFINE q == in_fifo.q
             rd == fifo_rd_en(load_inst)
  <1>1. /\ q \in Seq(Row) /\ Len(q) \in Nat /\ Len(q) <= FIFO_DEPTH /\ data_in_reg \in Row
        /\ FIFO_DEPTH \in Nat \ {0}
    BY PipelineAssumption DEF RunEdge, IndInv, Types
  <1>2. rd <=> q # <<>> /\ ~limit_hit
    <2>1. Len(q) = 0 <=> q = <<>>
      BY <1>1, EmptySeq
    <2>2. load_inst => q = <<>>
      BY DEF RunEdge, IndInv, LoadQuiet
    <2> QED BY <2>1, <2>2 DEF fifo_rd_en, In!Empty
  <1>3. in_fifo' = In!QueueClock(in_fifo, din_valid_ctrl, rd, data_in_reg)
    BY DEF RunEdge, PipelineClock
  <1>4. /\ in_fifo'.q = IF din_valid_ctrl /\ Len(q) < FIFO_DEPTH
                          THEN Append(IF rd /\ Len(q) > 0 THEN Tail(q) ELSE q, data_in_reg)
                          ELSE IF rd /\ Len(q) > 0 THEN Tail(q) ELSE q
        /\ in_fifo'.dout = IF rd /\ Len(q) > 0 THEN Head(q) ELSE in_fifo.dout
    BY <1>3 DEF In!QueueClock, In!Accepts, In!Delivers
  <1>5. din_valid_ctrl => Len(q) < FIFO_DEPTH
    BY DEF RunEdge, IndInv, RoomForWord
  <1>6. q # <<>> /\ ~limit_hit => ~din_valid_ctrl /\ Len(q) = 1
    BY DEF RunEdge, IndInv, FifoTransient
  <1>7. ASSUME limit_hit
        PROVE  in_fifo'.q = IF din_valid_ctrl THEN Append(q, data_in_reg) ELSE q
    <2>1. ~rd
      BY <1>2, <1>7
    <2> HIDE DEF rd, q
    <2> QED BY <1>4, <1>5, <2>1
  <1>8. ASSUME ~limit_hit, q = <<>>
        PROVE  in_fifo'.q = IF din_valid_ctrl THEN <<data_in_reg>> ELSE <<>>
    <2>1. ~rd /\ Append(q, data_in_reg) = <<data_in_reg>>
      BY <1>2, <1>8
    <2> HIDE DEF rd, q
    <2> QED BY <1>4, <1>5, <1>8, <2>1
  <1>9. ASSUME ~limit_hit, q # <<>>
        PROVE  in_fifo'.q = <<>> /\ in_fifo'.dout = q[1] /\ ~din_valid_ctrl
    <2>1. rd /\ Len(q) = 1 /\ ~din_valid_ctrl
      BY <1>2, <1>6, <1>9
    <2> HIDE DEF rd, q
    <2>2. Head(q) = q[1]
      BY <1>1, <2>1
    <2>3. Tail(q) \in Seq(Row) /\ Len(Tail(q)) = 0
      BY <1>1, <1>9, <2>1, HeadTailProperties
    <2>4. Tail(q) = <<>>
      BY <2>3, EmptySeq
    <2> QED BY <1>4, <2>1, <2>2, <2>4
  <1>10. (rd_en_pipe2' <=> rd_en_pipe1) /\ (rd_en_pipe1' <=> rd) /\ where_stage_dout' = in_fifo.dout
    BY DEF RunEdge, PipelineClock, Stage1, TypeInv, HwTypes, FlagTypes
  <1>11. \A i \in Units : where_valid_out'[i] <=> op_result(where_inst[i], in_fifo.dout)
    <2>1. where_valid_out' = [i \in Units |-> op_result(where_inst[i], in_fifo.dout)]
      BY DEF RunEdge, PipelineClock, WhereFilters
    <2> QED BY <2>1
  <1>12. rd_en_pipe1 => where_inst' = where_inst /\ where_active_cnt' = where_active_cnt
    <2>1. rd_en_pipe1 => ~load_inst
      BY DEF RunEdge, OutInv, LoadEmpty
    <2> QED BY <2>1 DEF RunEdge, PipelineClock, InstructionFetcher
  <1> HIDE DEF rd
  <1> QED BY <1>2, <1>7, <1>8, <1>9, <1>10, <1>11, <1>12

\* With a row behind the first stage the whole program is loaded.
LEMMA LoadedAll ==
    ASSUME IndInv, OutInv, TypeInv, Fetched, Active, rd_en_pipe1 \/ rd_en_pipe2
    PROVE  Configured(Len(Program(query)))
  <1>1. ~load_inst /\ pc \notin {"inst", "load"}
    BY DEF OutInv, LoadEmpty
  <1>2. k = Len(Program(query)) /\ Configured(Loaded)
    BY <1>1 DEF Fetched
  <1>3. Loaded = k
    BY <1>1 DEF Loaded, Bit, TypeInv, CpuTypes, InstructionsLeft
  <1> QED BY <1>2, <1>3

\* The units' verdict on the row at the end of the first stage.
LEMMA VerdictHere ==
    ASSUME RunEdge, Stream, rd_en_pipe2, ~limit_hit
    PROVE  where_valid_and <=> Engine!Selects(query, query.rows[sent])
  <1>1. /\ sent > 0 /\ Active /\ ~CompileFails(query)
        /\ \A i \in Units : i < where_active_cnt =>
              (where_valid_out[i] <=> op_result(where_inst[i], query.rows[sent]))
    BY DEF Stream, Coming, RunEdge, Running
  <1>2. query.rows[sent] \in Row
    BY <1>1 DEF RunEdge, IndInv, Types, TypeInv, CpuTypes, WordsBounded
  <1>3. Configured(Len(Program(query)))
    BY <1>1, LoadedAll DEF RunEdge
  <1>4. query \in Queries \cup {NoQuery} /\ Representable(query)
    BY DEF RunEdge, TypeInv, CpuTypes, InstructionsLeft
  <1>5. (\A i \in Units : i < where_active_cnt => op_result(where_inst[i], query.rows[sent]))
           <=> Engine!Selects(query, query.rows[sent])
    BY <1>1, <1>2, <1>3, <1>4, VerdictAll
  <1> QED BY <1>1, <1>5 DEF where_valid_and

\* What the limit stage does with it.
LEMMA LimitEdge ==
    ASSUME RunEdge, Stream, Counted
    PROVE  /\ limit_hit => limit_hit' /\ ~limit_valid_out' /\ limit_count' = limit_count
           /\ ~limit_hit /\ ~where_valid_and =>
                 ~internal_hit' /\ ~limit_valid_out' /\ limit_count' = limit_count
           /\ ~limit_hit /\ where_valid_and =>
                 /\ limit_valid_out'
                 /\ limit_active => /\ limit_count' = (limit_count + 1) % 256
                                    /\ internal_hit' <=> (limit_count + 1) % 256 >= limit_val_reg
                 /\ ~limit_active => ~internal_hit'
           /\ limit_done_out' <=> stage1_done \/ limit_hit
           /\ limit_stage_dout' = where_stage_dout
  <1>1. LimitStage /\ (limit_hit => limit_hit')
    BY LimitStays DEF RunEdge, PipelineClock
  <1>2. ~limit_hit => ~internal_hit
    BY DEF Counted, RunEdge, limit_hit
  <1>3. ~limit_hit /\ where_valid_and => ~stage1_done
    BY DEF RunEdge, IndInv, DoneAfterLast, where_valid_and
  <1>4. stage1_done \in BOOLEAN /\ internal_hit \in BOOLEAN /\ where_valid_and \in BOOLEAN
    BY Zenon DEF RunEdge, TypeInv, HwTypes, FlagTypes, where_valid_and
  <1> DEFINE V == where_valid_and
             nx == (limit_count + 1) % 256
  <1>5. /\ limit_stage_dout' = where_stage_dout
        /\ ~limit_active => /\ limit_valid_out' <=> V
                            /\ ~internal_hit'
                            /\ limit_done_out' <=> stage1_done
                            /\ limit_count' = limit_count
        /\ limit_active => LET passes == V /\ ~internal_hit /\ ~stage1_done
                           IN  /\ limit_valid_out' <=> passes
                               /\ limit_count' = IF passes THEN nx ELSE limit_count
                               /\ internal_hit' <=> internal_hit \/ (passes /\ nx >= limit_val_reg)
                               /\ limit_done_out' <=> stage1_done \/ (~passes /\ internal_hit)
    BY <1>1, <1>4 DEF LimitStage
  <1> HIDE DEF V, nx
  <1>6. CASE limit_hit
    BY <1>1, <1>5, <1>6 DEF limit_hit
  <1>7. CASE ~limit_hit /\ ~V
    BY <1>2, <1>5, <1>7 DEF V
  <1>8. CASE ~limit_hit /\ V
    BY <1>2, <1>3, <1>5, <1>8 DEF V, nx
  <1> QED BY <1>6, <1>7, <1>8 DEF V, nx

\* The edge judges the row at the end of the first stage.
LEMMA Judges ==
    ASSUME RunEdge, Stream, Counted
    PROVE  /\ Judged' = Judged + Bit(rd_en_pipe2 /\ ~limit_hit)
           /\ rd_en_pipe2 /\ ~limit_hit => Judged = sent - 1 /\ sent > 0 /\ ~Coming'
           /\ ~rd_en_pipe2 /\ ~limit_hit => ~limit_hit'
  <1>1. /\ sent \in Nat /\ in_fifo.q \in Seq(Row) /\ Len(in_fifo.q) \in Nat /\ data_in_reg \in Row
    BY DEF RunEdge, IndInv, Types
  <1>2. pc = "din_valid" => /\ ~din_valid_ctrl /\ ~rd_en_pipe1 /\ ~rd_en_pipe2
                            /\ in_fifo.q # <<>> => limit_hit
    BY DEF RunEdge, IndInv, OutInv, Arrived, PulseTiming, FifoTransient
  <1>3. CASE limit_hit
    <2>1. limit_hit' /\ ~Coming /\ ~Coming'
      BY <1>3, LimitEdge DEF Coming
    <2>2. /\ Judged = sent - Bit(din_valid_ctrl) - Len(in_fifo.q)
          /\ Judged' = sent' - Bit(din_valid_ctrl') - Len(in_fifo'.q)
      BY <1>3, <2>1 DEF Judged, Bit
    <2>3. Len(in_fifo'.q) = Len(in_fifo.q) + Bit(din_valid_ctrl)
      <3>1. in_fifo'.q = IF din_valid_ctrl THEN Append(in_fifo.q, data_in_reg) ELSE in_fifo.q
        BY <1>3, Flow
      <3>2. CASE din_valid_ctrl
        <4>1. in_fifo'.q = Append(in_fifo.q, data_in_reg)
          BY <3>1, <3>2
        <4>2. Len(in_fifo'.q) = Len(in_fifo.q) + 1
          BY <1>1, <4>1, AppendProperties
        <4> QED BY <3>2, <4>2 DEF Bit
      <3>3. CASE ~din_valid_ctrl
        BY <1>1, <3>1, <3>3 DEF Bit
      <3> QED BY <3>2, <3>3
    <2>4. sent' - Bit(din_valid_ctrl') = sent
      <3>1. CASE pc = "din_valid" /\ din_valid_ctrl' /\ sent' = sent + 1
        BY <1>1, <3>1 DEF Bit
      <3>2. CASE ~din_valid_ctrl' /\ sent' = sent
        BY <1>1, <3>2 DEF Bit
      <3> QED BY <3>1, <3>2 DEF RunEdge
    <2>5. Judged' = Judged
      <3>1. Bit(din_valid_ctrl) \in Int /\ Bit(din_valid_ctrl') \in Int /\ sent' \in Int
        BY <1>1 DEF Bit, RunEdge
      <3> QED BY <1>1, <2>2, <2>3, <2>4, <3>1
    <2>6. Judged \in Int
      BY <1>1, <2>2 DEF Bit
    <2> QED BY <1>3, <2>1, <2>5, <2>6 DEF Bit
  <1>4. CASE ~limit_hit /\ rd_en_pipe2
    <2>1. ~din_valid_ctrl /\ in_fifo.q = <<>> /\ ~rd_en_pipe1 /\ pc # "din_valid" /\ sent > 0
      BY <1>2, <1>4 DEF RunEdge, OutInv, OneOnTheWay, Stream, Coming
    <2>2. sent' = sent /\ ~din_valid_ctrl'
      BY <2>1 DEF RunEdge
    <2>3. in_fifo'.q = <<>> /\ ~rd_en_pipe1' /\ ~rd_en_pipe2'
      BY <1>4, <2>1, Flow
    <2>4. ~Coming' /\ Coming
      BY <1>4, <2>2, <2>3 DEF Coming
    <2>5. Judged = sent - 1
      BY <2>4 DEF Judged
    <2>6. Judged' = sent
      BY <1>1, <2>2, <2>3, <2>4 DEF Judged, Bit
    <2> QED BY <1>1, <1>4, <2>1, <2>4, <2>5, <2>6 DEF Bit
  <1>5. CASE ~limit_hit /\ ~rd_en_pipe2
    <2>1. ~limit_hit'
      BY <1>5, LimitEdge DEF limit_hit, where_valid_and
    <2>2. CASE pc = "din_valid" /\ din_valid_ctrl' /\ sent' = sent + 1
      <3>1. ~Coming
        BY <1>2, <1>5, <2>2 DEF Coming
      <3>2. Coming'
        BY <2>1, <2>2 DEF Coming
      <3>3. Judged = sent /\ Judged' = sent' - 1
        BY <1>5, <3>1, <3>2 DEF Judged
      <3> QED BY <1>1, <1>5, <2>1, <2>2, <3>3 DEF Bit
    <2>3. CASE ~din_valid_ctrl' /\ sent' = sent
      <3>1. Coming' <=> Coming
        <4>1. in_fifo'.q # <<>> <=> din_valid_ctrl
          BY <1>1, <1>5, Flow
        <4>2. (rd_en_pipe1' <=> in_fifo.q # <<>>) /\ (rd_en_pipe2' <=> rd_en_pipe1)
          BY <1>5, Flow
        <4> QED BY <1>5, <2>1, <2>3, <4>1, <4>2 DEF Coming
      <3>2. Judged' = Judged /\ Judged \in Int
        BY <1>1, <1>5, <2>1, <2>3, <3>1 DEF Judged
      <3> QED BY <1>5, <2>1, <3>2 DEF Bit
    <2> QED BY <2>2, <2>3 DEF RunEdge
  <1> QED BY <1>3, <1>4, <1>5

\* The words on their way are rows of the table, and the last one sent.
LEMMA StreamEdge ==
    ASSUME RunEdge, Stream, Counted,
           din_valid_ctrl' => data_in_reg' = data_in_reg,
           pc' = "din_valid" => data_in_reg' = query.rows[sent + 1] /\ sent' = sent
    PROVE  Stream'
  <1>1. sent \in Nat /\ query' = query /\ data_in_reg \in Row
    BY DEF RunEdge, IndInv, Types
  <1>2. limit_hit' => ~rd_en_pipe1' /\ ~rd_en_pipe2'
    <2>1. CASE limit_hit
      BY <2>1, Flow DEF Stream, RunEdge
    <2>2. CASE ~limit_hit /\ rd_en_pipe2
      <3>1. in_fifo.q = <<>> /\ ~rd_en_pipe1
        BY <2>2 DEF RunEdge, OutInv, OneOnTheWay
      <3> QED BY <3>1, Flow
    <2>3. CASE ~limit_hit /\ ~rd_en_pipe2
      BY <2>3, Judges
    <2> QED BY <2>1, <2>2, <2>3
  <1>3. ASSUME Coming'
        PROVE  /\ sent' > 0
               /\ din_valid_ctrl' => data_in_reg' = query.rows[sent']
               /\ in_fifo'.q # <<>> => in_fifo'.q[1] = query.rows[sent']
               /\ rd_en_pipe1' => in_fifo'.dout = query.rows[sent']
               /\ rd_en_pipe2' => /\ where_stage_dout' = query.rows[sent']
                                  /\ \A i \in Units : i < where_active_cnt' =>
                                       (where_valid_out'[i] <=> op_result(where_inst'[i], query.rows[sent']))
    <2>1. ~limit_hit' /\ ~limit_hit
      BY <1>3, LimitEdge DEF Coming
    <2>2. CASE pc = "din_valid" /\ din_valid_ctrl' /\ sent' = sent + 1
      <3>1. ~din_valid_ctrl /\ ~rd_en_pipe1 /\ in_fifo.q = <<>>
        BY <2>1, <2>2 DEF RunEdge, IndInv, OutInv, Arrived, PulseTiming, FifoTransient
      <3>2. in_fifo'.q = <<>> /\ ~rd_en_pipe1' /\ ~rd_en_pipe2'
        BY <2>1, <3>1, Flow
      <3>3. data_in_reg = query.rows[sent + 1]
        BY <2>2 DEF Stream, RunEdge
      <3> QED BY <1>1, <2>2, <3>2, <3>3
    <2>3. CASE ~din_valid_ctrl' /\ sent' = sent
      <3>1. ~rd_en_pipe2 \/ ~Coming'
        BY <2>1, Judges
      <3>2. /\ in_fifo'.q = IF din_valid_ctrl THEN <<data_in_reg>> ELSE <<>>
            /\ rd_en_pipe1' <=> in_fifo.q # <<>>
            /\ rd_en_pipe2' <=> rd_en_pipe1
        BY <2>1, Flow
      <3>3. Coming
        BY <1>3, <2>1, <2>3, <3>2 DEF Coming
      <3>4. /\ sent > 0
            /\ din_valid_ctrl => data_in_reg = query.rows[sent]
            /\ in_fifo.q # <<>> => in_fifo.q[1] = query.rows[sent]
            /\ rd_en_pipe1 => in_fifo.dout = query.rows[sent]
        BY <3>3 DEF Stream, RunEdge
      <3>5. in_fifo'.q # <<>> => in_fifo'.q[1] = query.rows[sent]
        BY <1>1, <3>2, <3>4
      <3>6. rd_en_pipe1' => in_fifo'.dout = query.rows[sent]
        BY <2>1, <3>2, <3>4, Flow
      <3>7. rd_en_pipe2' => /\ where_stage_dout' = query.rows[sent]
                            /\ \A i \in Units : i < where_active_cnt' =>
                                  (where_valid_out'[i] <=> op_result(where_inst'[i], query.rows[sent]))
        <4> SUFFICES ASSUME rd_en_pipe2'
                     PROVE  /\ where_stage_dout' = query.rows[sent]
                            /\ \A i \in Units : i < where_active_cnt' =>
                                  (where_valid_out'[i] <=> op_result(where_inst'[i], query.rows[sent]))
          OBVIOUS
        <4>1. in_fifo.dout = query.rows[sent] /\ where_inst' = where_inst /\ where_stage_dout' = in_fifo.dout
          BY <3>2, <3>4, Flow
        <4>2. \A i \in Units : where_valid_out'[i] <=> op_result(where_inst[i], in_fifo.dout)
          BY Flow
        <4> QED BY <4>1, <4>2
      <3> QED BY <2>3, <3>4, <3>5, <3>6, <3>7
    <2> QED BY <2>2, <2>3 DEF RunEdge
  <1>4. pc' = "din_valid" => data_in_reg' = query'.rows[sent' + 1]
    BY <1>1
  <1> QED BY <1>1, <1>2, <1>3, <1>4 DEF Stream

\* What the engine says of the query that runs.
LEMMA TableFacts ==
    ASSUME query \in Queries \cup {NoQuery}, Representable(query)
    PROVE  /\ query.rows \in Seq(Row) /\ Rows \in Nat /\ Limit(query) \in 0..255
           /\ Passed \in [0..Rows -> Seq(Row)] /\ Passed[0] = <<>>
           /\ Passes = Passed[Rows] /\ Passes \in Seq(Row) /\ Len(Passes) \in Nat
           /\ \A n \in 0..Rows : /\ Len(Passed[n]) \in Nat /\ Len(Passed[n]) <= n
                                 /\ Len(Passed[n]) <= Len(Passes)
                                 /\ Limit(query) > 0 => Len(Passed[n]) <= Limit(query)
  <1>1. query.rows \in Seq(Row) /\ Rows \in Nat
    BY QueryType DEF Rows
  <1>2. Limit(query) \in Nat /\ Limit(query) <= 255
    BY QueryType, AcceleratorAssumption DEF Limit, Representable
  <1>3. /\ Passed \in [0..Rows -> Seq(Row)] /\ Passed[0] = <<>>
        /\ Passes = Passed[Rows]
    BY <1>1, PassingRec DEF Passed, Passes, Rows, Engine!Passing
  <1>4. Rows \in 0..Rows
    BY <1>1
  <1>5. Passes \in Seq(Row) /\ Len(Passes) \in Nat
    BY <1>3, <1>4
  <1>6. ASSUME NEW n \in 0..Rows
        PROVE  /\ Len(Passed[n]) \in Nat /\ Len(Passed[n]) <= n
               /\ Len(Passed[n]) <= Len(Passes)
               /\ Limit(query) > 0 => Len(Passed[n]) <= Limit(query)
    <2>1. /\ Len(Passed[n]) \in Nat /\ Len(Passed[n]) <= n
          /\ Limit(query) > 0 => Len(Passed[n]) <= Limit(query)
      BY <1>1, <1>2, PassingBounds DEF Passed, Rows
    <2>2. Extends(Passed[n], Passed[Rows])
      BY <1>1, <1>4, PassingGrows DEF Passed, Rows
    <2> QED BY <1>3, <2>1, <2>2 DEF Extends
  <1>7. Limit(query) \in 0..255
    BY <1>2
  <1> QED BY <1>1, <1>3, <1>5, <1>6, <1>7, Zenon

\* The state that RunEdge is about.
LEMMA RunFacts ==
    ASSUME RunEdge
    PROVE  query \in Queries \cup {NoQuery} /\ sent \in 0..Rows /\ k \in 0..Len(Program(query))
  BY DEF RunEdge, TypeInv, CpuTypes, InstructionsLeft, WordsBounded, Rows

\* The row at the end of the first stage passes if the engine lets it pass.
LEMMA Admitted ==
    ASSUME RunEdge, Stream, Counted, rd_en_pipe2, ~limit_hit
    PROVE  /\ sent \in 1..Rows /\ Judged = sent - 1 /\ ~load_inst
           /\ limit_active <=> Limit(query) > 0
           /\ Limit(query) > 0 => /\ limit_val_reg = Limit(query)
                                  /\ limit_count = Len(Passed[sent - 1])
                                  /\ Len(Passed[sent - 1]) < Limit(query)
           /\ where_valid_and <=> Admits(query, sent, Passed[sent - 1])
           /\ where_stage_dout = query.rows[sent]
  <1>1. query \in Queries \cup {NoQuery} /\ sent \in 0..Rows /\ Representable(query) /\ Running
    BY RunFacts DEF RunEdge
  <1>2. Judged = sent - 1 /\ sent > 0 /\ ~load_inst /\ where_stage_dout = query.rows[sent]
    BY <1>1, Judges DEF RunEdge, OutInv, LoadEmpty, Stream, Coming
  <1>3. Configured(Len(Program(query)))
    BY <1>1, LoadedAll DEF RunEdge, Running
  <1>4. Limit(query) \in 0..255 /\ Rows \in Nat /\ sent - 1 \in 0..Rows /\ sent \in 1..Rows
    BY <1>1, <1>2, TableFacts
  <1>5. Len(Passed[sent - 1]) \in Nat
    BY <1>1, <1>4, TableFacts
  <1>6. Limit(query) > 0 => Len(Program(query)) >= 1
    <2>1. /\ Len(Program(query)) \in Nat
          /\ Len(Program(query)) >= Bit(Limit(query) > 0) + (WhereStop(query) - 1)
          /\ WhereStop(query) - 1 \in Nat
      BY <1>1, ProgramWords, WhereStops, PipelineAssumption
    <2> QED BY <2>1 DEF Bit
  <1>7. /\ limit_active <=> Limit(query) > 0
        /\ limit_active => limit_val_reg = Limit(query) % 256
    BY <1>3, <1>6 DEF Configured
  <1>8. Limit(query) % 256 = Limit(query)
    BY <1>4
  <1>9. /\ limit_count = IF limit_active THEN Len(Passed[sent - 1]) ELSE 0
        /\ internal_hit <=> limit_active /\ Len(Passed[sent - 1]) >= Limit(query)
    BY <1>1, <1>2 DEF Counted
  <1>10. limit_active => Len(Passed[sent - 1]) < Limit(query)
    <2>1. limit_active => ~ (Len(Passed[sent - 1]) >= Limit(query))
      BY <1>9, Zenon DEF limit_hit
    <2> DEFINE p == Len(Passed[sent - 1])
               L == Limit(query)
    <2>2. ~ (p >= L) => p < L
      <3> HIDE DEF p, L
      <3>1. p \in Nat /\ L \in 0..255
        BY <1>4, <1>5 DEF p, L
      <3> QED BY <3>1
    <2> QED BY <2>1, <2>2, Zenon
  <1>11. where_valid_and <=> Engine!Selects(query, query.rows[sent])
    BY VerdictHere
  <1> QED BY <1>2, <1>4, <1>7, <1>8, <1>9, <1>10, <1>11 DEF Admits

\* The limit stage counts the rows that the engine lets pass.
LEMMA CountedEdge ==
    ASSUME RunEdge, Stream, Counted, Configured(Loaded)', load_inst => sent = 0
    PROVE  /\ Counted'
           /\ Count' = Count + Bit(limit_valid_out')
           /\ limit_valid_out' => limit_stage_dout' = Passes[Count']
           /\ limit_valid_out' => ~limit_hit /\ rd_en_pipe2
  <1> DEFINE P(n) == Len(Passed[n])
             L == Limit(query)
  <1>1. query \in Queries \cup {NoQuery} /\ sent \in 0..Rows /\ Representable(query) /\ Running /\ Running'
        /\ query' = query
    BY RunFacts DEF RunEdge
  <1>2. L \in 0..255 /\ Rows \in Nat /\ \A n \in 0..Rows : P(n) \in Nat /\ P(n) <= n
        /\ query.rows \in Seq(Row) /\ P(0) = 0
    BY <1>1, TableFacts
  <1>3. Passed' = Passed /\ Limit(query)' = L /\ Rows' = Rows /\ Passes' = Passes
    BY <1>1, SameQuery
  <1>4. /\ Judged \in 0..Rows
        /\ limit_count = IF limit_active THEN P(Judged) ELSE 0
        /\ internal_hit <=> limit_active /\ P(Judged) >= L
        /\ limit_hit => Judged >= 1 /\ P(Judged - 1) < L
    BY <1>1 DEF Counted
  <1>5. limit_active' => L > 0
    BY <1>3 DEF Configured
  <1>6. Count = P(Judged) /\ Count' = P(Judged')
    BY <1>3 DEF Count
  <1>7. SUFFICES /\ Judged' \in 0..Rows
                 /\ limit_count' = IF limit_active' THEN P(Judged') ELSE 0
                 /\ internal_hit' <=> limit_active' /\ P(Judged') >= L
                 /\ limit_hit' => Judged' >= 1 /\ P(Judged' - 1) < L
                 /\ P(Judged') = P(Judged) + Bit(limit_valid_out')
                 /\ limit_valid_out' => limit_stage_dout' = Passes[P(Judged')]
                 /\ limit_valid_out' => ~limit_hit /\ rd_en_pipe2
    BY <1>3, <1>6 DEF Counted
  <1>8. limit_active \in BOOLEAN /\ internal_hit \in BOOLEAN
    BY DEF RunEdge, TypeInv, HwTypes, FlagTypes
  <1>9. limit_active' <=> limit_active \/ (load_inst /\ Opcode(inst_reg) = OP_LIMIT)
    BY <1>8 DEF RunEdge, PipelineClock, InstructionFetcher
  <1>10. CASE limit_hit
    <2>1. Judged' = Judged
      BY <1>4, <1>10, Judges DEF Bit
    <2>2. limit_hit' /\ ~limit_valid_out' /\ limit_count' = limit_count
      BY <1>10, LimitEdge
    <2>3. limit_active' /\ limit_active /\ internal_hit' /\ internal_hit
      BY <1>10, <2>2 DEF limit_hit
    <2> HIDE DEF P, L
    <2> QED BY <1>2, <1>4, <1>10, <2>1, <2>2, <2>3 DEF Bit
  <1>11. CASE ~limit_hit /\ rd_en_pipe2
    <2>1. /\ sent \in 1..Rows /\ Judged = sent - 1 /\ ~load_inst
          /\ limit_active <=> L > 0
          /\ L > 0 => limit_val_reg = L /\ limit_count = P(sent - 1) /\ P(sent - 1) < L
          /\ where_valid_and <=> Admits(query, sent, Passed[sent - 1])
          /\ where_stage_dout = query.rows[sent]
      BY <1>11, Admitted
    <2>2. Judged' = sent /\ (limit_active' <=> limit_active)
      BY <1>8, <1>9, <1>11, <2>1, Judges DEF Bit
    <2>3. CASE ~where_valid_and
      <3>1. P(sent) = P(sent - 1)
        <4>1. sent \in 1..Len(query.rows) /\ ~Admits(query, sent, Engine!PassingOf(query)[sent - 1])
          BY <2>1, <2>3 DEF Passed, Rows
        <4> QED BY <1>2, <4>1, PassingNext DEF Passed
      <3>2. ~internal_hit' /\ ~limit_valid_out' /\ limit_count' = limit_count
        BY <1>11, <2>3, LimitEdge
      <3> HIDE DEF P, L
      <3> QED BY <1>2, <1>4, <2>1, <2>2, <3>1, <3>2 DEF Bit, limit_hit
    <2>4. CASE where_valid_and
      <3>1. P(sent) = P(sent - 1) + 1 /\ Passes[P(sent)] = query.rows[sent]
        <4>1. sent \in 1..Len(query.rows) /\ Admits(query, sent, Engine!PassingOf(query)[sent - 1])
          BY <2>1, <2>4 DEF Passed, Rows
        <4>2. /\ Len(Engine!PassingOf(query)[sent]) = Len(Engine!PassingOf(query)[sent - 1]) + 1
              /\ Engine!Passing(query)[Len(Engine!PassingOf(query)[sent])] = query.rows[sent]
          <5>1. query.rows \in Seq(Row)
            BY <1>2
          <5> QED BY <4>1, <5>1, PassingNext, Zenon
        <4> QED BY <4>2, Zenon DEF Passed, Passes
      <3>2. /\ limit_valid_out'
            /\ limit_active => /\ limit_count' = (limit_count + 1) % 256
                               /\ internal_hit' <=> (limit_count + 1) % 256 >= limit_val_reg
            /\ ~limit_active => ~internal_hit'
            /\ limit_stage_dout' = where_stage_dout
        BY <1>11, <2>4, LimitEdge
      <3>6. ~limit_active => limit_count' = 0
        <4>1. ~limit_active => limit_count' = limit_count
          BY DEF RunEdge, PipelineClock, LimitStage
        <4> QED BY <1>4, <4>1
      <3> HIDE DEF P, L
      <3>5. P(sent) \in Nat /\ P(sent - 1) \in Nat
        BY <1>2, <2>1
      <3>4. ASSUME limit_active PROVE limit_count' = P(sent) /\ (internal_hit' <=> P(sent) >= L)
        <4>1. /\ limit_count = P(sent - 1) /\ P(sent - 1) < L /\ limit_val_reg = L
              /\ limit_count' = (limit_count + 1) % 256
              /\ internal_hit' <=> (limit_count + 1) % 256 >= limit_val_reg
          BY <2>1, <3>2, <3>4
        <4>2. (limit_count + 1) % 256 = P(sent)
          <5>1. P(sent - 1) < 255
            BY <1>2, <3>5, <4>1
          <5>2. \A i \in 0..254 : (i + 1) % 256 = i + 1
            OBVIOUS
          <5>3. P(sent - 1) \in 0..254
            BY <3>5, <5>1
          <5> QED BY <3>1, <4>1, <5>2, <5>3
        <4> QED BY <4>1, <4>2
      <3> QED BY <1>2, <1>4, <1>11, <2>1, <2>2, <3>1, <3>2, <3>4, <3>5, <3>6 DEF Bit, limit_hit
    <2> QED BY <2>3, <2>4
  <1>12. CASE ~limit_hit /\ ~rd_en_pipe2
    <2>1. Judged' = Judged /\ ~limit_hit'
      BY <1>4, <1>12, Judges DEF Bit
    <2>2. ~internal_hit' /\ ~limit_valid_out' /\ limit_count' = limit_count
      BY <1>12, LimitEdge DEF where_valid_and
    <2>3. load_inst => Judged = 0
      <3>1. load_inst /\ Judged # sent => Judged < 0
        <4>1. Judged # sent => Judged = sent - 1
          BY <1>12 DEF Judged
        <4> QED BY <4>1
      <3> QED BY <1>4, <3>1
    <2> HIDE DEF P, L
    <2>4. limit_count' = IF limit_active' THEN P(Judged) ELSE 0
      BY <1>2, <1>4, <1>9, <2>2, <2>3
    <2>5. ~ (limit_active' /\ P(Judged) >= L)
      <3>1. limit_active => P(Judged) < L
        BY <1>2, <1>4, <1>12 DEF limit_hit
      <3>2. limit_active' /\ ~limit_active => P(Judged) = 0 /\ L > 0
        BY <1>2, <1>5, <1>9, <2>3
      <3> QED BY <1>2, <1>4, <3>1, <3>2
    <2> QED BY <1>2, <1>4, <2>1, <2>2, <2>4, <2>5 DEF Bit
  <1> QED BY <1>10, <1>11, <1>12

\* A row on its way into the output FIFO is taken, and finds the program loaded.
LEMMA OutReady ==
    ASSUME RunEdge, Delivered, FIFO_DEPTH > 1
    PROVE  /\ count_valid_in <=> limit_valid_out
           /\ Out!Accepts(out_fifo, out_fifo_wr_en(load_inst)) <=> limit_valid_out
           /\ limit_valid_out => Configured(Len(Program(query)))
  <1>1. limit_valid_out => ~limit_done_out /\ ~load_inst /\ pc \notin {"inst", "load"}
    BY DEF RunEdge, Delivered, OutInv, LoadEmpty
  <1>2. Len(out_fifo.q) \in Nat /\ FIFO_DEPTH \in Nat /\ (limit_valid_out => Len(out_fifo.q) <= 1)
    BY PipelineAssumption DEF RunEdge, OutInv, RowTypes, Occupancy
  <1>3. limit_valid_out => Len(out_fifo.q) < FIFO_DEPTH
    BY <1>2
  <1>4. limit_valid_out => Configured(Len(Program(query)))
    <2> SUFFICES ASSUME limit_valid_out PROVE Configured(Len(Program(query)))
      OBVIOUS
    <2>1. ~load_inst /\ k = Len(Program(query)) /\ Configured(Loaded)
      BY <1>1 DEF RunEdge, Fetched, Running
    <2>2. Loaded = k
      BY <2>1, RunFacts DEF Loaded, Bit
    <2> QED BY <2>1, <2>2
  <1>5. limit_valid_out \in BOOLEAN
    BY DEF RunEdge, TypeInv, HwTypes, FlagTypes
  <1> QED BY <1>1, <1>3, <1>4, <1>5 DEF count_valid_in, Out!Accepts, out_fifo_wr_en

\* The output FIFO holds the rows that passed and were not taken, in their order.
LEMMA OutFifoEdge ==
    ASSUME RunEdge, Counted, Delivered, FIFO_DEPTH > 1,
           rd_out_fifo => out_fifo.q # <<>>,
           Emitted' = Emitted + Bit(limit_valid_out)
    PROVE  /\ Taken' = Taken + Bit(rd_out_fifo) /\ Taken' >= 0
           /\ \A i \in 1..Len(out_fifo'.q) : out_fifo'.q[i] = Passes[Taken' + i]
           /\ rd_out_fifo => out_fifo'.dout = Passes[Taken']
           /\ ~rd_out_fifo => out_fifo'.dout = out_fifo.dout
           /\ ~rd_out_fifo /\ out_fifo.q # <<>> => out_fifo'.q # <<>>
           /\ Len(out_fifo'.q) = Len(out_fifo.q) + Bit(limit_valid_out) - Bit(rd_out_fifo)
  <1> DEFINE q == out_fifo.q
             r == Bit(rd_out_fifo)
             v == Bit(limit_valid_out)
             kept == IF rd_out_fifo THEN Tail(q) ELSE q
             row == limit_stage_dout
  <1>1. q \in Seq(Row) /\ Len(q) \in Nat /\ row \in Row
    BY DEF RunEdge, OutInv, RowTypes
  <1>2. Running /\ Count \in Nat /\ Emitted = Count - v /\ Taken = Emitted - Len(q)
    <2>1. Running /\ query \in Queries \cup {NoQuery} /\ Representable(query)
      BY RunFacts DEF RunEdge
    <2>2. Judged \in 0..Rows
      BY <2>1 DEF Counted
    <2> QED BY <2>1, <2>2, TableFacts DEF Count, Emitted, Taken
  <1>3. r \in {0, 1} /\ v \in {0, 1} /\ (r = 1 <=> rd_out_fifo) /\ (v = 1 <=> limit_valid_out)
    BY DEF Bit
  <1>4. Taken >= 0 /\ \A i \in 1..Len(q) : q[i] = Passes[Taken + i]
    BY <1>2 DEF Delivered
  <1>5. limit_valid_out => row = Passes[Count]
    BY <1>2 DEF Delivered
  <1>6. rd_out_fifo => Len(q) > 0
    BY <1>1, EmptySeq
  <1>7. out_fifo' = Out!QueueClock(out_fifo, out_fifo_wr_en(load_inst), rd_out_fifo, row)
    BY DEF RunEdge, PipelineClock
  <1>8. /\ out_fifo'.q = IF limit_valid_out THEN Append(kept, row) ELSE kept
        /\ out_fifo'.dout = IF rd_out_fifo THEN Head(q) ELSE out_fifo.dout
    <2>1. Out!Accepts(out_fifo, out_fifo_wr_en(load_inst)) <=> limit_valid_out
      BY OutReady
    <2>2. Out!Delivers(out_fifo, rd_out_fifo) <=> rd_out_fifo
      BY <1>6 DEF Out!Delivers
    <2> QED BY <1>7, <2>1, <2>2 DEF Out!QueueClock
  <1>9. /\ kept \in Seq(Row) /\ Len(kept) = Len(q) - r
        /\ \A i \in 1..Len(kept) : kept[i] = q[r + i]
    <2>1. CASE rd_out_fifo
      <3>1. kept = Tail(q) /\ r = 1 /\ q # <<>>
        BY <1>6, <2>1 DEF Bit
      <3>2. Tail(q) \in Seq(Row) /\ Len(Tail(q)) = Len(q) - 1 /\ \A i \in 1..Len(Tail(q)) : Tail(q)[i] = q[i + 1]
        BY <1>1, <3>1, HeadTailProperties
      <3> HIDE DEF q, kept, r
      <3> QED BY <1>1, <3>1, <3>2
    <2>2. CASE ~rd_out_fifo
      <3>1. kept = q /\ r = 0
        BY <2>2 DEF Bit
      <3> HIDE DEF q, kept, r
      <3> QED BY <1>1, <3>1
    <2> QED BY <2>1, <2>2
  <1>10. Taken' = Emitted' - Len(out_fifo'.q)
    BY DEF Taken
  <1>13. Head(q) = q[1]
    BY <1>1
  <1> HIDE DEF q, r, v, kept, row
  <1>11. Len(out_fifo'.q) = Len(q) - r + v
    <2>1. CASE limit_valid_out
      BY <1>1, <1>3, <1>8, <1>9, <2>1, AppendProperties
    <2>2. CASE ~limit_valid_out
      BY <1>1, <1>3, <1>8, <1>9, <2>2
    <2> QED BY <2>1, <2>2
  <1>12. Taken' = Taken + r /\ Taken \in Nat
    BY <1>1, <1>2, <1>3, <1>4, <1>10, <1>11 DEF v
  <1>14. \A i \in 1..Len(out_fifo'.q) : out_fifo'.q[i] = Passes[Taken' + i]
    <2> SUFFICES ASSUME NEW i \in 1..Len(out_fifo'.q) PROVE out_fifo'.q[i] = Passes[Taken' + i]
      OBVIOUS
    <2>1. CASE i <= Len(kept)
      <3>1. i \in 1..Len(kept) /\ r + i \in 1..Len(q)
        BY <1>1, <1>3, <1>9, <1>11, <2>1
      <3>2. out_fifo'.q[i] = kept[i]
        <4>1. CASE limit_valid_out
          <5>1. Append(kept, row)[i] = kept[i]
            BY <1>1, <1>9, <3>1, AppendProperties
          <5> QED BY <1>8, <4>1, <5>1
        <4> QED BY <1>8, <4>1
      <3>3. kept[i] = Passes[Taken + (r + i)]
        BY <1>4, <1>9, <3>1 DEF q
      <3>4. Taken + (r + i) = Taken' + i
        BY <1>3, <1>12
      <3> QED BY <3>2, <3>3, <3>4
    <2>2. CASE i > Len(kept)
      <3>1. v = 1 /\ i = Len(kept) + 1
        BY <1>1, <1>3, <1>9, <1>11, <2>2
      <3>2. Append(kept, row)[i] = row
        BY <1>1, <1>9, <3>1, AppendProperties
      <3>3. out_fifo'.q[i] = row /\ row = Passes[Count]
        BY <1>3, <1>5, <1>8, <3>1, <3>2
      <3>4. Count = Taken' + i
        BY <1>1, <1>2, <1>3, <1>9, <1>12, <3>1
      <3> QED BY <3>3, <3>4
    <2> QED BY <1>1, <1>3, <1>9, <1>11, <2>1, <2>2
  <1>15. rd_out_fifo => out_fifo'.dout = Passes[Taken']
    <2> SUFFICES ASSUME rd_out_fifo PROVE out_fifo'.dout = Passes[Taken']
      OBVIOUS
    <2>1. out_fifo'.dout = q[1] /\ 1 \in 1..Len(q) /\ Taken' = Taken + 1
      BY <1>1, <1>3, <1>6, <1>8, <1>12, <1>13 DEF q
    <2> QED BY <1>4, <2>1 DEF q
  <1>16. ~rd_out_fifo /\ out_fifo.q # <<>> => out_fifo'.q # <<>>
    <2> SUFFICES ASSUME ~rd_out_fifo, q # <<>> PROVE out_fifo'.q # <<>>
      BY DEF q
    <2>1. Len(q) > 0
      BY <1>1, EmptySeq
    <2>2. Len(out_fifo'.q) > 0
      BY <1>1, <1>3, <1>11, <2>1
    <2> QED BY <2>2
  <1>17. Len(out_fifo'.q) = Len(out_fifo.q) + Bit(limit_valid_out) - Bit(rd_out_fifo)
    BY <1>1, <1>3, <1>11 DEF q, r, v
  <1>18. Taken' = Taken + Bit(rd_out_fifo) /\ Taken' >= 0
    BY <1>3, <1>12 DEF r
  <1> QED BY <1>8, <1>14, <1>15, <1>16, <1>17, <1>18 DEF q

\* A number below the modulus is its own remainder.
LEMMA Unreduced == \A m \in Nat : \A a \in Nat : a < m => a % m = a
  OBVIOUS

\* The accumulators count and sum the rows that have left the limit stage.
LEMMA AccEdge ==
    ASSUME RunEdge, Counted, Delivered, FIFO_DEPTH > 1,
           Emitted' = Emitted + Bit(limit_valid_out)
    PROVE  /\ acc_out' = Emitted'
           /\ query.agg = "SUM" => /\ sum_out' = Engine!Sums(query.col, Passes)[Emitted']
                                   /\ sum_out' <= 207 * Emitted'
  <1> DEFINE v == Bit(limit_valid_out)
  <1>1. /\ Running /\ ~CompileFails(query) /\ query \in Queries \cup {NoQuery} /\ Representable(query)
    BY RunFacts DEF RunEdge, Running
  <1>2. Rows \in Nat /\ Passes \in Seq(Row) /\ Len(Passes) \in Nat /\ Len(Passes) <= Rows
    <2>1. Rows \in Nat /\ Rows \in 0..Rows
      BY <1>1, TableFacts
    <2> QED BY <1>1, <2>1, TableFacts
  <1>3. Count \in Nat /\ Count <= Len(Passes)
    <2>1. Judged \in 0..Rows
      BY <1>1 DEF Counted
    <2> QED BY <1>1, <2>1, TableFacts DEF Count
  <1>4. /\ acc_out = Emitted
        /\ limit_valid_out => /\ Count >= 1 /\ limit_stage_dout = Passes[Count]
                              /\ \E n \in 1..Rows : limit_stage_dout = query.rows[n]
        /\ query.agg = "SUM" => /\ sum_out = Engine!Sums(query.col, Passes)[Emitted]
                                /\ sum_out <= 207 * Emitted
    BY <1>1 DEF Delivered
  <1>5. Emitted = Count - v /\ v \in {0, 1} /\ (v = 1 <=> limit_valid_out) /\ Emitted \in Nat
    <2>1. Emitted = Count - v /\ v \in {0, 1} /\ (v = 1 <=> limit_valid_out)
      BY DEF Emitted, Bit
    <2>2. v = 1 => Count >= 1
      BY <1>4, <2>1
    <2> HIDE DEF v
    <2> QED BY <1>3, <2>1, <2>2
  <1>6. ACC_MOD \in Nat /\ 256 * Rows < ACC_MOD
    BY <1>1, PipelineAssumption DEF Representable, Rows
  <1>7. /\ acc_out' = IF limit_valid_out THEN (acc_out + 1) % ACC_MOD ELSE acc_out
        /\ sum_out' = IF limit_valid_out
                        THEN (sum_out + ((limit_stage_dout[count_col_idx] - 48) % 256)) % ACC_MOD
                        ELSE sum_out
    BY OutReady DEF RunEdge, PipelineClock, CountStage, SumStage
  <1>8. CASE ~limit_valid_out
    <2>1. Emitted' = Emitted
      BY <1>5, <1>8 DEF Bit
    <2> QED BY <1>4, <1>7, <1>8, <2>1
  <1>9. CASE limit_valid_out
    <2>1. Emitted' = Emitted + 1 /\ Emitted + 1 = Count /\ Emitted + 1 \in 1..Len(Passes)
      BY <1>2, <1>3, <1>4, <1>5, <1>9 DEF Bit
    <2>2. (Emitted + 1) % ACC_MOD = Emitted + 1
      BY <1>2, <1>5, <1>6, <2>1
    <2>3. acc_out' = Emitted'
      BY <1>4, <1>7, <1>9, <2>1, <2>2
    <2>4. ASSUME query.agg = "SUM"
          PROVE  /\ sum_out' = Engine!Sums(query.col, Passes)[Emitted']
                 /\ sum_out' <= 207 * Emitted'
      <3>1. count_col_idx = query.col /\ query.col \in Columns
        <4>1. count_col_idx \in Columns
          BY DEF RunEdge, TypeInv, HwTypes, OperandTypes
        <4>2. /\ Len(Program(query)) = Bit(Limit(query) > 0) + (WhereStop(query) - 1) + 1
              /\ Bit(Limit(query) > 0) \in {0, 1} /\ WhereStop(query) - 1 \in 0..NUM_WHERE
          BY <1>1, <2>4, ProgramWords, WhereStops DEF Bit
        <4>3. Len(Program(query)) > Bit(Limit(query) > 0) + WhereStop(query) - 1
          <5> DEFINE b == Bit(Limit(query) > 0)
                     w == WhereStop(query)
                     m == Len(Program(query))
          <5>1. b \in {0, 1} /\ w \in Int /\ m = b + (w - 1) + 1
            BY <1>1, <4>2, WhereStopType, QueryType
          <5> HIDE DEF b, w, m
          <5>2. m > b + w - 1
            BY <5>1
          <5> QED BY <5>2 DEF b, w, m
        <4>4. Configured(Len(Program(query)))
          BY <1>9, OutReady
        <4> QED BY <4>1, <4>3, <4>4 DEF Configured
      <3> DEFINE d == limit_stage_dout[query.col] - 48
                 S == Engine!Sums(query.col, Passes)
      <3>2. d \in 0..207
        <4>1. PICK n \in 1..Rows : limit_stage_dout = query.rows[n]
          BY <1>4, <1>9
        <4>2. query.rows \in Seq(Row) /\ n \in DOMAIN query.rows
          BY <1>1, QueryType DEF Rows
        <4>3. query.rows[n] \in Row
          BY <4>2
        <4>4. query.rows[n][query.col] \in 0..255
          BY <3>1, <4>3, CellType
        <4>5. query.rows[n][query.col] >= 48
          BY <1>1, <2>4, <4>2 DEF Representable
        <4> QED BY <4>1, <4>4, <4>5
      <3>3. sum_out' = (sum_out + (d % 256)) % ACC_MOD
        BY <1>7, <1>9, <3>1
      <3>4. S[Emitted + 1] = S[Emitted] + d
        <4>1. S[Emitted + 1] = S[(Emitted + 1) - 1] + (Passes[Emitted + 1][query.col] - 48)
          BY <1>2, <2>1, <3>1, SumsRec
        <4>2. (Emitted + 1) - 1 = Emitted /\ Passes[Emitted + 1] = limit_stage_dout
          BY <1>4, <1>5, <1>9, <2>1
        <4> QED BY <4>1, <4>2
      <3>5. sum_out \in Nat /\ sum_out = S[Emitted] /\ sum_out <= 207 * Emitted
        BY <1>4, <2>4, PipelineAssumption DEF RunEdge, TypeInv, HwTypes, NumberTypes
      <3> HIDE DEF d, S
      <3>6. sum_out + (d % 256) = sum_out + d /\ sum_out + d <= 207 * (Emitted + 1)
        <4>1. d % 256 = d
          BY <3>2
        <4>2. sum_out + d <= 207 * (Emitted + 1)
          BY <1>5, <3>2, <3>5
        <4> QED BY <4>1, <4>2
      <3>7. (sum_out + d) % ACC_MOD = sum_out + d
        <4>1. sum_out + d \in Nat
          BY <3>2, <3>5
        <4>2. 207 * (Emitted + 1) <= 256 * Rows
          BY <1>2, <1>5, <2>1
        <4>3. sum_out + d < ACC_MOD
          BY <1>2, <1>5, <1>6, <3>6, <4>1, <4>2
        <4> QED BY <1>6, <4>1, <4>3, Unreduced
      <3>8. sum_out' = sum_out + d
        BY <3>3, <3>6, <3>7
      <3> QED BY <2>1, <3>4, <3>5, <3>6, <3>8 DEF S
    <2> QED BY <2>3, <2>4
  <1> QED BY <1>8, <1>9

\* What an edge does to the rows that passed.
LEMMA DeliveredEdge ==
    ASSUME RunEdge, Stream, Counted, Delivered, FIFO_DEPTH > 1, Configured(Loaded)',
           load_inst => sent = 0, rd_out_fifo => out_fifo.q # <<>>
    PROVE  /\ Counted' /\ Delivered'
           /\ Taken' = Taken + Bit(rd_out_fifo)
           /\ rd_out_fifo => out_fifo'.dout = Passes[Taken']
           /\ ~rd_out_fifo => out_fifo'.dout = out_fifo.dout
           /\ ~rd_out_fifo /\ out_fifo.q # <<>> => out_fifo'.q # <<>>
           /\ Len(out_fifo'.q) = Len(out_fifo.q) + Bit(limit_valid_out) - Bit(rd_out_fifo)
  <1>1. /\ Running /\ Running' /\ query' = query
        /\ query \in Queries \cup {NoQuery} /\ Representable(query) /\ sent \in 0..Rows
    BY RunFacts DEF RunEdge
  <1>2. Passes' = Passes /\ Rows' = Rows
    BY <1>1, SameQuery
  <1>3. /\ Counted'
        /\ Count' = Count + Bit(limit_valid_out')
        /\ limit_valid_out' => limit_stage_dout' = Passes[Count'] /\ ~limit_hit /\ rd_en_pipe2
    BY CountedEdge
  <1>4. Count \in Nat
    <2>1. Judged \in 0..Rows
      BY <1>1 DEF Counted
    <2> QED BY <1>1, <2>1, TableFacts DEF Count
  <1>5. Emitted' = Emitted + Bit(limit_valid_out)
    <2>1. Emitted = Count - Bit(limit_valid_out) /\ Emitted' = Count' - Bit(limit_valid_out')
      BY DEF Emitted, Bit
    <2> QED BY <1>3, <1>4, <2>1 DEF Bit
  <1>6. /\ acc_out' = Emitted'
        /\ query.agg = "SUM" => /\ sum_out' = Engine!Sums(query.col, Passes)[Emitted']
                                /\ sum_out' <= 207 * Emitted'
    BY <1>5, AccEdge
  <1>7. /\ Taken' = Taken + Bit(rd_out_fifo) /\ Taken' >= 0
        /\ \A i \in 1..Len(out_fifo'.q) : out_fifo'.q[i] = Passes[Taken' + i]
        /\ rd_out_fifo => out_fifo'.dout = Passes[Taken']
        /\ ~rd_out_fifo => out_fifo'.dout = out_fifo.dout
        /\ ~rd_out_fifo /\ out_fifo.q # <<>> => out_fifo'.q # <<>>
        /\ Len(out_fifo'.q) = Len(out_fifo.q) + Bit(limit_valid_out) - Bit(rd_out_fifo)
    BY <1>5, OutFifoEdge
  <1>8. ASSUME limit_valid_out'
        PROVE  /\ ~limit_done_out' /\ Count' >= 1
               /\ \E n \in 1..Rows : limit_stage_dout' = query.rows[n]
               /\ limit_hit' => ~din_valid_ctrl' /\ in_fifo'.q = <<>>
    <2>1. ~limit_hit /\ rd_en_pipe2
      BY <1>3, <1>8
    <2>2. ~limit_done_out' /\ limit_stage_dout' = where_stage_dout
      BY <2>1, LimitEdge DEF RunEdge, IndInv, DoneAfterLast
    <2>3. Count' >= 1
      BY <1>3, <1>4, <1>8 DEF Bit
    <2>4. sent \in 1..Rows /\ where_stage_dout = query.rows[sent]
      BY <2>1, Admitted
    <2>5. in_fifo.q = <<>> /\ ~din_valid_ctrl /\ pc # "din_valid"
      BY <2>1 DEF RunEdge, OutInv, OneOnTheWay, Arrived
    <2>6. ~din_valid_ctrl' /\ in_fifo'.q = <<>>
      BY <2>1, <2>5, Flow DEF RunEdge
    <2> QED BY <2>2, <2>3, <2>4, <2>6
  <1>9. (Engine!Sums(query.col, Passes)[Emitted])' = Engine!Sums(query.col, Passes)[Emitted']
    BY <1>1, <1>2 DEF Engine!Sums, Engine!Digit
  <1> HIDE DEF Rows
  <1>10. Delivered'
    BY <1>1, <1>2, <1>3, <1>6, <1>7, <1>8, <1>9 DEF Delivered
  <1> QED BY <1>3, <1>7, <1>10

-----------------------------------------------------------------------------
(* The edges that the firmware's steps make. *)

\* The pipeline's registers after the reset of a query, before its first word.
Fresh ==
    /\ pc \in {"inst", "refuse", "feed", "answer"}
    /\ pc # "inst" => Len(Program(query)) = 0
    /\ pc = "refuse" => CompileFails(query)
    /\ pc \in {"feed", "answer"} => ~CompileFails(query)
    /\ pc = "answer" => query.rows = <<>>
    /\ k = 0 /\ sent = 0 /\ captured = <<>> /\ stall_guard = 0
    /\ sw_rst => write_prev /\ rwait = 0
    /\ ~load_inst /\ ~din_valid_ctrl /\ ~rd_out_fifo /\ ~eof_ctrl
    /\ where_active_cnt = 0 /\ ~limit_active
    /\ in_fifo.q = <<>> /\ out_fifo.q = <<>> /\ ~rd_en_pipe1 /\ ~rd_en_pipe2
    /\ limit_count = 0 /\ ~internal_hit /\ ~limit_valid_out
    /\ acc_out = 0 /\ sum_out = 0

\* Everything the argument says holds of it.
LEMMA FreshHolds ==
    Fresh /\ query \in Queries \cup {NoQuery} /\ Representable(query) => EngInv
  <1> SUFFICES ASSUME Fresh, query \in Queries \cup {NoQuery}, Representable(query) PROVE EngInv
    OBVIOUS
  <1>1. /\ Rows \in Nat /\ query.rows \in Seq(Row) /\ Passed[0] = <<>> /\ Passes = Passed[Rows] /\ Passes \in Seq(Row)
        /\ Limit(query) \in 0..255
    BY TableFacts
  <1>2. ~limit_hit /\ ~Coming /\ Judged = 0 /\ Loaded = 0
    <2>1. ~limit_hit /\ ~Coming
      BY DEF Fresh, limit_hit, Coming
    <2>2. Judged = 0
      BY <2>1 DEF Fresh, Judged
    <2>3. Bit(load_inst) = 0 /\ k = 0
      BY DEF Fresh, Bit
    <2> QED BY <2>1, <2>2, <2>3 DEF Loaded
  <1>3. Count = 0 /\ Emitted = 0 /\ Taken = 0 /\ Stored = 0 /\ ~InHand
    <2>1. Count = 0
      BY <1>1, <1>2 DEF Count
    <2>2. Bit(limit_valid_out) = 0 /\ Len(out_fifo.q) = 0
      BY DEF Bit, Fresh
    <2>3. Emitted = 0
      BY <2>1, <2>2 DEF Emitted
    <2>4. Taken = 0
      BY <2>2, <2>3 DEF Taken
    <2>5. ~InHand
      BY DEF InHand, Fresh
    <2>6. Bit(InHand) = 0
      BY <2>5 DEF Bit
    <2> QED BY <2>1, <2>3, <2>4, <2>5, <2>6 DEF Stored
  <1>4. Configured(0)
    <2>1. Bit(Limit(query) > 0) \in {0, 1} /\ WhereStop(query) - 1 \in Nat
      <3>1. WhereStop(query) - 1 \in 0..NUM_WHERE
        BY WhereStops
      <3> QED BY <3>1, PipelineAssumption DEF Bit
    <2>2. CondsIn(query, 0) = 0
      <3> DEFINE l == Bit(Limit(query) > 0)
                 c == WhereStop(query) - 1
      <3>1. l \in {0, 1} /\ c \in Nat
        BY <2>1
      <3>2. CondsIn(query, 0) = IF 0 < l THEN 0 ELSE IF 0 - l < c THEN 0 - l ELSE c
        BY DEF CondsIn
      <3> HIDE DEF l, c
      <3> QED BY <3>1, <3>2
    <2>3. ~ (0 > Bit(Limit(query) > 0) + WhereStop(query) - 1)
      <3> DEFINE b == Bit(Limit(query) > 0)
                 w == WhereStop(query)
      <3>1. b \in {0, 1} /\ w \in Int /\ w - 1 \in Nat
        BY <2>1, WhereStopType, QueryType
      <3> HIDE DEF b, w
      <3>2. ~ (0 > b + w - 1)
        BY <3>1
      <3> QED BY <3>2 DEF b, w
    <2> QED BY <2>2, <2>3 DEF Configured, Fresh
  <1>5. Fetched
    BY <1>2, <1>4 DEF Fetched, Fresh
  <1>6. Phase
    BY DEF Phase, Fresh
  <1>7. Stream
    BY <1>2 DEF Stream, Fresh
  <1>8. Counted
    BY <1>1, <1>2 DEF Counted, Fresh
  <1>9. Delivered
    <2>1. Running /\ query.agg = "SUM" => Engine!Sums(query.col, Passes)[0] = 0
      <3> SUFFICES ASSUME ~CompileFails(query) PROVE Engine!Sums(query.col, Passes)[0] = 0
        BY DEF Running
      <3>1. query.col \in Columns
        BY QueryType, PipelineAssumption DEF CompileFails, SelectFails, Columns
      <3> QED BY <1>1, <3>1, SumsRec
    <2> QED BY <1>3, <2>1 DEF Delivered, Fresh
  <1>10. Stores
    <2>1. Lesser(Stored, QUERY_MAX_ROWS) = 0
      BY <1>3, AcceleratorAssumption DEF Lesser
    <2> QED BY <1>3, <2>1 DEF Stores, Fresh
  <1>11. Full /\ Waits
    BY DEF Full, Waits, InWait, Fresh
  <1>12. Answered
    <2> SUFFICES ASSUME pc = "answer" PROVE Answered
      BY DEF Answered
    <2>1. query.rows = <<>> /\ Rows = 0
      BY DEF Fresh, Rows
    <2>2. Passes = <<>> /\ Len(Passes) = 0
      BY <1>1, <2>1
    <2>3. ~Engine!Stalls(query)
      BY <2>1 DEF Engine!Stalls
    <2>4. Engine!Result(query) = <<>>
      <3>1. Engine!Passing(query) = <<>>
        BY <2>2 DEF Passes
      <3>2. Engine!Result(query) = SubSeq(<<>>, 1, IF QUERY_MAX_ROWS < 0 THEN QUERY_MAX_ROWS ELSE 0)
        BY <3>1 DEF Engine!Result, Engine!FirstRows
      <3>3. Engine!Result(query) = SubSeq(<<>>, 1, 0)
        BY <3>2, AcceleratorAssumption
      <3> QED BY <3>3
    <2> QED BY <1>2, <1>3, <2>2, <2>3, <2>4 DEF Answered, Fresh
  <1> QED BY <1>5, <1>6, <1>7, <1>8, <1>9, <1>10, <1>11, <1>12 DEF EngInv

\* A cycle without an access: the pulses end, and a reset under way goes on.
LEMMA QuietEdge ==
    ASSUME NoAccess, TypeInv
    PROVE  /\ ~din_valid_ctrl' /\ ~load_inst' /\ ~rd_out_fifo' /\ ~sw_rst'
           /\ eof_ctrl' <=> eof_ctrl
           /\ data_in_reg' = data_in_reg /\ inst_reg' = inst_reg
           /\ sw_rst => PipelineReset
           /\ ~sw_rst =>
                 /\ PipelineClock(data_in_reg, din_valid_ctrl, eof_ctrl, inst_reg, load_inst, rd_out_fifo)
                 /\ LatchOperands(load_inst, inst_reg)
  <1>1. /\ ControlRegisters({}) /\ data_in_reg' = data_in_reg /\ inst_reg' = inst_reg
        /\ LatchOperands(load_inst /\ ~sw_rst, inst_reg)
        /\ IF sw_rst \/ sw_rst'
             THEN PipelineReset
             ELSE PipelineClock(data_in_reg, din_valid_ctrl, eof_ctrl, inst_reg, load_inst, rd_out_fifo)
    BY DEF NoAccess, HwClock
  <1>2. /\ ~din_valid_ctrl' /\ ~load_inst' /\ ~rd_out_fifo' /\ ~sw_rst'
        /\ eof_ctrl' <=> eof_ctrl
    BY <1>1 DEF ControlRegisters, TypeInv, HwTypes, SlaveTypes
  <1>3. ~sw_rst => LatchOperands(load_inst, inst_reg)
    BY <1>1 DEF LatchOperands
  <1> QED BY <1>1, <1>2, <1>3

\* The cycle of a write.
LEMMA WriteEdge ==
    ASSUME NEW a, NEW d, Write(a, d), Phase, TypeInv
    PROVE  /\ rwait = 0 /\ rwait' = 0 /\ ~sw_rst /\ write_prev'
           /\ data_in_reg' = IF a = "DATA_IN" THEN d ELSE data_in_reg
           /\ inst_reg' = IF a = "INSTRUCTION" THEN d ELSE inst_reg
           /\ ControlRegisters(IF a = "CONTROL" THEN d ELSE {})
           /\ sw_rst' => PipelineReset
           /\ ~sw_rst' =>
                 /\ PipelineClock(data_in_reg, din_valid_ctrl, eof_ctrl, inst_reg, load_inst, rd_out_fifo)
                 /\ LatchOperands(load_inst, inst_reg)
  <1>1. ~write_prev /\ ~sw_rst /\ rwait = 0 /\ rwait' = 0 /\ HwClock(TRUE, a, d)
    BY DEF Write, Phase
  <1>2. /\ write_prev' /\ LatchOperands(load_inst /\ ~sw_rst, inst_reg)
        /\ data_in_reg' = IF a = "DATA_IN" THEN d ELSE data_in_reg
        /\ inst_reg' = IF a = "INSTRUCTION" THEN d ELSE inst_reg
        /\ ControlRegisters(IF a = "CONTROL" THEN d ELSE {})
        /\ IF sw_rst \/ sw_rst'
             THEN PipelineReset
             ELSE PipelineClock(data_in_reg, din_valid_ctrl, eof_ctrl, inst_reg, load_inst, rd_out_fifo)
    BY <1>1 DEF HwClock
  <1>3. LatchOperands(load_inst, inst_reg)
    BY <1>1, <1>2 DEF LatchOperands
  <1> QED BY <1>1, <1>2, <1>3

\* A step in the middle of a query, out of reset.
RunStep ==
    /\ IndInv /\ OutInv /\ TypeInv /\ EngInv /\ Representable(query)
    /\ Active /\ Active' /\ query' = query
    /\ PipelineClock(data_in_reg, din_valid_ctrl, eof_ctrl, inst_reg, load_inst, rd_out_fifo)
    /\ LatchOperands(load_inst, inst_reg)
    /\ \/ pc = "din_valid" /\ din_valid_ctrl' /\ sent' = sent + 1
       \/ ~din_valid_ctrl' /\ sent' = sent
    /\ \/ load_inst' /\ k' = k + 1
       \/ ~load_inst' /\ k' = k
    /\ din_valid_ctrl' => data_in_reg' = data_in_reg
    /\ pc' = "din_valid" => /\ sent' = sent
                            /\ \/ data_in_reg' = query.rows[sent + 1]
                               \/ pc = "din_valid" /\ data_in_reg' = data_in_reg

\* What it does to the rows between the output FIFO and the firmware.
TakenEdge ==
    /\ Taken' = Taken + Bit(rd_out_fifo)
    /\ rd_out_fifo => out_fifo'.dout = Passes[Taken']
    /\ ~rd_out_fifo => out_fifo'.dout = out_fifo.dout
    /\ ~rd_out_fifo /\ out_fifo.q # <<>> => out_fifo'.q # <<>>
    /\ Len(out_fifo'.q) = Len(out_fifo.q) + Bit(limit_valid_out) - Bit(rd_out_fifo)

\* What a step of a query keeps whatever the firmware does in it.
LEMMA CoreStep ==
    ASSUME RunStep, FIFO_DEPTH > 1
    PROVE  /\ Configured(Loaded)' /\ Stream' /\ Counted' /\ Delivered'
           /\ Running' <=> Running
           /\ Running => RunEdge /\ TakenEdge
  <1>1. /\ query \in Queries \cup {NoQuery} /\ query' = query /\ k \in 0..Len(Program(query))
        /\ where_inst \in [Units -> Nat] /\ load_inst \in BOOLEAN /\ limit_active \in BOOLEAN
    BY DEF RunStep, TypeInv, CpuTypes, InstructionsLeft, HwTypes, NumberTypes, SlaveTypes, FlagTypes
  <1>2. Running' <=> Running
    BY <1>1, SameQuery DEF RunStep, Running
  <1>3. Loaded' = k
    <2>1. Loaded' = k' - Bit(load_inst')
      BY DEF Loaded, Bit
    <2>2. k \in Int
      BY <1>1
    <2>3. CASE load_inst' /\ k' = k + 1
      BY <2>1, <2>2, <2>3 DEF Bit
    <2>4. CASE ~load_inst' /\ k' = k
      BY <2>1, <2>2, <2>4 DEF Bit
    <2> QED BY <2>3, <2>4 DEF RunStep
  <1>4. Configured(Loaded)'
    <2>1. /\ Configured(Loaded) /\ (load_inst => k > 0 /\ inst_reg = Program(query)[k])
          /\ InstructionFetcher(load_inst, inst_reg) /\ LatchOperands(load_inst, inst_reg)
      BY DEF RunStep, EngInv, Fetched, PipelineClock
    <2> QED BY <1>1, <1>3, <2>1, FetchEdge
  <1>5. CASE ~Running
    BY <1>2, <1>4, <1>5 DEF Stream, Counted, Delivered
  <1>6. CASE Running
    <2>1. RunEdge /\ Stream /\ Counted /\ Delivered /\ (load_inst => sent = 0)
      BY <1>2, <1>6 DEF RunStep, RunEdge, EngInv, Phase
    <2>2. rd_out_fifo => out_fifo.q # <<>>
      BY <1>6 DEF RunStep, EngInv, Stores
    <2>3. Stream'
      <3>1. pc' = "din_valid" => data_in_reg' = query.rows[sent + 1] /\ sent' = sent
        BY <1>6 DEF RunStep, EngInv, Stream
      <3>2. din_valid_ctrl' => data_in_reg' = data_in_reg
        BY DEF RunStep
      <3> QED BY <2>1, <3>1, <3>2, StreamEdge
    <2>4. Counted' /\ Delivered' /\ TakenEdge
      BY <1>4, <2>1, <2>2, DeliveredEdge DEF TakenEdge
    <2> QED BY <1>2, <1>4, <2>1, <2>3, <2>4
  <1> QED BY <1>5, <1>6

-----------------------------------------------------------------------------
(* The parts of the invariant, one by one, in a step of a query. *)

\* How many rows passed and how many were taken.
LEMMA TakenInt ==
    ASSUME Running, Counted, Delivered, OutInv, query \in Queries \cup {NoQuery}, Representable(query)
    PROVE  /\ Judged \in 0..Rows /\ Count \in Nat /\ Count <= Len(Passes)
           /\ Emitted \in Nat /\ Taken \in Nat /\ Len(out_fifo.q) \in Nat
           /\ Count = Taken + Len(out_fifo.q) + Bit(limit_valid_out)
  <1>1. Judged \in 0..Rows
    BY DEF Counted
  <1>2. Count \in Nat /\ Count <= Len(Passes)
    BY <1>1, TableFacts DEF Count
  <1>3. Bit(limit_valid_out) \in {0, 1} /\ Len(out_fifo.q) \in Nat /\ Taken >= 0
    BY DEF Bit, OutInv, RowTypes, Delivered
  <1>4. Emitted = Count - Bit(limit_valid_out) /\ Taken = Emitted - Len(out_fifo.q)
    BY DEF Emitted, Taken
  <1> QED BY <1>1, <1>2, <1>3, <1>4

\* A step that neither sends nor loads an instruction.
LEMMA QuietPhase ==
    ASSUME RunStep, Configured(Loaded)', ~load_inst', ~sw_rst', inst_reg' = inst_reg,
           pc' = pc \/ {pc, pc'} \cap {"inst", "load", "refuse"} = {}
    PROVE  Fetched' /\ Phase'
  <1>1. Fetched /\ Phase /\ Active /\ Active' /\ query' = query /\ k' = k
    BY DEF RunStep, EngInv
  <1>2. Program(query)' = Program(query) /\ CompileFails(query)' = CompileFails(query)
    BY <1>1, SameQuery
  <1>3. Fetched'
    BY <1>1, <1>2 DEF Fetched
  <1>4. Phase'
    BY <1>1, <1>2 DEF Phase, Active
  <1> QED BY <1>3, <1>4

\* The captured rows while nothing is taken from the output FIFO.
LEMMA StoresPlain ==
    ASSUME RunStep, FIFO_DEPTH > 1, ~rd_out_fifo', pc # "take", pc' # "take",
           pc' = "pulse" => out_fifo.q # <<>>,
           pc' # "answer" => captured' = captured /\ pc # "answer"
    PROVE  Stores'
  <1> SUFFICES ASSUME Running PROVE Stores'
    BY CoreStep DEF Stores
  <1>1. RunEdge /\ TakenEdge /\ Stores /\ query' = query
    BY CoreStep DEF RunStep, EngInv
  <1>2. ~rd_out_fifo
    BY <1>1 DEF Stores
  <1>3. Passes' = Passes
    BY <1>1, SameQuery
  <1>4. ~InHand /\ ~InHand'
    BY DEF InHand
  <1>5. Bit(rd_out_fifo) = 0 /\ Bit(InHand) = 0 /\ Bit(InHand)' = 0
    BY <1>2, <1>4 DEF Bit
  <1>6. Stored' = Stored
    <2>1. Taken' = Taken + 0
      BY <1>1, <1>5 DEF TakenEdge
    <2>2. Taken \in Nat
      BY TakenInt, RunFacts, <1>1 DEF RunStep, EngInv
    <2>3. Stored = Taken - Bit(InHand) /\ Stored' = Taken' - Bit(InHand)'
      BY DEF Stored
    <2> QED BY <1>5, <2>1, <2>2, <2>3
  <1>7. pc' = "pulse" => out_fifo'.q # <<>>
    BY <1>1, <1>2 DEF TakenEdge
  <1> QED BY <1>1, <1>3, <1>4, <1>6, <1>7 DEF Stores, Lesser

\* The result: as many of the rows that pass as the buffer has room for.
LEMMA ResultRows ==
    ASSUME query \in Queries \cup {NoQuery}, Representable(query)
    PROVE  /\ Engine!Result(query) \in Seq(Row)
           /\ Len(Engine!Result(query)) = Lesser(Len(Passes), QUERY_MAX_ROWS)
           /\ \A i \in 1..Len(Engine!Result(query)) : Engine!Result(query)[i] = Passes[i]
  <1> DEFINE n == IF QUERY_MAX_ROWS < Len(Passes) THEN QUERY_MAX_ROWS ELSE Len(Passes)
  <1>1. Passes \in Seq(Row) /\ Len(Passes) \in Nat /\ QUERY_MAX_ROWS \in Nat
    BY TableFacts, AcceleratorAssumption
  <1>2. Engine!Result(query) = SubSeq(Passes, 1, n)
    BY DEF Engine!Result, Engine!FirstRows, Passes
  <1>3. n \in 0..Len(Passes) /\ n = Lesser(Len(Passes), QUERY_MAX_ROWS)
    BY <1>1 DEF Lesser
  <1> HIDE DEF n
  <1>4. /\ SubSeq(Passes, 1, n) \in Seq(Row) /\ Len(SubSeq(Passes, 1, n)) = n
        /\ \A i \in 1..n : SubSeq(Passes, 1, n)[i] = Passes[i]
    BY <1>1, <1>3
  <1> QED BY <1>2, <1>3, <1>4

\* The firmware pulses the read of an output FIFO with a row.
LEMMA StoresPulse ==
    ASSUME RunStep, FIFO_DEPTH > 1, pc = "pulse", pc' = "take", rd_out_fifo', rwait' = 0,
           captured' = captured
    PROVE  Stores'
  <1> SUFFICES ASSUME Running PROVE Stores'
    BY CoreStep DEF Stores
  <1>1. RunEdge /\ TakenEdge /\ Stores /\ query' = query
    BY CoreStep DEF RunStep, EngInv
  <1>2. ~rd_out_fifo /\ out_fifo.q # <<>>
    BY <1>1 DEF Stores
  <1>3. Passes' = Passes
    BY <1>1, SameQuery
  <1>4. ~InHand /\ ~InHand'
    BY DEF InHand
  <1>5. Bit(rd_out_fifo) = 0 /\ Bit(InHand) = 0 /\ Bit(InHand)' = 0
    BY <1>2, <1>4 DEF Bit
  <1>6. Stored' = Stored
    <2>1. Taken' = Taken + 0
      BY <1>1, <1>5 DEF TakenEdge
    <2>2. Taken \in Nat
      BY TakenInt, RunFacts, <1>1 DEF RunStep, EngInv
    <2>3. Stored = Taken - Bit(InHand) /\ Stored' = Taken' - Bit(InHand)'
      BY DEF Stored
    <2> QED BY <1>5, <2>1, <2>2, <2>3
  <1>7. out_fifo'.q # <<>>
    BY <1>1, <1>2 DEF TakenEdge
  <1> QED BY <1>1, <1>3, <1>4, <1>6, <1>7 DEF Stores, Lesser

\* While the firmware reads the row, the edge of the pulse brings it to the output.
LEMMA StoresTaking ==
    ASSUME RunStep, FIFO_DEPTH > 1, pc = "take", pc' = "take", ~rd_out_fifo', captured' = captured
    PROVE  Stores'
  <1> SUFFICES ASSUME Running PROVE Stores'
    BY CoreStep DEF Stores
  <1>1. RunEdge /\ TakenEdge /\ Stores /\ query' = query
    BY CoreStep DEF RunStep, EngInv
  <1>2. Taken \in Nat
    BY TakenInt, RunFacts, <1>1 DEF RunStep, EngInv
  <1>3. Passes' = Passes
    BY <1>1, SameQuery
  <1>4. InHand' /\ (InHand <=> ~rd_out_fifo)
    BY DEF InHand
  <1>5. Stored = Taken - Bit(InHand) /\ Stored' = Taken' - 1
    BY <1>4 DEF Stored, Bit
  <1>6. CASE rd_out_fifo
    <2>1. Taken' = Taken + 1 /\ out_fifo'.dout = Passes[Taken'] /\ Bit(InHand) = 0
      BY <1>1, <1>4, <1>6 DEF TakenEdge, Bit
    <2>2. Stored' = Stored /\ Taken' >= 1
      BY <1>2, <1>5, <2>1
    <2> QED BY <1>1, <1>3, <2>1, <2>2 DEF Stores, Lesser
  <1>7. CASE ~rd_out_fifo
    <2>3. Bit(rd_out_fifo) = 0 /\ InHand /\ Bit(InHand) = 1
      BY <1>4, <1>7 DEF Bit
    <2>1. Taken' = Taken + 0 /\ out_fifo'.dout = out_fifo.dout /\ Bit(InHand) = 1 /\ InHand
      BY <1>1, <1>7, <2>3 DEF TakenEdge
    <2>2. Stored' = Stored /\ Taken' = Taken
      <3>1. Taken' = Taken
        BY <1>2, <2>1
      <3>2. Stored = Taken - 1
        BY <1>5, <2>3, Zenon
      <3> QED BY <1>5, <3>1, <3>2
    <2> QED BY <1>1, <1>3, <2>1, <2>2 DEF Stores, Lesser
  <1> QED BY <1>6, <1>7

\* The row is stored, if the buffer has room: the next row of the result.
LEMMA StoresTakeWord ==
    ASSUME RunStep, FIFO_DEPTH > 1, Running, pc = "take", rwait > 0, pc' = "drain", ~rd_out_fifo',
           captured' = IF Len(captured) < CaptureLimit(query)
                         THEN Append(captured, out_fifo.dout) ELSE captured
    PROVE  /\ Stores'
           /\ \/ captured' = captured
              \/ /\ Len(captured) < Len(Engine!Result(query))
                 /\ captured' = Append(captured, Engine!Result(query)[Len(captured) + 1])
  <1>1. RunEdge /\ TakenEdge /\ Stores /\ query' = query /\ Running'
    BY CoreStep DEF RunStep, EngInv
  <1>2. Taken \in Nat /\ Taken <= Len(Passes) /\ Len(Passes) \in Nat
    <2>1. /\ Taken \in Nat /\ Len(out_fifo.q) \in Nat /\ Bit(limit_valid_out) \in {0, 1} /\ Count \in Nat
          /\ Count = Taken + Len(out_fifo.q) + Bit(limit_valid_out) /\ Count <= Len(Passes)
      BY TakenInt, RunFacts, <1>1 DEF RunStep, EngInv, Bit
    <2>2. Len(Passes) \in Nat
      BY RunFacts, TableFacts, <1>1 DEF RunStep
    <2> QED BY <2>1, <2>2
  <1>3. Passes' = Passes
    BY <1>1, SameQuery
  <1>4. ~rd_out_fifo /\ InHand
    BY <1>1 DEF InHand, Stores
  <1>5. /\ Taken >= 1 /\ out_fifo.dout = Passes[Taken]
        /\ Len(captured) = Lesser(Stored, QUERY_MAX_ROWS)
        /\ \A i \in 1..Len(captured) : captured[i] = Passes[i]
    BY <1>1, <1>4 DEF Stores
  <1>6. Stored = Taken - 1 /\ ~InHand' /\ Stored' = Taken
    <2>1. Taken' = Taken + Bit(rd_out_fifo) /\ Bit(rd_out_fifo) = 0 /\ ~InHand'
      BY <1>1, <1>4 DEF TakenEdge, Bit, InHand
    <2>2. Bit(InHand) = 1 /\ Bit(InHand)' = 0
      BY <1>4, <2>1 DEF Bit
    <2>3. Stored = Taken - Bit(InHand) /\ Stored' = Taken' - Bit(InHand)'
      BY DEF Stored
    <2> QED BY <1>2, <2>1, <2>2, <2>3
  <1>7. captured \in Seq(Row) /\ Len(captured) \in Nat /\ Len(captured) <= QUERY_MAX_ROWS
        /\ QUERY_MAX_ROWS \in Nat
    BY AcceleratorAssumption DEF RunStep, TypeInv, CpuTypes, CaptureBounded
  <1>8. out_fifo.dout \in Row
    BY DEF RunStep, TypeInv, HwTypes, StageTypes, Queues
  <1>9. Rows \in Nat /\ Limit(query) \in Nat /\ Len(Passes) <= Rows
        /\ (Limit(query) > 0 => Len(Passes) <= Limit(query))
    <2>1. query \in Queries \cup {NoQuery} /\ Representable(query)
      BY RunFacts, <1>1 DEF RunStep
    <2>2. Rows \in Nat /\ Limit(query) \in 0..255 /\ Passes = Passed[Rows]
      BY <2>1, TableFacts
    <2>3. Rows \in 0..Rows
      BY <2>2
    <2>4. Len(Passed[Rows]) <= Rows /\ (Limit(query) > 0 => Len(Passed[Rows]) <= Limit(query))
      BY <2>1, <2>3, TableFacts, Zenon
    <2>5. Limit(query) \in Nat
      <3>1. \A x \in 0..255 : x \in Nat
        OBVIOUS
      <3> QED BY <2>2, <3>1, Zenon
    <2> QED BY <2>2, <2>4, <2>5, Zenon
  <1>10. CaptureLimit(query) =
           LET e == IF Limit(query) > 0 THEN Limit(query) ELSE Rows
               f == IF e < Rows THEN e ELSE Rows
           IN  IF f > QUERY_MAX_ROWS THEN QUERY_MAX_ROWS ELSE f
    BY DEF CaptureLimit, Rows
  <1> DEFINE c == Len(captured)
  <1>11. Len(captured) < CaptureLimit(query) <=> Taken <= QUERY_MAX_ROWS
    <2>1. c = IF Taken - 1 < QUERY_MAX_ROWS THEN Taken - 1 ELSE QUERY_MAX_ROWS
      BY <1>5, <1>6 DEF Lesser
    <2> DEFINE L == Limit(query)
               p == Len(Passes)
    <2>2. L \in Nat /\ p \in Nat /\ p <= Rows /\ (L > 0 => p <= L) /\ Taken <= p
      BY <1>2, <1>9
    <2> HIDE DEF c, L, p
    <2>3. c < CaptureLimit(query) <=> Taken <= QUERY_MAX_ROWS
      BY <1>2, <1>5, <1>7, <1>9, <1>10, <2>1, <2>2 DEF L
    <2> QED BY <2>3 DEF c
  <1>12. CASE Taken <= QUERY_MAX_ROWS
    <2>1. captured' = Append(captured, out_fifo.dout) /\ c = Taken - 1
      BY <1>2, <1>5, <1>6, <1>7, <1>11, <1>12 DEF Lesser
    <2>2. /\ Len(captured') = Taken
          /\ \A i \in 1..Taken : captured'[i] = IF i = Taken THEN Passes[Taken] ELSE captured[i]
      <3> HIDE DEF c
      <3>1. Len(captured') = c + 1 /\ captured'[c + 1] = Passes[Taken] /\ \A i \in 1..c : captured'[i] = captured[i]
        BY <1>5, <1>7, <1>8, <2>1, AppendProperties DEF c
      <3> QED BY <1>2, <1>5, <2>1, <3>1
    <2>3. Lesser(Stored', QUERY_MAX_ROWS) = Taken
      BY <1>2, <1>6, <1>7, <1>12 DEF Lesser
    <2>4. \A i \in 1..Taken : captured'[i] = Passes[i]
      <3> SUFFICES ASSUME NEW i \in 1..Taken PROVE captured'[i] = Passes[i]
        OBVIOUS
      <3>1. i # Taken => i \in 1..c
        BY <1>2, <2>1
      <3> QED BY <1>5, <2>2, <3>1
    <2>5. Stores'
      BY <1>3, <1>6, <2>2, <2>3, <2>4 DEF Stores, Lesser
    <2>6. /\ c < Len(Engine!Result(query))
          /\ Engine!Result(query)[c + 1] = Passes[Taken]
      <3> DEFINE R == Engine!Result(query)
      <3>1. Len(R) = Lesser(Len(Passes), QUERY_MAX_ROWS) /\ \A i \in 1..Len(R) : R[i] = Passes[i]
        BY ResultRows, RunFacts, <1>1 DEF RunStep
      <3> HIDE DEF R, c
      <3>2. Len(R) \in Nat /\ Taken <= Len(R) /\ c + 1 = Taken /\ c < Len(R)
        BY <1>2, <1>7, <1>12, <2>1, <3>1 DEF Lesser
      <3>3. Taken \in 1..Len(R)
        BY <1>2, <1>5, <3>2
      <3>4. R[c + 1] = Passes[Taken]
        BY <3>1, <3>2, <3>3
      <3> QED BY <3>2, <3>4 DEF R
    <2> QED BY <1>5, <2>1, <2>5, <2>6
  <1>13. CASE ~ (Taken <= QUERY_MAX_ROWS)
    <2>1. captured' = captured
      BY <1>11, <1>13
    <2>2. Lesser(Stored', QUERY_MAX_ROWS) = Lesser(Stored, QUERY_MAX_ROWS)
      BY <1>2, <1>6, <1>7, <1>13 DEF Lesser
    <2>3. Stores'
      BY <1>3, <1>5, <1>6, <2>1, <2>2 DEF Stores, Lesser
    <2> QED BY <2>1, <2>3
  <1> QED BY <1>12, <1>13

\* A full input FIFO means that the limit is reached, and stays so.
LEMMA FullStep ==
    ASSUME RunStep, FIFO_DEPTH > 1,
           pc' \in {"drain", "pulse", "take"} /\ ret' = "full" =>
              \/ pc \in {"drain", "pulse", "take"} /\ ret = "full"
              \/ pc = "feed" /\ STATUS_IN_FIFO_FULL
    PROVE  Full'
  <1> SUFFICES ASSUME Running, pc' \in {"drain", "pulse", "take"}, ret' = "full" PROVE Full'
    BY CoreStep DEF Full
  <1>1. RunEdge /\ Stream /\ Counted /\ Full /\ IndInv
    BY CoreStep DEF RunStep, EngInv
  <1>2. ~din_valid_ctrl /\ limit_hit /\ Len(in_fifo.q) = FIFO_DEPTH
    <2>1. CASE pc \in {"drain", "pulse", "take"} /\ ret = "full"
      BY <1>1, <2>1 DEF Full, IndInv, PulseTiming
    <2>2. CASE pc = "feed" /\ STATUS_IN_FIFO_FULL
      <3>1. Len(in_fifo.q) = FIFO_DEPTH /\ FIFO_DEPTH \in Nat /\ in_fifo.q \in Seq(Row)
        BY <1>1, <2>2, PipelineAssumption DEF STATUS_IN_FIFO_FULL, In!Full, IndInv, Types
      <3>2. in_fifo.q # <<>> /\ Len(in_fifo.q) # 1
        BY <3>1
      <3> QED BY <1>1, <2>2, <3>1, <3>2 DEF IndInv, FifoTransient, PulseTiming
    <2> QED BY <2>1, <2>2
  <1>3. limit_hit' /\ ~limit_valid_out' /\ in_fifo'.q = in_fifo.q
    BY <1>1, <1>2, LimitEdge, Flow
  <1> QED BY <1>2, <1>3 DEF Full

\* The rows behind the end of input move on: the last has left the first stage after one cycle,
\* the limit stage after two, and the done token is at the end after three.
LEMMA WaitEdge ==
    ASSUME RunStep, FIFO_DEPTH > 1, InWait
    PROVE  /\ ~rd_en_pipe1' /\ ~rd_en_pipe2' /\ (limit_hit' \/ stage1_done')
           /\ pc # "drain" \/ rwait > 0 \/ stall_guard > 0 => ~limit_valid_out' /\ limit_done_out'
           /\ pc # "drain" \/ stall_guard > 0 => stage3_done'
  <1>1. /\ Waits /\ IndInv /\ Phase /\ Stream /\ Counted /\ Running /\ RunEdge /\ OutInv
        /\ load_inst \in BOOLEAN
    <2>1. Running
      BY DEF RunStep, EngInv, Phase, InWait, Running
    <2> QED BY <2>1, CoreStep DEF RunStep, EngInv, TypeInv, HwTypes, SlaveTypes
  <1>2. eof_ctrl /\ ~rd_en_pipe1
    BY <1>1 DEF Waits
  <1>3. limit_hit \/ in_fifo.q = <<>>
    BY <1>1, <1>2 DEF IndInv, EofAfterLast
  <1>4. ~rd_en_pipe1' /\ ~rd_en_pipe2'
    BY <1>1, <1>2, <1>3, Flow
  <1>5. limit_hit' \/ stage1_done'
    <2>1. limit_hit => limit_hit'
      BY <1>1, LimitEdge
    <2>2. in_fifo.q = <<>> => stage1_done'
      BY <1>2 DEF RunStep, PipelineClock, Stage1, In!Empty
    <2> QED BY <1>3, <2>1, <2>2
  <1>6. ASSUME pc # "drain" \/ rwait > 0 \/ stall_guard > 0
        PROVE  ~limit_valid_out' /\ limit_done_out'
    <2>1. ~rd_en_pipe2 /\ (limit_hit \/ stage1_done)
      BY <1>1, <1>6 DEF Waits
    <2>2. ~where_valid_and
      BY <2>1 DEF where_valid_and
    <2> QED BY <1>1, <2>1, <2>2, LimitEdge
  <1>7. ASSUME pc # "drain" \/ stall_guard > 0
        PROVE  stage3_done'
    <2>1. limit_done_out /\ ~load_inst
      BY <1>1, <1>7 DEF Waits, Phase, InWait
    <2> QED BY <2>1 DEF RunStep, PipelineClock
  <1> QED BY <1>4, <1>5, <1>6, <1>7

\* A step in the wait for the end.
LEMMA WaitsStep ==
    ASSUME RunStep, FIFO_DEPTH > 1, eof_ctrl' <=> eof_ctrl,
           pc' = "eof" => sent = Rows /\ sent' = sent,
           InWait' => InWait /\ stall_guard' <= 1 /\ sent' = sent,
           InWait' /\ (pc' # "drain" \/ stall_guard' > 0) =>
              pc # "drain" \/ rwait > 0 \/ stall_guard > 0,
           InWait' /\ ((pc' = "poll" /\ rwait' > 0) \/ stall_guard' > 0) =>
              pc # "drain" \/ stall_guard > 0,
           pc' = "poll" /\ stall_guard' > 0 => out_fifo.q = <<>> /\ ~rd_out_fifo
    PROVE  Waits'
  <1>1. Rows' = Rows
    BY SameQuery DEF RunStep
  <1>2. CASE ~InWait'
    BY <1>1, <1>2 DEF Waits
  <1>3. CASE InWait'
    <2>1. InWait /\ sent = Rows /\ eof_ctrl /\ Waits
      BY <1>3 DEF RunStep, EngInv, Waits
    <2>2. /\ ~rd_en_pipe1' /\ ~rd_en_pipe2' /\ (limit_hit' \/ stage1_done')
          /\ pc # "drain" \/ rwait > 0 \/ stall_guard > 0 => ~limit_valid_out' /\ limit_done_out'
          /\ pc # "drain" \/ stall_guard > 0 => stage3_done'
      BY <2>1, WaitEdge
    <2>3. pc' = "poll" /\ stall_guard' > 0 => out_fifo'.q = <<>>
      <3> SUFFICES ASSUME pc' = "poll", stall_guard' > 0 PROVE out_fifo'.q = <<>>
        OBVIOUS
      <3>1. out_fifo.q = <<>> /\ ~rd_out_fifo /\ (pc # "drain" \/ stall_guard > 0)
        BY <1>3
      <3>2. ~limit_valid_out
        BY <2>1, <3>1 DEF Waits
      <3>3. TakenEdge /\ out_fifo'.q \in Seq(Row)
        <4>1. Running
          BY <2>1 DEF RunStep, EngInv, Phase, InWait, Running
        <4>2. RowTypes'
          BY ClockAdvances DEF RunStep
        <4> QED BY <4>1, <4>2, CoreStep DEF RowTypes
      <3>4. Len(out_fifo'.q) = 0
        <4>1. Bit(limit_valid_out) = 0 /\ Bit(rd_out_fifo) = 0 /\ Len(out_fifo.q) = 0
          BY <3>1, <3>2 DEF Bit
        <4> QED BY <3>3, <4>1 DEF TakenEdge
      <3> QED BY <3>3, <3>4, EmptySeq
    <2> QED BY <1>1, <1>3, <2>1, <2>2, <2>3 DEF Waits
  <1> QED BY <1>2, <1>3

\* How the number of rows that passed grows.
LEMMA CountStep ==
    ASSUME RunStep, FIFO_DEPTH > 1, Running
    PROVE  /\ Count' = Count + Bit(limit_valid_out') /\ Count \in Nat
           /\ limit_valid_out' => ~limit_hit /\ rd_en_pipe2
           /\ ~rd_en_pipe2 \/ limit_hit => ~limit_valid_out' /\ Count' = Count
  <1>1. RunEdge /\ Stream /\ Counted /\ Configured(Loaded)' /\ (load_inst => sent = 0)
    BY CoreStep DEF RunStep, EngInv, Phase
  <1>2. /\ Count' = Count + Bit(limit_valid_out')
        /\ limit_valid_out' => ~limit_hit /\ rd_en_pipe2
    BY <1>1, CountedEdge
  <1>3. Count \in Nat
    BY <1>1, TakenInt, RunFacts DEF RunStep, EngInv
  <1> QED BY <1>2, <1>3 DEF Bit

\* Nothing comes after the last row.
LEMMA ComesNothing ==
    ASSUME RunStep, FIFO_DEPTH > 1, Running, ~Coming, ~rd_en_pipe1, ~rd_en_pipe2, ~din_valid_ctrl'
    PROVE  ~Coming' /\ ~rd_en_pipe1' /\ ~rd_en_pipe2' /\ ~limit_valid_out' /\ Count' = Count
  <1>1. RunEdge /\ Stream /\ Counted
    BY CoreStep DEF RunStep, EngInv
  <1>2. CASE limit_hit
    <2>1. limit_hit'
      BY <1>1, <1>2, LimitEdge
    <2> QED BY <1>1, <1>2, <2>1, Flow, CountStep DEF Coming
  <1>3. CASE ~limit_hit
    <2>1. in_fifo.q = <<>> /\ ~din_valid_ctrl
      BY <1>3 DEF Coming
    <2>2. in_fifo'.q = <<>> /\ ~rd_en_pipe1' /\ ~rd_en_pipe2'
      BY <1>1, <1>3, <2>1, Flow
    <2> QED BY <2>2, CountStep DEF Coming
  <1> QED BY <1>2, <1>3

\* When all rows that pass are taken, the buffer holds the result.
LEMMA ResultReached ==
    ASSUME query \in Queries \cup {NoQuery}, Representable(query), Running, Stores, CaptureBounded,
           pc \notin {"answer", "take"}, Taken = Len(Passes)
    PROVE  captured = Engine!Result(query)
  <1>1. /\ Engine!Result(query) \in Seq(Row)
        /\ Len(Engine!Result(query)) = Lesser(Len(Passes), QUERY_MAX_ROWS)
        /\ \A i \in 1..Len(Engine!Result(query)) : Engine!Result(query)[i] = Passes[i]
    BY ResultRows
  <1>2. Len(Passes) \in Nat /\ captured \in Seq(Row)
    BY TableFacts DEF CaptureBounded
  <1>3. ~InHand
    BY DEF InHand
  <1>4. Bit(InHand) = 0
    BY <1>3 DEF Bit
  <1>5. Stored = Len(Passes)
    BY <1>2, <1>4 DEF Stored
  <1>6. /\ Len(captured) = Lesser(Len(Passes), QUERY_MAX_ROWS)
        /\ \A i \in 1..Len(captured) : captured[i] = Passes[i]
    BY <1>5 DEF Stores
  <1> DEFINE R == Engine!Result(query)
  <1> HIDE DEF R
  <1>7. Len(captured) = Len(R) /\ \A i \in 1..Len(captured) : captured[i] = R[i]
    BY <1>1, <1>6 DEF R
  <1>8. R \in Seq(Row)
    BY <1>1 DEF R
  <1>9. captured = R
    BY <1>2, <1>7, <1>8, SeqEqual
  <1> QED BY <1>9 DEF R

\* When the limit is reached no more rows pass.
LEMMA LimitReached ==
    ASSUME query \in Queries \cup {NoQuery}, Representable(query), Running, Counted, limit_hit
    PROVE  /\ Judged \in 1..Rows /\ Count = Len(Passes) /\ Count = Limit(query) /\ Limit(query) > 0
           /\ Len(Passed[Judged - 1]) < Limit(query)
  <1>1. /\ Judged \in 0..Rows /\ Judged >= 1 /\ Len(Passed[Judged]) >= Limit(query)
        /\ Len(Passed[Judged - 1]) < Limit(query)
    BY DEF Counted, limit_hit
  <1>2. Rows \in Nat /\ Limit(query) \in 0..255 /\ Passes = Passed[Rows]
    BY TableFacts
  <1>3. Judged - 1 \in 0..Rows /\ Judged \in 1..Rows /\ Rows \in 0..Rows
    BY <1>1, <1>2
  <1> DEFINE a == Len(Passed[Judged - 1])
             b == Len(Passed[Judged])
             p == Len(Passes)
             L == Limit(query)
  <1>4. a \in Nat /\ b \in Nat /\ p \in Nat /\ b <= p /\ (L > 0 => p <= L)
    <2>1. a \in Nat /\ b \in Nat /\ b <= p
      BY <1>1, <1>3, TableFacts, Zenon
    <2>2. p \in Nat /\ (L > 0 => p <= L)
      BY <1>2, <1>3, TableFacts, Zenon
    <2> QED BY <2>1, <2>2
  <1>5. Count = b
    BY DEF Count
  <1>6. a < L /\ b >= L /\ L \in 0..255
    BY <1>1, <1>2
  <1> HIDE DEF a, b, p, L
  <1>7. L > 0 /\ b = p /\ b = L
    BY <1>4, <1>6
  <1> QED BY <1>3, <1>5, <1>6, <1>7 DEF a, b, p, L

\* The answer is ready and waits.
LEMMA AnsweredStays ==
    ASSUME RunStep, FIFO_DEPTH > 1, pc = "answer", pc' = "answer", ~rd_out_fifo', captured' = captured
    PROVE  Answered'
  <1>1. Answered /\ Running /\ query' = query /\ ~din_valid_ctrl'
    BY DEF RunStep, EngInv, Phase, Running
  <1>2. ~Coming /\ ~rd_en_pipe1 /\ ~rd_en_pipe2
    BY <1>1 DEF Answered
  <1>3. ~Coming' /\ ~rd_en_pipe1' /\ ~rd_en_pipe2' /\ ~limit_valid_out' /\ Count' = Count
    BY <1>1, <1>2, ComesNothing
  <1>4. Passes' = Passes /\ Engine!Stalls(query)' = Engine!Stalls(query)
        /\ Engine!Result(query)' = Engine!Result(query)
    BY <1>1, SameQuery
  <1> QED BY <1>1, <1>3, <1>4 DEF Answered

\* A table without rows is answered at once.
LEMMA AnsweredEmpty ==
    ASSUME RunStep, FIFO_DEPTH > 1, Running, pc = "load", pc' = "answer", query.rows = <<>>,
           ~rd_out_fifo', captured' = captured
    PROVE  Answered'
  <1>1. query' = query /\ ~din_valid_ctrl' /\ query \in Queries \cup {NoQuery} /\ Representable(query)
    BY DEF RunStep, TypeInv, CpuTypes, InstructionsLeft
  <1>2. Rows = 0 /\ Passes = <<>> /\ Len(Passes) = 0
    <2>1. Rows = 0
      BY DEF Rows
    <2>2. Passes = <<>>
      BY <1>1, <2>1, TableFacts
    <2> QED BY <2>1, <2>2
  <1>3. in_fifo.q = <<>> /\ ~rd_en_pipe1 /\ ~rd_en_pipe2 /\ ~limit_valid_out /\ ~din_valid_ctrl /\ ~Coming
    BY DEF RunStep, IndInv, LoadQuiet, PulseTiming, OutInv, LoadEmpty, Coming
  <1>4. ~Coming' /\ ~rd_en_pipe1' /\ ~rd_en_pipe2' /\ ~limit_valid_out' /\ Count' = Count
    BY <1>1, <1>3, ComesNothing
  <1>5. Count = 0 /\ Taken = 0
    <2>1. /\ Count \in Nat /\ Count <= Len(Passes) /\ Taken \in Nat /\ Len(out_fifo.q) \in Nat
          /\ Count = Taken + Len(out_fifo.q) + Bit(limit_valid_out)
      BY <1>1, TakenInt DEF RunStep, EngInv
    <2>2. Bit(limit_valid_out) = 0
      BY <1>3 DEF Bit
    <2> QED BY <1>2, <2>1, <2>2
  <1>6. captured = Engine!Result(query)
    BY <1>1, <1>2, <1>5, ResultReached DEF RunStep, EngInv, TypeInv, CpuTypes
  <1>7. ~Engine!Stalls(query)
    BY DEF Engine!Stalls
  <1>8. Passes' = Passes /\ Engine!Stalls(query)' = Engine!Stalls(query)
        /\ Engine!Result(query)' = Engine!Result(query)
    BY <1>1, SameQuery
  <1> QED BY <1>2, <1>4, <1>5, <1>6, <1>7, <1>8 DEF Answered

\* The input FIFO stayed full: the query stalls, and all its rows had been delivered.
LEMMA AnsweredTimeOut ==
    ASSUME RunStep, FIFO_DEPTH > 1, pc = "drain", ret = "full", pc' = "answer", out_fifo.q = <<>>,
           ~rd_out_fifo', captured' = <<>>
    PROVE  Answered' /\ Engine!Stalls(query) /\ captured = Engine!Result(query) /\ Running
  <1>1. /\ query' = query /\ ~din_valid_ctrl' /\ query \in Queries \cup {NoQuery} /\ Representable(query)
        /\ Running
    BY DEF RunStep, TypeInv, CpuTypes, InstructionsLeft, EngInv, Phase, Running
  <1>2. limit_hit /\ ~limit_valid_out /\ Len(in_fifo.q) = FIFO_DEPTH /\ ~din_valid_ctrl /\ ~Coming
    BY <1>1 DEF RunStep, EngInv, Full, IndInv, PulseTiming, Coming
  <1>3. ~rd_en_pipe1 /\ ~rd_en_pipe2
    BY <1>1, <1>2 DEF RunStep, EngInv, Stream
  <1>4. ~Coming' /\ ~rd_en_pipe1' /\ ~rd_en_pipe2' /\ ~limit_valid_out' /\ Count' = Count
    BY <1>1, <1>2, <1>3, ComesNothing
  <1>5. Judged \in 1..Rows /\ Count = Len(Passes) /\ Count = Limit(query) /\ Limit(query) > 0
    BY <1>1, <1>2, LimitReached DEF RunStep, EngInv
  <1>6. Taken = Len(Passes)
    <2>1. /\ Count \in Nat /\ Taken \in Nat
          /\ Count = Taken + Len(out_fifo.q) + Bit(limit_valid_out)
      BY <1>1, TakenInt DEF RunStep, EngInv
    <2>2. Bit(limit_valid_out) = 0 /\ Len(out_fifo.q) = 0
      BY <1>2 DEF Bit
    <2> QED BY <1>5, <2>1, <2>2
  <1>7. captured = Engine!Result(query)
    BY <1>1, <1>6, ResultReached DEF RunStep, EngInv, TypeInv, CpuTypes
  <1>8. Engine!Stalls(query)
    <2>1. Judged = sent - 0 - FIFO_DEPTH
      <3>1. Bit(din_valid_ctrl) = 0
        BY <1>2 DEF Bit
      <3> QED BY <1>2, <3>1 DEF Judged
    <2>2. sent < Rows /\ sent \in Nat /\ FIFO_DEPTH \in Nat
      BY PipelineAssumption DEF RunStep, IndInv, Types, Rows
    <2>3. Rows \in Nat
      BY <1>1, TableFacts
    <2>4. Rows > Judged + FIFO_DEPTH
      BY <2>1, <2>2, <2>3
    <2>5. Len(Engine!PassingOf(query)[Judged]) = Engine!EffectiveLimit(query)
      BY <1>5, EngineLimit DEF Count, Passed
    <2>6. Judged \in DOMAIN query.rows
      BY <1>1, <1>5, QueryType DEF Rows
    <2> QED BY <1>5, <2>4, <2>5, <2>6, EngineLimit DEF Engine!Stalls, Rows
  <1>9. Passes' = Passes /\ Engine!Stalls(query)' = Engine!Stalls(query)
    BY <1>1, SameQuery
  <1> QED BY <1>1, <1>4, <1>5, <1>7, <1>8, <1>9 DEF Answered

\* At the end of the wait every row has been judged, or the rest fits behind the limit.
LEMMA EndOfWait ==
    ASSUME RunStep, pc = "poll"
    PROVE  Running /\ ~Coming /\ Count = Len(Passes) /\ ~Engine!Stalls(query)
  <1>1. /\ query \in Queries \cup {NoQuery} /\ Representable(query) /\ Running /\ ~din_valid_ctrl
        /\ sent \in Nat /\ in_fifo.q \in Seq(Row) /\ Len(in_fifo.q) \in Nat /\ Len(in_fifo.q) <= FIFO_DEPTH
    BY DEF RunStep, TypeInv, CpuTypes, InstructionsLeft, EngInv, Phase, Running, IndInv, PulseTiming, Types
  <1>2. sent = Rows /\ eof_ctrl /\ ~rd_en_pipe1 /\ ~rd_en_pipe2
    BY DEF RunStep, EngInv, Waits, InWait
  <1>3. limit_hit \/ in_fifo.q = <<>>
    BY <1>2 DEF RunStep, IndInv, EofAfterLast
  <1>4. ~Coming
    BY <1>1, <1>2, <1>3 DEF Coming
  <1>5. Rows \in Nat /\ Passes = Passed[Rows] /\ FIFO_DEPTH \in Nat /\ query.rows \in Seq(Row)
        /\ Limit(query) \in 0..255
    BY <1>1, TableFacts, PipelineAssumption
  <1>6. DOMAIN query.rows = 1..Rows
    BY <1>5 DEF Rows
  <1>7. CASE limit_hit
    <2>1. /\ Judged \in 1..Rows /\ Count = Len(Passes) /\ Count = Limit(query) /\ Limit(query) > 0
          /\ Len(Passed[Judged - 1]) < Limit(query)
      BY <1>1, <1>7, LimitReached DEF RunStep, EngInv
    <2>2. Judged >= Rows - FIFO_DEPTH
      <3>1. Bit(din_valid_ctrl) = 0
        BY <1>1 DEF Bit
      <3>2. Judged = sent - 0 - Len(in_fifo.q)
        BY <1>4, <1>7, <3>1 DEF Judged
      <3> QED BY <1>1, <1>2, <1>5, <3>2
    <2>3. ASSUME NEW p \in 1..Rows, Len(Passed[p]) = Limit(query) PROVE ~ (Rows > p + FIFO_DEPTH)
      <3>1. CASE p <= Judged - 1
        <4>1. p \in 0..(Judged - 1) /\ Judged - 1 \in 0..Rows
          BY <1>5, <2>1, <3>1
        <4>2. Extends(Passed[p], Passed[Judged - 1])
          BY <1>5, <4>1, PassingGrows DEF Passed, Rows
        <4>3. Len(Passed[p]) \in Nat /\ Len(Passed[Judged - 1]) \in Nat /\ Len(Passed[p]) <= Len(Passed[Judged - 1])
          <5>1. p \in 0..Rows
            BY <1>5
          <5> QED BY <1>1, <4>1, <4>2, <5>1, TableFacts DEF Extends
        <4> QED BY <1>5, <2>1, <2>3, <4>3
      <3>2. CASE p > Judged - 1
        BY <1>5, <2>1, <2>2, <3>2
      <3> QED BY <1>5, <2>1, <3>1, <3>2
    <2>4. ~Engine!Stalls(query)
      BY <1>6, <2>3, EngineLimit DEF Engine!Stalls, Passed, Rows
    <2> QED BY <1>1, <1>4, <2>1, <2>4
  <1>8. CASE ~limit_hit
    <2>1. Judged = Rows
      BY <1>2, <1>4, <1>8 DEF Judged
    <2>2. Count = Len(Passes)
      BY <1>5, <2>1 DEF Count
    <2>3. Limit(query) > 0 => Len(Passes) < Limit(query)
      <3>1. Limit(query) > 0 => limit_active
        <4>1. ~load_inst /\ k = Len(Program(query)) /\ Configured(Loaded) /\ k \in Nat
          BY ProgramType, <1>1 DEF RunStep, EngInv, Fetched, Phase, TypeInv, CpuTypes, InstructionsLeft
        <4>2. Loaded = k
          BY <4>1 DEF Loaded, Bit
        <4>3. Limit(query) > 0 => Len(Program(query)) >= 1
          <5>1. /\ Len(Program(query)) \in Nat
                /\ Len(Program(query)) >= Bit(Limit(query) > 0) + (WhereStop(query) - 1)
                /\ WhereStop(query) - 1 \in Nat
            BY <1>1, ProgramWords, WhereStops, PipelineAssumption
          <5> QED BY <5>1 DEF Bit
        <4> QED BY <4>1, <4>2, <4>3 DEF Configured
      <3>2. internal_hit <=> limit_active /\ Len(Passes) >= Limit(query)
        BY <1>1, <1>5, <2>1 DEF RunStep, EngInv, Counted
      <3>3. Len(Passes) \in Nat
        BY <1>1, TableFacts
      <3>4. Limit(query) > 0 => ~ (Len(Passes) >= Limit(query))
        BY <1>8, <3>1, <3>2, Zenon DEF limit_hit
      <3> DEFINE p == Len(Passes)
                 L == Limit(query)
      <3> HIDE DEF p, L
      <3>5. p \in Nat /\ L \in 0..255 /\ (L > 0 => ~ (p >= L))
        BY <1>5, <3>3, <3>4 DEF p, L
      <3>6. L > 0 => p < L
        BY <3>5
      <3> QED BY <3>6 DEF p, L
    <2>4. ASSUME NEW p \in 1..Rows, Limit(query) > 0 PROVE Len(Passed[p]) # Limit(query)
      <3>1. p \in 0..Rows
        BY <1>5
      <3>2. Len(Passed[p]) <= Len(Passes) /\ Len(Passed[p]) \in Nat /\ Len(Passes) \in Nat
        BY <1>1, <3>1, TableFacts, Zenon
      <3> QED BY <1>5, <2>3, <2>4, <3>2
    <2>5. ~Engine!Stalls(query)
      BY <1>6, <2>4, EngineLimit DEF Engine!Stalls, Passed, Rows
    <2> QED BY <1>1, <1>4, <2>2, <2>5
  <1> QED BY <1>7, <1>8

\* Done, and the output FIFO empty: the result is complete.
LEMMA AnsweredPoll ==
    ASSUME RunStep, FIFO_DEPTH > 1, pc = "poll", pc' = "answer", out_fifo.q = <<>>,
           ~rd_out_fifo', captured' = captured
    PROVE  Answered'
  <1>1. /\ query' = query /\ ~din_valid_ctrl' /\ query \in Queries \cup {NoQuery} /\ Representable(query)
    BY DEF RunStep, TypeInv, CpuTypes, InstructionsLeft
  <1>2. Running /\ ~Coming /\ Count = Len(Passes) /\ ~Engine!Stalls(query)
    BY EndOfWait
  <1>3. ~rd_en_pipe1 /\ ~rd_en_pipe2 /\ ~limit_valid_out
    BY DEF RunStep, EngInv, Waits, InWait
  <1>4. ~Coming' /\ ~rd_en_pipe1' /\ ~rd_en_pipe2' /\ ~limit_valid_out' /\ Count' = Count
    BY <1>1, <1>2, <1>3, ComesNothing
  <1>5. Taken = Len(Passes)
    <2>1. /\ Count \in Nat /\ Taken \in Nat
          /\ Count = Taken + Len(out_fifo.q) + Bit(limit_valid_out)
      BY <1>1, <1>2, TakenInt DEF RunStep, EngInv
    <2>2. Bit(limit_valid_out) = 0 /\ Len(out_fifo.q) = 0
      BY <1>3 DEF Bit
    <2> QED BY <1>2, <2>1, <2>2
  <1>6. captured = Engine!Result(query)
    BY <1>1, <1>2, <1>5, ResultReached DEF RunStep, EngInv, TypeInv, CpuTypes
  <1>7. Passes' = Passes /\ Engine!Stalls(query)' = Engine!Stalls(query)
        /\ Engine!Result(query)' = Engine!Result(query)
    BY <1>1, SameQuery
  <1> QED BY <1>2, <1>4, <1>6, <1>7 DEF Answered

-----------------------------------------------------------------------------
(* The steps of the firmware once more, now with what the rows are. *)

\* The invariant of the refinement.
AllInv == IndInv /\ OutInv /\ TypeInv /\ EngInv /\ Representable(query)

\* The hypotheses of the refinement: an output FIFO of one word loses rows (NoOutputDroppedHolds), a
\* guard of one gives up in the round that is ahead of the done token, and the operands of a query
\* have to fit the fields of the instructions.
Fits == FIFO_DEPTH > 1 /\ STALL_MAX > 1 /\ \A q \in Queries : Representable(q)

\* The parts that the pipeline keeps by itself.
CorePart == RunStep /\ Fetched' /\ Phase' /\ Stream' /\ Counted' /\ Delivered'

\* A step without an access in the middle of a query.
LEMMA QuietRun ==
    ASSUME AllInv, Fits, NoAccess, ~sw_rst, Active, Active', UNCHANGED <<query, k, sent>>,
           pc' = "din_valid" => pc = "din_valid",
           pc' = pc \/ {pc, pc'} \cap {"inst", "load", "refuse"} = {}
    PROVE  CorePart /\ ~rd_out_fifo' /\ (eof_ctrl' <=> eof_ctrl)
  <1>1. /\ ~din_valid_ctrl' /\ ~load_inst' /\ ~rd_out_fifo' /\ ~sw_rst'
        /\ eof_ctrl' <=> eof_ctrl
        /\ data_in_reg' = data_in_reg /\ inst_reg' = inst_reg
        /\ PipelineClock(data_in_reg, din_valid_ctrl, eof_ctrl, inst_reg, load_inst, rd_out_fifo)
        /\ LatchOperands(load_inst, inst_reg)
    BY QuietEdge DEF AllInv
  <1>2. RunStep
    BY <1>1 DEF RunStep, AllInv
  <1>3. Configured(Loaded)' /\ Stream' /\ Counted' /\ Delivered'
    BY <1>2, CoreStep DEF Fits
  <1>4. Fetched' /\ Phase'
    BY <1>1, <1>2, <1>3, QuietPhase
  <1> QED BY <1>1, <1>2, <1>3, <1>4 DEF CorePart

\* A write of the data path.
LEMMA WriteRun ==
    ASSUME AllInv, Fits, NEW a, NEW d, Write(a, d),
           \/ a = "DATA_IN" /\ d = query.rows[sent + 1] /\ sent' = sent
           \/ a = "CONTROL" /\ d \in {{"INPUT_EOF"}, {"RD_OUT_FIFO"}} /\ sent' = sent
              /\ pc' # "din_valid"
           \/ a = "CONTROL" /\ d = {"DIN_VALID"} /\ pc = "din_valid" /\ sent' = sent + 1
              /\ pc' # "din_valid",
           Active, Active', UNCHANGED <<query, k>>,
           {pc, pc'} \cap {"inst", "load", "refuse"} = {}
    PROVE  /\ CorePart /\ rwait = 0 /\ rwait' = 0
           /\ rd_out_fifo' <=> a = "CONTROL" /\ d = {"RD_OUT_FIFO"}
           /\ eof_ctrl' <=> eof_ctrl \/ (a = "CONTROL" /\ d = {"INPUT_EOF"})
  <1>1. /\ rwait = 0 /\ rwait' = 0 /\ ~sw_rst
        /\ data_in_reg' = IF a = "DATA_IN" THEN d ELSE data_in_reg
        /\ inst_reg' = IF a = "INSTRUCTION" THEN d ELSE inst_reg
        /\ ControlRegisters(IF a = "CONTROL" THEN d ELSE {})
        /\ ~sw_rst' =>
              /\ PipelineClock(data_in_reg, din_valid_ctrl, eof_ctrl, inst_reg, load_inst, rd_out_fifo)
              /\ LatchOperands(load_inst, inst_reg)
    BY WriteEdge DEF AllInv, EngInv
  <1>2. eof_ctrl \in BOOLEAN
    BY DEF AllInv, TypeInv, HwTypes, SlaveTypes
  <1>3. /\ ~load_inst' /\ ~sw_rst' /\ inst_reg' = inst_reg
        /\ din_valid_ctrl' <=> a = "CONTROL" /\ d = {"DIN_VALID"}
        /\ rd_out_fifo' <=> a = "CONTROL" /\ d = {"RD_OUT_FIFO"}
        /\ eof_ctrl' <=> eof_ctrl \/ (a = "CONTROL" /\ d = {"INPUT_EOF"})
    <2>1. CASE a = "DATA_IN"
      BY <1>1, <1>2, <2>1 DEF ControlRegisters
    <2>2. CASE a = "CONTROL" /\ d = {"INPUT_EOF"}
      BY <1>1, <1>2, <2>2 DEF ControlRegisters
    <2>3. CASE a = "CONTROL" /\ d = {"RD_OUT_FIFO"}
      BY <1>1, <1>2, <2>3 DEF ControlRegisters
    <2>4. CASE a = "CONTROL" /\ d = {"DIN_VALID"}
      BY <1>1, <1>2, <2>4 DEF ControlRegisters
    <2> QED BY <2>1, <2>2, <2>3, <2>4
  <1>4. RunStep
    BY <1>1, <1>3 DEF RunStep, AllInv
  <1>5. Configured(Loaded)' /\ Stream' /\ Counted' /\ Delivered'
    BY <1>4, CoreStep DEF Fits
  <1>6. Fetched' /\ Phase'
    BY <1>3, <1>4, <1>5, QuietPhase
  <1> QED BY <1>1, <1>3, <1>4, <1>5, <1>6 DEF CorePart

\* Between the queries the invariant says nothing.
LEMMA InactiveStep ==
    ASSUME pc' \in {"idle", "clear"}, ~load_inst', ~sw_rst',
           pc' = "clear" => captured' = <<>> /\ stall_guard' = 0
    PROVE  EngInv'
  BY DEF EngInv, Fetched, Phase, Stream, Counted, Delivered, Stores, Full, Waits, Answered,
         Active, Running, InWait

\* A query starts or ends.
LEMMA BoundaryStep ==
    ASSUME TypeInv, Start \/ Refuse \/ ReplyRows \/ ReplyCount \/ ReplySum
    PROVE  EngInv'
  <1>1. NoAccess /\ pc' \in {"idle", "clear"} /\ (pc' = "clear" => captured' = <<>> /\ stall_guard' = 0)
    BY DEF Start, Refuse, ReplyRows, ReplyCount, ReplySum, Reply, Sample
  <1> QED BY <1>1, QuietEdge, InactiveStep

\* The values of the reset.
LEMMA ResetValues ==
    ASSUME PipelineReset
    PROVE  /\ where_active_cnt' = 0 /\ ~limit_active'
           /\ in_fifo'.q = <<>> /\ out_fifo'.q = <<>> /\ ~rd_en_pipe1' /\ ~rd_en_pipe2'
           /\ limit_count' = 0 /\ ~internal_hit' /\ ~limit_valid_out'
           /\ acc_out' = 0 /\ sum_out' = 0
  BY DEF PipelineReset, ClearFetcher, In!Cleared, Out!Cleared

\* hw_clear.
LEMMA EngClear ==
    ASSUME AllInv, Clear
    PROVE  EngInv'
  <1>1. /\ pc = "clear" /\ Write("CONTROL", {"RST"}) /\ pc' = AfterInstructions(0)
        /\ query' = query /\ k' = k /\ sent' = sent /\ captured' = captured /\ stall_guard' = stall_guard
    BY DEF Clear
  <1>2. /\ rwait' = 0 /\ write_prev' /\ ControlRegisters({"RST"}) /\ (sw_rst' => PipelineReset)
    BY <1>1, WriteEdge DEF AllInv, EngInv
  <1>3. ~load_inst' /\ ~din_valid_ctrl' /\ ~rd_out_fifo' /\ ~eof_ctrl' /\ sw_rst'
    BY <1>2 DEF ControlRegisters
  <1>4. k = 0 /\ sent = 0 /\ captured = <<>> /\ stall_guard = 0
        /\ query \in Queries \cup {NoQuery} /\ Representable(query)
    BY <1>1 DEF AllInv, TypeInv, CpuTypes, InstructionsLeft, IndInv, Types, EngInv, Phase
  <1>5. Program(query)' = Program(query) /\ CompileFails(query)' = CompileFails(query)
    BY <1>1, SameQuery
  <1>6. Len(Program(query)) \in Nat
    BY <1>4, ProgramType
  <1>7. /\ pc' \in {"inst", "refuse", "feed", "answer"}
        /\ pc' # "inst" => Len(Program(query)) = 0
        /\ pc' = "refuse" => CompileFails(query)
        /\ pc' \in {"feed", "answer"} => ~CompileFails(query)
        /\ pc' = "answer" => query.rows = <<>>
    BY <1>1, <1>6 DEF AfterInstructions
  <1>8. Fresh'
    BY <1>1, <1>2, <1>3, <1>4, <1>5, <1>7, ResetValues DEF Fresh
  <1>9. query' \in Queries \cup {NoQuery} /\ Representable(query)'
    BY <1>1, <1>4, SameQuery DEF Representable
  <1>10. (Fresh /\ query \in Queries \cup {NoQuery} /\ Representable(query) => EngInv)'
    BY FreshHolds, PTL
  <1> QED BY <1>8, <1>9, <1>10

\* The cycle that ends the reset.
LEMMA EngReset ==
    ASSUME AllInv, NoAccess, sw_rst, pc' = pc,
           UNCHANGED <<query, k, sent, captured, stall_guard>>
    PROVE  EngInv'
  <1>1. /\ ~din_valid_ctrl' /\ ~load_inst' /\ ~rd_out_fifo' /\ ~sw_rst'
        /\ eof_ctrl' <=> eof_ctrl
        /\ PipelineReset
    BY QuietEdge DEF AllInv
  <1>2. /\ k = 0 /\ sent = 0 /\ captured = <<>> /\ stall_guard = 0 /\ ~eof_ctrl
        /\ pc \in {"inst", "refuse", "feed", "answer"}
        /\ pc = "answer" => query.rows = <<>>
        /\ pc = "refuse" => CompileFails(query)
        /\ pc \in {"feed", "answer"} => ~CompileFails(query)
        /\ pc # "inst" => k = Len(Program(query))
        /\ query \in Queries \cup {NoQuery} /\ Representable(query)
    BY DEF AllInv, TypeInv, CpuTypes, InstructionsLeft, EngInv, Phase, Fetched, Active
  <1>3. Program(query)' = Program(query) /\ CompileFails(query)' = CompileFails(query)
    BY SameQuery
  <1>4. Fresh'
    BY <1>1, <1>2, <1>3, ResetValues DEF Fresh
  <1>5. query' \in Queries \cup {NoQuery} /\ Representable(query)'
    BY <1>2, SameQuery DEF Representable
  <1>6. (Fresh /\ query \in Queries \cup {NoQuery} /\ Representable(query) => EngInv)'
    BY FreshHolds, PTL
  <1> QED BY <1>4, <1>5, <1>6

\* hw_send_instruction, the word.
LEMMA EngSend ==
    ASSUME AllInv, Fits, SendInstruction
    PROVE  EngInv'
  <1>1. /\ pc = "inst" /\ pc' = "load" /\ Write("INSTRUCTION", Program(query)[k + 1])
        /\ UNCHANGED <<query, k, sent, captured>>
    BY DEF SendInstruction
  <1>2. /\ inst_reg' = Program(query)[k + 1] /\ ControlRegisters({})
        /\ data_in_reg' = data_in_reg
        /\ ~sw_rst' =>
              /\ PipelineClock(data_in_reg, din_valid_ctrl, eof_ctrl, inst_reg, load_inst, rd_out_fifo)
              /\ LatchOperands(load_inst, inst_reg)
    BY <1>1, WriteEdge DEF AllInv, EngInv
  <1>3. ~load_inst' /\ ~sw_rst' /\ ~din_valid_ctrl' /\ ~rd_out_fifo'
    BY <1>2 DEF ControlRegisters
  <1>4. RunStep
    BY <1>1, <1>2, <1>3 DEF RunStep, AllInv, Active
  <1>5. Configured(Loaded)' /\ Stream' /\ Counted' /\ Delivered'
    BY <1>4, CoreStep DEF Fits
  <1>6. Program(query)' = Program(query)
    BY <1>1, SameQuery
  <1>7. Fetched' /\ Phase'
    BY <1>1, <1>2, <1>3, <1>5, <1>6 DEF Fetched, Phase
  <1>8. Stores'
    BY <1>1, <1>3, <1>4, StoresPlain DEF Fits
  <1>9. Full' /\ Waits' /\ Answered'
    BY <1>1 DEF Full, Waits, Answered, InWait
  <1> QED BY <1>5, <1>7, <1>8, <1>9 DEF EngInv

\* hw_send_instruction, the pulse.
LEMMA EngLoad ==
    ASSUME AllInv, Fits, LoadInstruction
    PROVE  EngInv'
  <1>1. /\ pc = "load" /\ pc' = AfterInstructions(k + 1) /\ Write("CONTROL", {"LOAD_INST"})
        /\ k' = k + 1 /\ UNCHANGED <<query, sent, captured>>
    BY DEF LoadInstruction
  <1>2. /\ inst_reg' = inst_reg /\ ControlRegisters({"LOAD_INST"})
        /\ data_in_reg' = data_in_reg
        /\ ~sw_rst' =>
              /\ PipelineClock(data_in_reg, din_valid_ctrl, eof_ctrl, inst_reg, load_inst, rd_out_fifo)
              /\ LatchOperands(load_inst, inst_reg)
    BY <1>1, WriteEdge DEF AllInv, EngInv
  <1>3. load_inst' /\ ~sw_rst' /\ ~din_valid_ctrl' /\ ~rd_out_fifo'
    BY <1>2 DEF ControlRegisters
  <1>4. /\ query \in Queries \cup {NoQuery} /\ k \in Nat /\ k < Len(Program(query)) /\ sent = 0
        /\ inst_reg = Program(query)[k + 1]
    BY <1>1 DEF AllInv, TypeInv, CpuTypes, InstructionsLeft, IndInv, Types, EngInv, Fetched, Active
  <1>5. Len(Program(query)) \in Nat
    BY <1>4, ProgramType
  <1>6. /\ pc' \in {"inst", "refuse", "feed", "answer"}
        /\ pc' # "inst" => k + 1 = Len(Program(query))
        /\ pc' = "refuse" => CompileFails(query)
        /\ pc' \in {"feed", "answer"} => ~CompileFails(query)
        /\ pc' = "answer" => query.rows = <<>>
    BY <1>1, <1>4, <1>5 DEF AfterInstructions
  <1>7. RunStep
    BY <1>1, <1>2, <1>3, <1>6 DEF RunStep, AllInv, Active
  <1>8. Configured(Loaded)' /\ Stream' /\ Counted' /\ Delivered'
    BY <1>7, CoreStep DEF Fits
  <1>9. Program(query)' = Program(query) /\ CompileFails(query)' = CompileFails(query)
    BY <1>1, SameQuery
  <1>10. Fetched'
    BY <1>1, <1>2, <1>4, <1>6, <1>8, <1>9 DEF Fetched
  <1>11. Phase'
    BY <1>1, <1>3, <1>4, <1>6, <1>9 DEF Phase
  <1>12. Stores'
    BY <1>1, <1>3, <1>6, <1>7, StoresPlain DEF Fits
  <1>13. Full' /\ Waits'
    BY <1>6 DEF Full, Waits, InWait
  <1>14. Answered'
    <2>1. CASE pc' # "answer"
      BY <2>1 DEF Answered
    <2>2. CASE pc' = "answer"
      BY <1>1, <1>3, <1>6, <1>7, <2>2, AnsweredEmpty DEF Fits, Running, Active
    <2> QED BY <2>1, <2>2
  <1> QED BY <1>8, <1>10, <1>11, <1>12, <1>13, <1>14 DEF EngInv

\* What the invariant says of the firmware's place in the program.
LEMMA PlaceFacts ==
    ASSUME AllInv
    PROVE  /\ pc \notin {"idle", "clear", "inst", "load", "refuse"} => Running
           /\ pc \notin {"idle", "clear", "inst", "load", "refuse", "take"} => ~rd_out_fifo
           /\ pc = "pulse" => out_fifo.q # <<>>
           /\ rwait > 0 => ~sw_rst
           /\ pc \in {"feed", "din", "din_valid", "drain", "pulse", "take", "eof", "poll", "answer"} => Active
           /\ pc \in {"idle", "clear", "inst", "load", "refuse", "feed", "din", "din_valid",
                      "drain", "pulse", "take", "eof", "poll", "answer"}
           /\ stall_guard \in Nat /\ rwait \in Nat /\ sent \in 0..Rows
           /\ out_fifo.q = <<>> <=> STATUS_OUT_FIFO_EMPTY
  <1>1. out_fifo.q = <<>> <=> STATUS_OUT_FIFO_EMPTY
    BY EmptySeq DEF AllInv, OutInv, RowTypes, STATUS_OUT_FIFO_EMPTY, Out!Empty
  <1>2. stall_guard \in Nat /\ rwait \in Nat /\ sent \in 0..Rows
    BY AcceleratorAssumption
       DEF AllInv, TypeInv, CpuTypes, GuardBounded, WordsBounded, IndInv, Types, Rows
  <1>3. rwait > 0 => ~sw_rst
    BY <1>2 DEF AllInv, EngInv, Phase
  <1>4. pc \in PCs
    BY DEF AllInv, IndInv, Types
  <1>5. pc \notin {"idle", "clear", "inst", "load", "refuse"} => Running
    BY DEF AllInv, EngInv, Phase, Running, Active
  <1>6. Running => (pc # "take" => ~rd_out_fifo) /\ (pc = "pulse" => out_fifo.q # <<>>)
    BY DEF AllInv, EngInv, Stores
  <1> QED BY <1>1, <1>2, <1>3, <1>4, <1>5, <1>6 DEF PCs, Active

\* A cycle in which the firmware does nothing, or waits in a read.
LEMMA EngWait ==
    ASSUME AllInv, Fits, ReadWait \/ Idle
    PROVE  EngInv'
  <1>1. /\ NoAccess /\ UNCHANGED <<pc, ret, query, k, sent, captured, stall_guard>>
        /\ rwait' = rwait \/ rwait' = rwait + 1
    BY DEF ReadWait, Idle, cpuVars
  <1>2. CASE pc \in {"idle", "clear"}
    BY <1>1, <1>2, QuietEdge, InactiveStep DEF AllInv, EngInv, Phase
  <1>3. CASE sw_rst
    BY <1>1, <1>3, EngReset
  <1>4. CASE ~sw_rst /\ pc \notin {"idle", "clear"}
    <2>1. CorePart /\ ~rd_out_fifo' /\ (eof_ctrl' <=> eof_ctrl)
      BY <1>1, <1>4, QuietRun DEF Active
    <2>2. RunStep
      BY <2>1 DEF CorePart
    <2>3. Stores'
      <3>1. CASE pc = "take"
        BY <1>1, <2>1, <2>2, <3>1, StoresTaking DEF Fits
      <3>2. CASE pc # "take"
        BY <1>1, <2>1, <2>2, <3>2, StoresPlain, PlaceFacts DEF Fits
      <3> QED BY <3>1, <3>2
    <2>4. Full'
      BY <1>1, <2>2, FullStep DEF Fits
    <2>5. Waits'
      <3>1. InWait' <=> InWait
        BY <1>1 DEF InWait
      <3>2. /\ pc = "eof" => sent = Rows
            /\ InWait => stall_guard <= 1
            /\ pc = "poll" /\ stall_guard > 0 => out_fifo.q = <<>> /\ ~rd_out_fifo
        BY PlaceFacts DEF AllInv, EngInv, Waits, InWait
      <3> QED BY <1>1, <2>1, <2>2, <3>1, <3>2, WaitsStep DEF Fits
    <2>6. Answered'
      <3>1. CASE pc = "answer"
        BY <1>1, <2>1, <2>2, <3>1, AnsweredStays DEF Fits
      <3>2. CASE pc # "answer"
        BY <1>1, <3>2 DEF Answered
      <3> QED BY <3>1, <3>2
    <2> QED BY <2>1, <2>3, <2>4, <2>5, <2>6 DEF EngInv, CorePart
  <1> QED BY <1>2, <1>3, <1>4

\* A read is sampled out of reset.
LEMMA SampleFacts ==
    ASSUME AllInv, Sample
    PROVE  NoAccess /\ rwait > 0 /\ ~sw_rst /\ rwait' = 0
  BY AcceleratorAssumption, PlaceFacts DEF Sample

\* The status read of the feed loop.
LEMMA EngFeed ==
    ASSUME AllInv, Fits, FeedStatus
    PROVE  EngInv'
  <1>1. /\ pc = "feed" /\ Sample /\ UNCHANGED <<query, k, sent, captured, stall_guard>>
        /\ \/ STATUS_IN_FIFO_FULL /\ pc' = "drain" /\ ret' = "full"
           \/ pc' = "din"
    BY DEF FeedStatus
  <1>2. CorePart /\ ~rd_out_fifo' /\ (eof_ctrl' <=> eof_ctrl)
    BY <1>1, SampleFacts, QuietRun DEF Active
  <1>3. RunStep
    BY <1>2 DEF CorePart
  <1>4. Stores'
    BY <1>1, <1>2, <1>3, StoresPlain DEF Fits
  <1>5. Full'
    BY <1>1, <1>3, FullStep DEF Fits
  <1>6. Waits' /\ Answered'
    BY <1>1 DEF Waits, Answered, InWait
  <1> QED BY <1>2, <1>4, <1>5, <1>6 DEF EngInv, CorePart

\* hw_write_word, the data.
LEMMA EngWriteWord ==
    ASSUME AllInv, Fits, WriteWord
    PROVE  EngInv'
  <1>1. /\ pc = "din" /\ pc' = "din_valid" /\ Write("DATA_IN", query.rows[sent + 1])
        /\ UNCHANGED <<query, k, sent, captured, stall_guard>>
    BY DEF WriteWord
  <1>2. CorePart /\ ~rd_out_fifo'
    <2>1. Active /\ Active'
      BY <1>1 DEF Active
    <2>2. CorePart /\ (rd_out_fifo' <=> "DATA_IN" = "CONTROL" /\ query.rows[sent + 1] = {"RD_OUT_FIFO"})
      BY <1>1, <2>1, WriteRun
    <2> QED BY <2>2
  <1>3. RunStep
    BY <1>2 DEF CorePart
  <1>4. Stores'
    BY <1>1, <1>2, <1>3, StoresPlain DEF Fits
  <1>5. Full' /\ Waits' /\ Answered'
    BY <1>1 DEF Full, Waits, Answered, InWait
  <1> QED BY <1>2, <1>4, <1>5 DEF EngInv, CorePart

\* hw_write_word, the pulse.
LEMMA EngPush ==
    ASSUME AllInv, Fits, PushWord
    PROVE  EngInv'
  <1>1. /\ pc = "din_valid" /\ pc' = "drain" /\ Write("CONTROL", {"DIN_VALID"}) /\ ret' = "sent"
        /\ UNCHANGED <<query, k, captured>> /\ sent' = sent + 1
    BY DEF PushWord
  <1>2. CorePart /\ ~rd_out_fifo'
    <2>1. Active /\ Active'
      BY <1>1 DEF Active
    <2>2. CorePart /\ (rd_out_fifo' <=> "CONTROL" = "CONTROL" /\ {"DIN_VALID"} = {"RD_OUT_FIFO"})
      BY <1>1, <2>1, WriteRun
    <2> QED BY <2>2
  <1>3. RunStep
    BY <1>2 DEF CorePart
  <1>4. Stores'
    BY <1>1, <1>2, <1>3, StoresPlain DEF Fits
  <1>5. Full' /\ Waits' /\ Answered'
    BY <1>1 DEF Full, Waits, Answered, InWait
  <1> QED BY <1>2, <1>4, <1>5 DEF EngInv, CorePart

\* hw_signal_eof: the wait for the end begins with no row left to read.
LEMMA EngEof ==
    ASSUME AllInv, Fits, SignalEof
    PROVE  EngInv'
  <1>1. /\ pc = "eof" /\ pc' = "drain" /\ Write("CONTROL", {"INPUT_EOF"}) /\ ret' = "wait"
        /\ UNCHANGED <<query, k, sent, captured>> /\ stall_guard' = 0
    BY DEF SignalEof
  <1>2. CorePart /\ ~rd_out_fifo' /\ eof_ctrl' /\ rwait' = 0
    <2>1. Active /\ Active'
      BY <1>1 DEF Active
    <2>2. /\ CorePart /\ rwait' = 0
          /\ (rd_out_fifo' <=> "CONTROL" = "CONTROL" /\ {"INPUT_EOF"} = {"RD_OUT_FIFO"})
          /\ eof_ctrl' <=> eof_ctrl \/ ("CONTROL" = "CONTROL" /\ {"INPUT_EOF"} = {"INPUT_EOF"})
      BY <1>1, <2>1, WriteRun
    <2> QED BY <2>2
  <1>3. RunStep
    BY <1>2 DEF CorePart
  <1>4. Stores'
    BY <1>1, <1>2, <1>3, StoresPlain DEF Fits
  <1>5. Full' /\ Answered'
    BY <1>1 DEF Full, Answered
  <1>6. Waits'
    <2>1. RunEdge /\ sent = Rows
      BY <1>1, <1>3, CoreStep, PlaceFacts DEF Fits, AllInv, EngInv, Waits
    <2>2. rd_en_pipe1' <=> in_fifo.q # <<>> /\ ~limit_hit
      BY <2>1, Flow
    <2>3. in_fifo.q # <<>> => limit_hit
      BY <1>1 DEF AllInv, IndInv, FifoTransient
    <2>4. sent' = Rows'
      BY <1>1, <2>1, SameQuery DEF Rows
    <2> QED BY <1>1, <1>2, <2>2, <2>3, <2>4 DEF Waits, InWait
  <1> QED BY <1>2, <1>4, <1>5, <1>6 DEF EngInv, CorePart

\* The pulse that takes a row off the output FIFO.
LEMMA EngPulse ==
    ASSUME AllInv, Fits, PulseRead
    PROVE  EngInv'
  <1>1. /\ pc = "pulse" /\ pc' = "take" /\ Write("CONTROL", {"RD_OUT_FIFO"}) /\ ret' = ret
        /\ UNCHANGED <<query, k, sent, captured, stall_guard>>
    BY DEF PulseRead
  <1>2. CorePart /\ rd_out_fifo' /\ (eof_ctrl' <=> eof_ctrl) /\ rwait' = 0
    <2>1. Active /\ Active'
      BY <1>1 DEF Active
    <2>2. /\ CorePart /\ rwait' = 0
          /\ (rd_out_fifo' <=> "CONTROL" = "CONTROL" /\ {"RD_OUT_FIFO"} = {"RD_OUT_FIFO"})
          /\ eof_ctrl' <=> eof_ctrl \/ ("CONTROL" = "CONTROL" /\ {"RD_OUT_FIFO"} = {"INPUT_EOF"})
      BY <1>1, <2>1, WriteRun
    <2>3. eof_ctrl \in BOOLEAN
      BY DEF AllInv, TypeInv, HwTypes, SlaveTypes
    <2> QED BY <2>2, <2>3
  <1>3. RunStep
    BY <1>2 DEF CorePart
  <1>4. Stores'
    BY <1>1, <1>2, <1>3, StoresPulse DEF Fits
  <1>5. Full'
    BY <1>1, <1>3, FullStep DEF Fits
  <1>6. Waits'
    <2>1. InWait' <=> InWait
      BY <1>1 DEF InWait
    <2>2. InWait => stall_guard <= 1
      BY DEF AllInv, EngInv, Waits
    <2> QED BY <1>1, <1>2, <1>3, <2>1, <2>2, WaitsStep DEF Fits
  <1>7. Answered'
    BY <1>1 DEF Answered
  <1> QED BY <1>2, <1>4, <1>5, <1>6, <1>7 DEF EngInv, CorePart

\* The status read of the drain loop.
LEMMA EngDrain ==
    ASSUME AllInv, Fits, DrainStatus
    PROVE  EngInv'
  <1>1. /\ pc = "drain" /\ Sample /\ UNCHANGED <<query, k, sent, ret>>
        /\ IF STATUS_OUT_FIFO_EMPTY THEN DrainReturns
           ELSE pc' = "pulse" /\ UNCHANGED <<captured, stall_guard>>
    BY DEF DrainStatus
  <1>2. NoAccess /\ rwait > 0 /\ ~sw_rst /\ rwait' = 0 /\ Running /\ ~rd_out_fifo
    BY <1>1, SampleFacts, PlaceFacts
  <1>3. \/ /\ pc' = "pulse" /\ out_fifo.q # <<>> /\ UNCHANGED <<captured, stall_guard>>
        \/ /\ pc' = "feed" /\ captured' = captured
        \/ /\ pc' = "eof" /\ ret = "sent" /\ sent = Rows /\ captured' = captured
        \/ /\ pc' = "poll" /\ ret = "wait" /\ out_fifo.q = <<>> /\ UNCHANGED <<captured, stall_guard>>
        \/ /\ pc' = "answer" /\ ret = "full" /\ captured' = <<>> /\ out_fifo.q = <<>>
    <2>1. CASE ~STATUS_OUT_FIFO_EMPTY
      BY <1>1, <2>1, PlaceFacts
    <2>2. CASE STATUS_OUT_FIFO_EMPTY
      <3>1. DrainReturns /\ out_fifo.q = <<>> /\ sent \in 0..Rows
        BY <1>1, <2>2, PlaceFacts
      <3>2. CASE ret = "sent"
        BY <3>1, <3>2 DEF DrainReturns, Rows, AllInv, IndInv, Types
      <3>3. CASE ret = "wait"
        BY <3>1, <3>3 DEF DrainReturns
      <3>4. CASE ret = "full"
        BY <3>1, <3>4 DEF DrainReturns, TimeOut
      <3> QED BY <3>2, <3>3, <3>4 DEF AllInv, IndInv, Types
    <2> QED BY <2>1, <2>2
  <1>4. pc' \in {"pulse", "feed", "eof", "poll", "answer"}
    BY <1>3
  <1>5. CorePart /\ ~rd_out_fifo' /\ (eof_ctrl' <=> eof_ctrl)
    BY <1>1, <1>2, <1>4, QuietRun DEF Active
  <1>6. RunStep
    BY <1>5 DEF CorePart
  <1>7. Stores'
    BY <1>1, <1>3, <1>5, <1>6, StoresPlain DEF Fits
  <1>8. Full'
    BY <1>1, <1>6, FullStep DEF Fits
  <1>9. Waits'
    <2>1. InWait' => InWait /\ UNCHANGED <<stall_guard>>
      BY <1>1, <1>3 DEF InWait
    <2>2. InWait => stall_guard <= 1
      BY DEF AllInv, EngInv, Waits
    <2>3. pc' = "poll" => out_fifo.q = <<>>
      BY <1>3
    <2>4. pc' = "eof" => sent = Rows
      BY <1>3
    <2>5. InWait' /\ ((pc' = "poll" /\ rwait' > 0) \/ stall_guard' > 0) => stall_guard > 0
      BY <1>2, <2>1
    <2> QED BY <1>1, <1>2, <1>5, <1>6, <2>1, <2>2, <2>3, <2>4, <2>5, WaitsStep DEF Fits
  <1>10. Answered'
    <2>1. CASE pc' # "answer"
      BY <2>1 DEF Answered
    <2>2. CASE pc' = "answer"
      BY <1>1, <1>3, <1>5, <1>6, <2>2, AnsweredTimeOut DEF Fits
    <2> QED BY <2>1, <2>2
  <1> QED BY <1>5, <1>7, <1>8, <1>9, <1>10 DEF EngInv, CorePart

\* The row at the output of the FIFO is stored.
LEMMA EngTake ==
    ASSUME AllInv, Fits, TakeWord
    PROVE  /\ EngInv' /\ Running
           /\ \/ captured' = captured
              \/ /\ Len(captured) < Len(Engine!Result(query))
                 /\ captured' = Append(captured, Engine!Result(query)[Len(captured) + 1])
  <1>1. /\ pc = "take" /\ pc' = "drain" /\ Sample /\ UNCHANGED <<ret, query, k, sent, stall_guard>>
        /\ captured' = IF Len(captured) < CaptureLimit(query)
                         THEN Append(captured, out_fifo.dout) ELSE captured
    BY DEF TakeWord
  <1>2. NoAccess /\ rwait > 0 /\ ~sw_rst /\ rwait' = 0 /\ Running
    BY <1>1, SampleFacts, PlaceFacts
  <1>3. CorePart /\ ~rd_out_fifo' /\ (eof_ctrl' <=> eof_ctrl)
    BY <1>1, <1>2, QuietRun DEF Active
  <1>4. RunStep
    BY <1>3 DEF CorePart
  <1>5. /\ Stores'
        /\ \/ captured' = captured
           \/ /\ Len(captured) < Len(Engine!Result(query))
              /\ captured' = Append(captured, Engine!Result(query)[Len(captured) + 1])
    BY <1>1, <1>2, <1>3, <1>4, StoresTakeWord DEF Fits
  <1>6. Full'
    BY <1>1, <1>4, FullStep DEF Fits
  <1>7. Waits'
    <2>1. InWait' <=> InWait
      BY <1>1 DEF InWait
    <2>2. InWait => stall_guard <= 1
      BY DEF AllInv, EngInv, Waits
    <2> QED BY <1>1, <1>2, <1>3, <1>4, <2>1, <2>2, WaitsStep DEF Fits
  <1>8. Answered'
    BY <1>1 DEF Answered
  <1> QED BY <1>2, <1>3, <1>5, <1>6, <1>7, <1>8 DEF EngInv, CorePart

\* The poll for the end: at most one round fails, the one that is ahead of the
\* done token.
LEMMA EngPoll ==
    ASSUME AllInv, Fits, Poll
    PROVE  /\ EngInv' /\ captured' = captured /\ stall_guard' <= 1
           /\ pc' = "answer" => STATUS_OUT_FIFO_EMPTY /\ STATUS_DONE
  <1>1. /\ pc = "poll" /\ Sample /\ UNCHANGED <<query, k, sent>>
        /\ IF STATUS_OUT_FIFO_EMPTY /\ STATUS_DONE
             THEN pc' = "answer" /\ UNCHANGED <<ret, captured, stall_guard>>
             ELSE /\ stall_guard' = stall_guard + 1
                  /\ IF stall_guard + 1 < STALL_MAX
                       THEN pc' = "drain" /\ UNCHANGED captured
                       ELSE TimeOut
                  /\ ret' = ret
    BY DEF Poll
  <1>2. NoAccess /\ rwait > 0 /\ ~sw_rst /\ rwait' = 0 /\ Running /\ ~rd_out_fifo /\ stall_guard \in Nat
    BY <1>1, SampleFacts, PlaceFacts
  <1>3. InWait /\ ret = "wait"
    BY <1>1 DEF InWait, AllInv, IndInv, Types
  <1>4. \/ /\ pc' = "answer" /\ UNCHANGED <<captured, stall_guard>> /\ out_fifo.q = <<>>
           /\ STATUS_OUT_FIFO_EMPTY /\ STATUS_DONE
        \/ pc' = "drain" /\ UNCHANGED <<captured, ret>> /\ stall_guard' = 1 /\ stall_guard = 0
    <2>1. CASE STATUS_OUT_FIFO_EMPTY /\ STATUS_DONE
      BY <1>1, <2>1, PlaceFacts
    <2>2. CASE ~(STATUS_OUT_FIFO_EMPTY /\ STATUS_DONE)
      <3>1. stage3_done
        BY <1>1, <1>2, <1>3 DEF AllInv, EngInv, Waits
      <3>2. stall_guard > 0 => out_fifo.q = <<>>
        BY <1>1, <1>3 DEF AllInv, EngInv, Waits
      <3>3. ~(stall_guard > 0)
        BY <2>2, <3>1, <3>2, PlaceFacts DEF STATUS_DONE
      <3>4. stall_guard = 0
        BY <3>3, <1>2
      <3> QED BY <1>1, <2>2, <3>4 DEF Fits
    <2> QED BY <2>1, <2>2
  <1>5. pc' \in {"answer", "drain"} /\ captured' = captured
    BY <1>4
  <1>6. CorePart /\ ~rd_out_fifo' /\ (eof_ctrl' <=> eof_ctrl)
    BY <1>1, <1>2, <1>5, QuietRun DEF Active
  <1>7. RunStep
    BY <1>6 DEF CorePart
  <1>8. Stores'
    BY <1>1, <1>5, <1>6, <1>7, StoresPlain DEF Fits
  <1>9. Full'
    BY <1>3, <1>4 DEF Full
  <1>10. Waits'
    <2>1. InWait' => stall_guard' <= 1
      BY <1>4 DEF InWait
    <2> QED BY <1>1, <1>2, <1>3, <1>5, <1>6, <1>7, <2>1, WaitsStep DEF Fits
  <1>11. Answered'
    <2>1. CASE pc' # "answer"
      BY <2>1 DEF Answered
    <2>2. CASE pc' = "answer"
      BY <1>1, <1>4, <1>6, <1>7, <2>2, AnsweredPoll DEF Fits
    <2> QED BY <2>1, <2>2
  <1>12. stall_guard' <= 1
    <2>1. stall_guard <= 1
      BY <1>3 DEF AllInv, EngInv, Waits
    <2> QED BY <1>4, <2>1
  <1>13. pc' = "answer" => STATUS_OUT_FIFO_EMPTY /\ STATUS_DONE
    BY <1>4
  <1> QED BY <1>5, <1>6, <1>8, <1>9, <1>10, <1>11, <1>12, <1>13 DEF EngInv, CorePart

\* Before the first query there is none, which is representable too.
LEMMA AllRepresentable ==
    ASSUME Fits, NEW q \in Queries \cup {NoQuery}
    PROVE  Representable(q)
  <1>1. CASE q = NoQuery
    <2>1. q.rows = <<>> /\ q.where = <<>> /\ q.limit = 0 /\ q.agg = "NONE"
      BY <1>1 DEF NoQuery
    <2>2. Limit(q) = 0
      BY <2>1, AcceleratorAssumption DEF Limit
    <2>3. Len(q.rows) = 0 /\ DOMAIN q.where = {}
      BY <2>1
    <2> QED BY <2>1, <2>2, <2>3, PipelineAssumption DEF Representable
  <1> QED BY <1>1 DEF Fits

\* A step in which nothing happens.
LEMMA EngStutter == EngInv /\ UNCHANGED vars => EngInv'
  <1> SUFFICES ASSUME EngInv, UNCHANGED vars PROVE EngInv'
    OBVIOUS
  <1>1. UNCHANGED <<in_fifo, out_fifo, where_inst, where_active_cnt, limit_active, limit_val_reg,
                    count_col_idx, where_valid_out, where_stage_dout, rd_en_pipe1, rd_en_pipe2,
                    stage1_done, limit_count, internal_hit, limit_stage_dout, limit_valid_out,
                    limit_done_out, acc_out, sum_out, stage3_done>>
    BY DEF vars, hwVars, pipelineVars, fetchVars, operandVars, stage1Vars, limitVars
  <1>2. UNCHANGED <<write_prev, data_in_reg, inst_reg, din_valid_ctrl, load_inst, rd_out_fifo,
                    sw_rst, eof_ctrl, pc, ret, query, k, sent, captured, stall_guard, rwait>>
    BY DEF vars, hwVars, slaveVars, cpuVars
  <1>3. /\ Program(query)' = Program(query) /\ Limit(query)' = Limit(query)
        /\ CompileFails(query)' = CompileFails(query) /\ WhereStop(query)' = WhereStop(query)
        /\ Passed' = Passed /\ Passes' = Passes /\ Rows' = Rows
        /\ Engine!Stalls(query)' = Engine!Stalls(query)
        /\ Engine!Result(query)' = Engine!Result(query)
    BY <1>2, SameQuery
  <1>4. Active' = Active /\ Running' = Running /\ limit_hit' = limit_hit /\ Coming' = Coming
        /\ InWait' = InWait /\ InHand' = InHand
    BY <1>1, <1>2, <1>3 DEF Active, Running, limit_hit, Coming, InWait, InHand
  <1>5. Judged' = Judged
    BY <1>1, <1>2, <1>4 DEF Judged, Bit
  <1>6. Count' = Count /\ Emitted' = Emitted /\ Taken' = Taken /\ Stored' = Stored /\ Loaded' = Loaded
    BY <1>1, <1>2, <1>3, <1>4, <1>5 DEF Count, Emitted, Taken, Stored, Loaded, Bit
  <1>7. Configured(Loaded)' = Configured(Loaded)
    BY <1>1, <1>2, <1>3, <1>6 DEF Configured, CondsIn, CondWord, Bit
  <1>8. Fetched' /\ Phase'
    BY <1>1, <1>2, <1>3, <1>4, <1>7 DEF EngInv, Fetched, Phase
  <1>9. Stream'
    BY <1>1, <1>2, <1>3, <1>4 DEF EngInv, Stream
  <1>10. Counted'
    BY <1>1, <1>2, <1>3, <1>4, <1>5 DEF EngInv, Counted
  <1>11. Delivered'
    <2>1. Engine!Sums(query.col, Passes)' = Engine!Sums(query.col, Passes)
      BY <1>2, <1>3 DEF Engine!Sums
    <2> QED BY <1>1, <1>2, <1>3, <1>4, <1>6, <2>1 DEF EngInv, Delivered
  <1>12. Stores'
    BY <1>1, <1>2, <1>3, <1>4, <1>6 DEF EngInv, Stores
  <1>13. Full' /\ Waits' /\ Answered'
    BY <1>1, <1>2, <1>3, <1>4, <1>6 DEF EngInv, Full, Waits, Answered
  <1> QED BY <1>8, <1>9, <1>10, <1>11, <1>12, <1>13 DEF EngInv

\* The invariant is inductive.
LEMMA NextAllInv ==
    ASSUME Fits, AllInv, [Next]_vars
    PROVE  AllInv'
  <1>1. IndInv' /\ OutInv'
    BY NextIndInv, NextOutInv DEF AllInv
  <1>2. TypeInv'
    BY StutterTypeInv, HwTypesStep, InstructionsStep, GuardStep, CaptureStep, WordsStep, ServedStep
       DEF AllInv, TypeInv, CpuTypes
  <1>3. EngInv'
    BY EngStutter, BoundaryStep, EngClear, EngSend, EngLoad, EngFeed, EngWriteWord, EngPush,
       EngEof, EngDrain, EngPulse, EngTake, EngPoll, EngWait
       DEF Next, Firmware, AllInv
  <1>4. Representable(query')
    BY <1>2, AllRepresentable DEF TypeInv, CpuTypes, InstructionsLeft
  <1>5. Representable(query)'
    BY <1>4 DEF Representable, Limit, CompileFails, WhereStop, SelectFails
  <1> QED BY <1>1, <1>2, <1>3, <1>5 DEF AllInv

\* It holds before the first query.
LEMMA InitAllInv ==
    ASSUME Fits, Init
    PROVE  AllInv
  <1>1. IndInv /\ OutInv /\ TypeInv
    BY InitIndInv, InitOutInv, InitTypeInv
  <1>2. pc = "idle" /\ ~load_inst /\ ~sw_rst
    BY DEF Init, HwInit
  <1>3. EngInv
    BY <1>2 DEF EngInv, Fetched, Phase, Stream, Counted, Delivered, Stores, Full, Waits, Answered,
                Active, Running, InWait
  <1>4. Representable(query)
    BY <1>1, AllRepresentable DEF TypeInv, CpuTypes, InstructionsLeft
  <1> QED BY <1>1, <1>3, <1>4 DEF AllInv

\* For every query that fits the instructions and every timing of the CPU: the fetcher holds the
\* program that was sent, the limit counter and the accumulators are those of the rows judged so
\* far, the output FIFO holds the rows that passed and were not taken, the capture buffer the
\* ones that were.
THEOREM RowsAccounted ==
    ASSUME Fits
    PROVE  Spec => []AllInv
  BY InitAllInv, NextAllInv, PTL DEF Spec

-----------------------------------------------------------------------------
(* The steps of the accelerator are steps of the engine. *)

\* The rows of an answer are those captured: the limit cuts none off.
LEMMA WholeCapture ==
    ASSUME query \in Queries \cup {NoQuery}, Representable(query), captured \in Seq(Row),
           captured = <<>> \/ captured = Engine!Result(query)
    PROVE  ReturnedRows = captured
  <1>1. /\ Limit(query) \in Nat /\ Len(Passes) \in Nat /\ Rows \in Nat
        /\ Limit(query) > 0 => Len(Passes) <= Limit(query)
    <2>1. Limit(query) \in 0..255 /\ Rows \in Nat /\ Len(Passes) \in Nat /\ Passes = Passed[Rows]
          /\ \A n \in 0..Rows : Limit(query) > 0 => Len(Passed[n]) <= Limit(query)
      BY TableFacts
    <2>2. Rows \in 0..Rows
      BY <2>1
    <2>3. \A x \in 0..255 : x \in Nat
      OBVIOUS
    <2>4. Limit(query) \in Nat
      BY <2>1, <2>3, Zenon
    <2>5. Limit(query) > 0 => Len(Passed[Rows]) <= Limit(query)
      BY <2>1, <2>2, Zenon
    <2> QED BY <2>1, <2>4, <2>5
  <1>2. Len(captured) \in Nat
    OBVIOUS
  <1>3. Limit(query) > 0 => Len(captured) <= Limit(query)
    <2>1. CASE captured = <<>>
      BY <2>1, <1>1
    <2>2. CASE captured = Engine!Result(query)
      <3>1. Len(captured) = Lesser(Len(Passes), QUERY_MAX_ROWS)
        BY <2>2, ResultRows
      <3>2. Len(captured) <= Len(Passes)
        BY <3>1, <1>1, AcceleratorAssumption DEF Lesser
      <3> QED BY <3>2, <1>1, <1>2
    <2> QED BY <2>1, <2>2
  <1>4. ReturnedRows = SubSeq(captured, 1, Len(captured))
    BY <1>1, <1>2, <1>3 DEF ReturnedRows
  <1>5. SubSeq(captured, 1, Len(captured)) = captured
    <2>1. /\ SubSeq(captured, 1, Len(captured)) \in Seq(Row)
          /\ Len(SubSeq(captured, 1, Len(captured))) = Len(captured)
          /\ \A i \in 1..Len(captured) : SubSeq(captured, 1, Len(captured))[i] = captured[i]
      BY <1>2, SubSeqProperties
    <2> QED BY <2>1, SeqEqual
  <1> QED BY <1>4, <1>5

\* What the accumulators hold when the query is over.
LEMMA FinalValue ==
    ASSUME AllInv, pc = "answer"
    PROVE  /\ ~Engine!Refused(query)
           /\ captured = IF Engine!Stalls(query) THEN <<>> ELSE Engine!Result(query)
           /\ query.agg = "COUNT" => acc_out = Engine!Value(query, Engine!Passing(query))
           /\ query.agg = "SUM" => sum_out = Engine!Value(query, Engine!Passing(query))
           /\ query.agg = "NONE" => Engine!Value(query, Engine!Passing(query)) = 0
  <1>1. Running /\ query \in Queries \cup {NoQuery} /\ ~CompileFails(query)
    BY PlaceFacts DEF Running, AllInv, TypeInv, CpuTypes, InstructionsLeft
  <1>2. ~Engine!Refused(query)
    BY <1>1, CompilesEngine
  <1>3. /\ ~limit_valid_out /\ Count = Len(Passes)
        /\ captured = IF Engine!Stalls(query) THEN <<>> ELSE Engine!Result(query)
    BY DEF AllInv, EngInv, Answered
  <1>4. Len(Passes) \in Nat
    BY <1>1, TableFacts DEF AllInv
  <1>5. Emitted = Len(Passes)
    BY <1>3, <1>4 DEF Emitted, Bit
  <1>6. /\ acc_out = Len(Passes)
        /\ query.agg = "SUM" => sum_out = Engine!Sums(query.col, Passes)[Len(Passes)]
    BY <1>1, <1>5 DEF AllInv, EngInv, Delivered
  <1>7. Engine!Passing(query) = Passes
    BY DEF Passes
  <1> QED BY <1>2, <1>3, <1>6, <1>7 DEF Engine!Value

\* An answer is the engine's answer.
LEMMA MapsReply ==
    ASSUME Fits, AllInv, ReplyRows \/ ReplyCount \/ ReplySum
    PROVE  Engine!Next
  <1>1. /\ pc = "answer" /\ pc' = "idle" /\ UNCHANGED <<query, captured>>
        /\ \/ query.agg = "NONE" /\ answer' = [status |-> "OK", rows |-> ReturnedRows, value |-> 0]
           \/ query.agg = "COUNT" /\ answer' = [status |-> "OK", rows |-> <<>>, value |-> acc_out]
           \/ query.agg = "SUM" /\ answer' = [status |-> "OK", rows |-> <<>>, value |-> sum_out]
    BY DEF ReplyRows, ReplyCount, ReplySum, Reply
  <1>2. query \in Queries \cup {NoQuery} /\ captured \in Seq(Row) /\ Representable(query)
    BY DEF AllInv, TypeInv, CpuTypes, InstructionsLeft, CaptureBounded
  <1> DEFINE value == Engine!Value(query, Engine!Passing(query))
  <1>3. /\ ~Engine!Refused(query)
        /\ captured = IF Engine!Stalls(query) THEN <<>> ELSE Engine!Result(query)
        /\ query.agg = "COUNT" => acc_out = value
        /\ query.agg = "SUM" => sum_out = value
        /\ query.agg = "NONE" => value = 0
    BY <1>1, FinalValue
  <1>4. ReturnedRows = captured
    BY <1>2, <1>3, WholeCapture
  <1> HIDE DEF value
  <1>5. answer' = [status |-> "OK", rows |-> IF query.agg = "NONE" THEN captured ELSE <<>>,
                   value |-> value]
    BY <1>1, <1>3, <1>4
  <1>6. CASE Engine!Stalls(query)
    <2>1. captured = <<>>
      BY <1>3, <1>6
    <2>2. answer' = [status |-> "OK", rows |-> <<>>, value |-> value]
      BY <1>5, <2>1
    <2>3. Engine!AnswerStalled
      BY <1>1, <1>3, <1>6, <2>1, <2>2 DEF Engine!AnswerStalled, value
    <2> QED BY <2>3 DEF Engine!Next
  <1>7. CASE ~Engine!Stalls(query)
    <2>1. Engine!Finish
      BY <1>1, <1>3, <1>5, <1>7 DEF Engine!Finish, value
    <2> QED BY <2>1 DEF Engine!Next
  <1> QED BY <1>6, <1>7

\* The status read of the drain loop does nothing the engine sees, unless it gives the query up.
LEMMA MapsDrain ==
    ASSUME Fits, AllInv, DrainStatus
    PROVE  Engine!Next \/ UNCHANGED Engine!vars
  <1>1. /\ pc = "drain" /\ Sample /\ UNCHANGED <<query, k, sent, ret, answer>>
        /\ IF STATUS_OUT_FIFO_EMPTY THEN DrainReturns
           ELSE pc' = "pulse" /\ UNCHANGED <<captured, stall_guard>>
    BY DEF DrainStatus
  <1>2. \/ pc' \in {"pulse", "feed", "eof", "poll"} /\ captured' = captured
        \/ pc' = "answer" /\ ret = "full" /\ captured' = <<>> /\ out_fifo.q = <<>>
    BY <1>1, PlaceFacts DEF DrainReturns, TimeOut
  <1>3. CASE pc' # "answer"
    BY <1>1, <1>2, <1>3 DEF Engine!vars
  <1>4. CASE pc' = "answer"
    <2>1. NoAccess /\ ~sw_rst /\ Active /\ Active'
      BY <1>1, <1>4, SampleFacts DEF Active
    <2>2. RunStep /\ ~rd_out_fifo'
      BY <1>1, <1>4, <2>1, QuietRun DEF CorePart
    <2>3. Engine!Stalls(query) /\ captured = Engine!Result(query) /\ Running
      BY <1>1, <1>2, <1>4, <2>2, AnsweredTimeOut DEF Fits
    <2>4. ~Engine!Refused(query)
      BY <2>3, CompilesEngine DEF Running, AllInv, TypeInv, CpuTypes, InstructionsLeft
    <2>5. Engine!GiveUp
      BY <1>1, <1>2, <1>4, <2>3, <2>4 DEF Engine!GiveUp
    <2> QED BY <2>5 DEF Engine!Next
  <1> QED BY <1>3, <1>4

\* The other steps: a query starts or is refused, a row is stored, or nothing that
\* the engine sees.
LEMMA MapsOthers ==
    ASSUME Fits, AllInv, Next, ~DrainStatus, ~(ReplyRows \/ ReplyCount \/ ReplySum)
    PROVE  Engine!Next \/ UNCHANGED Engine!vars
  <1>1. query \in Queries \cup {NoQuery}
    BY DEF AllInv, TypeInv, CpuTypes, InstructionsLeft
  <1>2. CASE Start
    BY <1>2 DEF Start, Engine!Start, Engine!Next
  <1>3. CASE Refuse
    <2>1. pc = "refuse" /\ CompileFails(query)
      BY <1>3 DEF Refuse, AllInv, EngInv, Phase
    <2>2. Engine!Refused(query)
      BY <1>1, <2>1, CompilesEngine
    <2> QED BY <1>3, <2>2 DEF Refuse, Engine!Refuse, Engine!Next
  <1>4. CASE TakeWord
    <2>1. /\ Running
          /\ \/ captured' = captured
             \/ /\ Len(captured) < Len(Engine!Result(query))
                /\ captured' = Append(captured, Engine!Result(query)[Len(captured) + 1])
      BY <1>4, EngTake
    <2>2. ~Engine!Refused(query)
      BY <1>1, <2>1, CompilesEngine DEF Running
    <2>3. pc = "take" /\ pc' = "drain" /\ UNCHANGED <<query, answer>>
      BY <1>4 DEF TakeWord
    <2>4. CASE captured' = captured
      BY <2>3, <2>4 DEF Engine!vars
    <2>5. CASE captured' # captured
      BY <2>1, <2>2, <2>3, <2>5 DEF Engine!Deliver, Engine!Next
    <2> QED BY <2>4, <2>5
  <1>5. CASE Poll
    <2>1. captured' = captured
      BY <1>5, EngPoll
    <2>2. pc = "poll" /\ pc' \in {"answer", "drain"} /\ UNCHANGED <<query, answer>>
      BY <1>5 DEF Poll, TimeOut
    <2> QED BY <2>1, <2>2 DEF Engine!vars
  <1>6. CASE Clear \/ SendInstruction \/ LoadInstruction \/ FeedStatus \/ WriteWord \/ PushWord
             \/ SignalEof \/ PulseRead
    <2>1. pc # "idle" /\ pc' # "idle" /\ UNCHANGED <<query, captured, answer>>
      BY <1>6 DEF Clear, SendInstruction, LoadInstruction, FeedStatus, WriteWord, PushWord,
                  SignalEof, PulseRead, AfterInstructions
    <2> QED BY <2>1 DEF Engine!vars
  <1>7. CASE ReadWait \/ Idle
    BY <1>7 DEF ReadWait, Idle, cpuVars, Engine!vars
  <1> QED BY <1>2, <1>3, <1>4, <1>5, <1>6, <1>7 DEF Next, Firmware

\* The wait loop of feed_source_to_hardware never gives up, whatever the timing: when it ends, the
\* status word says done and empty, and at most one round comes ahead of the done token.
THEOREM WaitSucceeds ==
    ASSUME Fits
    PROVE  Spec => [][Poll => /\ stall_guard' <= 1
                              /\ pc' = "answer" => STATUS_OUT_FIFO_EMPTY /\ STATUS_DONE]_vars
  <1>1. AllInv /\ [Next]_vars =>
           [Poll => /\ stall_guard' <= 1
                    /\ pc' = "answer" => STATUS_OUT_FIFO_EMPTY /\ STATUS_DONE]_vars
    BY EngPoll
  <1> QED BY <1>1, RowsAccounted, PTL DEF Spec

\* For every set of queries that fit the instructions, every table, FIFOs of at least two words and
\* every timing of the CPU: the cycle-by-cycle machine of firmware, slave and pipeline implements
\* the query engine.  The rows captured are the rows that pass, in order and each once; the answer
\* is the engine's; the query is refused exactly when the engine refuses it; and rows are dropped
\* exactly when the rows behind the limit do not fit the input FIFO.
THEOREM EngineImplemented ==
    ASSUME FIFO_DEPTH > 1, STALL_MAX > 1, \A q \in Queries : Representable(q)
    PROVE  Spec => ImplementsEngine
  <1>1. Fits
    BY DEF Fits
  <1>2. Init => Engine!Init
    BY DEF Init, Engine!Init
  <1>3. AllInv /\ [Next]_vars => [Engine!Next]_(Engine!vars)
    <2>1. AllInv /\ Next => Engine!Next \/ UNCHANGED Engine!vars
      BY <1>1, MapsReply, MapsDrain, MapsOthers
    <2>2. UNCHANGED vars => UNCHANGED Engine!vars
      BY DEF vars, cpuVars, Engine!vars
    <2> QED BY <2>1, <2>2
  <1>4. Spec => []AllInv
    BY <1>1, RowsAccounted
  <1> QED BY <1>2, <1>3, <1>4, PTL DEF Spec, ImplementsEngine, Engine!Spec
=============================================================================
