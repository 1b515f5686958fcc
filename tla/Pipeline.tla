------------------------------ MODULE Pipeline ------------------------------
(***************************************************************************)
(* The query pipeline of src/vhdl/pipeline.vhd with its stages             *)
(* whereFilter.vhd, limit.vhd, count.vhd and sum.vhd.  A variable is a     *)
(* register; PipelineClock is one rising edge of clk, on which every       *)
(* process reads the values from before the edge.  A row, a word of        *)
(* NUM_COLS bytes in the source, is a function from column to byte: the    *)
(* column slices of the word are its values.  The two FIFOs are the        *)
(* bounded queues that FIFO.tla implements.  count_active and sum_active   *)
(* are left out, nothing reads them.                                       *)
(***************************************************************************)
EXTENDS Integers, Sequences, Instructions

CONSTANTS FIFO_DEPTH,   \* capacity of both FIFOs (128 in user_hw.v)
          NUM_COLS,     \* bytes of a row (4)
          NUM_WHERE,    \* comparison units (4)
          ACC_MOD,      \* modulus of the accumulators (2^32)
          Bytes         \* the byte values that occur in rows

ASSUME PipelineAssumption ==
    /\ FIFO_DEPTH \in Nat \ {0}
    /\ NUM_COLS \in 1..64
    /\ NUM_WHERE \in Nat \ {0}
    /\ ACC_MOD \in Nat \ {0}
    /\ Bytes \subseteq 0..255 /\ 0 \in Bytes

Columns == 0..(NUM_COLS - 1)
Row     == [Columns -> Bytes]
ZeroRow == [c \in Columns |-> 0]
Units   == 0..(NUM_WHERE - 1)

VARIABLES in_fifo, out_fifo,                          \* the two FIFOs
          where_inst, where_active_cnt,               \* instruction fetcher
          limit_val_reg, limit_active, count_col_idx,
          where_valid_out, where_stage_dout,          \* stage 1
          rd_en_pipe1, rd_en_pipe2, stage1_done,
          limit_count, internal_hit,                  \* limit.vhd
          limit_stage_dout, limit_valid_out, limit_done_out,
          acc_out, sum_out, stage3_done               \* count, sum, stage 3

fetchVars == <<where_inst, where_active_cnt, limit_active>>
operandVars == <<limit_val_reg, count_col_idx>>
stage1Vars == <<where_valid_out, where_stage_dout, rd_en_pipe1, rd_en_pipe2, stage1_done>>
limitVars == <<limit_count, internal_hit, limit_stage_dout, limit_valid_out, limit_done_out>>
pipelineVars == <<in_fifo, out_fifo, fetchVars, operandVars, stage1Vars, limitVars,
                  acc_out, sum_out, stage3_done>>

In  == INSTANCE BoundedQueue WITH DEPTH <- FIFO_DEPTH, Data <- Row, Zero <- ZeroRow,
                                  fifo <- in_fifo
Out == INSTANCE BoundedQueue WITH DEPTH <- FIFO_DEPTH, Data <- Row, Zero <- ZeroRow,
                                  fifo <- out_fifo

-----------------------------------------------------------------------------
(* Combinational signals. *)

limit_hit == limit_active /\ internal_hit

\* Reading stops while an instruction is loaded and once the limit is reached.
fifo_rd_en(load_inst) == ~load_inst /\ ~In!Empty(in_fifo) /\ ~limit_hit

\* The comparison of whereFilter.vhd: unsigned bytes, no operation for 6 and 7.
op_result(inst, row) ==
    LET din   == row[WhereColumn(inst)]
        value == WhereValue(inst)
        op    == WhereOp(inst)
    IN  \/ op = 0 /\ din = value
        \/ op = 1 /\ din # value
        \/ op = 2 /\ din < value
        \/ op = 3 /\ din <= value
        \/ op = 4 /\ din > value
        \/ op = 5 /\ din >= value

where_valid_and ==
    rd_en_pipe2 /\ \A i \in Units : i < where_active_cnt => where_valid_out[i]

count_valid_in == limit_valid_out /\ ~limit_done_out
out_fifo_wr_en(load_inst) == limit_valid_out /\ ~load_inst /\ ~limit_done_out

-----------------------------------------------------------------------------
(* The processes, one per clocked block. *)

ClearFetcher ==
    /\ where_active_cnt' = 0
    /\ limit_active' = FALSE
    /\ where_inst' = [i \in Units |-> 0]

\* The instruction fetcher: a WHERE takes the next free unit, if there is one.
InstructionFetcher(load_inst, instruction) ==
    /\ IF load_inst /\ Opcode(instruction) = OP_WHERE /\ where_active_cnt < NUM_WHERE
         THEN /\ where_inst' = [where_inst EXCEPT ![where_active_cnt] = instruction]
              /\ where_active_cnt' = where_active_cnt + 1
         ELSE UNCHANGED <<where_inst, where_active_cnt>>
    /\ limit_active' = (limit_active \/ (load_inst /\ Opcode(instruction) = OP_LIMIT))

\* The operand registers of the fetcher, which the reset does not touch.
LatchOperands(load_inst, instruction) ==
    /\ limit_val_reg' = IF load_inst /\ Opcode(instruction) = OP_LIMIT
                          THEN LimitField(instruction) ELSE limit_val_reg
    /\ count_col_idx' = IF load_inst /\ Opcode(instruction) \in {OP_COUNT, OP_SUM}
                          THEN AggColumn(instruction) ELSE count_col_idx

\* The whereFilter units: every unit judges the row at the FIFO's output.
WhereFilters == where_valid_out' = [i \in Units |-> op_result(where_inst[i], in_fifo.dout)]

\* Stage 1: the row advances together with the filters' verdict on it, and the
\* two-stage delay of fifo_rd_en marks the rows that were really read.
Stage1(load_inst, eof) ==
    /\ where_stage_dout' = in_fifo.dout
    /\ rd_en_pipe1' = fifo_rd_en(load_inst)
    /\ rd_en_pipe2' = rd_en_pipe1
    /\ stage1_done' = (eof /\ In!Empty(in_fifo))

\* Mutant: the hit is tested on the count before the increment.
LimitStageLate ==
    /\ limit_stage_dout' = where_stage_dout
    /\ LET passes == where_valid_and /\ ~internal_hit /\ ~stage1_done
       IN  IF ~limit_active
             THEN /\ limit_valid_out' = where_valid_and
                  /\ internal_hit' = FALSE
                  /\ limit_done_out' = stage1_done
                  /\ UNCHANGED limit_count
             ELSE /\ limit_valid_out' = passes
                  /\ limit_count' = IF passes THEN (limit_count + 1) % 256 ELSE limit_count
                  /\ internal_hit' = (internal_hit \/ (passes /\ limit_count >= limit_val_reg))
                  /\ limit_done_out' = (stage1_done \/ (~passes /\ internal_hit))

\* limit.vhd: transparent when inactive; when active it passes rows until the
\* limit is reached, then forces the done token.
LimitStage ==
    /\ limit_stage_dout' = where_stage_dout
    /\ LET passes == where_valid_and /\ ~internal_hit /\ ~stage1_done
           next   == (limit_count + 1) % 256
       IN  IF ~limit_active
             THEN /\ limit_valid_out' = where_valid_and
                  /\ internal_hit' = FALSE
                  /\ limit_done_out' = stage1_done
                  /\ UNCHANGED limit_count
             ELSE /\ limit_valid_out' = passes
                  /\ limit_count' = IF passes THEN next ELSE limit_count
                  /\ internal_hit' = (internal_hit \/ (passes /\ next >= limit_val_reg))
                  /\ limit_done_out' = (stage1_done \/ (~passes /\ internal_hit))

\* count.vhd
CountStage == acc_out' = IF count_valid_in THEN (acc_out + 1) % ACC_MOD ELSE acc_out

\* sum.vhd: the digit is the byte minus '0', modulo 256.
SumStage ==
    sum_out' = IF count_valid_in
                 THEN (sum_out + ((limit_stage_dout[count_col_idx] - 48) % 256)) % ACC_MOD
                 ELSE sum_out

PipelineClock(din, din_valid, eof, instruction, load_inst, rd_out_fifo) ==
    /\ InstructionFetcher(load_inst, instruction)
    /\ in_fifo' = In!QueueClock(in_fifo, din_valid, fifo_rd_en(load_inst), din)
    /\ WhereFilters
    /\ Stage1(load_inst, eof)
    /\ LimitStage
    /\ CountStage
    /\ SumStage
    /\ out_fifo' = Out!QueueClock(out_fifo, out_fifo_wr_en(load_inst), rd_out_fifo,
                                  limit_stage_dout)
    /\ stage3_done' = (~load_inst /\ limit_done_out)

\* rst = '1' in every process.
PipelineReset ==
    /\ ClearFetcher
    /\ in_fifo' = In!Cleared
    /\ out_fifo' = Out!Cleared
    /\ where_valid_out' = [i \in Units |-> FALSE]
    /\ where_stage_dout' = ZeroRow
    /\ rd_en_pipe1' = FALSE
    /\ rd_en_pipe2' = FALSE
    /\ stage1_done' = FALSE
    /\ limit_count' = 0
    /\ internal_hit' = FALSE
    /\ limit_stage_dout' = ZeroRow
    /\ limit_valid_out' = FALSE
    /\ limit_done_out' = FALSE
    /\ acc_out' = 0
    /\ sum_out' = 0
    /\ stage3_done' = FALSE

\* The registers after the power-on reset.
PipelineInit ==
    /\ in_fifo = In!Cleared
    /\ out_fifo = Out!Cleared
    /\ where_inst = [i \in Units |-> 0]
    /\ where_active_cnt = 0
    /\ limit_val_reg = 0
    /\ limit_active = FALSE
    /\ count_col_idx = 0
    /\ where_valid_out = [i \in Units |-> FALSE]
    /\ where_stage_dout = ZeroRow
    /\ rd_en_pipe1 = FALSE
    /\ rd_en_pipe2 = FALSE
    /\ stage1_done = FALSE
    /\ limit_count = 0
    /\ internal_hit = FALSE
    /\ limit_stage_dout = ZeroRow
    /\ limit_valid_out = FALSE
    /\ limit_done_out = FALSE
    /\ acc_out = 0
    /\ sum_out = 0
    /\ stage3_done = FALSE

PipelineTypeOK ==
    /\ in_fifo \in [q : Seq(Row), dout : Row] /\ Len(in_fifo.q) <= FIFO_DEPTH
    /\ out_fifo \in [q : Seq(Row), dout : Row] /\ Len(out_fifo.q) <= FIFO_DEPTH
    /\ where_inst \in [Units -> Nat] /\ where_active_cnt \in 0..NUM_WHERE
    /\ limit_val_reg \in 0..255 /\ limit_active \in BOOLEAN
    /\ count_col_idx \in Columns
    /\ where_valid_out \in [Units -> BOOLEAN] /\ where_stage_dout \in Row
    /\ rd_en_pipe1 \in BOOLEAN /\ rd_en_pipe2 \in BOOLEAN /\ stage1_done \in BOOLEAN
    /\ limit_count \in 0..255 /\ internal_hit \in BOOLEAN
    /\ limit_stage_dout \in Row /\ limit_valid_out \in BOOLEAN
    /\ limit_done_out \in BOOLEAN
    /\ acc_out \in 0..(ACC_MOD - 1) /\ sum_out \in 0..(ACC_MOD - 1)
    /\ stage3_done \in BOOLEAN
=============================================================================
