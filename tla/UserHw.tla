------------------------------- MODULE UserHw -------------------------------
(***************************************************************************)
(* The Avalon-MM slave user_hw.v around the pipeline.  HwClock is one      *)
(* rising edge of the clock the CPU, the slave and the pipeline share;     *)
(* its arguments are what the master drives on the bus in the cycle that   *)
(* the edge ends.  The bits of a CONTROL word are a set of names; the      *)
(* firmware always writes whole words, so byteenable is left out.          *)
(* read_prev is left out, nothing reads it.                                *)
(***************************************************************************)
EXTENDS Pipeline

VARIABLES write_prev,                       \* write, one cycle ago
          data_in_reg, inst_reg,
          din_valid_ctrl, load_inst, rd_out_fifo, sw_rst,   \* one-cycle pulses
          eof_ctrl                          \* sticky until the next reset

slaveVars == <<write_prev, data_in_reg, inst_reg, din_valid_ctrl, load_inst,
               rd_out_fifo, sw_rst, eof_ctrl>>
hwVars == <<pipelineVars, slaveVars>>

HwInit ==
    /\ PipelineInit
    /\ write_prev = FALSE
    /\ data_in_reg = ZeroRow
    /\ inst_reg = 0
    /\ din_valid_ctrl = FALSE
    /\ load_inst = FALSE
    /\ rd_out_fifo = FALSE
    /\ sw_rst = FALSE
    /\ eof_ctrl = FALSE

\* The pulses last one cycle; the end-of-input flag stays until a reset.
ControlRegisters(ctl) ==
    /\ din_valid_ctrl' = ("DIN_VALID" \in ctl)
    /\ load_inst' = ("LOAD_INST" \in ctl)
    /\ rd_out_fifo' = ("RD_OUT_FIFO" \in ctl)
    /\ sw_rst' = ("RST" \in ctl)
    /\ eof_ctrl' = (("RST" \notin ctl) /\ (eof_ctrl \/ "INPUT_EOF" \in ctl))

\* A write is taken on its first cycle only.  The reset of the pipeline is
\* asynchronous: it acts from the edge that sets sw_rst through the edge that
\* clears it.
HwClock(write, address, writedata) ==
    LET write_pulse == write /\ ~write_prev
    IN  /\ write_prev' = write
        /\ data_in_reg' = IF write_pulse /\ address = "DATA_IN" THEN writedata ELSE data_in_reg
        /\ inst_reg' = IF write_pulse /\ address = "INSTRUCTION" THEN writedata ELSE inst_reg
        /\ ControlRegisters(IF write_pulse /\ address = "CONTROL" THEN writedata ELSE {})
        /\ LatchOperands(load_inst /\ ~sw_rst, inst_reg)
        /\ IF sw_rst \/ sw_rst'
             THEN PipelineReset
             ELSE PipelineClock(data_in_reg, din_valid_ctrl, eof_ctrl, inst_reg,
                                load_inst, rd_out_fifo)

\* The bits of the STATUS word that the firmware tests.
STATUS_OUT_FIFO_EMPTY == Out!Empty(out_fifo)
STATUS_IN_FIFO_FULL   == In!Full(in_fifo)
STATUS_DONE           == stage3_done

HwTypeOK ==
    /\ PipelineTypeOK
    /\ write_prev \in BOOLEAN
    /\ data_in_reg \in Row
    /\ inst_reg \in Nat
    /\ din_valid_ctrl \in BOOLEAN /\ load_inst \in BOOLEAN /\ rd_out_fifo \in BOOLEAN
    /\ sw_rst \in BOOLEAN /\ eof_ctrl \in BOOLEAN
=============================================================================
