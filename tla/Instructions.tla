---------------------------- MODULE Instructions ----------------------------
(***************************************************************************)
(* The 32-bit instruction word between the firmware and the pipeline: how  *)
(* compile_and_send_instructions packs the fields and how pipeline.vhd     *)
(* slices them.  Bits 31..28 are the opcode; a WHERE has the column in     *)
(* 16..11, the value in 10..3 and the comparison in 2..0; a LIMIT has its  *)
(* value in 7..0; COUNT and SUM have the column in 5..0.                   *)
(***************************************************************************)
EXTENDS Integers

OP_WHERE == 1
OP_LIMIT == 2
OP_COUNT == 3
OP_SUM   == 4

\* Firmware: the fields are masked, so a value wider than its field loses its
\* high bits.
EncodeLimit(limit)       == OP_LIMIT * 268435456 + (limit % 256)

EncodeWhere(col, val, op) ==
    OP_WHERE * 268435456 + (col % 64) * 2048 + (val % 256) * 8 + (op % 8)
EncodeCount(col)         == OP_COUNT * 268435456 + (col % 64)
EncodeSum(col)           == OP_SUM * 268435456 + (col % 64)

\* Hardware: the slices of the instruction register.
Opcode(inst)     == inst \div 268435456
LimitField(inst) == inst % 256
AggColumn(inst)  == inst % 64
WhereColumn(inst) == (inst \div 2048) % 64
WhereValue(inst)  == (inst \div 8) % 256
WhereOp(inst)     == inst % 8
=============================================================================
