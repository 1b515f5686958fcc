---------------------------- MODULE Accelerator -----------------------------
(***************************************************************************)
(* The firmware's query driver (process_request, compile_and_send_         *)
(* instructions, feed_source_to_hardware and drain_output_words of         *)
(* network_tasks.c) against the slave and the pipeline, cycle by cycle.    *)
(* Every step is one clock edge.  In a cycle the CPU puts a bus access of  *)
(* its program on the bus, waits in a read, or does something else (runs   *)
(* other instructions, is preempted, sleeps in OSTimeDlyHMSM): any number  *)
(* of idle cycles may pass between two accesses.                           *)
(*                                                                         *)
(* The bus is modelled from user_hw_hw.tcl: a write takes one cycle        *)
(* (writeWaitTime 0), a read is held READ_WAIT cycles (readWaitTime 1) and *)
(* sampled at the end of the next.  Assumed, not stated by the sources:    *)
(* the CPU never has two writes in consecutive cycles.                     *)
(***************************************************************************)
EXTENDS UserHw, SequencesExt

CONSTANTS Queries,        \* the parsed requests, with the tables they read
          WHERE_MAX,      \* conditions the compiler accepts (4)
          QUERY_MAX_ROWS, \* cap on LIMIT, and rows the capture buffer holds (256)
          STALL_MAX,      \* HW_STALL_MAX_CYCLES (5000000)
          READ_WAIT,      \* readWaitTime (1)
          MaxQueries      \* bound: queries served in one behaviour

ASSUME AcceleratorAssumption ==
    /\ WHERE_MAX \in Nat /\ WHERE_MAX <= NUM_WHERE
    /\ QUERY_MAX_ROWS \in Nat \ {0}
    /\ STALL_MAX \in Nat \ {0}
    /\ READ_WAIT \in Nat \ {0}
    /\ MaxQueries \in Nat

\* A condition of a parsed request; a column the table does not have is -1.
WhereCondition == [col : -1..(NUM_COLS - 1), op : STRING, val : Int]

\* The header of a table has at most NUM_COLS columns.
ASSUME QueriesAssumption ==
    \A q \in Queries :
       /\ q.rows \in Seq(Row) /\ q.limit \in Nat
       /\ q.where \in Seq(WhereCondition)
       /\ q.agg \in {"NONE", "COUNT", "SUM"} /\ q.col \in -1..(NUM_COLS - 1)
       /\ q.capitals \in BOOLEAN

VARIABLES pc, ret,        \* where the firmware is, and where drain returns to
          query,          \* pending_request and the table it names
          k,              \* instructions sent
          sent,           \* bytes_sent, in words
          captured,       \* captured_output_buffer up to captured_size, in rows
          stall_guard,
          rwait,          \* wait states of the read under way
          answer,         \* what the last query was answered
          served          \* queries answered so far

cpuVars == <<pc, ret, query, k, sent, captured, stall_guard, rwait, answer, served>>
vars == <<hwVars, cpuVars>>

NoQuery == [rows |-> <<>>, limit |-> 0, where |-> <<>>, agg |-> "NONE", col |-> 0,
            capitals |-> FALSE]

-----------------------------------------------------------------------------
(* parse_request_body and compile_and_send_instructions.                   *)

\* parse_request_body caps the limit, except where the text has COUNT( or SUM( in capitals,
\* which an aggregate need not have and another query may.
Limit(q) == IF ~ q.capitals /\ q.limit > QUERY_MAX_ROWS THEN QUERY_MAX_ROWS ELSE q.limit

\* An operator the compiler does not know is compiled as equality.
OpCode(op) ==
    CASE op = "!=" -> 1
      [] op = "<"  -> 2
      [] op = "<=" -> 3
      [] op = ">"  -> 4
      [] op = ">=" -> 5
      [] OTHER     -> 0

\* The position of the first condition the compiler stops at: an unknown column
\* or one condition too many.
WhereStop(q) ==
    LET bad == {i \in DOMAIN q.where : q.where[i].col < 0 \/ i > WHERE_MAX}
    IN  IF bad = {} THEN Len(q.where) + 1 ELSE CHOOSE i \in bad : \A j \in bad : i <= j

\* The select list: every column must exist, and SUM looks at the first row.
SelectFails(q) ==
    \/ q.col < 0
    \/ q.agg = "SUM" /\ q.rows # <<>> /\ q.rows[1][q.col] \notin 48..57

CompileFails(q) == WhereStop(q) <= Len(q.where) \/ SelectFails(q)

\* The instructions sent, up to the point where compilation fails.
Program(q) ==
    (IF Limit(q) > 0 THEN <<EncodeLimit(Limit(q))>> ELSE <<>>)
    \o [i \in 1..(WhereStop(q) - 1) |->
            EncodeWhere(q.where[i].col, q.where[i].val, OpCode(q.where[i].op))]
    \o (IF CompileFails(q) \/ q.agg = "NONE" THEN <<>>
        ELSE IF q.agg = "COUNT" THEN <<EncodeCount(q.col)>> ELSE <<EncodeSum(q.col)>>)

\* capture_limit_bytes, in rows.
CaptureLimit(q) ==
    LET effective == IF Limit(q) > 0 THEN Limit(q) ELSE Len(q.rows)
        fits      == IF effective < Len(q.rows) THEN effective ELSE Len(q.rows)
    IN  IF fits > QUERY_MAX_ROWS THEN QUERY_MAX_ROWS ELSE fits

-----------------------------------------------------------------------------
(* The bus. *)

NoAccess == HwClock(FALSE, "NONE", {})

\* IOWR_32DIRECT
Write(address, data) ==
    /\ rwait = 0
    /\ ~write_prev
    /\ HwClock(TRUE, address, data)
    /\ UNCHANGED rwait

\* Mutant: the slave may answer a read in its first cycle.
SampleNoWait == rwait' = 0 /\ NoAccess

\* The last cycle of an IORD_32DIRECT, in which readdata is sampled.
Sample ==
    /\ rwait = READ_WAIT
    /\ rwait' = 0
    /\ NoAccess

Reading == \/ pc \in {"feed", "drain", "take", "poll"}
           \/ pc = "answer" /\ query.agg # "NONE"

\* A wait state of the read that the firmware has reached.
ReadWait ==
    /\ Reading
    /\ rwait < READ_WAIT
    /\ rwait' = rwait + 1
    /\ NoAccess
    /\ UNCHANGED <<pc, ret, query, k, sent, captured, stall_guard, answer, served>>

\* A cycle in which the firmware does not use the slave.
Idle ==
    /\ rwait = 0
    /\ NoAccess
    /\ UNCHANGED cpuVars

-----------------------------------------------------------------------------
(* process_request, up to the data. *)

\* tx_task takes a request whose table is loaded.
Start ==
    /\ pc = "idle"
    /\ rwait = 0
    /\ served < MaxQueries
    /\ pc' = "clear"
    /\ query' \in Queries
    /\ captured' = <<>>
    /\ k' = 0
    /\ sent' = 0
    /\ stall_guard' = 0
    /\ NoAccess
    /\ UNCHANGED <<ret, rwait, answer, served>>

\* Where process_request goes when n instructions have been sent.
AfterInstructions(n) ==
    IF n < Len(Program(query)) THEN "inst"
    ELSE IF CompileFails(query) THEN "refuse"
    ELSE IF query.rows # <<>> THEN "feed"
    ELSE "answer"

\* Mutant: the hardware is not cleared between queries.
ClearForgotten ==
    /\ pc = "clear"
    /\ pc' = AfterInstructions(0)
    /\ NoAccess
    /\ UNCHANGED <<ret, query, k, sent, captured, stall_guard, answer, served, rwait>>

\* hw_clear
Clear ==
    /\ pc = "clear"
    /\ Write("CONTROL", {"RST"})
    /\ pc' = AfterInstructions(0)
    /\ UNCHANGED <<ret, query, k, sent, captured, stall_guard, answer, served>>

\* hw_send_instruction: the word, then the control pulse that loads it.
SendInstruction ==
    /\ pc = "inst"
    /\ Write("INSTRUCTION", Program(query)[k + 1])
    /\ pc' = "load"
    /\ UNCHANGED <<ret, query, k, sent, captured, stall_guard, answer, served>>

LoadInstruction ==
    /\ pc = "load"
    /\ Write("CONTROL", {"LOAD_INST"})
    /\ k' = k + 1
    /\ pc' = AfterInstructions(k + 1)
    /\ UNCHANGED <<ret, query, sent, captured, stall_guard, answer, served>>

\* The 400 of a request that does not compile.
Refuse ==
    /\ pc = "refuse"
    /\ rwait = 0
    /\ pc' = "idle"
    /\ answer' = [status |-> "ERROR", rows |-> <<>>, value |-> 0]
    /\ served' = served + 1
    /\ NoAccess
    /\ UNCHANGED <<ret, query, k, sent, captured, stall_guard, rwait>>

-----------------------------------------------------------------------------
(* feed_source_to_hardware.  source_read_word cannot fail here: the words   *)
(* to send are exactly the words the source holds.                          *)

\* Mutant: the full flag is not looked at.
FeedStatusBlind ==
    /\ pc = "feed"
    /\ Sample
    /\ pc' = "din"
    /\ UNCHANGED <<ret, query, k, sent, captured, stall_guard, answer, served>>

\* The loop's status read: a full input FIFO sends the firmware to drain the
\* output and retry.
FeedStatus ==
    /\ pc = "feed"
    /\ Sample
    /\ IF STATUS_IN_FIFO_FULL
         THEN pc' = "drain" /\ ret' = "full"
         ELSE pc' = "din" /\ UNCHANGED ret
    /\ UNCHANGED <<query, k, sent, captured, stall_guard, answer, served>>

\* hw_write_word: the data, then the control pulse that writes it.
WriteWord ==
    /\ pc = "din"
    /\ Write("DATA_IN", query.rows[sent + 1])
    /\ pc' = "din_valid"
    /\ UNCHANGED <<ret, query, k, sent, captured, stall_guard, answer, served>>

\* Mutant: the words sent are counted in bytes.
PushWordBytes ==
    /\ pc = "din_valid"
    /\ Write("CONTROL", {"DIN_VALID"})
    /\ sent' = sent + 4
    /\ stall_guard' = 0
    /\ pc' = "drain"
    /\ ret' = "sent"
    /\ UNCHANGED <<query, k, captured, answer, served>>

\* Mutant: the output is drained once, after the last word.
PushWordNoDrain ==
    /\ pc = "din_valid"
    /\ Write("CONTROL", {"DIN_VALID"})
    /\ sent' = sent + 1
    /\ stall_guard' = 0
    /\ IF sent + 1 < Len(query.rows)
         THEN pc' = "feed" /\ UNCHANGED ret
         ELSE pc' = "drain" /\ ret' = "sent"
    /\ UNCHANGED <<query, k, captured, answer, served>>

PushWord ==
    /\ pc = "din_valid"
    /\ Write("CONTROL", {"DIN_VALID"})
    /\ sent' = sent + 1
    /\ stall_guard' = 0
    /\ pc' = "drain"
    /\ ret' = "sent"
    /\ UNCHANGED <<query, k, captured, answer, served>>

SignalEof ==
    /\ pc = "eof"
    /\ Write("CONTROL", {"INPUT_EOF"})
    /\ stall_guard' = 0
    /\ pc' = "drain"
    /\ ret' = "wait"
    /\ UNCHANGED <<query, k, sent, captured, answer, served>>

\* process_request on a timeout: the rows captured so far are dropped and the
\* answer is built all the same.
TimeOut ==
    /\ captured' = <<>>
    /\ pc' = "answer"

\* Mutant: a full input FIFO is retried without counting.
DrainReturnsUncounted ==
    \/ /\ ret = "sent"
       /\ pc' = IF sent < Len(query.rows) THEN "feed" ELSE "eof"
       /\ UNCHANGED <<captured, stall_guard>>
    \/ ret = "wait" /\ pc' = "poll" /\ UNCHANGED <<captured, stall_guard>>
    \/ ret = "full" /\ pc' = "feed" /\ UNCHANGED <<captured, stall_guard>>

\* drain_output_words returns to its caller.
DrainReturns ==
    \/ /\ ret = "sent"
       /\ pc' = IF sent < Len(query.rows) THEN "feed" ELSE "eof"
       /\ UNCHANGED <<captured, stall_guard>>
    \/ /\ ret = "wait"
       /\ pc' = "poll"
       /\ UNCHANGED <<captured, stall_guard>>
    \/ /\ ret = "full"
       /\ stall_guard' = stall_guard + 1
       /\ IF stall_guard + 1 > STALL_MAX
            THEN TimeOut
            ELSE pc' = "feed" /\ UNCHANGED captured

\* drain_output_words: the status read of its loop.
DrainStatus ==
    /\ pc = "drain"
    /\ Sample
    /\ IF STATUS_OUT_FIFO_EMPTY
         THEN DrainReturns
         ELSE pc' = "pulse" /\ UNCHANGED <<captured, stall_guard>>
    /\ UNCHANGED <<ret, query, k, sent, answer, served>>

\* The FIFO is not first-word-fall-through: pulse the read, then take dout.
PulseRead ==
    /\ pc = "pulse"
    /\ Write("CONTROL", {"RD_OUT_FIFO"})
    /\ pc' = "take"
    /\ UNCHANGED <<ret, query, k, sent, captured, stall_guard, answer, served>>

TakeWord ==
    /\ pc = "take"
    /\ Sample
    /\ captured' = IF Len(captured) < CaptureLimit(query)
                     THEN Append(captured, out_fifo.dout) ELSE captured
    /\ pc' = "drain"
    /\ UNCHANGED <<ret, query, k, sent, stall_guard, answer, served>>

\* The wait for the end: done and nothing left in the output FIFO, in one
\* status word.
Poll ==
    /\ pc = "poll"
    /\ Sample
    /\ IF STATUS_OUT_FIFO_EMPTY /\ STATUS_DONE
         THEN pc' = "answer" /\ UNCHANGED <<ret, captured, stall_guard>>
         ELSE /\ stall_guard' = stall_guard + 1
              /\ IF stall_guard + 1 < STALL_MAX
                   THEN pc' = "drain" /\ UNCHANGED captured
                   ELSE TimeOut
              /\ UNCHANGED ret
    /\ UNCHANGED <<query, k, sent, answer, served>>

-----------------------------------------------------------------------------
(* build_success_body and the response. *)

\* The rows of an answer, capped once more by the limit.
ReturnedRows ==
    LET n == Len(captured)
    IN  SubSeq(captured, 1, IF Limit(query) > 0 /\ n > Limit(query) THEN Limit(query) ELSE n)

Reply(rows, value) ==
    /\ pc = "answer"
    /\ pc' = "idle"
    /\ answer' = [status |-> "OK", rows |-> rows, value |-> value]
    /\ served' = served + 1
    /\ UNCHANGED <<ret, query, k, sent, captured, stall_guard>>

ReplyRows ==
    /\ query.agg = "NONE"
    /\ Reply(ReturnedRows, 0)
    /\ NoAccess
    /\ rwait = 0
    /\ UNCHANGED rwait

ReplyCount ==
    /\ query.agg = "COUNT"
    /\ Sample
    /\ Reply(<<>>, acc_out)

ReplySum ==
    /\ query.agg = "SUM"
    /\ Sample
    /\ Reply(<<>>, sum_out)

-----------------------------------------------------------------------------

Init ==
    /\ HwInit
    /\ pc = "idle"
    /\ ret = "sent"
    /\ query = NoQuery
    /\ k = 0
    /\ sent = 0
    /\ captured = <<>>
    /\ stall_guard = 0
    /\ rwait = 0
    /\ answer = [status |-> "NONE", rows |-> <<>>, value |-> 0]
    /\ served = 0

\* A cycle in which the firmware makes progress with the query.
Firmware ==
    \/ Clear \/ SendInstruction \/ LoadInstruction \/ Refuse
    \/ FeedStatus \/ WriteWord \/ PushWord \/ SignalEof
    \/ DrainStatus \/ PulseRead \/ TakeWord \/ Poll
    \/ ReplyRows \/ ReplyCount \/ ReplySum
    \/ ReadWait

Next == Start \/ Firmware \/ Idle

Spec == Init /\ [][Next]_vars

\* The clock runs, and the firmware is not idle for ever in the middle of a
\* query.
FairSpec == Spec /\ WF_vars(Next) /\ WF_vars(Firmware)

-----------------------------------------------------------------------------
(* Properties. *)

\* The registers keep their widths and the firmware's counters their ranges.
TypeOK ==
    /\ HwTypeOK
    /\ pc \in {"idle", "clear", "inst", "load", "refuse", "feed", "din", "din_valid",
               "drain", "pulse", "take", "eof", "poll", "answer"}
    /\ ret \in {"sent", "full", "wait"}
    /\ query \in Queries \cup {NoQuery}
    /\ k \in 0..Len(Program(query))
    /\ sent \in 0..Len(query.rows)
    /\ captured \in Seq(Row) /\ Len(captured) <= QUERY_MAX_ROWS
    /\ stall_guard \in 0..(STALL_MAX + 1)
    /\ rwait \in 0..READ_WAIT
    /\ served \in 0..MaxQueries

\* No word is lost on its way in: the full flag is read two writes before the
\* word enters the FIFO, and a write to a full FIFO is dropped silently.
NoInputDropped == ~(din_valid_ctrl /\ In!Full(in_fifo))

\* No row is lost on its way out: the pipeline has no back-pressure from the
\* output FIFO, and out_fifo_wr_en is masked while an instruction is loaded.
NoOutputDropped ==
    /\ ~(out_fifo_wr_en(load_inst) /\ Out!Full(out_fifo))
    /\ ~(load_inst /\ count_valid_in)

\* A row never reaches the limit stage together with the done token, which would
\* swallow it.  Nothing in the pipeline prevents it: it depends on how late after
\* the last DIN_VALID write the INPUT_EOF write can come, and the status read in
\* between is just long enough.
NoRowMeetsDone == ~(where_valid_and /\ stage1_done /\ ~limit_hit)

Engine == INSTANCE QueryEngine
    WITH phase <- IF pc = "idle" THEN "idle" ELSE "running",
         out <- captured, CAPTURE_ROWS <- QUERY_MAX_ROWS

\* A query whose operands fit the fields of the instructions and whose sums fit the
\* accumulators.  The compiler checks neither: a limit of 256 is encoded as 0, a
\* condition's value is cut to a byte, and only the first cell of a sum is looked at.
Representable(q) ==
    /\ Limit(q) <= 255
    /\ \A i \in DOMAIN q.where :
          /\ q.where[i].op \in {"=", "==", "!=", "<", "<=", ">", ">="}
          /\ q.where[i].val \in 0..255
    /\ 256 * Len(q.rows) < ACC_MOD
    /\ q.agg = "SUM" /\ ~CompileFails(q) => \A i \in DOMAIN q.rows : q.rows[i][q.col] >= 48

\* The accelerator implements the query engine: whatever the timing between the
\* CPU and the pipeline, the captured rows are the matching rows in order, and
\* the answer is the engine's.
ImplementsEngine == Engine!Spec

\* fpga_test.py computes the expected answer on the PC: the first limit rows that
\* match, or the number or the sum over all the rows that match.  A 200 answer of
\* the board equals it.
MatchesGabarito ==
    pc = "idle" /\ answer.status = "OK" =>
        LET matched == Engine!Matching(query)
        IN  IF query.agg # "NONE" THEN answer.value = Engine!Value(query, matched)
            ELSE answer.rows = IF query.limit > 0
                                 THEN Engine!FirstRows(matched, query.limit) ELSE matched

\* The compiler refuses to sum a column "pois ela contem texto": an answered sum
\* is one over digits.
SumsOverDigits ==
    pc = "idle" /\ answer.status = "OK" /\ query.agg = "SUM" =>
        \A i \in DOMAIN query.rows : query.rows[i][query.col] \in 48..57

\* Every query is answered: neither the feed loop nor the wait loop runs for
\* ever, whatever the pipeline does.
EveryQueryAnswered == pc = "clear" ~> pc = "idle"
=============================================================================
