---------------------------- MODULE QueryEngine -----------------------------
(***************************************************************************)
(* What the accelerator promises to process_request: the rows of the table *)
(* that satisfy every condition, in table order, up to the limit; or their *)
(* number; or the sum of a column over them.  The rows appear one by one   *)
(* while the query runs.  Accelerator.tla is the cycle-by-cycle machine    *)
(* that implements it.                                                     *)
(*                                                                         *)
(* A query is a record: rows (the table), limit (0 for none), where (a     *)
(* sequence of conditions [col, op, val]), agg ("NONE", "COUNT" or "SUM")  *)
(* and col (the aggregated column).  A column the schema does not have is  *)
(* -1.                                                                     *)
(***************************************************************************)
EXTENDS Integers, Sequences

CONSTANTS Queries,       \* the queries a client may send
          WHERE_MAX,     \* conditions the compiler accepts
          CAPTURE_ROWS,  \* rows an answer may have: the largest limit, and the
                         \* rows the capture buffer holds
          FIFO_DEPTH     \* words the input FIFO holds

VARIABLES phase,         \* "idle" or "running"
          query,         \* the query being run, or the last one
          out,           \* rows delivered so far
          answer         \* [status, rows, value] of the last query

vars == <<phase, query, out, answer>>

Holds(cond, row) ==
    LET x == row[cond.col]
    IN  CASE cond.op \in {"=", "=="} -> x = cond.val
          [] cond.op = "!=" -> x # cond.val
          [] cond.op = "<"  -> x < cond.val
          [] cond.op = "<=" -> x <= cond.val
          [] cond.op = ">"  -> x > cond.val
          [] cond.op = ">=" -> x >= cond.val

Selects(q, row) == \A i \in DOMAIN q.where : Holds(q.where[i], row)

\* The rows that satisfy every condition.
Matching(q) == SelectSeq(q.rows, LAMBDA row : Selects(q, row))

FirstRows(s, n) == SubSeq(s, 1, IF n < Len(s) THEN n ELSE Len(s))

\* The limit in force: it is capped unless the query names an aggregate in capitals.
EffectiveLimit(q) ==
    IF ~ q.capitals /\ q.limit > CAPTURE_ROWS THEN CAPTURE_ROWS ELSE q.limit

\* The rows that pass the conditions and the limit, among the first n of the
\* table: the first EffectiveLimit(q) of those that match.
PassingOf(q) ==
    LET passing[n \in 0..Len(q.rows)] ==
          IF n = 0 THEN <<>>
          ELSE IF /\ Selects(q, q.rows[n])
                  /\ EffectiveLimit(q) > 0 => Len(passing[n - 1]) < EffectiveLimit(q)
            THEN Append(passing[n - 1], q.rows[n])
            ELSE passing[n - 1]
    IN  passing

Passing(q) == PassingOf(q)[Len(q.rows)]

\* What the capture buffer has room for.
Result(q) == FirstRows(Passing(q), CAPTURE_ROWS)

Digit(b) == b - 48

\* The sums of a column over the first n rows.
Sums(col, rows) ==
    LET sum[n \in 0..Len(rows)] == IF n = 0 THEN 0 ELSE sum[n - 1] + Digit(rows[n][col])
    IN  sum

Value(q, rows) ==
    CASE q.agg = "NONE"  -> 0
      [] q.agg = "COUNT" -> Len(rows)
      [] q.agg = "SUM"   -> Sums(q.col, rows)[Len(rows)]

\* A query the compiler refuses: an unknown column, too many conditions, or the
\* sum of a column whose first cell is no digit.
Refused(q) ==
    \/ \E i \in DOMAIN q.where : q.where[i].col = -1
    \/ Len(q.where) > WHERE_MAX
    \/ q.col = -1
    \/ q.agg = "SUM" /\ q.rows # <<>> /\ q.rows[1][q.col] \notin 48..57

\* After the limit is reached the pipeline reads no more rows: the query ends
\* well only if the rows that are left fit in the input FIFO.
Stalls(q) ==
    /\ EffectiveLimit(q) > 0
    /\ \E p \in DOMAIN q.rows :
          /\ Len(PassingOf(q)[p]) = EffectiveLimit(q)
          /\ Len(q.rows) > p + FIFO_DEPTH

-----------------------------------------------------------------------------

Init ==
    /\ phase = "idle"
    /\ out = <<>>
    /\ answer = [status |-> "NONE", rows |-> <<>>, value |-> 0]

Start ==
    /\ phase = "idle"
    /\ phase' = "running"
    /\ query' \in Queries
    /\ out' = <<>>
    /\ UNCHANGED answer

\* Rows are delivered in order, each once.
Deliver ==
    /\ phase = "running"
    /\ ~Refused(query)
    /\ Len(out) < Len(Result(query))
    /\ out' = Append(out, Result(query)[Len(out) + 1])
    /\ UNCHANGED <<phase, query, answer>>

\* A refused query is answered with an error.
Refuse ==
    /\ phase = "running"
    /\ phase' = "idle"
    /\ Refused(query)
    /\ answer' = [status |-> "ERROR", rows |-> <<>>, value |-> 0]
    /\ UNCHANGED <<query, out>>

\* The answer is complete.
Finish ==
    /\ phase = "running"
    /\ phase' = "idle"
    /\ ~Refused(query)
    /\ ~Stalls(query)
    /\ out = Result(query)
    /\ answer' = [status |-> "OK", rows |-> IF query.agg = "NONE" THEN out ELSE <<>>,
                  value |-> Value(query, Passing(query))]
    /\ UNCHANGED <<query, out>>

\* A query that stalls loses the rows it had delivered; the accumulators keep
\* their value.
GiveUp ==
    /\ phase = "running"
    /\ ~Refused(query)
    /\ Stalls(query)
    /\ out = Result(query)
    /\ out' = <<>>
    /\ UNCHANGED <<phase, query, answer>>

AnswerStalled ==
    /\ phase = "running"
    /\ phase' = "idle"
    /\ ~Refused(query)
    /\ Stalls(query)
    /\ out = <<>>
    /\ answer' = [status |-> "OK", rows |-> <<>>, value |-> Value(query, Passing(query))]
    /\ UNCHANGED <<query, out>>

Next == Start \/ Deliver \/ Refuse \/ Finish \/ GiveUp \/ AnswerStalled

Spec == Init /\ [][Next]_vars
=============================================================================
