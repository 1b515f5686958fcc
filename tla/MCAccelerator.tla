--------------------------- MODULE MCAccelerator ----------------------------
(***************************************************************************)
(* Instances of Accelerator.tla for TLC: rows of two columns over the      *)
(* digits '0' to '2' (48..50), two comparison units, FIFOs of two words.   *)
(***************************************************************************)
EXTENDS Accelerator

R(a, b) == 0 :> a @@ 1 :> b

Cond(c, o, v) == [col |-> c, op |-> o, val |-> v]

\* Aggregates are written in capitals; Respelt is the same query with an aggregate in small
\* letters, or with COUNT( in a literal.
Query(rows, limit, where, agg, col) ==
    [rows |-> rows, limit |-> limit, where |-> where, agg |-> agg, col |-> col,
     capitals |-> agg # "NONE"]

Respelt(q) == [q EXCEPT !.capitals = ~ @]

\* Every table of up to four rows over two different rows.
SmallTables == UNION {[1..n -> {R(49, 50), R(50, 48)}] : n \in 0..4}

Conditions == {<<>>, <<Cond(0, "=", 49)>>, <<Cond(0, "!=", 49), Cond(1, "<", 50)>>}

WrittenQueries ==
    {Query(t, l, w, a, 1) : t \in SmallTables, l \in {0, 1, 2, 5}, w \in Conditions,
                            a \in {"NONE", "COUNT", "SUM"}}

\* The spelling matters to a limit above QUERY_MAX_ROWS.
RespeltQueries ==
    {Respelt(Query(t, 5, <<>>, a, 1)) : t \in {u \in SmallTables : Len(u) > 2},
                                        a \in {"NONE", "COUNT", "SUM"}}

SingleQueries == WrittenQueries \cup RespeltQueries

Ok    == R(49, 50)
Other == R(50, 48)
Text  == R(0, 49)

\* Queries that leave something behind for the next one: a limit and operands,
\* rows stuck in the input FIFO, a partly loaded program, a set end-of-input flag.
SequenceQueries ==
    {Query(<<Ok, Other, Ok>>, 0, <<>>, "NONE", 0),
     Query(<<Ok, Other, Ok, Ok, Other>>, 1, <<Cond(0, "=", 49)>>, "NONE", 0),
     Query(<<Other, Ok, Ok>>, 2, <<Cond(1, ">=", 48), Cond(0, "<=", 50)>>, "COUNT", 0),
     Query(<<Ok, Other>>, 0, <<Cond(0, ">", 49)>>, "SUM", 0),
     Query(<<Ok, Text>>, 0, <<>>, "SUM", 1),
     Query(<<>>, 2, <<>>, "COUNT", 1),
     Query(<<Ok>>, 1, <<Cond(0, "=", 50), Cond(-1, "=", 49)>>, "NONE", 0),
     Query(<<Ok>>, 0, <<Cond(0, "=", 49), Cond(0, "=", 49), Cond(0, "=", 49)>>, "NONE", 0),
     Query(<<Text, Ok>>, 0, <<>>, "SUM", 0),
     Query(<<Ok>>, 0, <<>>, "COUNT", -1)}

\* One row to find and more rows after it than the input FIFO holds.
StallQueries == {Query(<<Ok>> \o [i \in 1..n |-> Other], 1, <<Cond(0, "=", 49)>>, "NONE", 0) :
                    n \in 1..4}

\* The recursion of the engine selects what it is meant to: the first rows, up to the
\* limit, of those that match.
ASSUME PassingIsFirstMatching ==
    \A q \in Queries :
       ~Engine!Refused(q) =>
          Engine!Passing(q) =
             LET matched == Engine!Matching(q)
             IN  IF q.limit > 0 THEN Engine!FirstRows(matched, Engine!EffectiveLimit(q)) ELSE matched

\* The queries of the runs that pass are representable, so the refinement is proved of
\* them too.
ASSUME QueriesRepresentable ==
    \A q \in SingleQueries \cup SequenceQueries \cup StallQueries : Representable(q)

\* A limit of 256, the largest the parser lets through, on a table of two rows.
WideLimitQueries == {Query(<<Ok, Other>>, l, <<>>, "NONE", 0) : l \in {2, 255, 256}}

\* An aggregate over a table with more matching rows than the limit.
LimitedAggregateQueries == {Query(<<Ok, Ok, Ok>>, l, <<>>, "COUNT", 0) : l \in {0, 1}}

\* Sums over a column with text in its first row, in its last row, or nowhere.
TextSumQueries == {Query(t, 0, <<>>, "SUM", 0) :
                      t \in {<<Ok, Other>>, <<Text, Ok>>, <<Ok, Text>>}}
=============================================================================
