-------------------------------- MODULE Query --------------------------------
(***************************************************************************)
(* One SELECT statement from its analysis to its last row: the plan of     *)
(* module Planner is turned into a tree of executors (portal.h) and        *)
(* QlManager::select_from pulls the rows out of it.  An executor is a      *)
(* record whose fields are those of the C++ object; beginTuple, nextTuple, *)
(* is_end and Next are the operators below.  A row is a function from      *)
(* columns to values, so join_tuple is the union of two functions.         *)
(*                                                                         *)
(* The table lock the scans hold keeps the tables unchanged while the      *)
(* statement runs (module TransactionManager), so db is fixed.  An index   *)
(* is the rows of its table in key order; module BTree is about the tree,  *)
(* and about the scans that fail in a leaf emptied by deletes.             *)
(*                                                                         *)
(* A field thrown marks an executor in which an exception was raised; the  *)
(* exception leaves every loop above it and ends the statement.            *)
(***************************************************************************)
EXTENDS Planner, RecordPrinter

CONSTANTS
    Databases,      \* the contents: table -> sequence of rows in page order
    Queries,        \* the statements
    BlockCapacity,  \* left_block_capacity_: rows that fit kJoinBufferBytes
    INT_MAX         \* the largest int (scaled down for TLC)

ASSUME BlockCapacityAssumption == BlockCapacity \in Nat \ {0}
ASSUME IntAssumption == INT_MAX \in Nat

VARIABLES
    db,         \* the tables
    query,      \* the statement
    exec,       \* the executor tree
    out,        \* the rows written to output.txt
    context,    \* the buffer of what is sent to the client
    status      \* "parsed", "ready", "running", "done", "error" (an exception
                \* reached the client handler) or "aborted" (a failed assert)

vars == <<db, query, exec, out, context, status>>

NoExec == [tag |-> "None", thrown |-> FALSE]

-----------------------------------------------------------------------------
(***************************************************************************)
(* AbstractExecutor: conditions on a row.                                  *)
(***************************************************************************)

compare(l, op, r) ==
    CASE op = "OP_EQ" -> l = r
      [] op = "OP_NE" -> l # r
      [] op = "OP_LT" -> l < r
      [] op = "OP_GT" -> l > r
      [] op = "OP_LE" -> l <= r
      [] op = "OP_GE" -> l >= r

eval_cond(row, cond) ==
    compare(row[cond.lhs_col], cond.op,
            IF cond.is_rhs_val THEN cond.rhs_val ELSE row[cond.rhs_col])

\* The condition at which eval_conds stops: the first that is false or that
\* names a column the row does not have (get_col throws).
StopsAt(row, conds, i) ==
    \/ ~(CondCols(conds[i]) \subseteq DOMAIN row)
    \/ ~eval_cond(row, conds[i])

eval_conds(row, conds) == \A i \in DOMAIN conds : ~StopsAt(row, conds, i)

EvalThrows(row, conds) ==
    \E i \in DOMAIN conds :
        /\ ~(CondCols(conds[i]) \subseteq DOMAIN row)
        /\ \A j \in 1 .. i - 1 : ~StopsAt(row, conds, j)

-----------------------------------------------------------------------------
(***************************************************************************)
(* SeqScanExecutor and IndexScanExecutor.  pos is the position of the scan *)
(* and last the position at which it ends, in rows.                        *)
(***************************************************************************)

INT_MIN == -INT_MAX - 1

\* The value of the last condition on the column with one of the operators.
LastBound(conds, col, ops, default) ==
    LET Hit(c) == c.is_rhs_val /\ c.lhs_col.col_name = col /\ c.op \in ops
        hits == SelectSeq(conds, Hit)
    IN  IF hits = <<>> THEN default ELSE Last(hits).rhs_val

\* lower_key and upper_key of beginTuple: the equalities on the leading
\* columns, the bounds on the next column, the extreme values after it.
ScanKey(conds, index, ops, extreme) ==
    LET HasEq(i) == \E c \in ToSet(conds) :
                        c.is_rhs_val /\ c.lhs_col.col_name = index[i] /\ c.op = "OP_EQ"
    IN  [i \in DOMAIN index |->
            IF \E j \in 1 .. i - 1 : ~HasEq(j) THEN extreme
            ELSE LastBound(conds, index[i], IF HasEq(i) THEN {"OP_EQ"} ELSE ops, extreme)]

LowerKey(conds, index) == ScanKey(conds, index, {"OP_GT", "OP_GE"}, INT_MIN)

\* Faulty variant: the rest of the upper key is filled as that of the lower one.
UpperKeyMin(conds, index) == ScanKey(conds, index, {"OP_LT", "OP_LE"}, INT_MIN)

UpperKey(conds, index) == ScanKey(conds, index, {"OP_LT", "OP_LE"}, INT_MAX)

KeyLess(k1, k2) ==
    \E i \in DOMAIN k1 : k1[i] < k2[i] /\ \A j \in 1 .. i - 1 : k1[j] = k2[j]

KeyOf(tab, index, row) ==
    [i \in DOMAIN index |-> row[[tab_name |-> tab, col_name |-> index[i]]]]

\* Index entries in key order; the index is unique, so keys do not tie.
IndexOrder(tab, index) ==
    LET Key(i) == KeyOf(tab, index, db[tab][i])
        Rank(i) == Cardinality({j \in DOMAIN db[tab] : KeyLess(Key(j), Key(i))}) + 1
    IN  [k \in DOMAIN db[tab] |-> db[tab][CHOOSE i \in DOMAIN db[tab] : Rank(i) = k]]

\* is_end: the position, not an order, is compared with the end.
ScanEnd(e) == e.thrown \/ e.pos = e.last

\* The loop of beginTuple and nextTuple: forward to the next row that meets
\* the conditions.  Past the last entry of an index rid() throws
\* IndexEntryNotFoundError.
RECURSIVE Seek(_)
Seek(e) ==
    IF e.pos = e.last THEN e
    ELSE IF e.pos > Len(e.rows) \/ EvalThrows(e.rows[e.pos], e.conds)
         THEN [e EXCEPT !.thrown = TRUE]
         ELSE IF eval_conds(e.rows[e.pos], e.conds) THEN e
              ELSE Seek([e EXCEPT !.pos = @ + 1])

\* lower_bound and upper_bound of the index give the first and last position.
BeginScan(e) ==
    IF e.index = <<>>
    THEN Seek([e EXCEPT !.pos = 1, !.last = Len(e.rows) + 1])
    ELSE LET lower == LowerKey(e.conds, e.index)
             upper == UpperKey(e.conds, e.index)
             Key(i) == KeyOf(e.tab_name, e.index, e.rows[i])
             below == {i \in DOMAIN e.rows : KeyLess(Key(i), lower)}
             upto == {i \in DOMAIN e.rows : ~KeyLess(upper, Key(i))}
         IN  Seek([e EXCEPT !.pos = Cardinality(below) + 1,
                            !.last = Cardinality(upto) + 1])

NextScan(e) == IF ScanEnd(e) THEN e ELSE Seek([e EXCEPT !.pos = @ + 1])

-----------------------------------------------------------------------------
(***************************************************************************)
(* NestedLoopJoinExecutor: blocks of left rows, each joined with a full    *)
(* scan of the right child.  right_tuple_ is always the row the right      *)
(* child stands on and is not kept apart.                                  *)
(***************************************************************************)

\* The virtual call of a method on an executor, and the turns of the loops of
\* a join: "begin" and "next" for any executor, "fill" and "advance" for the
\* loops of refill_left_block and advance.
RECURSIVE Call(_, _)

Begin(e) == Call(e, "begin")
Nxt(e) == Call(e, "next")

IsEnd(e) == IF e.tag = "T_NestLoop" THEN e.isend \/ e.thrown ELSE ScanEnd(e)

Current(e) == IF e.tag = "T_NestLoop" THEN e.current ELSE e.rows[e.pos]

FillBlock(e) ==
    IF e.left.thrown THEN [e EXCEPT !.thrown = TRUE]
    ELSE IF IsEnd(e.left) \/ Len(e.block) >= BlockCapacity THEN e
    ELSE Call([e EXCEPT !.block = Append(@, Current(e.left)), !.left = Nxt(@)], "fill")

refill_left_block(e) == FillBlock([e EXCEPT !.block = <<>>, !.idx = 1])

\* The next block of left rows against a new scan of the right child; the
\* join ends when the block or the right child is empty.
NextBlock(e) ==
    LET f == refill_left_block(e)
        g == [f EXCEPT !.right = Begin(@)]
    IN  CASE f.thrown -> f
          [] ~f.thrown /\ f.block = <<>> -> [f EXCEPT !.isend = TRUE]
          [] ~f.thrown /\ f.block # <<>> ->
                IF g.right.thrown THEN [g EXCEPT !.thrown = TRUE]
                ELSE IF IsEnd(g.right) THEN [g EXCEPT !.isend = TRUE]
                ELSE Call(g, "advance")

\* The pairs of one right row and the rows of the block, from idx on.
MatchInBlock(e) ==
    LET row == e.block[e.idx] @@ Current(e.right)
    IN  CASE EvalThrows(row, e.conds) -> [e EXCEPT !.thrown = TRUE]
          [] eval_conds(row, e.conds) ->
                [e EXCEPT !.current = row, !.idx = @ + 1, !.isend = FALSE]
          [] OTHER -> Call([e EXCEPT !.idx = @ + 1], "advance")

\* Faulty variant: the block is not started again for the next right row.
NextRightOnly(e) == [e EXCEPT !.right = Nxt(@)]

\* The block is done with this right row: back to its first row, and on to
\* the next right row.
NextRight(e) == [e EXCEPT !.idx = 1, !.right = Nxt(@)]

advance(e) ==
    CASE e.right.thrown -> [e EXCEPT !.thrown = TRUE]
      [] ~e.right.thrown /\ e.block = <<>> -> [e EXCEPT !.isend = TRUE]
      [] ~e.right.thrown /\ e.block # <<>> ->
            IF IsEnd(e.right) THEN NextBlock(e)
            ELSE IF e.idx <= Len(e.block) THEN MatchInBlock(e)
            ELSE Call(NextRight(e), "advance")

BeginJoin(e) == NextBlock([e EXCEPT !.left = Begin(@), !.isend = FALSE])

NextJoin(e) == IF IsEnd(e) THEN e ELSE advance(e)

Call(e, method) ==
    CASE method = "fill" -> FillBlock(e)
      [] method = "advance" -> advance(e)
      [] method = "begin" -> IF e.tag = "T_NestLoop" THEN BeginJoin(e) ELSE BeginScan(e)
      [] method = "next" -> IF e.tag = "T_NestLoop" THEN NextJoin(e) ELSE NextScan(e)

-----------------------------------------------------------------------------
(***************************************************************************)
(* The unary executors.  std::sort leaves the order of equal rows open, so *)
(* beginTuple and nextTuple give a set of possible executors.  The sorted  *)
(* vector is kept as the rows not yet delivered (rest), the row the cursor *)
(* is on (current) and the number of rows from the cursor on (left).       *)
(***************************************************************************)

Scans == {"T_SeqScan", "T_IndexScan", "T_NestLoop"}

RECURSIVE AtEnd(_), Row(_), Begun(_), Nexts(_), Drained(_, _), Thrown(_)

Thrown(e) == IF e.tag \in Scans THEN e.thrown ELSE Thrown(e.prev)

AtEnd(e) ==
    CASE e.tag \in Scans -> IsEnd(e)
      [] e.tag = "T_Sort" -> e.left = 0
      [] e.tag = "T_Limit" -> (e.limit >= 0 /\ e.count >= e.limit) \/ AtEnd(e.prev)
      [] e.tag = "T_Aggregate" -> e.produced
      [] e.tag = "T_Projection" -> AtEnd(e.prev)

Row(e) ==
    CASE e.tag \in Scans -> Current(e)
      [] e.tag = "T_Sort" -> e.current
      [] e.tag = "T_Limit" -> Row(e.prev)
      [] e.tag = "T_Aggregate" -> e.result
      [] e.tag = "T_Projection" ->
            LET row == Row(e.prev) IN [i \in DOMAIN e.cols |-> row[e.cols[i]]]

\* The rows of an executor that has begun, with the executor left behind.
Drained(e, rows) ==
    IF AtEnd(e) THEN {[prev |-> e, rows |-> rows]}
    ELSE UNION {Drained(f, Append(rows, Row(e))) : f \in Nexts(e)}

\* The comparator of SortExecutor.
SortsBefore(order, r1, r2) ==
    \E i \in DOMAIN order :
        /\ \A j \in 1 .. i - 1 : r1[order[j].col] = r2[order[j].col]
        /\ IF order[i].desc THEN r1[order[i].col] > r2[order[i].col]
                            ELSE r1[order[i].col] < r2[order[i].col]

\* The cursor moves to a least row of those that remain.
Deliver(e, rest, left) ==
    IF left = 0 THEN {[e EXCEPT !.rest = <<>>, !.left = 0]}
    ELSE {[e EXCEPT !.current = rest[i], !.rest = RemoveAt(rest, i), !.left = left] :
             i \in {k \in DOMAIN rest :
                       \A j \in DOMAIN rest : ~SortsBefore(e.order, rest[j], rest[k])}}

\* Faulty variant: the limit is applied before the sort.
BeginSortCut(e, d) ==
    LET n == IF e.limit >= 0 /\ Len(d.rows) > e.limit THEN e.limit ELSE Len(d.rows)
    IN  Deliver([e EXCEPT !.prev = d.prev], SubSeq(d.rows, 1, n), n)

BeginSort(e, d) ==
    LET n == Len(d.rows)
    IN  Deliver([e EXCEPT !.prev = d.prev], d.rows,
                IF e.limit >= 0 /\ n > e.limit THEN e.limit ELSE n)

\* counts is a vector<int>; at -O0 its increment wraps around.
Wrapped(v) == ((v - INT_MIN) % (INT_MAX - INT_MIN + 1)) + INT_MIN

\* Faulty variant: MIN and MAX start from the zeros of the result.
AccumulateFromZero(agg, acc, row) ==
    CASE agg.func = "COUNT" -> [acc EXCEPT !.val = Wrapped(@ + 1)]
      [] agg.func = "SUM" -> [acc EXCEPT !.val = @ + row[agg.col]]
      [] agg.func = "MAX" -> [acc EXCEPT !.val = IF row[agg.col] > @ THEN row[agg.col] ELSE @]
      [] agg.func = "MIN" -> [acc EXCEPT !.val = IF row[agg.col] < @ THEN row[agg.col] ELSE @]

\* The loop of AggregateExecutor: the first value of MIN and MAX is copied, a
\* later one only if it wins.  A sum is a double, which is exact on the sums of
\* fewer than 2^22 ints and has no bound here.
Accumulate(agg, acc, row) ==
    CASE agg.func = "COUNT" -> [acc EXCEPT !.val = Wrapped(@ + 1)]
      [] agg.func = "SUM" -> [initialized |-> TRUE, val |-> acc.val + row[agg.col]]
      [] agg.func \in {"MIN", "MAX"} ->
            LET v == row[agg.col]
                wins == IF agg.func = "MAX" THEN v > acc.val ELSE v < acc.val
            IN  IF ~acc.initialized \/ wins
                THEN [initialized |-> TRUE, val |-> v] ELSE acc

\* static_cast<int> of a double that no int equals is undefined: the x86
\* instruction gives INT_MIN, that of other machines the nearest int.
StaticCastInt(v, saturates) ==
    CASE v \in INT_MIN .. INT_MAX -> v
      [] v > INT_MAX -> IF saturates THEN INT_MAX ELSE INT_MIN
      [] v < INT_MIN -> INT_MIN

\* beginTuple of the aggregate; its result starts as zeros.
Aggregated(e, d, saturates) ==
    LET Total(agg) ==
            LET Add(acc, row) == Accumulate(agg, acc, row)
                val == FoldLeft(Add, [initialized |-> FALSE, val |-> 0], d.rows).val
            IN  IF agg.func = "SUM" THEN StaticCastInt(val, saturates) ELSE val
    IN  [e EXCEPT !.prev = d.prev, !.produced = FALSE,
                  !.result = [i \in DOMAIN e.aggs |-> Total(e.aggs[i])]]

Begun(e) ==
    CASE e.tag \in Scans -> {Begin(e)}
      [] e.tag = "T_Sort" ->
            UNION {BeginSort(e, d) : d \in UNION {Drained(f, <<>>) : f \in Begun(e.prev)}}
      [] e.tag = "T_Limit" -> {[e EXCEPT !.count = 0, !.prev = f] : f \in Begun(e.prev)}
      [] e.tag = "T_Aggregate" ->
            {Aggregated(e, d, saturates) : saturates \in BOOLEAN,
                d \in UNION {Drained(f, <<>>) : f \in Begun(e.prev)}}
      [] e.tag = "T_Projection" -> {[e EXCEPT !.prev = f] : f \in Begun(e.prev)}

Nexts(e) ==
    CASE e.tag \in Scans -> {Nxt(e)}
      [] e.tag = "T_Sort" -> IF AtEnd(e) THEN {e} ELSE Deliver(e, e.rest, e.left - 1)
      [] e.tag = "T_Limit" ->
            IF AtEnd(e) THEN {e}
            ELSE {[e EXCEPT !.count = @ + 1, !.prev = f] : f \in Nexts(e.prev)}
      [] e.tag = "T_Aggregate" -> {[e EXCEPT !.produced = TRUE]}
      [] e.tag = "T_Projection" -> {[e EXCEPT !.prev = f] : f \in Nexts(e.prev)}

-----------------------------------------------------------------------------
(***************************************************************************)
(* Portal and QlManager::select_from.                                      *)
(***************************************************************************)

RECURSIVE convert_plan_executor(_), ScansOf(_)
convert_plan_executor(plan) ==
    LET Over(fields) == [prev |-> convert_plan_executor(plan.sub)] @@ fields
    IN  CASE plan.tag \in {"T_SeqScan", "T_IndexScan"} ->
                [rows |-> IF plan.index = <<>> THEN db[plan.tab_name]
                          ELSE IndexOrder(plan.tab_name, plan.index),
                 pos |-> 0, last |-> 0, thrown |-> FALSE] @@ plan
          [] plan.tag = "T_NestLoop" ->
                [tag |-> plan.tag, conds |-> plan.conds,
                 left |-> convert_plan_executor(plan.left),
                 right |-> convert_plan_executor(plan.right),
                 block |-> <<>>, idx |-> 1, isend |-> FALSE,
                 current |-> <<>>, thrown |-> FALSE]
          [] plan.tag = "T_Sort" ->
                Over([tag |-> plan.tag, order |-> plan.order, limit |-> plan.limit,
                      rest |-> <<>>, current |-> <<>>, left |-> 0])
          [] plan.tag = "T_Limit" ->
                Over([tag |-> plan.tag, limit |-> plan.limit, count |-> 0])
          [] plan.tag = "T_Aggregate" ->
                Over([tag |-> plan.tag, aggs |-> plan.aggs, produced |-> FALSE,
                      result |-> <<>>])
          [] plan.tag = "T_Projection" ->
                Over([tag |-> plan.tag, cols |-> plan.cols])

ScansOf(plan) ==
    CASE plan.tag \in {"T_SeqScan", "T_IndexScan"} -> {plan}
      [] plan.tag = "T_NestLoop" -> ScansOf(plan.left) \union ScansOf(plan.right)
      [] OTHER -> ScansOf(plan.sub)

\* The assertion of IndexScanExecutor's constructor: every condition has a
\* column of the scanned table.  The build keeps assertions.
AssertHolds(plan) ==
    \A s \in ScansOf(plan) : s.tag = "T_IndexScan" =>
        \A c \in ToSet(s.conds) : s.tab_name \in {c.lhs_col.tab_name, c.rhs_col.tab_name}

Init ==
    /\ db \in Databases
    /\ query \in Queries
    /\ exec = NoExec
    /\ out = <<>>
    /\ context = NewContext
    /\ status = "parsed"

\* do_analyze, do_planner and Portal::start.
start ==
    /\ status = "parsed"
    /\ IF ~Acceptable(query)
       THEN status' = "error" /\ UNCHANGED <<query, exec>>
       ELSE /\ query' = do_analyze(query)
            /\ \E plan \in {generate_select_plan(query')} :
                  IF AssertHolds(plan)
                  THEN exec' = convert_plan_executor(plan) /\ status' = "ready"
                  ELSE status' = "aborted" /\ UNCHANGED exec
    /\ UNCHANGED <<db, out, context>>

NumCols == IF query.aggs = <<>> THEN Len(query.cols) ELSE Len(query.aggs)
Captions == [i \in 1 .. NumCols |-> 0]

\* select_from prints the header; the rest is a for loop: beginTuple, then
\* is_end, Next and nextTuple.
beginTuple ==
    /\ status = "ready"
    /\ context' = print_separator(NumCols,
                    print_record(Captions, print_separator(NumCols, context)))
    /\ \E e \in Begun(exec) :
        /\ exec' = e
        /\ status' = IF Thrown(e) THEN "error" ELSE "running"
    /\ UNCHANGED <<db, query, out>>

output ==
    /\ status = "running"
    /\ ~AtEnd(exec)
    /\ out' = Append(out, Row(exec))
    /\ context' = print_record(Row(exec), context)
    /\ \E e \in Nexts(exec) :
        /\ exec' = e
        /\ status' = IF Thrown(e) THEN "error" ELSE "running"
    /\ UNCHANGED <<db, query>>

finish ==
    /\ status = "running"
    /\ AtEnd(exec)
    /\ status' = "done"
    /\ context' = print_record_count(Len(out), print_separator(NumCols, context))
    /\ UNCHANGED <<db, query, exec, out>>

Next == start \/ beginTuple \/ output \/ finish

Spec == Init /\ [][Next]_vars

-----------------------------------------------------------------------------
(***************************************************************************)
(* What the statement asks for, without plan or executors: the choices of  *)
(* one row per table that meet every condition.                            *)
(***************************************************************************)

RowChoices ==
    {c \in [DOMAIN query.tables -> UNION {DOMAIN db[t] : t \in DOMAIN db}] :
        \A i \in DOMAIN query.tables : c[i] \in DOMAIN db[query.tables[i]]}

RowOf(c) ==
    [col \in ToSet(get_all_cols(query.tables)) |->
        LET i == CHOOSE k \in DOMAIN query.tables : query.tables[k] = col.tab_name
        IN  db[col.tab_name][c[i]][col]]

Answer == {c \in RowChoices : \A k \in DOMAIN query.conds : eval_cond(RowOf(c), query.conds[k])}

\* A comparison of two columns of one table that is not the first of the FROM
\* list: pop_conds hands it to the scan of the first table, which has no such
\* column.
ForeignConds ==
    {k \in DOMAIN query.conds :
        /\ ~query.conds[k].is_rhs_val
        /\ query.conds[k].lhs_col.tab_name = query.conds[k].rhs_col.tab_name
        /\ query.conds[k].lhs_col.tab_name # query.tables[1]}

\* Two conditions that bound a column from below by more than from above.
CrossedRange ==
    \E k, l \in DOMAIN query.conds :
        /\ query.conds[k].is_rhs_val /\ query.conds[l].is_rhs_val
        /\ query.conds[k].lhs_col = query.conds[l].lhs_col
        /\ query.conds[k].op \in {"OP_GT", "OP_GE"}
        /\ query.conds[l].op \in {"OP_LT", "OP_LE"}
        /\ query.conds[k].rhs_val > query.conds[l].rhs_val

-----------------------------------------------------------------------------
(***************************************************************************)
(* Properties.                                                             *)
(***************************************************************************)

\* A SELECT without aggregates that ends normally has sent exactly the rows
\* that meet the WHERE clause, each as often as it occurs; with LIMIT n, as
\* many of them as n allows.  No plan, index, join order or block boundary
\* loses or repeats a row.  If the FROM list names a table twice only the number
\* of rows is right: pop_conds gives the conditions to one scan of the table,
\* and get_col finds the columns of the other.
AnswerExactUnlessTwice ==
    status = "done" /\ query.aggs = <<>> =>
        LET Shown(c) == [i \in DOMAIN query.cols |-> RowOf(c)[query.cols[i]]]
            n == Cardinality(Answer)
        IN  /\ Len(out) = IF query.limit >= 0 /\ query.limit < n THEN query.limit ELSE n
            /\ IsInjective(query.tables) => \A i \in DOMAIN out :
                  Cardinality({j \in DOMAIN out : out[j] = out[i]})
                    <= Cardinality({c \in Answer : Shown(c) = out[i]})

\* With ORDER BY, at every moment of the output the i-th row sent is an i-th
\* least row of the whole answer: fewer than i rows sort before it and at
\* least i do not sort after it (SortExecutor, also under LIMIT).
AnswerOrdered ==
    /\ query.order # <<>>
    /\ query.aggs = <<>>
    /\ out # <<>>
    /\ {o.col : o \in ToSet(query.order)} \subseteq ToSet(query.cols)
    => LET Sent(i) == [col \in ToSet(query.cols) |->
                          out[i][CHOOSE k \in DOMAIN query.cols : query.cols[k] = col]]
           SortKey(row) == [k \in DOMAIN query.order |->
                               IF query.order[k].desc THEN 0 - row[query.order[k].col]
                                                      ELSE row[query.order[k].col]]
           Before(i) == {c \in Answer : KeyLess(SortKey(RowOf(c)), SortKey(Sent(i)))}
           After(i) == {c \in Answer : KeyLess(SortKey(Sent(i)), SortKey(RowOf(c)))}
       IN  \A i \in DOMAIN out :
              /\ Cardinality(Before(i)) < i
              /\ Cardinality(Answer \ After(i)) >= i

\* COUNT, SUM, MIN and MAX are those of the rows that meet the WHERE clause,
\* and a single row of zeros when there are none, unless the right value is no
\* int: a SUM that leaves the ints on the way and comes back is exact
\* (AggregateExecutor sums in double).
AggregateExactUnlessWide ==
    status = "done" /\ query.aggs # <<>> /\ query.limit < 0 =>
        LET Values(col) == {RowOf(c)[col] : c \in Answer}
            Expected(agg) ==
                CASE agg.func = "COUNT" -> Cardinality(Answer)
                  [] agg.func = "SUM" ->
                        LET Val(c) == RowOf(c)[agg.col] IN MapThenSumSet(Val, Answer)
                  [] agg.func = "MIN" -> IF Answer = {} THEN 0 ELSE Min(Values(agg.col))
                  [] agg.func = "MAX" -> IF Answer = {} THEN 0 ELSE Max(Values(agg.col))
        IN  /\ Len(out) = 1
            /\ \A i \in DOMAIN query.aggs :
                  LET v == Expected(query.aggs[i])
                  IN  v \in INT_MIN .. INT_MAX => out[1][i] = v

\* A statement whose columns all exist fails in two cases only: pop_conds
\* gave a condition to a scan without its columns, or an index scan was
\* started beyond its end because the bounds of a range are crossed; and
\* only the first case, on an index scan, ends in a failed assertion.
FailsOnlyIf ==
    /\ status = "error" /\ Acceptable(query) => ForeignConds # {} \/ CrossedRange
    /\ status = "aborted" => ForeignConds # {}

\* The text of an answer for which there is room.
FullText ==
    LET Line(n) == Append([i \in 1 .. n |-> Dashes], Plus)
        Record(vals) == Append([i \in DOMAIN vals |-> Cell(vals[i])], Bar)
    IN Line(NumCols) \o Record(Captions) \o Line(NumCols)
         \o FlattenSeq([i \in DOMAIN out |-> Record(out[i])]) \o Line(NumCols)

\* The client gets the whole answer, or its beginning and the dots that say
\* so, then the number of all the rows; with the zero behind it, it never
\* exceeds the buffer.
SentWholeOrMarked ==
    status = "done" =>
        LET data == context.data
            marked == data[Len(data) - 1] = Dots
            text == SubSeq(data, 1, Len(data) - (IF marked THEN 2 ELSE 1))
        IN /\ IsPrefix(text, FullText)
           /\ marked = (text # FullText)
           /\ Last(data).val = Len(out)
           /\ context.offset + 1 <= BUFFER_LENGTH

=============================================================================
