------------------------------- MODULE Planner -------------------------------
(***************************************************************************)
(* How a SELECT becomes a plan: Analyze (analyze/analyze.cpp) qualifies    *)
(* its columns and Planner (optimizer/planner.cpp) pushes every condition  *)
(* to a scan or to a join, chooses an index for each scan, and puts sort,  *)
(* limit, aggregate or projection on top.  A module of pure operators; the *)
(* module Query runs the plans.                                            *)
(*                                                                         *)
(* A column is [tab_name, col_name]; a condition compares a column with a  *)
(* value or with a column.  All values are of type INT, so the type checks *)
(* of check_clause never reject a condition here.                          *)
(***************************************************************************)
EXTENDS Integers, Sequences, SequencesExt, FiniteSets

CONSTANTS
    TabCols,    \* table -> the sequence of its column names (TabMeta::cols)
    Indexes     \* table -> the sequence of its indexes, each a sequence of
                \* column names (TabMeta::indexes)

NoCol == [tab_name |-> "", col_name |-> ""]

RangeOps == {"OP_LT", "OP_LE", "OP_GT", "OP_GE"}

swap_op ==
    [OP_EQ |-> "OP_EQ", OP_NE |-> "OP_NE", OP_LT |-> "OP_GT",
     OP_GT |-> "OP_LT", OP_LE |-> "OP_GE", OP_GE |-> "OP_LE"]

Swapped(cond) ==
    [cond EXCEPT !.lhs_col = cond.rhs_col,
                 !.rhs_col = cond.lhs_col,
                 !.op = swap_op[cond.op]]

-----------------------------------------------------------------------------
(***************************************************************************)
(* Analyze.                                                                *)
(***************************************************************************)

\* get_all_cols: the columns of the tables of the FROM list, a table named
\* twice with its columns twice.
get_all_cols(tables) ==
    FlattenSeq([i \in DOMAIN tables |->
        [j \in DOMAIN TabCols[tables[i]] |->
            [tab_name |-> tables[i], col_name |-> TabCols[tables[i]][j]]]])

\* The places in all_cols of the columns that target can stand for: a column
\* without a table name stands for every column of that name.
Candidates(all_cols, target) ==
    {i \in DOMAIN all_cols :
        /\ all_cols[i].col_name = target.col_name
        /\ target.tab_name \in {"", all_cols[i].tab_name}}

\* check_column throws ColumnNotFoundError if no column fits, and
\* AmbiguousColumnError if several fit a name without a table.
Resolvable(tables, target) ==
    LET found == Candidates(get_all_cols(tables), target)
    IN  /\ found # {}
        /\ target.tab_name = "" => Cardinality(found) = 1

check_column(tables, target) ==
    LET all_cols == get_all_cols(tables)
    IN  all_cols[CHOOSE i \in Candidates(all_cols, target) : TRUE]

\* The column names of a condition.
CondCols(cond) ==
    {cond.lhs_col} \union (IF cond.is_rhs_val THEN {} ELSE {cond.rhs_col})

check_clause(tables, conds) ==
    [i \in DOMAIN conds |->
        [conds[i] EXCEPT !.lhs_col = check_column(tables, @),
                         !.rhs_col = IF conds[i].is_rhs_val
                                     THEN NoCol ELSE check_column(tables, @)]]

\* Every column the statement names, which Analyze or the planner looks up.
NamedCols(q) ==
    ToSet(q.cols)
        \union UNION {CondCols(c) : c \in ToSet(q.conds)}
        \union {o.col : o \in ToSet(q.order)}
        \union {g.col : g \in {h \in ToSet(q.aggs) : ~h.is_star}}

Acceptable(q) == \A c \in NamedCols(q) : Resolvable(q.tables, c)

\* do_analyze; the columns of ORDER BY and of the aggregates are resolved in
\* the same way by generate_sort_plan and generate_select_plan.
do_analyze(q) ==
    LET Fix(c) == check_column(q.tables, c)
    IN  [q EXCEPT !.cols = IF @ = <<>> /\ q.aggs = <<>> THEN get_all_cols(q.tables)
                           ELSE [i \in DOMAIN @ |-> Fix(@[i])],
                  !.conds = check_clause(q.tables, @),
                  !.order = [i \in DOMAIN @ |-> [@[i] EXCEPT !.col = Fix(@)]],
                  !.aggs = [i \in DOMAIN @ |->
                              IF @[i].is_star THEN @[i]
                              ELSE [@[i] EXCEPT !.col = Fix(@)]]]

-----------------------------------------------------------------------------
(***************************************************************************)
(* Scans.                                                                  *)
(***************************************************************************)

HasCond(tab, conds, col, ops) ==
    \E i \in DOMAIN conds :
        /\ conds[i].is_rhs_val
        /\ conds[i].lhs_col = [tab_name |-> tab, col_name |-> col]
        /\ conds[i].op \in ops

\* How many columns of an index the conditions use: the leading columns that
\* have an equality, and the next one when it has a range.
MatchedPrefix(tab, conds, index) ==
    Cardinality({n \in DOMAIN index :
        /\ \A i \in 1 .. n - 1 : HasCond(tab, conds, index[i], {"OP_EQ"})
        /\ HasCond(tab, conds, index[n], {"OP_EQ"} \union RangeOps)})

\* The index with the longest used prefix, the first such one; <<>> for none.
get_index_cols(tab, conds) ==
    LET Better(best, index) ==
            IF MatchedPrefix(tab, conds, index) > MatchedPrefix(tab, conds, best)
            THEN index ELSE best
    IN  FoldLeft(Better, <<>>, Indexes[tab])

\* pop_conds(conds, tab): the conditions this scan takes.  The second
\* disjunct does not look at tab: a comparison of two columns of one table,
\* whichever it is, goes to the first scan built.
Pops(cond, tab) ==
    \/ cond.lhs_col.tab_name = tab /\ cond.is_rhs_val
    \/ cond.lhs_col.tab_name = cond.rhs_col.tab_name

ScanPlan(tab, conds, index) ==
    [tag |-> IF index = <<>> THEN "T_SeqScan" ELSE "T_IndexScan",
     tab_name |-> tab, conds |-> conds, index |-> index]

TableScan(tab, conds) == ScanPlan(tab, conds, get_index_cols(tab, conds))

\* The loop of make_one_rel that builds one scan per table: the scans, and
\* the conditions no scan took.
TableScans(tables, conds) ==
    LET Step(s, tab) ==
            LET Taken(c) == Pops(c, tab)
                Kept(c) == ~Pops(c, tab)
            IN  [scans |-> Append(s.scans, TableScan(tab, SelectSeq(s.conds, Taken))),
                 conds |-> SelectSeq(s.conds, Kept)]
    IN  FoldLeft(Step, [scans |-> <<>>, conds |-> conds], tables)

-----------------------------------------------------------------------------
(***************************************************************************)
(* Joins.                                                                  *)
(***************************************************************************)

JoinPlan(left, right, conds) ==
    [tag |-> "T_NestLoop", left |-> left, right |-> right, conds |-> conds]

\* push_conds: hands a condition to the join whose two sides hold its two
\* columns.  res is 0 when the plan has neither column, 1 the left one, 2 the
\* right one, 3 when the condition was placed in the plan returned.
RECURSIVE push_conds(_, _)

PushResult(cond, plan, l, r) ==
    CASE l.res = 3 -> [res |-> 3, plan |-> [plan EXCEPT !.left = l.plan]]
      [] l.res # 3 /\ r.res = 3 -> [res |-> 3, plan |-> [plan EXCEPT !.right = r.plan]]
      [] l.res # 3 /\ r.res # 3 /\ 0 \in {l.res, r.res} ->
            [res |-> l.res + r.res, plan |-> plan]
      [] OTHER ->
            [res |-> 3,
             plan |-> [plan EXCEPT !.conds =
                          Append(@, IF l.res = 2 THEN Swapped(cond) ELSE cond)]]

push_conds(cond, plan) ==
    IF plan.tag = "T_NestLoop"
    THEN PushResult(cond, plan, push_conds(cond, plan.left), push_conds(cond, plan.right))
    ELSE [res |-> IF plan.tab_name = cond.lhs_col.tab_name THEN 1
                  ELSE IF plan.tab_name = cond.rhs_col.tab_name THEN 2 ELSE 0,
          plan |-> plan]

\* One round of the loop over the join conditions: joins the tables of the
\* condition that are not in the plan yet, or pushes it into the plan.
JoinStep(scan, s, cond) ==
    LET lhs == cond.lhs_col.tab_name
        rhs == cond.rhs_col.tab_name
        joined == s.joined \union {lhs, rhs}
    IN  CASE lhs \notin s.joined /\ rhs \notin s.joined ->
                [plan |-> JoinPlan(JoinPlan(scan[lhs], scan[rhs], <<cond>>), s.plan, <<>>),
                 joined |-> joined]
          [] lhs \notin s.joined /\ rhs \in s.joined ->
                [plan |-> JoinPlan(scan[lhs], s.plan, <<cond>>), joined |-> joined]
          [] lhs \in s.joined /\ rhs \notin s.joined ->
                [plan |-> JoinPlan(scan[rhs], s.plan, <<Swapped(cond)>>), joined |-> joined]
          [] OTHER ->
                [plan |-> push_conds(cond, s.plan).plan, joined |-> joined]

\* The first condition joins two scans, every further one takes a JoinStep;
\* without a condition the plan starts with the first table.
JoinByConds(tables, scan, conds) ==
    LET Step(s, cond) == JoinStep(scan, s, cond)
        Tabs(cond) == {cond.lhs_col.tab_name, cond.rhs_col.tab_name}
    IN  IF conds = <<>>
        THEN [plan |-> scan[tables[1]], joined |-> {tables[1]}]
        ELSE FoldLeft(Step,
                [plan |-> JoinPlan(scan[conds[1].lhs_col.tab_name],
                                   scan[conds[1].rhs_col.tab_name], <<conds[1]>>),
                 joined |-> Tabs(conds[1])],
                Tail(conds))

\* scantbl[i]: the scan at this place of the FROM list is in the plan.
\* pop_scan takes the first scan of the name.
FirstOf(tables, tab) == Min({i \in DOMAIN tables : tables[i] = tab})
Popped(tables, joined, i) == tables[i] \in joined /\ i = FirstOf(tables, tables[i])

\* The scans that are not in the plan yet, in the order of the FROM list.
JoinRest(tables, scans, s) ==
    LET AddRest(plan, i) ==
            IF Popped(tables, s.joined, i) THEN plan ELSE JoinPlan(scans[i], plan, <<>>)
    IN  FoldLeft(AddRest, s.plan, [i \in DOMAIN tables |-> i])

ScanOf(tables, scans) == [tab \in ToSet(tables) |-> scans[FirstOf(tables, tab)]]

JoinScans(tables, t) ==
    JoinRest(tables, t.scans, JoinByConds(tables, ScanOf(tables, t.scans), t.conds))

make_one_rel(q) == JoinScans(q.tables, TableScans(q.tables, q.conds))

-----------------------------------------------------------------------------
(***************************************************************************)
(* The unary operators on top.                                             *)
(***************************************************************************)

SortOrLimit(q, rel) ==
    CASE q.order # <<>> ->
            [tag |-> "T_Sort", sub |-> rel, order |-> q.order, limit |-> q.limit]
      [] q.order = <<>> /\ q.limit >= 0 ->
            [tag |-> "T_Limit", sub |-> rel, limit |-> q.limit]
      [] OTHER -> rel

physical_optimization(q) == SortOrLimit(q, make_one_rel(q))

AggregateOrProject(q, sub) ==
    IF q.aggs # <<>> THEN [tag |-> "T_Aggregate", sub |-> sub, aggs |-> q.aggs]
    ELSE [tag |-> "T_Projection", sub |-> sub, cols |-> q.cols]

generate_select_plan(q) == AggregateOrProject(q, physical_optimization(q))

=============================================================================
