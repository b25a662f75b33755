------------------------------- MODULE MCQuery -------------------------------
(* Four tables and the statements over them, for TLC. *)
EXTENDS Query

Col(t, c) == [tab_name |-> t, col_name |-> c]

MCTabCols == [a |-> <<"x", "y">>, b |-> <<"x", "y">>, c |-> <<"x", "z">>, d |-> <<"w">>]
MCIndexes == [a |-> <<>>, b |-> << <<"x">>, <<"y", "x">> >>, c |-> << <<"x", "z">> >>,
              d |-> <<>>]

\* A table from the values of its rows.
Table(t, rows) ==
    [i \in DOMAIN rows |->
        [col \in {Col(t, name) : name \in ToSet(MCTabCols[t])} |->
            rows[i][CHOOSE j \in DOMAIN rows[i] : MCTabCols[t][j] = col.col_name]]]

\* b.x is unique, as its index requires.
Full == [a |-> Table("a", << <<2, 1>>, <<1, 1>>, <<2, 3>> >>),
         b |-> Table("b", << <<2, 1>>, <<3, 1>>, <<1, 2>> >>),
         c |-> Table("c", << <<2, 2>>, <<1, 1>> >>),
         d |-> Table("d", << <<1>>, <<2>> >>)]
\* The extreme values of an int of four bits, and sums that leave it.
Wide == [Full EXCEPT !.a = Table("a", << <<5, 1>>, <<6, 1>>, <<-8, 7>> >>),
                     !.b = Table("b", << <<7, 1>>, <<-8, 2>> >>)]
MCDatabases ==
    {Full, Wide, [Full EXCEPT !.a = <<>>],
     [Full EXCEPT !.b = Table("b", << <<3, 3>> >>), !.c = <<>>]}

CC(l, op, r) == [lhs_col |-> l, op |-> op, is_rhs_val |-> FALSE, rhs_val |-> 0, rhs_col |-> r]
CV(l, op, v) == [lhs_col |-> l, op |-> op, is_rhs_val |-> TRUE, rhs_val |-> v, rhs_col |-> NoCol]

JoinConds ==
    {CC(Col("a", "x"), "OP_EQ", Col("b", "x")), CC(Col("b", "y"), "OP_LE", Col("c", "x")),
     CC(Col("c", "x"), "OP_LT", Col("a", "y")), CC(Col("b", "x"), "OP_NE", Col("a", "y"))}
\* Pairs of tables whose joins meet only later: a-b, c-d, then b-c.
ChainConds ==
    {CC(Col("a", "x"), "OP_EQ", Col("b", "x")), CC(Col("d", "w"), "OP_GE", Col("c", "x")),
     CC(Col("c", "z"), "OP_LE", Col("b", "y"))}
ValueConds ==
    {CV(Col("b", "x"), "OP_GE", 3), CV(Col("b", "x"), "OP_LE", 1), CV(Col("b", "y"), "OP_EQ", 1),
     CV(Col("c", "x"), "OP_EQ", 1), CV(Col("", "z"), "OP_GT", 1)}
TableConds ==
    {CC(Col("a", "x"), "OP_GE", Col("a", "y")), CC(Col("b", "x"), "OP_GT", Col("b", "y"))}

UpTo(S, n) == UNION {[1 .. k -> S] : k \in 0 .. n}

\* The conditions over the tables of a FROM list.
Over(tables, S) ==
    {c \in S : \A col \in CondCols(c) : col.tab_name \in ToSet(tables) \union {""}}

Base(tables, conds) ==
    [tables |-> tables, conds |-> conds, cols |-> <<>>, order |-> <<>>,
     limit |-> -1, aggs |-> <<>>]

Where == JoinConds \union ValueConds \union TableConds

\* Scans and joins under up to three conditions in every order.
Joins ==
    {Base(<<"a", "b", "c">>, conds) : conds \in UpTo(JoinConds, 3)}
        \union {Base(<<"d", "a", "b", "c">>, conds) :
                    conds \in {s \in UpTo(ChainConds, 3) : Len(s) >= 2}}
        \union UNION {{Base(t, conds) : conds \in UpTo(Over(t, Where), 2)} :
                         t \in {<<"c">>, <<"c", "a", "b">>}}
        \union UNION {{Base(t, conds) : conds \in UpTo(Over(t, Where), 3)} :
                         t \in {<<"b">>, <<"b", "a">>}}

Orders ==
    {<<[col |-> Col("b", "y"), desc |-> FALSE], [col |-> Col("b", "x"), desc |-> TRUE]>>,
     <<[col |-> Col("", "y"), desc |-> TRUE]>>}

Ordered ==
    {[Base(t, conds) EXCEPT !.order = o, !.limit = n] :
        t \in {<<"b">>, <<"b", "a">>}, conds \in UpTo(ValueConds, 1), o \in Orders,
        n \in {-1, 0, 2}}

Limited ==
    {[Base(t, <<>>) EXCEPT !.cols = <<Col("a", "y")>>, !.limit = n] :
        t \in {<<"a">>, <<"a", "c">>}, n \in 0 .. 4}

Aggregates ==
    {[Base(<<"a", "b">>, conds) EXCEPT !.aggs =
        <<[func |-> "COUNT", is_star |-> TRUE, col |-> NoCol],
          [func |-> "SUM", is_star |-> FALSE, col |-> Col("a", "x")],
          [func |-> "MIN", is_star |-> FALSE, col |-> Col("b", "y")],
          [func |-> "MAX", is_star |-> FALSE, col |-> Col("a", "y")]>>] :
        conds \in UpTo(Over(<<"a", "b">>, JoinConds \union ValueConds), 2)}

\* A table named twice: the name of a column without its table is ambiguous.
Twice ==
    {[Base(t, conds) EXCEPT !.cols = cols] :
        t \in {<<"a", "a">>, <<"a", "b", "a">>},
        conds \in UpTo({CV(Col("a", "x"), "OP_GE", 2), CC(Col("a", "x"), "OP_EQ", Col("b", "x")),
                        CC(Col("a", "x"), "OP_GE", Col("a", "y"))}, 2),
        cols \in {<<>>, <<Col("a", "y")>>, <<Col("", "y")>>}}

MCQueries == Joins \union Twice \union Ordered \union Limited \union Aggregates

=============================================================================
