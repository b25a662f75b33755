------------------------------ MODULE MCParser ------------------------------
(***************************************************************************)
(* Every kind of statement with up to two elements in each of its lists,   *)
(* then texts that no tree has: statements that lack a lexeme or have one  *)
(* too many, comments that are never closed, and literals on both sides of *)
(* the widths.                                                             *)
(***************************************************************************)
EXTENDS Parser

UpTo2(S) == {<<x>> : x \in S} \cup S \X S

MCCol == {Col(0, 1), Col(1, 2)}
MCLit == {Lit("VALUE_INT", 3), Lit("VALUE_FLOAT", 1), Lit("VALUE_STRING", 2)}
MCType == {TypeLen("INT", 4), TypeLen("BIGINT", 8), TypeLen("FLOAT", 4),
           TypeLen("DATETIME", 8), TypeLen("CHAR", 3)}
MCCond == {BinaryExpr(Col(0, 1), op, Lit("VALUE_INT", 3)) :
               op \in {"=", "<", ">", "NEQ", "LEQ", "GEQ"}}
            \cup {BinaryExpr(Col(1, 2), "=", Col(0, 1))}
Conds == {<<>>, <<BinaryExpr(Col(0, 1), "=", Lit("VALUE_INT", 3))>>,
          <<BinaryExpr(Col(0, 1), "<", Col(1, 2)),
            BinaryExpr(Col(1, 2), "GEQ", Lit("VALUE_STRING", 2))>>}
Orders == {Null, OrderBy(<<OrderByItem(Col(0, 1), "DEFAULT")>>),
           OrderBy(<<OrderByItem(Col(1, 2), "DESC"), OrderByItem(Col(0, 1), "ASC")>>)}
Selectors == {<<>>, <<AggFunc("COUNT", Null, 2, TRUE)>>}
               \cup {<<AggFunc(f, Col(1, 2), 1, FALSE)>> : f \in {"COUNT", "MAX", "MIN", "SUM"}}
               \cup {<<Col(0, 1)>>, <<Col(1, 2), Col(0, 1)>>}

Trees ==
    {Bare(k) : k \in {"Help", "ShowTables", "TXN_BEGIN", "TXN_COMMIT", "TXN_ABORT",
                      "TXN_ROLLBACK"}}
      \cup {OnTable(k, 1) : k \in {"ShowIndex", "DropTable", "DescTable"}}
      \cup {OnIndex(k, 1, cs) : k \in {"CreateIndex", "DropIndex"}, cs \in UpTo2({1, 2})}
      \cup {CreateTable(1, fs) : fs \in UpTo2({ColDef(2, t) : t \in MCType})}
      \cup {InsertStmt(2, vs) : vs \in UpTo2(MCLit)}
      \cup {DeleteStmt(1, cs) : cs \in {<<>>} \cup UpTo2(MCCond)}
      \cup {UpdateStmt(1, ss, cs) : ss \in UpTo2({SetClause(2, v) : v \in MCLit}), cs \in Conds}
      \cup {SelectStmt(c, t, w, o, l) : c \in Selectors, t \in {<<2>>, <<1, 2>>}, w \in Conds,
                                        o \in Orders, l \in {-1, 5}}

Sample ==
    {CreateTable(1, <<ColDef(1, TypeLen("BIGINT", 8)), ColDef(2, TypeLen("CHAR", 3)),
                      ColDef(1, TypeLen("INT", 4)), ColDef(2, TypeLen("DATETIME", 8)),
                      ColDef(2, TypeLen("FLOAT", 4))>>),
     InsertStmt(1, <<Lit("VALUE_INT", 3), Lit("VALUE_STRING", 2)>>),
     OnIndex("DropIndex", 1, <<1, 2, 1>>),
     UpdateStmt(1, <<SetClause(1, Lit("VALUE_INT", 3)), SetClause(2, Lit("VALUE_FLOAT", 1))>>,
                <<BinaryExpr(Col(0, 1), "=", Col(1, 2)), BinaryExpr(Col(0, 2), ">", Col(1, 1))>>),
     SelectStmt(<<AggFunc("COUNT", Null, 2, TRUE)>>, <<1, 2>>,
                <<BinaryExpr(Col(1, 1), "NEQ", Lit("VALUE_INT", 3))>>,
                OrderBy(<<OrderByItem(Col(0, 2), "DESC")>>), 5),
     Bare("Help"), Bare("TXN_COMMIT")}

Noise == Words(<<"/*", "SELECT", ";", "*/", "--", "FROM", "newline", "other">>)
Extra == Words(<<"/*", "*/", "--", "JOIN", ";", "WHERE", "BIGINT">>)
Numbers == {-33, -1, 0, 8, 15, 31, 32}

\* A table for each type, and one with two columns.
MCColumns ==
    [t \in 1 .. 6 |-> CASE t = 1 -> <<[name |-> 1, type |-> "INT", len |-> 4],
                                      [name |-> 2, type |-> "CHAR", len |-> 3]>>
                      [] t = 2 -> <<[name |-> 2, type |-> "BIGINT", len |-> 8]>>
                      [] t = 3 -> <<[name |-> 2, type |-> "INT", len |-> 4]>>
                      [] t = 4 -> <<[name |-> 2, type |-> "FLOAT", len |-> 4]>>
                      [] t = 5 -> <<[name |-> 2, type |-> "CHAR", len |-> 3]>>
                      [] t = 6 -> <<[name |-> 2, type |-> "DATETIME", len |-> 8]>>]

\* Strings 1 to 4 are as long as they say; the rest are dates in and out of
\* the calendar.
MCDateOf ==
    [s \in 5 .. 15 |->
        <<<<2000, 2, 29, 0, 0, 0>>, <<1900, 2, 29, 0, 0, 0>>, <<2023, 2, 28, 23, 59, 59>>,
          <<2023, 2, 29, 1, 2, 3>>, <<2024, 12, 31, 12, 30, 9>>, <<2024, 4, 31, 0, 0, 0>>,
          <<2024, 13, 1, 0, 0, 0>>, <<2024, 1, 0, 0, 0, 0>>, <<999, 1, 1, 0, 0, 0>>,
          <<2024, 1, 1, 24, 0, 0>>, <<9999, 10, 10, 10, 60, 10>>>>[s - 4]]
MCSizeOf == [s \in 1 .. 15 |-> IF s < 5 THEN s ELSE 19]

Literals == {Lit("VALUE_INT", n) : n \in {-32, -9, -8, 0, 7, 8, 15, 16, 17, 19, 31}}
              \cup {Lit("VALUE_FLOAT", 1)} \cup {Lit("VALUE_STRING", s) : s \in 1 .. 15}
Stores == {InsertStmt(t, <<v>>) : t \in 2 .. 6, v \in Literals}
            \cup {UpdateStmt(t, <<SetClause(2, v)>>, <<BinaryExpr(Col(0, 2), "<", v)>>) :
                     t \in 2 .. 6, v \in {Lit("VALUE_INT", 8), Lit("VALUE_STRING", 9)}}

\* Floats and numbers between them, with decimals that are printed and others.
Units == {-66, -33, -1, 0, 3, 33, 63, 66, 69, 96, 97}
FloatStores ==
    {[text |-> Unparse(InsertStmt(t, <<Lit("VALUE_FLOAT", n)>>)),
      tree |-> InsertStmt(t, <<Lit("VALUE_FLOAT", ToFloat(n))>>)] : t \in 2 .. 6, n \in Units}

Damaged(text) ==
    {RemoveAt(text, i) : i \in DOMAIN text}
      \cup {InsertAt(text, i, Extra[x]) : i \in 1 .. Len(text) + 1, x \in DOMAIN Extra}
      \cup {[text EXCEPT ![i][2] = n] :
               i \in {j \in DOMAIN text : text[j][1] = "VALUE_INT"}, n \in Numbers}

MCRequest ==
    {[text |-> Unparse(t), tree |-> t] : t \in Trees \cup Sample \cup Stores}
      \cup FloatStores
      \cup {[text |-> Noise \o Unparse(t), tree |-> t] : t \in Sample}
      \cup {[text |-> <<Head(Unparse(t))>> \o Noise \o Tail(Unparse(t)),
             tree |-> t] : t \in Sample \ {Bare("Help")}}
      \cup {[text |-> x, tree |-> Null] : x \in UNION {Damaged(Unparse(t)) : t \in Sample}}
      \cup {[text |-> x, tree |-> Null] :
              x \in {<<>>, Words(<<"EXIT">>), Words(<<"--", "EXIT">>), Noise,
                     Words(<<"SELECT", "COUNT", "(", ")", "AS">>) \o Name(1)
                       \o Word("FROM") \o Name(1) \o Word("JOIN") \o Name(2) \o Word(";")}}
=============================================================================
