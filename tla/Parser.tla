------------------------------- MODULE Parser -------------------------------
(***************************************************************************)
(* From the text of a request to its syntax tree and the analysed query:   *)
(* the rules of lex.yy.cpp, the automaton and the semantic actions of      *)
(* yacc.tab.cpp, what of them outlives a request, and do_analyze           *)
(* (Analyze) on the tree.                                                  *)
(*                                                                         *)
(* The text is a sequence of lexemes.  yyparse takes its steps one by one: *)
(* a lexeme scanned, a token shifted, a rule reduced.  A semantic value is *)
(* the struct SemValue: all its members are copied by a shift or a         *)
(* reduction, so it is a function on the members that were ever set.  The  *)
(* value stack keeps what lies above its top, which a rule without symbols *)
(* takes for its value.                                                    *)
(***************************************************************************)
EXTENDS Analyze, ParserTables, TLC

CONSTANT Request  \* requests: a text, and the tree it was written for, or Null

VARIABLES
    pc,         \* "idle", "parse", "done", "analysed"
    request,    \* the request that is parsed
    rest,       \* lexemes of its text that have not been scanned
    yy_start,   \* the start condition, a static variable of the scanner
    yychar,     \* the lookahead token, or YYEMPTY
    yylval,     \* its semantic value
    yyss,       \* the state stack
    yyvs,       \* the value stack, with what is left above its top
    yyresult,   \* what yyparse returns
    parse_tree, scanner_int_out_of_range, scanner_last_type,
    began,      \* history: yy_start when the request arrived
    heard       \* history: the lexemes that were made into tokens

globals == <<parse_tree, scanner_int_out_of_range, scanner_last_type>>
scanVars == <<rest, yy_start, yychar, yylval, heard>>
vars == <<pc, request, scanVars, yyss, yyvs, yyresult, globals, began, query>>

YYEMPTY == -2
Narrow(n) == ((n + IntMax + 1) % (2 * (IntMax + 1))) - IntMax - 1
Accepted == yyresult = 0 /\ ~scanner_int_out_of_range

-----------------------------------------------------------------------------
(* The scanner.                                                            *)

YYTRANSLATE(token) == (CHOOSE i \in DOMAIN yytname : yytname[i] = token) - 1

TypeWord == {"INT", "BIGINT", "CHAR", "FLOAT", "DATETIME"}

\* Two type names are told from two others by scanner_last_type only.
TokenOf(word) ==
    CASE word = "BIGINT" -> "INT" [] word = "DATETIME" -> "FLOAT" [] OTHER -> word

\* Faulty variant: INT leaves scanner_last_type as it is.
LastTypeNotInt(word) ==
    IF word \in TypeWord \ {"INT"} THEN word ELSE scanner_last_type

LastType(word) == IF word \in TypeWord THEN word ELSE scanner_last_type

Member(v, name, value) == (name :> value) @@ v

\* A number that does not fit gives the nearest that does, and errno.
strtoll(n) == IF n > Int64Max THEN Int64Max ELSE IF n < -Int64Max - 1 THEN -Int64Max - 1 ELSE n

\* A lexeme becomes the lookahead token.  sv_float takes the double of atof.
Token(lexeme) ==
    LET word == lexeme[1]
        val == lexeme[2]
    IN
    /\ yychar' = YYTRANSLATE(TokenOf(word))
    /\ scanner_last_type' = LastType(word)
    /\ scanner_int_out_of_range' =
          (scanner_int_out_of_range \/ (word = "VALUE_INT" /\ val # strtoll(val)))
    /\ yylval' = CASE word \in {"IDENTIFIER", "VALUE_STRING"} -> Member(yylval, "str", val)
                   [] word = "VALUE_INT" -> Member(yylval, "int", strtoll(val))
                   [] word = "VALUE_FLOAT" -> Member(yylval, "float", ToFloat(val))
                   [] OTHER -> yylval
    /\ heard' = IF word = "T_EOF" THEN heard ELSE Append(heard, lexeme)

NoToken == UNCHANGED <<yychar, yylval, heard, scanner_last_type, scanner_int_out_of_range>>

\* Faulty variant: a comment that starts with -- ends with the text.
NextLineNever(text) == <<>>

\* What follows the end of the line.
NextLine(text) ==
    LET ends == {i \in DOMAIN text : text[i][1] = "newline"}
    IN IF ends = {} THEN <<>>
       ELSE SubSeq(text, CHOOSE i \in ends : \A j \in ends : i <= j, Len(text))

\* In a block comment everything is skipped but its end.
ScanComment ==
    /\ yy_start' = IF Head(rest)[1] = "*/" THEN "INITIAL" ELSE "STATE_COMMENT"
    /\ rest' = Tail(rest)
    /\ NoToken

\* "*/" outside a comment is the operator * and a character that is skipped.
ScanInitial ==
    LET word == Head(rest)[1] IN
    /\ yy_start' = IF word = "/*" THEN "STATE_COMMENT" ELSE "INITIAL"
    /\ rest' = IF word = "--" THEN NextLine(rest) ELSE Tail(rest)
    /\ IF word \in {"/*", "--", "newline", "other"} THEN NoToken
       ELSE Token(IF word = "*/" THEN <<"*", 0>> ELSE Head(rest))

\* At the end of the text T_EOF, in a comment as well.
ScanEof == Token(<<"T_EOF", 0>>) /\ UNCHANGED <<rest, yy_start>>

\* A new buffer over the text; the start condition is left as it is.
yy_scan_string(text) == rest' = text /\ UNCHANGED yy_start

-----------------------------------------------------------------------------
(* Semantic actions.  s holds $1, $2, ..., and v the default of $$.        *)

\* A member that was never set: an empty vector, or a null pointer.
Get(v, name) ==
    IF name \in DOMAIN v THEN v[name]
    ELSE IF name \in {"conds", "cols", "strs", "fields", "vals"} THEN <<>> ELSE Null

\* SHOW, the transactions, DDL
StatementAction(n, s) ==
    LET name(i) == Get(s[i], "str") IN
    CASE n \in 10 .. 13 ->
            Bare(<<"TXN_BEGIN", "TXN_COMMIT", "TXN_ABORT", "TXN_ROLLBACK">>[n - 9])
      [] n = 14 -> Bare("ShowTables")
      [] n = 15 -> OnTable("ShowIndex", name(4))
      [] n = 16 -> CreateTable(name(3), Get(s[5], "fields"))
      [] n = 17 -> OnTable("DropTable", name(3))
      [] n = 18 -> OnTable("DescTable", name(2))
      [] n = 19 -> OnIndex("CreateIndex", name(3), Get(s[5], "strs"))
      [] n = 20 -> OnIndex("DropIndex", name(3), Get(s[5], "strs"))

\* INSERT, DELETE, UPDATE, SELECT
DmlAction(n, s) ==
    CASE n = 21 -> InsertStmt(Get(s[3], "str"), Get(s[6], "vals"))
      [] n = 22 -> DeleteStmt(Get(s[3], "str"), Get(s[4], "conds"))
      [] n = 23 -> UpdateStmt(Get(s[2], "str"), Get(s[4], "set_clauses"), Get(s[5], "conds"))
      [] n = 24 -> SelectStmt(Get(s[2], "cols"), Get(s[4], "strs"), Get(s[5], "conds"),
                              Get(s[6], "orderby"), Narrow(Get(s[7], "int")))

\* For the two or three rules of a list: its member, and the member of an
\* element.
ListMembers ==
    [n \in 25 .. 26 |-> <<"fields", "field">>] @@ [n \in 27 .. 28 |-> <<"strs", "str">>]
      @@ [n \in 33 .. 34 |-> <<"vals", "val">>] @@ [n \in 41 .. 42 |-> <<"conds", "cond">>]
      @@ [n \in 45 .. 46 |-> <<"cols", "col">>]
      @@ [n \in 55 .. 56 |-> <<"set_clauses", "set_clause">>]
      @@ [n \in 66 .. 68 |-> <<"strs", "str">>]
      @@ [n \in 71 .. 72 |-> <<"orderby_items", "orderby_item">>]

\* A vector of one element, or push_back.
ListAction(n, s, v) ==
    LET list == ListMembers[n][1]
        elem == ListMembers[n][2]
    IN Member(v, list, IF Len(s) = 1 THEN <<Get(s[1], elem)>>
                       ELSE Append(Get(v, list), Get(s[3], elem)))

\* A column definition and its type, told by scanner_last_type.
FieldAction(n, s, v) ==
    CASE n = 29 -> Member(v, "field", ColDef(Get(s[1], "str"), Get(s[2], "type_len")))
      [] n = 30 -> Member(v, "type_len", IF scanner_last_type = "BIGINT" THEN TypeLen("BIGINT", 8)
                                         ELSE TypeLen("INT", 4))
      [] n = 31 -> Member(v, "type_len", TypeLen("CHAR", Narrow(Get(s[3], "int"))))
      [] n = 32 -> Member(v, "type_len",
                          IF scanner_last_type = "DATETIME" THEN TypeLen("DATETIME", 8)
                          ELSE TypeLen("FLOAT", 4))

\* Literals, columns, operators, conditions, assignments
ExprAction(n, s, v) ==
    CASE n = 35 -> Member(v, "val", Lit("VALUE_INT", Get(s[1], "int")))
      [] n = 36 -> Member(v, "val", Lit("VALUE_FLOAT", Get(s[1], "float")))
      [] n = 37 -> Member(v, "val", Lit("VALUE_STRING", Get(s[1], "str")))
      [] n = 38 -> Member(v, "cond", BinaryExpr(Get(s[1], "col"), Get(s[2], "comp_op"),
                                                Get(s[3], "expr")))
      [] n = 43 -> Member(v, "col", Col(Get(s[1], "str"), Get(s[3], "str")))
      [] n = 44 -> Member(v, "col", Col(0, Get(s[1], "str")))
      [] n \in 47 .. 52 ->
            Member(v, "comp_op", <<"=", "<", ">", "NEQ", "LEQ", "GEQ">>[n - 46])
      [] n = 53 -> Member(v, "expr", Get(s[1], "val"))
      [] n = 54 -> Member(v, "expr", Get(s[1], "col"))
      [] n = 57 -> Member(v, "set_clause", SetClause(Get(s[1], "str"), Get(s[3], "val")))

\* The selector: *, or one aggregate function.
SelectorAction(n, s, v) ==
    LET agg(func_type, col, alias, is_star) ==
            Member(v, "cols", <<AggFunc(func_type, col, alias, is_star)>>)
    IN
    CASE n = 58 -> Member(v, "cols", <<>>)
      [] n = 59 -> agg("COUNT", Null, Get(s[6], "str"), TRUE)
      [] n = 60 -> agg("COUNT", Null, Get(s[5], "str"), TRUE)
      [] n \in 61 .. 64 -> agg(<<"COUNT", "MAX", "MIN", "SUM">>[n - 60], Get(s[3], "col"),
                               Get(s[6], "str"), FALSE)

\* WHERE, ORDER BY, LIMIT
ClauseAction(n, s, v) ==
    CASE n = 40 -> Member(v, "conds", Get(s[2], "conds"))
      [] n = 69 -> Member(v, "orderby", OrderBy(Get(s[3], "orderby_items")))
      [] n = 73 -> Member(v, "orderby_item", OrderByItem(Get(s[1], "col"),
                                                         Get(s[2], "orderby_dir")))
      [] n \in 74 .. 76 -> Member(v, "orderby_dir", <<"ASC", "DESC", "DEFAULT">>[n - 73])
      [] n = 77 -> Member(v, "int", Get(s[2], "int"))
      [] n = 78 -> Member(v, "int", -1)

\* The rules without an action keep the default: $1, or for the two empty
\* clauses, optWhereClause and opt_order_clause, what lies above the stack.
Action(n, s, v) ==
    CASE n \in 10 .. 20 -> Member(v, "node", StatementAction(n, s))
      [] n \in 21 .. 24 -> Member(v, "node", DmlAction(n, s))
      [] n \in DOMAIN ListMembers -> ListAction(n, s, v)
      [] n \in 29 .. 32 -> FieldAction(n, s, v)
      [] n \in {35, 36, 37, 38, 43, 44, 47, 48, 49, 50, 51, 52, 53, 54, 57} -> ExprAction(n, s, v)
      [] n \in 58 .. 64 -> SelectorAction(n, s, v)
      [] n \in {40, 69, 73, 74, 75, 76, 77, 78} -> ClauseAction(n, s, v)
      [] n \in {6, 7, 8, 9, 39, 65, 70, 79, 80} -> v

-----------------------------------------------------------------------------
(* The automaton.                                                          *)

yystate == Last(yyss)

\* Entry n of yytable, if it belongs to the token or state x.
Applies(n, x) == n \in 0 .. YYLAST /\ yycheck[n + 1] = x

Consistent == yypact[yystate + 1] = YYPACT_NINF
Entry == yypact[yystate + 1] + yychar
Explicit == ~Consistent /\ yychar # YYEMPTY /\ Applies(Entry, yychar)

\* The slots above the top keep their values.
Push(stack, depth, v) ==
    IF depth < Len(stack) THEN [stack EXCEPT ![depth + 1] = v] ELSE Append(stack, v)

\* yybackup needs a token: yylex takes the next lexeme.
Scan ==
    /\ pc = "parse"
    /\ ~Consistent /\ yychar = YYEMPTY
    /\ IF rest = <<>> THEN ScanEof
       ELSE IF yy_start = "STATE_COMMENT" THEN ScanComment ELSE ScanInitial
    /\ UNCHANGED <<pc, request, yyss, yyvs, yyresult, parse_tree, began, query>>

Shift ==
    /\ pc = "parse"
    /\ Explicit /\ yytable[Entry + 1] > 0
    /\ yyss' = Append(yyss, yytable[Entry + 1])
    /\ yyvs' = Push(yyvs, Len(yyss) - 1, yylval)
    /\ yychar' = YYEMPTY
    /\ UNCHANGED <<pc, request, rest, yy_start, yylval, heard, yyresult, globals, began, query>>

Goto(state, lhs) ==
    LET n == yypgoto[lhs + 1] + state
    IN IF Applies(n, state) THEN yytable[n + 1] ELSE yydefgoto[lhs + 1]

\* The rule to reduce by, 0 for an error.
Rule == IF Explicit THEN -yytable[Entry + 1] ELSE yydefact[yystate + 1]
Decided == Consistent \/ yychar # YYEMPTY

\* The symbols of the rule are replaced by its left-hand side.
ReduceBy(n, len) ==
    \E depth \in {Len(yyss) - 1 - len} :
    \E v \in {IF depth < Len(yyvs) THEN yyvs[depth + 1] ELSE <<>>} :
        /\ yyvs' = Push(yyvs, depth, Action(n, SubSeq(yyvs, depth + 1, depth + len), v))
        /\ yyss' = Append(SubSeq(yyss, 1, depth + 1),
                          Goto(yyss[depth + 1], yyr1[n + 1] - YYNTOKENS))

Reduce ==
    /\ pc = "parse"
    /\ Decided
    /\ \E n \in {Rule} : n > 5 /\ ReduceBy(n, yyr2[n + 1])
    /\ UNCHANGED <<pc, request, scanVars, yyresult, globals, began, query>>

\* A rule of start: YYACCEPT, with the text behind it not scanned.
Accept ==
    /\ pc = "parse"
    /\ Decided
    /\ Rule \in 2 .. 5
    /\ parse_tree' = CASE Rule = 2 -> Get(yyvs[Len(yyss) - 2], "node")
                       [] Rule = 3 -> Bare("Help")
                       [] OTHER -> Null
    /\ yyresult' = 0
    /\ pc' = "done"
    /\ UNCHANGED <<request, scanVars, yyss, yyvs, scanner_int_out_of_range, scanner_last_type,
                   began, query>>

\* No state shifts the error token: the stack is popped to its bottom.
Error ==
    /\ pc = "parse"
    /\ Decided
    /\ Rule = 0
    /\ yyresult' = 1
    /\ pc' = "done"
    /\ UNCHANGED <<request, scanVars, yyss, yyvs, globals, began, query>>

-----------------------------------------------------------------------------
(* client_handler.                                                         *)

\* Faulty variant: the flag of the previous request is left set.
ReceiveFlagKept(r) ==
    /\ pc = "idle"
    /\ pc' = "parse"
    /\ request' = r
    /\ parse_tree' = Null
    /\ scanner_last_type' = "INT"
    /\ yy_scan_string(r.text)
    /\ began' = yy_start
    /\ UNCHANGED <<yychar, yylval, heard, yyss, yyvs, yyresult, scanner_int_out_of_range, query>>

\* The globals are reset before the text is parsed.
Receive(r) ==
    /\ pc = "idle"
    /\ pc' = "parse"
    /\ request' = r
    /\ parse_tree' = Null
    /\ scanner_int_out_of_range' = FALSE
    /\ scanner_last_type' = "INT"
    /\ yy_scan_string(r.text)
    /\ began' = yy_start
    /\ UNCHANGED <<yychar, yylval, heard, yyss, yyvs, yyresult, query>>

\* The tree of a statement that changes records is analysed; the other trees
\* are not changed by do_analyze, or are in module Planner.
Analysable ==
    /\ Accepted /\ parse_tree # Null
    /\ parse_tree.node \in {"InsertStmt", "UpdateStmt", "DeleteStmt"}

Analyse ==
    /\ pc = "done" /\ Analysable
    /\ query' = do_analyze(parse_tree)
    /\ pc' = "analysed"
    /\ UNCHANGED <<request, scanVars, yyss, yyvs, yyresult, globals, began>>

\* The request has its answer and the buffer is deleted.  The stacks were
\* locals of yyparse, and the tree is not read again.
Release ==
    /\ \/ pc = "analysed"
       \/ pc = "done" /\ ~Analysable
    /\ pc' = "idle"
    /\ request' = Null /\ rest' = <<>> /\ heard' = <<>>
    /\ yychar' = YYEMPTY /\ yylval' = <<>>
    /\ yyss' = <<0>> /\ yyvs' = <<>>
    /\ yyresult' = 0
    /\ parse_tree' = Null /\ query' = Null
    /\ began' = "INITIAL"
    /\ UNCHANGED <<yy_start, scanner_int_out_of_range, scanner_last_type>>

Init ==
    /\ pc = "idle"
    /\ request = Null /\ rest = <<>> /\ heard = <<>>
    /\ yy_start = "INITIAL" /\ began = "INITIAL"
    /\ yychar = YYEMPTY /\ yylval = <<>>
    /\ yyss = <<0>> /\ yyvs = <<>>
    /\ yyresult = 0
    /\ parse_tree = Null /\ query = Null
    /\ scanner_int_out_of_range = FALSE
    /\ scanner_last_type = "INT"

Next ==
    \/ \E r \in Request : Receive(r)
    \/ Scan \/ Shift \/ Reduce \/ Accept \/ Error \/ Analyse \/ Release

Spec == Init /\ [][Next]_vars

-----------------------------------------------------------------------------
(* Properties.                                                             *)

\* JOIN is another comma, COUNT() another COUNT(*), and a float literal says
\* the nearest float.
Plain(text) ==
    LET meant(x) == CASE x[1] = "JOIN" -> <<",", 0>>
                      [] x[1] = "VALUE_FLOAT" -> <<x[1], ToFloat(x[2])>>
                      [] OTHER -> x
        starred == FoldLeft(LAMBDA acc, x :
                        IF x[1] = ")" /\ acc # <<>> /\ Len(acc) > 1 /\ Last(acc)[1] = "("
                             /\ acc[Len(acc) - 1][1] = "COUNT"
                        THEN acc \o <<<<"*", 0>>, x>> ELSE Append(acc, x), <<>>, text)
    IN [i \in DOMAIN starred |-> meant(starred[i])]

\* The literal of a LIMIT or CHAR goes into an int, and LIMIT -1 is no limit.
NarrowLiteral(text) ==
    \E i \in 2 .. Len(text) :
        /\ text[i][1] = "VALUE_INT" /\ text[i][2] \notin 0 .. IntMax
        /\ \/ text[i - 1][1] = "LIMIT"
           \/ i > 2 /\ text[i - 2][1] = "CHAR" /\ text[i - 1][1] = "("

\* The tree of an accepted request says what its text says: its own text is
\* the text that was read, up to the semicolon.  No condition, order or name
\* is lost, invented or left over from another part of the statement, types
\* are the ones written, and a literal that no int64_t holds is refused.  Out
\* of it stays a LIMIT or a length that no int holds: it is taken modulo.
ParsedAsWrittenUnlessNarrowed ==
    pc = "done" /\ Accepted /\ parse_tree # Null =>
        \/ Plain(heard) = Unparse(parse_tree)
        \/ NarrowLiteral(heard)

\* The text of a statement, with any closed comments in it, is accepted and
\* gives back its tree, whatever requests came before, unless the last of them
\* left a comment open.
WrittenIsParsed ==
    pc = "done" /\ request.tree # Null /\ began = "INITIAL" =>
        Accepted /\ parse_tree = request.tree

\* Lexeme i stands between /* and */, or behind -- in its line.
Commented(text, i) ==
    \E j \in 1 .. i :
        \/ text[j][1] = "/*" /\ \A k \in j .. i - 1 : text[k][1] # "*/"
        \/ text[j][1] = "--" /\ \A k \in j .. i : text[k][1] # "newline"

\* A request that is not refused and yet not executed, so that its client gets
\* an empty answer, is EXIT, or it has no word outside comments, or an earlier
\* one left a comment open.
SilentOnlyIfBlank ==
    pc = "done" /\ Accepted /\ parse_tree = Null =>
        \/ began = "STATE_COMMENT"
        \/ Len(heard) = 1 /\ heard[1][1] = "EXIT"
        \/ heard = <<>> /\ \A i \in DOMAIN request.text :
              request.text[i][1] \in {"newline", "other"} \/ Commented(request.text, i)

\* A date of the calendar, between the years 1000 and 9999.
InCalendar(d) ==
    /\ d[1] \in 1000 .. 9999 /\ d[2] \in 1 .. 12
    /\ d[3] \in 1 .. CASE d[2] \in {4, 6, 9, 11} -> 30
                        [] d[2] = 2 -> IF (d[1] % 100 # 0 /\ d[1] % 4 = 0) \/ d[1] % 400 = 0
                                       THEN 29 ELSE 28
                        [] OTHER -> 31
    /\ d[4] \in 0 .. 23 /\ d[5] \in 0 .. 59 /\ d[6] \in 0 .. 59

\* The column can hold what the literal says.
Holds(col, lit) ==
    CASE col.type = "INT" -> lit.lit = "VALUE_INT" /\ lit.val \in -IntMax - 1 .. IntMax
      [] col.type = "BIGINT" -> lit.lit = "VALUE_INT"
      [] col.type = "FLOAT" -> lit.lit \in {"VALUE_INT", "VALUE_FLOAT"}
      [] col.type = "CHAR" -> lit.lit = "VALUE_STRING" /\ SizeOf[lit.val] <= col.len
      [] col.type = "DATETIME" -> /\ lit.lit = "VALUE_STRING"
                                  /\ lit.val \in DOMAIN DateOf /\ InCalendar(DateOf[lit.val])

\* What a statement assigns: the columns and their literals.
Assigned(t) ==
    IF t.node = "InsertStmt"
    THEN [i \in DOMAIN t.vals |-> [col |-> Columns[t.tab_name][i], lit |-> t.vals[i]]]
    ELSE [i \in DOMAIN t.set_clauses |->
            [col |-> CHOOSE c \in ToSet(Columns[t.tab_name]) :
                        c.name = t.set_clauses[i].col_name,
             lit |-> t.set_clauses[i].val]]

\* Its names exist, and it has a value for each column or sets some columns.
WellNamed(t) ==
    /\ t.tab_name \in DOMAIN Columns
    /\ LET names == {c.name : c \in ToSet(Columns[t.tab_name])} IN
       \/ t.node = "InsertStmt" /\ Len(t.vals) = Len(Columns[t.tab_name])
       \/ /\ t.node = "UpdateStmt"
          /\ \A i \in DOMAIN t.set_clauses : t.set_clauses[i].col_name \in names

\* The literals of the text; those that are assigned come first.
Written == SelectSeq(heard, LAMBDA x : x[1] \in {"VALUE_INT", "VALUE_FLOAT", "VALUE_STRING"})

\* What a column shows that holds what the literal says.
Meant(lexeme, col) ==
    CASE col.type = "DATETIME" -> DateOf[lexeme[2]]
      [] col.type = "FLOAT" /\ lexeme[1] = "VALUE_INT" -> lexeme[2] * FloatOne
      [] OTHER -> lexeme[2]

\* The number has more decimals than are printed, or is no float where the
\* floats are further apart than the printed decimals.
Rounded(n) == n % Decimal # 0 \/ (Spacing(n) > Decimal /\ n % Spacing(n) # 0)

\* An INSERT or UPDATE that is not refused has stored bytes for each of its
\* literals, as wide as the column, that print as the literal was written in
\* the text: no number wraps, no string is cut, no date moves, and the nearest
\* float shows the decimals of the literal.  One that is refused has a literal
\* its column cannot hold, or a condition that is refused.  Out of it stays a
\* number in a FLOAT column with too many digits.
StoredAsWrittenUnlessRounded ==
    pc = "analysed" /\ WellNamed(parse_tree) =>
        LET cells == Assigned(parse_tree)
            Misfit == \E i \in DOMAIN cells : ~Holds(cells[i].col, cells[i].lit)
        IN /\ Misfit => query.thrown
           /\ query.thrown => Misfit \/ \E i \in DOMAIN query.conds : query.conds[i].rhs.thrown
           /\ ~query.thrown => \A i \in DOMAIN cells :
                LET col == cells[i].col
                    val == Meant(Written[i], col)
                    raw == query.values[i].raw
                IN /\ raw.bytes = col.len
                   /\ Printed(raw, col) = val \/ (col.type = "FLOAT" /\ Rounded(val))

=============================================================================
