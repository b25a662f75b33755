-------------------------------- MODULE Ast --------------------------------
(***************************************************************************)
(* The syntax trees of ast.h, and as a reference for the parser the text   *)
(* of each tree.  A name or a string literal is a number, 0 the empty      *)
(* name.  A lexeme is a pair: its token, named as in yytname, and its      *)
(* value.                                                                  *)
(***************************************************************************)
EXTENDS Integers, Sequences, SequencesExt

CONSTANT Null  \* nullptr

-----------------------------------------------------------------------------
(* Nodes.                                                                  *)

Bare(kind) == [node |-> kind]
OnTable(kind, tab_name) == [node |-> kind, tab_name |-> tab_name]
OnIndex(kind, tab_name, col_names) ==
    [node |-> kind, tab_name |-> tab_name, col_names |-> col_names]
TypeLen(type, len) == [type |-> type, len |-> len]
ColDef(col_name, type_len) == [col_name |-> col_name, type_len |-> type_len]
CreateTable(tab_name, fields) ==
    [node |-> "CreateTable", tab_name |-> tab_name, fields |-> fields]

\* IntLit, FloatLit, StringLit
Lit(kind, val) == [lit |-> kind, val |-> val]
Col(tab_name, col_name) == [tab_name |-> tab_name, col_name |-> col_name]
AggFunc(func_type, col, alias, is_star) ==
    [tab_name |-> 0, col_name |-> alias, func_type |-> func_type, col |-> col,
     is_star |-> is_star]
SetClause(col_name, val) == [col_name |-> col_name, val |-> val]
BinaryExpr(lhs, op, rhs) == [lhs |-> lhs, op |-> op, rhs |-> rhs]
OrderByItem(col, dir) == [cols |-> col, orderby_dir |-> dir]
OrderBy(items) == [items |-> items]

InsertStmt(tab_name, vals) == [node |-> "InsertStmt", tab_name |-> tab_name, vals |-> vals]
DeleteStmt(tab_name, conds) == [node |-> "DeleteStmt", tab_name |-> tab_name, conds |-> conds]
UpdateStmt(tab_name, set_clauses, conds) ==
    [node |-> "UpdateStmt", tab_name |-> tab_name, set_clauses |-> set_clauses,
     conds |-> conds]
SelectStmt(cols, tabs, conds, order, limit) ==
    [node |-> "SelectStmt", cols |-> cols, tabs |-> tabs, conds |-> conds,
     has_sort |-> order # Null, order |-> order, limit |-> limit]

-----------------------------------------------------------------------------
(* Text.                                                                   *)

Word(token) == <<<<token, 0>>>>
Name(id) == <<<<"IDENTIFIER", id>>>>
Words(tokens) == [i \in DOMAIN tokens |-> <<tokens[i], 0>>]

\* The texts of the elements with a comma between any two.
List(elems, Text(_)) ==
    FoldLeft(LAMBDA acc, e : (IF acc = <<>> THEN <<>> ELSE acc \o Word(",")) \o Text(e),
             <<>>, elems)

LitText(v) == <<<<v.lit, v.val>>>>
ColText(c) == IF c.tab_name = 0 THEN Name(c.col_name)
              ELSE Name(c.tab_name) \o Word(".") \o Name(c.col_name)
ExprText(e) == IF "lit" \in DOMAIN e THEN LitText(e) ELSE ColText(e)
SelectorText(c) ==
    IF "is_star" \notin DOMAIN c THEN ColText(c)
    ELSE Words(<<c.func_type, "(">>) \o (IF c.is_star THEN Word("*") ELSE ColText(c.col))
           \o Words(<<")", "AS">>) \o Name(c.col_name)
TypeText(t) == IF t.type # "CHAR" THEN Word(t.type)
               ELSE Words(<<"CHAR", "(">>) \o LitText(Lit("VALUE_INT", t.len)) \o Word(")")
FieldText(f) == Name(f.col_name) \o TypeText(f.type_len)
SetText(s) == Name(s.col_name) \o Word("=") \o LitText(s.val)
ItemText(i) == ColText(i.cols)
                 \o (IF i.orderby_dir = "DEFAULT" THEN <<>> ELSE Word(i.orderby_dir))
WhereText(conds) ==
    FoldLeft(LAMBDA acc, c : acc \o Word(IF acc = <<>> THEN "WHERE" ELSE "AND")
                                 \o ColText(c.lhs) \o Word(c.op) \o ExprText(c.rhs),
             <<>>, conds)
InParens(text) == Word("(") \o text \o Word(")")

\* The text of a statement.
Unparse(t) ==
    CASE t.node = "Help" -> Word("HELP")
      [] t.node \in {"TXN_BEGIN", "TXN_COMMIT", "TXN_ABORT", "TXN_ROLLBACK"} ->
            Words(<<t.node, ";">>)
      [] t.node = "ShowTables" -> Words(<<"SHOW", "TABLES", ";">>)
      [] t.node = "ShowIndex" ->
            Words(<<"SHOW", "INDEX", "FROM">>) \o Name(t.tab_name) \o Word(";")
      [] t.node = "CreateTable" ->
            Words(<<"CREATE", "TABLE">>) \o Name(t.tab_name)
              \o InParens(List(t.fields, FieldText)) \o Word(";")
      [] t.node = "DropTable" -> Words(<<"DROP", "TABLE">>) \o Name(t.tab_name) \o Word(";")
      [] t.node = "DescTable" -> Word("DESC") \o Name(t.tab_name) \o Word(";")
      [] t.node \in {"CreateIndex", "DropIndex"} ->
            Words(<<IF t.node = "CreateIndex" THEN "CREATE" ELSE "DROP", "INDEX">>)
              \o Name(t.tab_name) \o InParens(List(t.col_names, Name)) \o Word(";")
      [] t.node = "InsertStmt" ->
            Words(<<"INSERT", "INTO">>) \o Name(t.tab_name) \o Word("VALUES")
              \o InParens(List(t.vals, LitText)) \o Word(";")
      [] t.node = "DeleteStmt" ->
            Words(<<"DELETE", "FROM">>) \o Name(t.tab_name) \o WhereText(t.conds) \o Word(";")
      [] t.node = "UpdateStmt" ->
            Word("UPDATE") \o Name(t.tab_name) \o Word("SET") \o List(t.set_clauses, SetText)
              \o WhereText(t.conds) \o Word(";")
      [] t.node = "SelectStmt" ->
            Word("SELECT") \o (IF t.cols = <<>> THEN Word("*") ELSE List(t.cols, SelectorText))
              \o Word("FROM") \o List(t.tabs, Name) \o WhereText(t.conds)
              \o (IF t.has_sort THEN Words(<<"ORDER", "BY">>) \o List(t.order.items, ItemText)
                  ELSE <<>>)
              \o (IF t.limit = -1 THEN <<>>
                  ELSE Word("LIMIT") \o LitText(Lit("VALUE_INT", t.limit)))
              \o Word(";")
=============================================================================
