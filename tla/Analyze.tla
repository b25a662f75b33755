------------------------------ MODULE Analyze ------------------------------
(***************************************************************************)
(* What do_analyze makes of an INSERT, an UPDATE or a DELETE: its names    *)
(* are looked up, and each literal becomes a Value of the type of its      *)
(* column, in the form in which it is stored and later printed.  (SELECT   *)
(* is in module Planner.)                                                  *)
(*                                                                         *)
(* Strings are numbers, as in Ast; of a string only its size matters, and  *)
(* the six numbers of those that have the shape of a date.  A float, and   *)
(* what a float literal says, is a number of units: FloatOne of them are 1 *)
(* and Decimal of them the last decimal that is printed.  Up to FloatExact *)
(* every unit is a float, beyond it the floats are further apart.          *)
(***************************************************************************)
EXTENDS Ast, FiniteSets

CONSTANTS
    IntMax,      \* the largest int, one below a power of two
    Int64Max,    \* the largest int64_t
    FloatOne,    \* the number 1, in units
    Decimal,     \* the last of the six printed decimals, in units
    FloatExact,  \* up to here every unit is a float, a power of two
    Columns,     \* the tables: name -> sequence of [name, type, len]
    SizeOf,      \* string literal -> number of characters
    DateOf       \* string literal "dddd-dd-dd dd:dd:dd" -> its six numbers

ASSUME WidthAssumption ==
    /\ IntMax \in Nat /\ Int64Max \in Nat /\ IntMax < Int64Max
    /\ {FloatOne, Decimal, FloatExact} \subseteq Nat \ {0}
    /\ FloatOne % Decimal = 0 /\ Decimal % 2 = 1

VARIABLE query  \* the result of do_analyze

-----------------------------------------------------------------------------
(* Dates.  An encoded date exceeds TLC's integers: it is kept as its       *)
(* quotient and its remainder by 1000000.                                  *)

is_leap_year(year) == (year % 4 = 0 /\ year % 100 # 0) \/ year % 400 = 0

days_in_month(year, month) ==
    IF month = 2 THEN IF is_leap_year(year) THEN 29 ELSE 28
    ELSE <<31, 28, 31, 30, 31, 30, 31, 31, 30, 31, 30, 31>>[month]

\* Whether parse_datetime_string takes the string.
DateAccepted(str) ==
    /\ str \in DOMAIN DateOf
    /\ LET d == DateOf[str] IN
       /\ d[1] \in 1000 .. 9999 /\ d[2] \in 1 .. 12 /\ d[3] >= 1
       /\ d[4] <= 23 /\ d[5] <= 59 /\ d[6] <= 59
       /\ d[3] <= days_in_month(d[1], d[2])

parse_datetime_string(str) ==
    LET d == DateOf[str]
    IN <<d[1] * 10000 + d[2] * 100 + d[3], d[4] * 10000 + d[5] * 100 + d[6]>>

format_datetime_value(encoded) ==
    LET date == encoded[1]
        time == encoded[2]
    IN <<date \div 10000, (date \div 100) % 100, date % 100,
         time \div 10000, (time \div 100) % 100, time % 100>>

-----------------------------------------------------------------------------
(* Values.                                                                 *)

Value(type, val) == [type |-> type, val |-> val]
Thrown == Value("thrown", 0)

\* The distance of the floats around n.
Spacing(n) ==
    LET Reach(u) == -FloatExact * u .. FloatExact * u
    IN  2 ^ (CHOOSE k \in 0 .. 39 : n \in Reach(2 ^ k) /\ (k > 0 => n \notin Reach(2 ^ (k - 1))))

\* The conversion to float: the nearest float, of two the one with even mantissa.
ToFloat(n) ==
    LET u == Spacing(n)
        q == n \div u
        r == 2 * (n % u)
    IN  u * IF r < u \/ (r = u /\ q % 2 = 0) THEN q ELSE q + 1

\* An integer literal is a BIGINT first.
convert_sv_value(lit) ==
    Value(CASE lit.lit = "VALUE_INT" -> "BIGINT"
            [] lit.lit = "VALUE_FLOAT" -> "FLOAT"
            [] lit.lit = "VALUE_STRING" -> "CHAR", lit.val)

\* Faulty variant: the cast to int without the check of its range.
CoerceUnchecked(v, type, len) ==
    CASE v.type = type -> IF type = "CHAR" /\ len < SizeOf[v.val] THEN Thrown ELSE v
      [] type = "INT" /\ v.type = "BIGINT" ->
            Value("INT", ((v.val + IntMax + 1) % (2 * (IntMax + 1))) - IntMax - 1)
      [] type = "FLOAT" /\ v.type \in {"INT", "BIGINT"} -> Value("FLOAT", ToFloat(v.val * FloatOne))
      [] type = "BIGINT" /\ v.type = "INT" -> Value("BIGINT", v.val)
      [] type = "DATETIME" /\ v.type = "CHAR" ->
            IF DateAccepted(v.val) THEN Value("DATETIME", parse_datetime_string(v.val))
            ELSE Thrown
      [] OTHER -> Thrown

coerce_value_type(v, type, len) ==
    CASE v.type = type -> IF type = "CHAR" /\ len < SizeOf[v.val] THEN Thrown ELSE v
      [] type = "INT" /\ v.type = "BIGINT" ->
            IF v.val \in -IntMax - 1 .. IntMax THEN Value("INT", v.val) ELSE Thrown
      [] type = "FLOAT" /\ v.type \in {"INT", "BIGINT"} -> Value("FLOAT", ToFloat(v.val * FloatOne))
      [] type = "BIGINT" /\ v.type = "INT" -> Value("BIGINT", v.val)
      [] type = "DATETIME" /\ v.type = "CHAR" ->
            IF DateAccepted(v.val) THEN Value("DATETIME", parse_datetime_string(v.val))
            ELSE Thrown
      [] OTHER -> Thrown

\* The bytes of a value: an INT and a FLOAT take 4, a BIGINT and a DATETIME 8,
\* a string is followed by zeros up to the length of its column.
init_raw(v, len) == [bytes |-> len, val |-> v.val, pad |-> IF v.type = "CHAR"
                                                           THEN len - SizeOf[v.val] ELSE 0]

\* select_from reads the bytes as the type of the column says; a float is
\* printed as the nearest number of six decimals (no two are equally near).
Printed(raw, col) ==
    CASE col.type = "DATETIME" -> format_datetime_value(raw.val)
      [] col.type = "FLOAT" -> ((2 * raw.val + Decimal) \div (2 * Decimal)) * Decimal
      [] OTHER -> raw.val

-----------------------------------------------------------------------------
(* Statements.                                                             *)

\* The columns that a name may mean in a statement on table tab.
Candidates(tab, target) ==
    {i \in DOMAIN Columns[tab] :
        Columns[tab][i].name = target.col_name /\ target.tab_name \in {0, tab}}

\* check_column and get_col: the column, or Null where they throw.
check_column(tab, target) ==
    LET found == Candidates(tab, target)
    IN IF Cardinality(found) = 1 THEN Columns[tab][CHOOSE i \in found : TRUE] ELSE Null

\* A literal for a column.
Bound(lit, col) ==
    LET v == IF col = Null THEN Thrown
             ELSE coerce_value_type(convert_sv_value(lit), col.type, col.len)
    IN [col |-> col, thrown |-> v = Thrown,
        raw |-> IF v = Thrown THEN Null ELSE init_raw(v, col.len)]

\* A condition: get_clause, then check_clause.
CheckedCond(tab, cond) ==
    LET lhs == check_column(tab, cond.lhs)
        rhs == IF "lit" \in DOMAIN cond.rhs THEN Bound(cond.rhs, lhs)
               ELSE LET col == check_column(tab, cond.rhs)
                    IN [col |-> col, raw |-> Null,
                        thrown |-> lhs = Null \/ col = Null \/ lhs.type # col.type]
    IN [lhs |-> lhs, op |-> cond.op, rhs |-> rhs]

\* The statement is refused if any of its parts throws.
Analysed(values, conds) ==
    [values |-> values, conds |-> conds,
     thrown |-> \/ \E i \in DOMAIN values : values[i].thrown
                \/ \E i \in DOMAIN conds : conds[i].rhs.thrown]

Refused == [values |-> <<>>, conds |-> <<>>, thrown |-> TRUE]

\* get_table throws TableNotFoundError, and an INSERT has a value for each
\* column or throws InvalidValueCountError.
do_analyze(t) ==
    LET tab == t.tab_name
        cols == Columns[tab]
        Conds == [i \in DOMAIN t.conds |-> CheckedCond(tab, t.conds[i])]
        Set(s) == Bound(s.val, check_column(tab, Col(tab, s.col_name)))
    IN CASE tab \notin DOMAIN Columns -> Refused
         [] t.node = "InsertStmt" ->
              IF Len(t.vals) # Len(cols) THEN Refused
              ELSE Analysed([i \in DOMAIN t.vals |-> Bound(t.vals[i], cols[i])], <<>>)
         [] t.node = "UpdateStmt" ->
              Analysed([i \in DOMAIN t.set_clauses |-> Set(t.set_clauses[i])], Conds)
         [] t.node = "DeleteStmt" -> Analysed(<<>>, Conds)
=============================================================================
