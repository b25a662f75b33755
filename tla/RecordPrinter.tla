--------------------------- MODULE RecordPrinter ---------------------------
(***************************************************************************)
(* The buffer in which the answer to a statement is put together for its   *)
(* client.  A context is a record of the fields of Context that the        *)
(* printer uses: data is data_send_ as the sequence of strings copied to   *)
(* it, offset and ellipsis are *offset_ and ellipsis_.  A string is its    *)
(* kind, a value and a length; a value of more than COL_WIDTH characters   *)
(* is shortened to that width, so all cells are as long.                   *)
(***************************************************************************)
EXTENDS Integers, Sequences, SequencesExt

CONSTANTS
    BUFFER_LENGTH,
    RECORD_COUNT_LENGTH,  \* room that is kept for the last line
    COL_WIDTH

ASSUME BufferAssumption ==
    /\ BUFFER_LENGTH \in Nat /\ RECORD_COUNT_LENGTH \in Nat /\ COL_WIDTH \in Nat
    /\ RECORD_COUNT_LENGTH < BUFFER_LENGTH

String(kind, val, length) == [kind |-> kind, val |-> val, length |-> length]

Dashes == String("dashes", 0, COL_WIDTH + 3)       \* "+----..."
Plus == String("plus", 0, 2)                       \* "+\n"
Cell(val) == String("cell", val, COL_WIDTH + 3)    \* "|   val "
Bar == String("bar", 0, 2)                         \* "|\n"
Dots == String("dots", 0, 8)                       \* "... ...\n"
Digits(n) == CHOOSE d \in 1 .. 9 : n < 10 ^ d
TotalLine(n) == String("total", n, 18 + Digits(n)) \* "Total record(s): n\n"

NewContext == [data |-> <<>>, offset |-> 0, ellipsis |-> FALSE]

Copied(ctx, str) ==
    [ctx EXCEPT !.data = Append(@, str), !.offset = @ + str.length]

Fits(ctx, str) == ctx.offset + RECORD_COUNT_LENGTH + str.length < BUFFER_LENGTH

\* Faulty variant: a string that fits is copied behind one that did not.
PutAnyway(ctx, str) ==
    IF Fits(ctx, str) THEN Copied(ctx, str) ELSE [ctx EXCEPT !.ellipsis = TRUE]

\* Once a string did not fit, nothing is copied any more.
Put(ctx, str) ==
    IF ~ctx.ellipsis /\ Fits(ctx, str) THEN Copied(ctx, str)
    ELSE [ctx EXCEPT !.ellipsis = TRUE]

print_separator(num_cols, ctx) ==
    FoldLeft(Put, ctx, Append([i \in 1 .. num_cols |-> Dashes], Plus))

\* The end of a record is left out without a mark.
print_record(vals, ctx) ==
    LET cells == FoldLeft(Put, ctx, [i \in DOMAIN vals |-> Cell(vals[i])])
    IN IF ~cells.ellipsis /\ Fits(cells, Bar) THEN Copied(cells, Bar) ELSE cells

print_record_count(num_rec, ctx) ==
    Copied(IF ctx.ellipsis THEN Copied(ctx, Dots) ELSE ctx, TotalLine(num_rec))
=============================================================================
