---------------------------- MODULE ParserTables ----------------------------
(***************************************************************************)
(* The tables of yacc.tab.cpp that drive yyparse.  An array of the source  *)
(* is a sequence here: entry i of yypact is yypact[i + 1].                 *)
(***************************************************************************)
EXTENDS Integers, Sequences

YYLAST == 157
YYNTOKENS == 57
YYPACT_NINF == -92

\* The names of the terminals, which YYTRANSLATE numbers from 0.
yytname ==
    <<"end of file", "error", "invalid token", "SHOW", "TABLES", "CREATE", "TABLE",
      "DROP", "DESC", "INSERT", "INTO", "VALUES", "DELETE", "FROM", "ASC", "ORDER", "BY",
      "LIMIT", "AS", "WHERE", "UPDATE", "SET", "SELECT", "INT", "CHAR", "FLOAT", "INDEX",
      "AND", "JOIN", "EXIT", "HELP", "TXN_BEGIN", "TXN_COMMIT", "TXN_ABORT",
      "TXN_ROLLBACK", "ORDER_BY", "COUNT", "MAX", "MIN", "SUM", "LEQ", "NEQ", "GEQ",
      "T_EOF", "IDENTIFIER", "VALUE_STRING", "VALUE_INT", "VALUE_FLOAT", ";", "(", ")",
      ",", ".", "=", "<", ">", "*">>

\* Where the actions of a state begin in yytable.
yypact ==
    <<54, 3, 4, 9, -36, 7, 12, -36, 33, -92, -92, -92, -92, -92, -92, -92, 45, 5, -92,
      -92, -92, -92, -92, 42, -36, -36, -36, -36, -92, -92, -36, -36, 44, 24, 26, 59, 60,
      58, -92, -92, 61, 92, 62, -92, -92, -92, -36, 64, 66, -92, 67, 100, 99, 75, 8, 76,
      76, 76, 76, -36, 75, -92, 75, 75, 75, 72, 76, -92, -92, -13, -92, 69, 105, 74, 77,
      78, 79, 80, -92, -14, -92, -92, -11, -92, 71, 17, -92, 53, 55, -92, 98, -22, 75,
      -92, 55, 75, 108, 113, 114, 115, 116, -36, -36, 120, -92, 75, -92, 87, -92, -92,
      -92, 75, -92, -92, -92, -92, 56, -92, 76, -92, -92, -92, -92, -92, -92, 46, -92,
      -92, -92, 75, 75, 75, 75, 75, -92, -92, 121, 122, -92, 94, -92, -92, 55, -92, -92,
      -92, -92, -92, -92, -92, -92, -92, 76, 95, -92, 88, -92, 28, 91, -92, -92, -92, -92,
      -92, -92, 76, -92>>

\* The default reduction of a state; 0 is an error.
yydefact ==
    <<0, 0, 0, 0, 0, 0, 0, 0, 0, 4, 3, 10, 11, 12, 13, 5, 0, 0, 9, 6, 7, 8, 14, 0, 0, 0,
      0, 0, 79, 18, 0, 0, 0, 0, 0, 0, 0, 80, 58, 45, 65, 0, 0, 44, 1, 2, 0, 0, 0, 17, 0,
      0, 39, 0, 0, 0, 0, 0, 0, 0, 0, 15, 0, 0, 0, 0, 0, 22, 80, 39, 55, 0, 0, 0, 0, 0, 0,
      0, 46, 39, 66, 43, 0, 25, 0, 0, 27, 0, 0, 41, 40, 0, 0, 23, 0, 0, 0, 0, 0, 0, 0, 0,
      0, 70, 16, 0, 30, 0, 32, 29, 19, 0, 20, 37, 35, 36, 0, 33, 0, 51, 50, 52, 47, 48,
      49, 0, 56, 57, 60, 0, 0, 0, 0, 0, 68, 67, 0, 78, 26, 0, 28, 21, 0, 42, 53, 54, 38,
      59, 61, 62, 63, 64, 0, 0, 24, 0, 34, 76, 69, 71, 77, 31, 75, 74, 73, 0, 72>>

\* Where the gotos of a nonterminal begin in yytable.
yypgoto ==
    <<-92, -92, -92, -92, -92, -92, -92, -92, 81, 38, -92, -92, -91, 29, -53, -92, -8,
      -92, -92, -92, -92, 57, -92, -92, -92, -92, -19, -92, -92, -3, -51>>

\* The default goto of a nonterminal.
yydefgoto ==
    <<0, 16, 17, 18, 19, 20, 21, 82, 85, 83, 109, 116, 117, 89, 67, 90, 91, 40, 125, 146,
      69, 70, 41, 79, 137, 158, 159, 164, 154, 42, 43>>

\* A state to shift to, or the negative of a rule to reduce by.
yytable ==
    <<39, 29, 71, 127, 32, 66, 66, 22, 28, 81, 24, 84, 86, 86, 101, 26, 93, 30, 119, 120,
      121, 47, 48, 49, 50, 31, 103, 51, 52, 23, 25, 122, 123, 124, 144, 27, 162, 102, 92,
      104, 105, 71, 163, 61, 128, 44, 74, 75, 76, 77, 78, 156, 37, 45, 84, 46, 80, 1, 72,
      2, 140, 3, 4, 5, 73, 53, 6, 110, 111, 33, 34, 35, 36, 54, 7, 55, 8, 37, 147, 148,
      149, 150, 151, 9, 10, 11, 12, 13, 14, 38, 37, 113, 114, 115, 106, 107, 108, 15, 134,
      135, 113, 114, 115, 112, 111, 59, 141, 142, 56, 57, -79, 65, 58, 62, 60, 63, 64,
      145, 66, 68, 37, 88, 94, 95, 96, 118, 129, 97, 98, 99, 100, 130, 131, 132, 133, 136,
      139, 152, 161, 153, 155, 160, 165, 138, 157, 87, 166, 143, 0, 126, 0, 0, 0, 0, 0, 0,
      0, 157>>

\* The token or state an entry of yytable belongs to.
yycheck ==
    <<8, 4, 53, 94, 7, 19, 19, 4, 44, 60, 6, 62, 63, 64, 28, 6, 69, 10, 40, 41, 42, 24,
      25, 26, 27, 13, 79, 30, 31, 26, 26, 53, 54, 55, 125, 26, 8, 51, 51, 50, 51, 92, 14,
      46, 95, 0, 54, 55, 56, 57, 58, 142, 44, 48, 105, 13, 59, 3, 50, 5, 111, 7, 8, 9, 56,
      21, 12, 50, 51, 36, 37, 38, 39, 49, 20, 49, 22, 44, 129, 130, 131, 132, 133, 29, 30,
      31, 32, 33, 34, 56, 44, 45, 46, 47, 23, 24, 25, 43, 101, 102, 45, 46, 47, 50, 51,
      13, 50, 51, 49, 49, 52, 11, 51, 49, 52, 49, 49, 125, 19, 44, 44, 49, 53, 18, 50, 27,
      18, 50, 50, 50, 50, 18, 18, 18, 18, 15, 49, 16, 50, 17, 46, 46, 51, 105, 152, 64,
      165, 118, -1, 92, -1, -1, -1, -1, -1, -1, -1, 165>>

\* The left-hand side of a rule.
yyr1 ==
    <<0, 57, 58, 58, 58, 58, 59, 59, 59, 59, 60, 60, 60, 60, 61, 61, 62, 62, 62, 62, 62,
      63, 63, 63, 63, 64, 64, 65, 65, 66, 67, 67, 67, 68, 68, 69, 69, 69, 70, 71, 71, 72,
      72, 73, 73, 74, 74, 75, 75, 75, 75, 75, 75, 76, 76, 77, 77, 78, 79, 79, 79, 79, 79,
      79, 79, 79, 80, 80, 80, 81, 81, 82, 82, 83, 84, 84, 84, 85, 85, 86, 87>>

\* The length of the right-hand side of a rule.
yyr2 ==
    <<0, 2, 2, 1, 1, 1, 1, 1, 1, 1, 1, 1, 1, 1, 2, 4, 6, 3, 2, 6, 6, 7, 4, 5, 7, 1, 3, 1,
      3, 2, 1, 4, 1, 1, 3, 1, 1, 1, 3, 0, 2, 1, 3, 3, 1, 1, 3, 1, 1, 1, 1, 1, 1, 1, 1, 1,
      3, 3, 1, 6, 5, 6, 6, 6, 6, 1, 1, 3, 3, 3, 0, 1, 3, 2, 1, 1, 0, 2, 0, 1, 1>>

=============================================================================
