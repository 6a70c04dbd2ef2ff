------------------------------ MODULE MCText ------------------------------
(* Small instance of Text: texts of three characters out of a letter, a    *)
(* blank and a newline, needles from the literal "x x".                    *)
EXTENDS Text

CONSTANTS x, sp, nl

MCChar == {x, sp, nl}
MCLiterals == <<x, sp, x>>
MCSeps == {sp, nl}
MCFlags ==
  {[left |-> TRUE, right |-> TRUE, blank |-> {sp}],
   [left |-> TRUE, right |-> FALSE, blank |-> {sp, nl}],
   [left |-> FALSE, right |-> TRUE, blank |-> {sp, nl}]}
============================================================================
