------------------------------ MODULE MC_Lexer -------------------------------
(* Every text of a few characters, over alphabets chosen for numbers, for    *)
(* comments and literals, and for operators.                                 *)
EXTENDS CLexer

CONSTANTS NumberLength, CommentLength, OperatorLength

AllTexts ==
  BoundedSeq({"0", "1", "9", "x", "a", "-", " "}, NumberLength)
  \cup BoundedSeq({"/", "*", "\n", "\"", "\\", "1"}, CommentLength)
  \cup BoundedSeq({"'", "\\", "n", "#", "\n", "-"}, OperatorLength)
  \cup BoundedSeq({"=", "<", "+", "-", "!", "&", "*", "/", ";", "1"}, OperatorLength)

=============================================================================
