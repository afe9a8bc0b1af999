----------------------------- MODULE MC_Reading ------------------------------
(* Every text of up to MaxLength characters: both parentheses, a blank that  *)
(* both tokenizers know and one that only one does, a sign and a digit.      *)
EXTENDS SchemeReading
CONSTANT MaxLength
Alphabet == {"(", ")", " ", "\n", "-", "1"}
AllTexts == {FoldLeft(LAMBDA a, b : a \o b, "", w) : w \in BoundedSeq(Alphabet, MaxLength)}
Written == AllTexts
=============================================================================
