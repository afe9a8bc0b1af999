\* The scanner returns 0.
CONSTANTS
  NumberLength = 4
  CommentLength = 5
  OperatorLength = 4
  Texts <- AllTexts
SPECIFICATION Spec
INVARIANT TokensAsC
INVARIANT StaysInText
INVARIANT LinesCounted
INVARIANT ArgumentsAsNumbers
CHECK_DEADLOCK FALSE
