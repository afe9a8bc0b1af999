\* The parser returns.
CONSTANTS
  MaxLength = 5
  Texts <- Written
SPECIFICATION Spec
INVARIANT TypeOK
INVARIANT ReadsByDepth
INVARIANT PrintsWhatItRead
CHECK_DEADLOCK FALSE
