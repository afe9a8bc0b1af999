\* The loop ends in "start", "returned" or "undefined".
CONSTANTS
  Words <- MCWords
  Value <- MCValue
  Plus = {"+1"}
  Added <- MCAdded
  MaxProcs = 2
  PoolSize = 5
  Lines <- MCLines
SPECIFICATION Spec
INVARIANT TypeOK
INVARIANT StartsAsRead
INVARIANT OptionsAsGiven
INVARIANT ArgumentsExist
CHECK_DEADLOCK FALSE
