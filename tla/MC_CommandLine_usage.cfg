\* The loop ends in "start", "returned" or "undefined".
CONSTANTS
  Words <- MCWords
  Value <- MCValue
  Plus = {"+1"}
  Added <- MCAdded
  MaxProcs = 2
  PoolSize = 5
  Lines <- ShortLines
SPECIFICATION Spec
INVARIANT RunsUsageFile
CHECK_DEADLOCK FALSE
