\* The program exits.
CONSTANTS
  Same <- SameCell
  Written <- ToText
  Expressions <- AllExpressions
  Lines <- ScopeLines
  Source <- Sources
  Files <- FileWords
  Tests <- AllTests
  MaxDepth = 3
  Meant <- Answers
  Departs <- Departing
  Crashes <- Lost
  Loops <- TailRecursive
SPECIFICATION Spec
INVARIANT ScopesAsReference
CHECK_DEADLOCK FALSE
