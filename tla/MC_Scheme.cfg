\* The program exits.
CONSTANTS
  Same <- SameCell
  Written <- ToText
  Expressions <- AllExpressions
  Lines <- CommandLines
  Source <- Sources
  Files <- FileWords
  Tests <- AllTests
  MaxDepth = 3
  Meant <- Answers
  Departs <- Departing
  Crashes <- Lost
  Loops <- TailRecursive
SPECIFICATION Spec
INVARIANT TypeOK
INVARIANT AnswersAsReference
INVARIANT StopsAsReference
INVARIANT TestsPass
INVARIANT RunningCodeLive
INVARIANT LoopsShareOneCall
CHECK_DEADLOCK FALSE
