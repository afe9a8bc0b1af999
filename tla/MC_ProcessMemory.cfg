\* The program ends in "done", "aborted" or "crashed".
CONSTANTS
  NumProcs <- MCNumProcs
  MaxIncludes <- MCMaxIncludes
  Null = Null
SPECIFICATION Spec
INVARIANT TypeOK
INVARIANT ProcessesIntact
INVARIANT SourcesLive
INVARIANT OnlyFailuresLeak
CHECK_DEADLOCK FALSE
