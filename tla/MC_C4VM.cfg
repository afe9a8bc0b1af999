\* Three slots, slices of two instructions.
CONSTANTS
  MaxProcs = 3
  CycleCount = 3
  Proc <- MCProc
  NoProcess <- MCNoProcess
  Libs <- MCLibs
  Calls <- MCCalls
  Exports <- MCExports
  ExitCodes <- MCExitCodes
  Zero = Zero
  NullRuntime = NullRuntime
SPECIFICATION FairSpec
INVARIANT TypeOK
INVARIANT RunningIsLoaded
INVARIANT ValidIffLoaded
INVARIANT ExitedIsOver
INVARIANT CountIsOccupied
INVARIANT RuntimesOwned
PROPERTY ImplementsMicroprocesses
PROPERTY NoStarvation
PROPERTY Termination
PROPERTY ServesMicroprocesses
CHECK_DEADLOCK FALSE
