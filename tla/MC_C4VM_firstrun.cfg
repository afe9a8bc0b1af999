\* platform_init's first-run block.
CONSTANTS
  MaxProcs = 1
  CycleCount = 3
  Proc <- MCProc
  NoProcess <- MCNoProcess
  Libs <- MCLibs
  Calls <- MCCalls
  Exports <- MCExports
  ExitCodes <- MCExitCodes
  Zero = Zero
  NullRuntime = NullRuntime
SPECIFICATION Spec
PROPERTY FirstRunOnly
CHECK_DEADLOCK FALSE
