\* One process runs a child: whose runtime does it have afterwards?
CONSTANTS
  MaxProcs = 2
  CycleCount = 4
  Proc <- MCProc
  NoProcess <- MCNoProcess
  Libs <- MCLibs
  Calls <- MCCalls
  Exports <- MCExports
  ExitCodes = {0}
  Zero = Zero
  NullRuntime = NullRuntime
  Internal = "internal"
  Children <- MCChildren
  Parent <- MCParent
  ChildCycles = {4}
SPECIFICATION NestedSpec
INVARIANT PerProcessPlatform
CHECK_DEADLOCK FALSE
