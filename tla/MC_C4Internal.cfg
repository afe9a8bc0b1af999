\* Nested activations up to three deep over two slots, each costing its caller a cycle.
CONSTANTS
  MaxProcs = 2
  CycleCount = 3
  Proc <- MCProc
  NoProcess <- MCNoProcess
  Libs <- MCLibs
  Calls <- MCCalls
  Exports <- MCExports
  ExitCodes = {0}
  Zero = Zero
  NullRuntime = NullRuntime
  Internal = "internal"
  Children <- MCChildren
  Parent <- MCParent
  ChildCycles = {3}
SPECIFICATION NestedSpec
INVARIANT CallersWait
INVARIANT BystandersKeepRuntime
PROPERTY NoStarvation
CHECK_DEADLOCK FALSE
