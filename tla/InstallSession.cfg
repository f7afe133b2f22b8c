SPECIFICATION FairSpec
CONSTANTS
  Titles = 2
  PrepFaults = TRUE
  MayDefer = TRUE
INVARIANTS MCPIsAwaited PowerAndLock HangsOnlyOnRefusal
PROPERTIES InstallReturns EndsOrStrands
