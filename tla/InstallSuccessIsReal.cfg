SPECIFICATION FairSpec
CONSTANTS
  Titles = 1
  PrepFaults = FALSE
  MayDefer = FALSE
INVARIANTS SuccessIsReal
