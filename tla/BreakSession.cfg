SPECIFICATION FairSpec
CONSTANTS
  Cell <- TwoPageCell
  Site <- TwoPageSite
  SizeOf <- TwoPageSize
  Code = {v1, v2}
  ResetPc = 0
  BreakpointMax = 3
  HostMax = 3
  DirtyMax = 4
INVARIANTS
  TypeOK
  CopiesMatchProgram
  CleanWhileHalted
  PatchedWhileRunning
  CountsMatchTable
  HostAgrees
  ModeMatchesHart
  StopsOnlyAtBreakpoints
  NothingLeftBehind
PROPERTIES
  NeverRunsOverBreakpoint
  FlashFollowsHalted
  ImplementsContract
  BreakpointReported
