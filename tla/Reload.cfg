SPECIFICATION ReloadSpec
CONSTANTS
  Cell <- TwoPageCell
  Site <- TwoPageSite
  SizeOf <- TwoPageSize
  Code = {v1, v2}
  ResetPc = 0
  BreakpointMax = 2
  HostMax = 2
  DirtyMax = 2
INVARIANT PatchedWhileRunning
