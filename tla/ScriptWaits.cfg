\* Liveness of wait and of reaping, with traps.
CONSTANTS
  p1 = p1
  p2 = p2
  NoPid = NoPid
  Pid = {p1, p2}
  Status = {7}
  Interactive = FALSE
  JKeep = 1
  MaxLaunch = 2
  MaxStages = 1
  Stops = FALSE
  Leavers = {}
  Traps = TRUE
  Modules = FALSE
  Recycle = FALSE
  ResumeDone = FALSE
SPECIFICATION Spec
PROPERTIES WaitReturns FinishNoticed
