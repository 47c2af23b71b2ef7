\* bg on a job that has already finished.
CONSTANTS
  p1 = p1
  p2 = p2
  NoPid = NoPid
  Pid = {p1, p2}
  Status = {0, 7}
  Interactive = FALSE
  JKeep = 1
  MaxLaunch = 2
  MaxStages = 1
  Stops = FALSE
  Leavers = {}
  Traps = FALSE
  Modules = FALSE
  Recycle = FALSE
  ResumeDone = TRUE
SPECIFICATION Spec
SYMMETRY PidSymmetry
INVARIANTS RunningIsAlive
