\* A pipeline is stopped, put in the background and waited for.
CONSTANTS
  p1 = p1
  p2 = p2
  NoPid = NoPid
  Pid = {p1, p2}
  Status = {0, 7}
  Interactive = TRUE
  JKeep = 1
  MaxLaunch = 2
  MaxStages = 2
  Stops = TRUE
  Leavers = {}
  Traps = FALSE
  Modules = FALSE
  Recycle = FALSE
  ResumeDone = FALSE
SPECIFICATION Spec
SYMMETRY PidSymmetry
INVARIANTS WaitStatus
