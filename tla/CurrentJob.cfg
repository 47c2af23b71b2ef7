\* Jobs are forgotten until the current one is gone.
CONSTANTS
  p1 = p1
  p2 = p2
  p3 = p3
  NoPid = NoPid
  Pid = {p1, p2, p3}
  Status = {0, 7}
  Interactive = FALSE
  JKeep = 1
  MaxLaunch = 3
  MaxStages = 1
  Stops = FALSE
  Leavers = {}
  Traps = FALSE
  Modules = FALSE
  Recycle = FALSE
  ResumeDone = FALSE
SPECIFICATION Spec
SYMMETRY PidSymmetry
INVARIANTS CurrentExists
