\* A script with three background jobs and room to keep the status of one.
CONSTANTS
  p1 = p1
  p2 = p2
  p3 = p3
  NoPid = NoPid
  Pid = {p1, p2, p3}
  Status = {7}
  Interactive = FALSE
  JKeep = 1
  MaxLaunch = 3
  MaxStages = 1
  Stops = FALSE
  Leavers = {}
  Traps = FALSE
  Modules = FALSE
  Recycle = FALSE
  ResumeDone = FALSE
SPECIFICATION Spec
SYMMETRY PidSymmetry
INVARIANTS TypeOK IdsUnique HeldJob Counted Remembered
