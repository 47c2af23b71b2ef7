\* An interactive shell: pipelines of two processes, stopped and resumed.
CONSTANTS
  p1 = p1
  p2 = p2
  p3 = p3
  NoPid = NoPid
  Pid = {p1, p2, p3}
  Status = {7}
  Interactive = TRUE
  JKeep = 1
  MaxLaunch = 2
  MaxStages = 2
  Stops = TRUE
  Leavers = {}
  Traps = FALSE
  Modules = FALSE
  Recycle = FALSE
  ResumeDone = FALSE
SPECIFICATION Spec
SYMMETRY PidSymmetry
INVARIANTS Counted Remembered
PROPERTIES ReportComplete
