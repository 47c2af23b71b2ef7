\* A script with stopped children, traps and a module whose child may change
\* its process group.
CONSTANTS
  p1 = p1
  p2 = p2
  NoPid = NoPid
  Pid = {p1, p2}
  Status = {0, 7}
  Interactive = FALSE
  JKeep = 1
  MaxLaunch = 2
  MaxStages = 1
  Stops = TRUE
  Leavers = {p1, p2}
  Traps = TRUE
  Modules = TRUE
  Recycle = FALSE
  ResumeDone = FALSE
SPECIFICATION Spec
SYMMETRY PidSymmetry
INVARIANTS WaitAnswers
PROPERTIES ModuleKeeps
