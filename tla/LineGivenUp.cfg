\* A line given up in a function with a RETURN trap.
CONSTANTS
  Signals = {}
  Scripts <- OneGivenUp
SPECIFICATION Spec
INVARIANTS LineGivenUp
CHECK_DEADLOCK FALSE
