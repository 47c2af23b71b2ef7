\* exit in a handler.
CONSTANTS
  Signals = {1, 2}
  Scripts <- All
SPECIFICATION Spec
PROPERTIES ExitKept
CHECK_DEADLOCK FALSE
