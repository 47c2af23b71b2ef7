\* A break on the left of && or ||, in a loop.
CONSTANTS
  Signals = {}
  Scripts <- OneBreak
SPECIFICATION Spec
PROPERTIES ErrexitStops
CHECK_DEADLOCK FALSE
