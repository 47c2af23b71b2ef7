\* A failure where its status is tested.
CONSTANTS
  Signals = {1, 2}
  Scripts <- All
SPECIFICATION Spec
PROPERTIES TestedIsExempt
CHECK_DEADLOCK FALSE
