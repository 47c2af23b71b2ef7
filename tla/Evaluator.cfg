\* Five families of scripts, with two trapped signals.
CONSTANTS
  Signals = {1, 2}
  Scripts <- All
SPECIFICATION FairSpec
INVARIANTS TypeOK NoneLost
PROPERTIES Lands Leaves
CHECK_DEADLOCK FALSE
