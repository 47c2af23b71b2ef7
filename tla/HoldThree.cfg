\* Three displays, two of them of one name, that take turns as the primary, and
\* peers that stall the server in any phase.
CONSTANTS
  d1 = d1
  d2 = d2
  d3 = d3
  A = A
  B = B
  None = None
  Lost = Lost
  Term <- Three
  Machine = {A, B}
  Base <- Names
  Widths = {1}
  Offsets = {}
  MaxAt = 2
  MaxShift = 0
  MaxTwin = 1
  MaxHere = 2
  MaxAsk = 1
SPECIFICATION StallSpec
INVARIANTS OnePrimary RoleKept
PROPERTIES ShownWhenHeard
