\* Three displays, two of them of one name, attached and asking at once.
CONSTANTS
  d1 = d1
  d2 = d2
  d3 = d3
  A = A
  B = B
  None = None
  Lost = Lost
  Term <- Three
  Machine = {A, B}
  Base <- Names
  Widths = {1}
  Offsets = {}
  MaxAt = 2
  MaxShift = 0
  MaxTwin = 2
  MaxHere = 2
  MaxAsk = 2
SYMMETRY Alike
SPECIFICATION Spec
INVARIANTS OnePrimary RoleKept
