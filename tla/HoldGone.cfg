\* A display that goes while the server draws.
CONSTANTS
  d1 = d1
  d2 = d2
  d3 = d3
  A = A
  B = B
  None = None
  Lost = Lost
  Term <- Two
  Machine = {A, B}
  Base <- TwoNames
  Widths = {1}
  Offsets <- Leftward
  MaxAt = 2
  MaxShift = 1
  MaxTwin = 1
  MaxHere = 2
  MaxAsk = 1
SPECIFICATION Spec
INVARIANT Settled
