\* One peer that stalls the server for ever keeps every other display waiting.
CONSTANTS
  d1 = d1
  d2 = d2
  d3 = d3
  A = A
  B = B
  None = None
  Lost = Lost
  Term <- Two
  Machine = {A, B}
  Base <- TwoNames
  Widths = {1}
  Offsets = {}
  MaxAt = 2
  MaxShift = 0
  MaxTwin = 1
  MaxHere = 2
  MaxAsk = 2
SPECIFICATION StallSpec
PROPERTIES Shown
