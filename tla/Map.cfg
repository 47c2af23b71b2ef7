CONSTANTS
  k1 = k1
  k2 = k2
  k3 = k3
  k4 = k4
  Null = Null
  Gone = Gone
  m = m
  m2 = m2
  x = x
  Var = {m, m2}
  Key = {k1, k2, k3, k4}
  Value = {x}
  Room = 4
  Addr <- Addrs
  Alloc <- LowestFirst
  Hash <- Meeting
  MinCap = 4
  MpHash = 2
SPECIFICATION Spec
VIEW Places
SYMMETRY Alike
CONSTRAINTS OneWorn OneSet
INVARIANTS TypeOK IndexExact ProbeEnds HeadKnows
PROPERTIES ImplementsMap
