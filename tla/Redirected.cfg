\* Lists within bodies, in a shell with its three descriptors and in one
\* whose input is closed, where every file and every copy lands on 0 first.
CONSTANTS
  in = in
  out = out
  err = err
  f = f
  Closed = Closed
  File = {in, out, err, f}
  Path = {f}
  Given <- Either
  Named = {1, 3}
  Top = 5
  High = 4
  MaxSaves = 3
  Lasting = 1
  MaxDepth = 2
SPECIFICATION Spec
CONSTRAINTS StillClean FewLast
INVARIANTS Unwinds Held Restored
