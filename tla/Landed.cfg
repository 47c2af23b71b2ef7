\* A file opened on the descriptor it is meant for.
CONSTANTS
  in = in
  out = out
  err = err
  f = f
  Closed = Closed
  File = {in, out, err, f}
  Path = {f}
  Given <- Alone
  Named = {0, 1, 3}
  Top = 4
  High = 4
  MaxSaves = 2
  Lasting = 1
  MaxDepth = 2
SPECIFICATION Spec
INVARIANT RestoredWhenLanded
