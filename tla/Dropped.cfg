\* A command with no words whose list fails.
CONSTANTS
  in = in
  out = out
  err = err
  f = f
  Closed = Closed
  File = {in, out, err, f}
  Path = {f}
  Given <- Alone
  Named = {1, 3}
  Top = 5
  High = 4
  MaxSaves = 2
  Lasting = 1
  MaxDepth = 2
SPECIFICATION Spec
INVARIANT RestoredWhenDropped
