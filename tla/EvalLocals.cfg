\* A local declared by an `eval' that has assignments before it.
CONSTANTS
  x = x
  Name = {x}
  empty = empty
  a = a
  arr = arr
  bare = bare
  None = None
  Text = {empty, a}
  Array = {bare, arr}
  Empty = empty
  Bare = bare
  MaxCalls = 2
  MaxSaved = 2
  Exceptions = {"eval_local"}
SPECIFICATION Spec
PROPERTIES ImplementsScopes
