\* One variable through calls and commands three deep, a scalar or an array.
CONSTANTS
  x = x
  Name = {x}
  empty = empty
  a = a
  arr = arr
  bare = bare
  None = None
  Text = {empty, a}
  Array = {bare, arr}
  Empty = empty
  Bare = bare
  MaxCalls = 3
  MaxSaved = 2
  Exceptions = {}
SPECIFICATION Spec
INVARIANTS EnvMatches
PROPERTIES ImplementsScopes
