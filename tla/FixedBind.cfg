\* A readonly name is given a result with :=.
CONSTANTS
  x = x
  Name = {x}
  empty = empty
  a = a
  arr = arr
  bare = bare
  None = None
  Text = {empty, a}
  Array = {bare, arr}
  Empty = empty
  Bare = bare
  MaxCalls = 2
  MaxSaved = 2
  Exceptions = {"fixed_bind"}
SPECIFICATION Spec
PROPERTIES ImplementsScopes
