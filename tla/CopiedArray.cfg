\* A name whose value a command keeps a copy of is made an array by its body.
CONSTANTS
  x = x
  Name = {x}
  empty = empty
  a = a
  arr = arr
  bare = bare
  None = None
  Text = {empty, a}
  Array = {bare, arr}
  Empty = empty
  Bare = bare
  MaxCalls = 2
  MaxSaved = 2
  Exceptions = {"copied_array"}
SPECIFICATION Spec
PROPERTIES ImplementsScopes
