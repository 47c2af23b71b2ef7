\* The modules a desktop loads: dropped all at once.
CONSTANTS
  pty = pty
  term = term
  hold = hold
  console = console
  terminal = terminal
  display = display
  None = None
  Module = {pty, term, hold, console}
  Iface = {pty, terminal, hold, display}
  Builtin = {term}
  Path <- PathOrder
  Offers <- MyOffers
  Says <- MySays
  Wants <- MyWants
  Later <- MyLater
  Adds <- MyAdds
  Old = {}
SPECIFICATION Spec
PROPERTY UsersFirst
