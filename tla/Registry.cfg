\* The modules a desktop loads: loads within loads, drops, indexes.
CONSTANTS
  pty = pty
  term = term
  hold = hold
  console = console
  terminal = terminal
  display = display
  None = None
  Module = {pty, term, hold, console}
  Iface = {pty, terminal, hold, display}
  Builtin = {term}
  Path <- PathOrder
  Offers <- MyOffers
  Says <- MySays
  Wants <- MyWants
  Later <- MyLater
  Adds <- MyAdds
  Old = {hold, console}
SPECIFICATION Spec
INVARIANTS ListIsOpen IndexFresh OffersLive
PROPERTIES Settles
