SPECIFICATION Spec
CONSTANTS
  Pins = {p, q}
  Latches = {b, n}
  Buttons = {b}
  FsPins = {}
  Updates = FALSE
INVARIANTS
  OutKnownIsTrue
