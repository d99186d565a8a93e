SPECIFICATION Spec
CONSTANTS
  Pins = {p, q}
  Latches = {b, n}
  Buttons = {b}
  FsPins = {p}
  Updates = TRUE
INVARIANTS
  OutputsComeBack
PROPERTIES
  RestoresOnlyWhatWasOn
  PressIsReal
