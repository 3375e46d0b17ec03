SPECIFICATION PickerSpec
CONSTANTS
  NumPeers = 2
  Picks = {p1, p2}
  ATop = 2
  Measurements <- Measured
  MaxUpdates = 2
  Infinity = 1000000
SYMMETRY AnyPick
INVARIANTS
  ProbesAreReleased
  NoFlapping
PROPERTIES
  WantedStaysConfigured
