SPECIFICATION LoopSpec
CONSTANTS
  Destinations = {me, bob}
  LocalKey = me
  Numbers = {n1}
  Links = {k1, k2}
  Depth = 2
INVARIANTS
  NoWakeIsLost
  NoLinkIsMissed
