SPECIFICATION FairSpec
CONSTANTS
  Msgs = {a, b}
  ChatMsgs = {}
  Dests = {}
  UserBoxes = {"TyrChat"}
  Window = 1
  MaxUid = 6
  MaxMails = 6
  MaxClock = 2
  Streams = {s1, s2}
  NoStream = NoStream
  Depth = 2
  MaxFaults = 3
INVARIANTS
  NoMailLost
  OkMeansStored
  AckFitsStream
PROPERTIES
  ImplementsMailDelivery
  EveryMailSettles
CHECK_DEADLOCK FALSE
