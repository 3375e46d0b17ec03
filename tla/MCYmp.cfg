SPECIFICATION FairSpec
CONSTANTS
  m1 = m1
  m2 = m2
  Msgs = {m1, m2}
  Length <- ShortLengths
  FragmentSize = 2
  MaxMessageSize = 5
  MaxSynRetries = 2
  MaxRetries = 2
  MaxBuffers = 1
  MaxRestarts = 1
INVARIANTS
  WholeUntilRestart
  OkMeansTaken
PROPERTIES
  EverySendEnds
