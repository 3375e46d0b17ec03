SPECIFICATION FairSpec
CONSTANTS
  Self = me
  Peers = {p, q}
  Callers = {s1, s2}
  Conns = {c1, c2}
  NoConn = NoConn
  Incoming = {i1}
  AddrSpace = 3
INVARIANTS
  QuicTypeOK
  PeersAreVerified
  LiveIsCachedOrEvicted
PROPERTIES
  CorpseNotInherited
  EverySendReturns
