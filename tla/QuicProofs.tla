----------------------------- MODULE QuicProofs -----------------------------
(***************************************************************************)
(* Proofs about the connections of the QUIC mail transport: for any sets   *)
(* of peers, callers and connections, the table of addresses stays         *)
(* injective, keys are verified, concurrent dials leave one connection in  *)
(* use, and no dialog begins on a connection that has timed out.  And      *)
(* about the task that sends through it (SenderLoop), which shares nothing *)
(* with them: for any keys, mails and links, it misses neither a new mail  *)
(* nor a link that comes up.                                               *)
(***************************************************************************)
EXTENDS QuicConns, SenderLoop, FiniteSetTheorems, TLAPS

Allotted == Cardinality(DOMAIN byKey)

(* The counter is the number of keys in the table, so that it cannot meet  *)
(* an address in use before every key has one.                             *)
TableInv ==
  /\ DOMAIN byKey \subseteq Keys /\ byKey \in [DOMAIN byKey -> Addrs]
  /\ DOMAIN byAddr \subseteq Addrs /\ byAddr \in [DOMAIN byAddr -> Keys]
  /\ next = IF Allotted = AddrSpace THEN 0 ELSE Allotted
  /\ \A k \in DOMAIN byKey : byKey[k] < Allotted
  /\ \A k \in DOMAIN byKey : byKey[k] \in DOMAIN byAddr /\ byAddr[byKey[k]] = k

InboundInv ==
  /\ inbound \in [Incoming -> [pc : {"none", "handshake", "served"},
                               src : Keys, addr : Addrs, cert : Keys]]
  /\ \A i \in Incoming : inbound[i].pc # "none" =>
       inbound[i].src \in DOMAIN byKey /\ inbound[i].addr = byKey[inbound[i].src]
  /\ \A i \in Incoming : inbound[i].pc = "served" => inbound[i].cert = inbound[i].src

CallType ==
  /\ conn \in [Conns -> [open : BOOLEAN, cert : Keys]]
  /\ DOMAIN cache \subseteq Peers /\ cache \in [DOMAIN cache -> Conns]
  /\ call \in [Callers -> [pc : {"idle", "dial", "insert", "opening", "talking", "evict"},
                           dest : Keys, conn : Conns \cup {NoConn}]]
  /\ \A s \in Callers :
       /\ call[s].pc # "idle" => call[s].dest \in Peers
       /\ call[s].pc \in {"insert", "opening", "talking"} => call[s].conn \in Conns
  /\ lost \subseteq Conns /\ corpses \subseteq Conns

(* A connection is to the key it is cached or used for.                    *)
RightPeer ==
  /\ \A d \in DOMAIN cache : conn[cache[d]].open => conn[cache[d]].cert = d
  /\ \A s \in Callers : call[s].pc \in {"insert", "opening", "talking"} /\ conn[call[s].conn].open
                          => conn[call[s].conn].cert = call[s].dest

(* A connection that is dialled and not yet in the cache is the caller's   *)
(* alone.                                                                  *)
OwnDial ==
  \A s \in Callers : call[s].pc = "insert" =>
    /\ \A d \in DOMAIN cache : cache[d] # call[s].conn
    /\ \A t \in Callers \ {s} : call[t].conn # call[s].conn
    /\ call[s].conn \notin corpses

CorpsesClosed == \A c \in corpses : ~ conn[c].open

CallInv == CallType /\ RightPeer /\ OwnDial /\ CorpsesClosed /\ LiveIsCachedOrEvicted

QuicInv == TableInv /\ InboundInv /\ CallInv

-----------------------------------------------------------------------------
(* The table of addresses.                                                 *)

LEMMA Wraps ==
  ASSUME NEW a \in Nat, a <= AddrSpace
  PROVE  a % AddrSpace = IF a = AddrSpace THEN 0 ELSE a
<1>1. AddrSpace \in Nat /\ AddrSpace > 0
  BY QuicAssumption
<1> QED BY <1>1, Z3

LEMMA KeysFinite == IsFiniteSet(Keys)
  BY QuicAssumption, FS_AddElement DEF Keys

LEMMA RoomInTable ==
  ASSUME DOMAIN byKey \subseteq Keys
  PROVE  /\ IsFiniteSet(DOMAIN byKey) /\ Allotted \in Nat /\ Allotted <= AddrSpace
         /\ \A k \in Keys \ DOMAIN byKey :
              /\ Allotted < AddrSpace
              /\ Cardinality(DOMAIN byKey \cup {k}) = Allotted + 1
<1>1. IsFiniteSet(DOMAIN byKey) /\ Allotted \in Nat /\ Allotted <= Cardinality(Keys)
  BY KeysFinite, FS_Subset, FS_CardinalityType DEF Allotted
<1>2. Cardinality(Keys) \in Nat /\ Cardinality(Keys) <= AddrSpace /\ AddrSpace \in Nat
  BY KeysFinite, FS_CardinalityType, QuicAssumption
<1>3. ASSUME NEW k \in Keys \ DOMAIN byKey
      PROVE  Allotted < AddrSpace /\ Cardinality(DOMAIN byKey \cup {k}) = Allotted + 1
  <2>1. Cardinality(DOMAIN byKey \cup {k}) = Allotted + 1
    BY <1>1, FS_AddElement DEF Allotted
  <2>2. DOMAIN byKey \cup {k} \in SUBSET Keys
    OBVIOUS
  <2>3. Cardinality(DOMAIN byKey \cup {k}) <= Cardinality(Keys)
    BY <2>2, KeysFinite, FS_Subset
  <2> QED BY <1>1, <1>2, <2>1, <2>3
<1> QED BY <1>1, <1>2, <1>3

LEMMA NextIsAddr ==
  ASSUME TableInv
  PROVE  next \in Addrs
<1>1. Allotted \in Nat /\ Allotted <= AddrSpace
  BY RoomInTable DEF TableInv
<1> QED BY <1>1, QuicAssumption DEF TableInv, Addrs

LEMMA AddrForKeyKeeps ==
  ASSUME TableInv, NEW k \in Keys, AddrForKey(k)
  PROVE  /\ TableInv'
         /\ k \in DOMAIN byKey'
         /\ \A x \in DOMAIN byKey : x \in DOMAIN byKey' /\ byKey'[x] = byKey[x]
<1>1. CASE k \in DOMAIN byKey
  <2>1. UNCHANGED <<byKey, byAddr, next>>
    BY <1>1 DEF AddrForKey, tableVars
  <2> QED BY <1>1, <2>1 DEF TableInv, Allotted
<1>2. CASE k \notin DOMAIN byKey
  <2> DEFINE n == Allotted
  <2>1. n \in Nat /\ n < AddrSpace /\ AddrSpace \in Nat /\ next = n
    <3>1. DOMAIN byKey \subseteq Keys /\ next = IF n = AddrSpace THEN 0 ELSE n
      BY DEF TableInv
    <3>2. n \in Nat /\ n < AddrSpace
      BY <1>2, <3>1, RoomInTable
    <3> QED BY <3>1, <3>2, QuicAssumption
  <2>2. /\ byKey'  = [x \in DOMAIN byKey \cup {k} |-> IF x = k THEN next ELSE byKey[x]]
        /\ byAddr' = [a \in DOMAIN byAddr \cup {next} |-> IF a = next THEN k ELSE byAddr[a]]
        /\ next'   = (next + 1) % AddrSpace
    BY <1>2 DEF AddrForKey, NextAddr
  <2>3. DOMAIN byKey' = DOMAIN byKey \cup {k}
    BY <2>2
  <2>4. Allotted' = n + 1
    BY <1>2, <2>3, RoomInTable DEF TableInv, Allotted
  <2>5. next' = IF Allotted' = AddrSpace THEN 0 ELSE Allotted'
    <3>1. n + 1 \in Nat /\ n + 1 <= AddrSpace
      BY <2>1
    <3>2. (n + 1) % AddrSpace = IF n + 1 = AddrSpace THEN 0 ELSE n + 1
      BY <3>1, Wraps
    <3> QED BY <2>1, <2>2, <2>4, <3>2
  <2> HIDE DEF n
  <2>6. next \in Addrs
    BY NextIsAddr
  <2>7. /\ DOMAIN byKey' \subseteq Keys /\ byKey' \in [DOMAIN byKey' -> Addrs]
        /\ DOMAIN byAddr' \subseteq Addrs /\ byAddr' \in [DOMAIN byAddr' -> Keys]
    BY <2>2, <2>6 DEF TableInv
  <2>8. \A x \in DOMAIN byKey : byKey[x] < n /\ byKey[x] \in Addrs
    BY DEF TableInv, n
  <2>9. \A x \in DOMAIN byKey' : byKey'[x] < Allotted'
    BY <2>1, <2>2, <2>4, <2>8 DEF Addrs
  <2>10. \A x \in DOMAIN byKey : byKey[x] # next
    BY <2>1, <2>8 DEF Addrs
  <2>11. \A x \in DOMAIN byKey' : byKey'[x] \in DOMAIN byAddr' /\ byAddr'[byKey'[x]] = x
    BY <1>2, <2>2, <2>10 DEF TableInv
  <2>12. TableInv'
    BY <2>5, <2>7, <2>9, <2>11 DEF TableInv
  <2> QED BY <1>2, <2>2, <2>12
<1> QED BY <1>1, <1>2

(* The steps of send() leave incoming connections alone.                   *)
LEMMA InboundKept ==
  ASSUME TableInv, InboundInv, UNCHANGED inbound,
         UNCHANGED tableVars \/ \E k \in Keys : AddrForKey(k)
  PROVE  TableInv' /\ InboundInv'
<1>1. CASE UNCHANGED tableVars
  BY <1>1 DEF tableVars, TableInv, InboundInv, Allotted
<1>2. ASSUME NEW k \in Keys, AddrForKey(k)
      PROVE  TableInv' /\ InboundInv'
  <2>1. /\ TableInv'
        /\ \A x \in DOMAIN byKey : x \in DOMAIN byKey' /\ byKey'[x] = byKey[x]
    BY <1>2, AddrForKeyKeeps
  <2> QED BY <2>1 DEF InboundInv
<1> QED BY <1>1, <1>2

-----------------------------------------------------------------------------
(* Each step keeps what is said of calls, cache and connections.           *)

LEMMA ReturnsKeeps ==
  ASSUME CallInv, NEW s \in Callers, Returns(s), UNCHANGED <<conn, cache, lost, corpses>>
  PROVE  CallInv'
<1> USE DEF CallInv
<1>1. call' = [call EXCEPT ![s] = [pc |-> "idle", dest |-> Self, conn |-> NoConn]]
  BY DEF Returns, Idle
<1>2. CallType' /\ CorpsesClosed'
  BY <1>1 DEF CallType, CorpsesClosed, Keys
<1>3. RightPeer'
  BY <1>1 DEF CallType, RightPeer
<1>4. OwnDial'
  BY <1>1, QuicAssumption DEF CallType, OwnDial
<1>5. LiveIsCachedOrEvicted'
  BY <1>1 DEF CallType, LiveIsCachedOrEvicted, InDialog
<1> QED BY <1>2, <1>3, <1>4, <1>5

LEMMA LookupKeeps ==
  ASSUME CallInv, NEW s \in Callers, NEW d \in Peers, Lookup(s, d)
  PROVE  CallInv'
<1> USE DEF CallInv
<1>0. UNCHANGED <<conn, cache, lost, corpses>> /\ d \in Keys
  BY DEF Lookup, Keys
<1>1. CASE Usable(d) /\ At(s, "opening", d, cache[d])
  <2>1. call' = [call EXCEPT ![s] = [pc |-> "opening", dest |-> d, conn |-> cache[d]]]
    BY <1>1 DEF At
  <2>2. cache[d] \in Conns /\ d \in DOMAIN cache /\ conn[cache[d]].open
    BY <1>1 DEF Usable, CallType
  <2>3. CallType'
    BY <1>0, <2>1, <2>2 DEF CallType
  <2>4. RightPeer'
    BY <1>0, <2>1, <2>2 DEF CallType, RightPeer
  <2>5. OwnDial' /\ CorpsesClosed'
    BY <1>0, <2>1, <2>2 DEF CallType, OwnDial, CorpsesClosed
  <2>6. LiveIsCachedOrEvicted'
    BY <1>0, <2>1, <2>2 DEF CallType, LiveIsCachedOrEvicted, InDialog
  <2> QED BY <2>3, <2>4, <2>5, <2>6
<1>2. CASE At(s, "dial", d, NoConn)
  <2>1. call' = [call EXCEPT ![s] = [pc |-> "dial", dest |-> d, conn |-> NoConn]]
    BY <1>2 DEF At
  <2>2. CallType' /\ CorpsesClosed'
    BY <1>0, <2>1 DEF CallType, CorpsesClosed
  <2>3. RightPeer'
    BY <1>0, <2>1 DEF CallType, RightPeer
  <2>4. OwnDial'
    BY <1>0, <2>1, QuicAssumption DEF CallType, OwnDial
  <2>5. LiveIsCachedOrEvicted'
    BY <1>0, <2>1 DEF CallType, LiveIsCachedOrEvicted, InDialog
  <2> QED BY <2>2, <2>3, <2>4, <2>5
<1> QED BY <1>1, <1>2 DEF Lookup

(* The key of the new connection is the key that was dialled, and nobody   *)
(* else knows of the connection.                                           *)
LEMMA DialledKeeps ==
  ASSUME CallInv, NEW s \in Callers, Dialled(s)
  PROVE  CallInv'
<1> USE DEF CallInv
<1> DEFINE d == call[s].dest
<1>0. call[s].pc = "dial" /\ d \in Peers /\ d \in Keys /\ UNCHANGED <<cache, lost>>
  BY DEF Dialled, CallType
<1>1. PICK c \in Conns, k \in Keys :
        /\ Unused(c)
        /\ \/ /\ Pinned(k, d)
              /\ conn' = [conn EXCEPT ![c] = [open |-> TRUE, cert |-> k]]
              /\ corpses' = corpses \ {c}
              /\ At(s, "insert", d, c)
           \/ /\ ~ Pinned(k, d)
              /\ Returns(s)
              /\ UNCHANGED <<conn, corpses>>
  BY DEF Dialled
<1>2. CASE Pinned(k, d) /\ conn' = [conn EXCEPT ![c] = [open |-> TRUE, cert |-> k]]
           /\ corpses' = corpses \ {c} /\ At(s, "insert", d, c)
  <2>1. k = d /\ call' = [call EXCEPT ![s] = [pc |-> "insert", dest |-> d, conn |-> c]]
    BY <1>2 DEF At, Pinned
  <2> HIDE DEF d
  <2>2. (\A x \in DOMAIN cache : cache[x] # c) /\ (\A t \in Callers : call[t].conn # c)
    BY <1>1 DEF Unused
  <2>3. CallType'
    BY <1>0, <1>2, <2>1 DEF CallType
  <2>4. RightPeer'
    BY <1>0, <1>2, <2>1, <2>2 DEF CallType, RightPeer
  <2>5. OwnDial' /\ CorpsesClosed'
    BY <1>0, <1>2, <2>1, <2>2 DEF CallType, OwnDial, CorpsesClosed
  <2>6. LiveIsCachedOrEvicted'
    BY <1>0, <1>2, <2>1, <2>2 DEF CallType, LiveIsCachedOrEvicted, InDialog
  <2> QED BY <2>3, <2>4, <2>5, <2>6
<1>3. CASE Returns(s) /\ UNCHANGED <<conn, corpses>>
  BY <1>0, <1>3, ReturnsKeeps
<1> QED BY <1>1, <1>2, <1>3

LEMMA DialFailsKeeps ==
  ASSUME CallInv, NEW s \in Callers, DialFails(s)
  PROVE  CallInv'
BY ReturnsKeeps DEF DialFails

(* Either the caller's connection, which nobody else knows, is closed for  *)
(* the cached one, or it takes the place of one that is closed.            *)
LEMMA InsertKeeps ==
  ASSUME CallInv, NEW s \in Callers, Insert(s)
  PROVE  CallInv'
<1> USE DEF CallInv
<1> DEFINE d == call[s].dest
           c == call[s].conn
<1>0. /\ call[s].pc = "insert" /\ d \in Peers /\ d \in Keys /\ c \in Conns
      /\ UNCHANGED corpses
      /\ \A x \in DOMAIN cache : cache[x] # c
      /\ \A t \in Callers \ {s} : call[t].conn # c
      /\ c \notin corpses
      /\ conn[c].open => conn[c].cert = d
  BY DEF Insert, CallType, OwnDial, RightPeer
<1>1. CASE Usable(d)
  <2>1. /\ conn' = [conn EXCEPT ![c] = Closed] /\ lost' = lost \ {c}
        /\ call' = [call EXCEPT ![s] = [pc |-> "opening", dest |-> d, conn |-> cache[d]]]
        /\ UNCHANGED cache
    BY <1>1 DEF Insert, Close, At
  <2>2. d \in DOMAIN cache /\ cache[d] \in Conns /\ conn[cache[d]].open
    BY <1>1 DEF Usable, CallType
  <2> HIDE DEF d, c
  <2>3. CallType'
    BY <1>0, <2>1, <2>2 DEF CallType, Closed, Keys
  <2>4. RightPeer'
    BY <1>0, <2>1, <2>2 DEF CallType, RightPeer, Closed
  <2>5. OwnDial' /\ CorpsesClosed'
    BY <1>0, <2>1, <2>2 DEF CallType, OwnDial, CorpsesClosed, Closed
  <2>6. LiveIsCachedOrEvicted'
    BY <1>0, <2>1, <2>2 DEF CallType, LiveIsCachedOrEvicted, InDialog, Closed
  <2> QED BY <2>3, <2>4, <2>5, <2>6
<1>2. CASE ~ Usable(d)
  <2>1. /\ cache' = [x \in DOMAIN cache \cup {d} |-> IF x = d THEN c ELSE cache[x]]
        /\ call' = [call EXCEPT ![s] = [pc |-> "opening", dest |-> d, conn |-> c]]
        /\ UNCHANGED <<conn, lost>>
    BY <1>2 DEF Insert, At
  <2>2. d \in DOMAIN cache => ~ conn[cache[d]].open
    BY <1>2 DEF Usable
  <2> HIDE DEF d, c
  <2>3. CallType'
    BY <1>0, <2>1 DEF CallType
  <2>4. RightPeer'
    BY <1>0, <2>1 DEF CallType, RightPeer
  <2>5. OwnDial' /\ CorpsesClosed'
    BY <1>0, <2>1 DEF CallType, OwnDial, CorpsesClosed
  <2>6. LiveIsCachedOrEvicted'
    BY <1>0, <2>1, <2>2 DEF CallType, LiveIsCachedOrEvicted, InDialog
  <2> QED BY <2>3, <2>4, <2>5, <2>6
<1> QED BY <1>1, <1>2

LEMMA OpenBiKeeps ==
  ASSUME CallInv, NEW s \in Callers, OpenBi(s)
  PROVE  CallInv'
<1> USE DEF CallInv
<1>1. CallType'
  BY QuicAssumption DEF OpenBi, At, CallType, Keys
<1>2. RightPeer'
  BY QuicAssumption DEF OpenBi, At, CallType, RightPeer
<1>3. OwnDial'
  BY QuicAssumption DEF OpenBi, At, CallType, OwnDial, CorpsesClosed
<1>4. CorpsesClosed'
  BY QuicAssumption DEF OpenBi, At, CallType, OwnDial, CorpsesClosed, LiveIsCachedOrEvicted
<1>5. LiveIsCachedOrEvicted'
  BY QuicAssumption DEF OpenBi, At, CallType, LiveIsCachedOrEvicted, InDialog
<1> QED BY <1>1, <1>2, <1>3, <1>4, <1>5

LEMMA OpenBiFailsKeeps ==
  ASSUME CallInv, NEW s \in Callers, OpenBiFails(s)
  PROVE  CallInv'
<1> USE DEF CallInv
<1>1. CallType'
  BY QuicAssumption DEF OpenBiFails, At, CallType, Keys
<1>2. RightPeer'
  BY QuicAssumption DEF OpenBiFails, At, CallType, RightPeer
<1>3. OwnDial'
  BY QuicAssumption DEF OpenBiFails, At, CallType, OwnDial, CorpsesClosed
<1>4. CorpsesClosed'
  BY QuicAssumption DEF OpenBiFails, At, CallType, OwnDial, CorpsesClosed, LiveIsCachedOrEvicted
<1>5. LiveIsCachedOrEvicted'
  BY QuicAssumption DEF OpenBiFails, At, CallType, LiveIsCachedOrEvicted, InDialog
<1> QED BY <1>1, <1>2, <1>3, <1>4, <1>5

LEMMA DialogEndsKeeps ==
  ASSUME CallInv, NEW s \in Callers, DialogEnds(s)
  PROVE  CallInv'
BY ReturnsKeeps DEF DialogEnds

LEMMA DialogTimeoutKeeps ==
  ASSUME CallInv, NEW s \in Callers, DialogTimeout(s)
  PROVE  CallInv'
<1> USE DEF CallInv
<1>1. CallType'
  BY QuicAssumption DEF DialogTimeout, At, Close, Closed, CallType, Keys
<1>2. RightPeer'
  BY QuicAssumption DEF DialogTimeout, At, Close, Closed, CallType, RightPeer
<1>3. OwnDial'
  BY QuicAssumption DEF DialogTimeout, At, Close, Closed, CallType, OwnDial, CorpsesClosed
<1>4. CorpsesClosed'
  BY QuicAssumption DEF DialogTimeout, At, Close, Closed, CallType, OwnDial, CorpsesClosed, LiveIsCachedOrEvicted
<1>5. LiveIsCachedOrEvicted'
  BY QuicAssumption DEF DialogTimeout, At, Close, Closed, CallType, LiveIsCachedOrEvicted, InDialog
<1> QED BY <1>1, <1>2, <1>3, <1>4, <1>5

LEMMA EvictKeeps ==
  ASSUME CallInv, NEW s \in Callers, Evict(s)
  PROVE  CallInv'
<1> USE DEF CallInv
<1>1. CallType'
  BY QuicAssumption DEF Evict, Returns, Idle, Usable, Restrict, CallType, Keys
<1>2. RightPeer'
  BY QuicAssumption DEF Evict, Returns, Idle, Usable, Restrict, CallType, RightPeer
<1>3. OwnDial'
  BY QuicAssumption DEF Evict, Returns, Idle, Usable, Restrict, CallType, OwnDial, CorpsesClosed
<1>4. CorpsesClosed'
  BY QuicAssumption DEF Evict, Returns, Idle, Usable, Restrict, CallType, OwnDial, CorpsesClosed, LiveIsCachedOrEvicted
<1>5. LiveIsCachedOrEvicted'
  BY QuicAssumption DEF Evict, Returns, Idle, Usable, Restrict, CallType, LiveIsCachedOrEvicted, InDialog
<1> QED BY <1>1, <1>2, <1>3, <1>4, <1>5

LEMMA ConnDiesKeeps ==
  ASSUME CallInv, NEW c \in Conns, ConnDies(c)
  PROVE  CallInv'
<1> USE DEF CallInv
<1>1. CallType'
  BY QuicAssumption DEF ConnDies, Close, Closed, CallType, Keys
<1>2. RightPeer'
  BY QuicAssumption DEF ConnDies, Close, Closed, CallType, RightPeer
<1>3. OwnDial'
  BY QuicAssumption DEF ConnDies, Close, Closed, CallType, OwnDial, CorpsesClosed
<1>4. CorpsesClosed'
  BY QuicAssumption DEF ConnDies, Close, Closed, CallType, OwnDial, CorpsesClosed, LiveIsCachedOrEvicted
<1>5. LiveIsCachedOrEvicted'
  BY QuicAssumption DEF ConnDies, Close, Closed, CallType, LiveIsCachedOrEvicted, InDialog
<1> QED BY <1>1, <1>2, <1>3, <1>4, <1>5

-----------------------------------------------------------------------------
(* Incoming connections.                                                   *)

(* A connection is known by the address its first datagram came from.      *)
LEMMA ArrivesKeeps ==
  ASSUME QuicInv, NEW i \in Incoming, NEW k \in Peers, NEW cert \in Keys, Arrives(i, k, cert)
  PROVE  TableInv' /\ InboundInv'
<1> USE DEF QuicInv
<1>1. k \in Keys /\ AddrForKey(k)
  BY DEF Keys, Arrives
<1>2. /\ TableInv' /\ k \in DOMAIN byKey'
      /\ \A x \in DOMAIN byKey : x \in DOMAIN byKey' /\ byKey'[x] = byKey[x]
  BY <1>1, AddrForKeyKeeps
<1>3. inbound' = [inbound EXCEPT ![i] = [pc |-> "handshake", src |-> k, addr |-> byKey'[k],
                                         cert |-> cert]]
  BY DEF Arrives
<1>4. byKey'[k] \in Addrs
  BY <1>2 DEF TableInv
<1> QED BY <1>1, <1>2, <1>3, <1>4 DEF InboundInv

LEMMA AcceptKeeps ==
  ASSUME QuicInv, NEW i \in Incoming, Accept(i)
  PROVE  TableInv' /\ InboundInv'
<1> USE DEF QuicInv
<1> DEFINE c == inbound[i]
           match == c.addr \in DOMAIN byAddr /\ byAddr[c.addr] = c.cert
<1>1. /\ UNCHANGED <<byKey, byAddr, next>> /\ c.pc = "handshake"
      /\ inbound' = [inbound EXCEPT ![i] = IF match THEN [c EXCEPT !.pc = "served"] ELSE Nobody]
  BY DEF Accept
<1>2. TableInv'
  BY <1>1 DEF TableInv, Allotted
<1>3. c.src \in DOMAIN byKey /\ c.addr = byKey[c.src] /\ byAddr[byKey[c.src]] = c.src
  BY <1>1 DEF InboundInv, TableInv
<1>4. Self \in Keys /\ 0 \in Addrs
  BY QuicAssumption DEF Keys, Addrs
<1>5. CASE match
  <2>1. inbound' = [inbound EXCEPT ![i] = [c EXCEPT !.pc = "served"]] /\ c.cert = c.src
    BY <1>1, <1>3, <1>5
  <2>2. [c EXCEPT !.pc = "served"] =
          [pc |-> "served", src |-> c.src, addr |-> c.addr, cert |-> c.cert]
    BY DEF InboundInv
  <2> QED BY <1>1, <1>2, <1>3, <2>1, <2>2 DEF InboundInv
<1>6. CASE ~ match
  BY <1>1, <1>2, <1>4, <1>6 DEF InboundInv, Nobody
<1> QED BY <1>5, <1>6

LEMMA LeavesKeeps ==
  ASSUME QuicInv, NEW i \in Incoming, Leaves(i)
  PROVE  TableInv' /\ InboundInv'
<1> USE DEF QuicInv
<1>1. Self \in Keys /\ 0 \in Addrs
  BY QuicAssumption DEF Keys, Addrs
<1>2. TableInv'
  BY DEF Leaves, TableInv, Allotted
<1> QED BY <1>1, <1>2 DEF Leaves, InboundInv, Nobody

-----------------------------------------------------------------------------
(* The theorems.                                                           *)

LEMMA InitInv ==
  ASSUME Init
  PROVE  QuicInv
<1> USE DEF Init
<1>1. DOMAIN byKey = {Self} /\ DOMAIN byAddr = {0} /\ Allotted = 1
  BY FS_Singleton DEF Allotted
<1>2. Self \in Keys /\ 0 \in Addrs /\ AddrSpace \in Nat /\ AddrSpace > 0
  BY QuicAssumption DEF Keys, Addrs
<1>3. next = IF Allotted = AddrSpace THEN 0 ELSE Allotted
  <2>1. 1 \in Nat /\ 1 <= AddrSpace
    BY <1>2
  <2>2. 1 % AddrSpace = IF 1 = AddrSpace THEN 0 ELSE 1
    BY <2>1, Wraps
  <2> QED BY <1>1, <2>2
<1>4. TableInv
  BY <1>1, <1>2, <1>3 DEF TableInv
<1>5. InboundInv
  BY <1>2 DEF InboundInv, Nobody
<1>6. CallType
  BY <1>2 DEF CallType, Closed, Idle
<1>7. RightPeer /\ OwnDial /\ CorpsesClosed /\ LiveIsCachedOrEvicted
  BY DEF RightPeer, OwnDial, CorpsesClosed, LiveIsCachedOrEvicted, InDialog, Idle
<1> QED BY <1>4, <1>5, <1>6, <1>7 DEF QuicInv, CallInv

LEMMA StepInv ==
  ASSUME QuicInv, [Next]_vars
  PROVE  QuicInv'
<1> USE DEF QuicInv
<1>1. ASSUME NEW s \in Callers, NEW d \in Peers, Lookup(s, d)
      PROVE  QuicInv'
  <2>1. UNCHANGED inbound /\ d \in Keys /\ (UNCHANGED tableVars \/ AddrForKey(d))
    BY <1>1 DEF Lookup, Keys
  <2>2. TableInv' /\ InboundInv'
    BY <2>1, InboundKept
  <2> QED BY <1>1, <2>2, LookupKeeps
<1>2. ASSUME NEW s \in Callers, Dialled(s) \/ Timers(s) \/ OpenBi(s) \/ DialogEnds(s)
      PROVE  QuicInv'
  <2>1. UNCHANGED inbound /\ UNCHANGED tableVars
    BY <1>2 DEF Timers, Dialled, Insert, DialFails, OpenBiFails, DialogTimeout, Evict, OpenBi,
                DialogEnds, tableVars
  <2>2. TableInv' /\ InboundInv'
    BY <2>1, InboundKept
  <2>3. CallInv'
    BY <1>2, DialledKeeps, InsertKeeps, DialFailsKeeps, OpenBiFailsKeeps, DialogTimeoutKeeps,
       EvictKeeps, OpenBiKeeps, DialogEndsKeeps DEF Timers
  <2> QED BY <2>2, <2>3
<1>3. ASSUME NEW c \in Conns, ConnDies(c)
      PROVE  QuicInv'
  <2>1. UNCHANGED inbound /\ UNCHANGED tableVars
    BY <1>3 DEF ConnDies, tableVars
  <2>2. TableInv' /\ InboundInv'
    BY <2>1, InboundKept
  <2> QED BY <1>3, <2>2, ConnDiesKeeps
<1>4. ASSUME NEW i \in Incoming,
             (\E k \in Peers, cert \in Keys : Arrives(i, k, cert)) \/ Accept(i) \/ Leaves(i)
      PROVE  QuicInv'
  <2>1. UNCHANGED callVars
    BY <1>4 DEF Arrives, Accept, Leaves
  <2>2. CallInv'
    BY <2>1 DEF callVars, CallInv, CallType, RightPeer, OwnDial, CorpsesClosed,
                LiveIsCachedOrEvicted, InDialog
  <2>3. TableInv' /\ InboundInv'
    BY <1>4, ArrivesKeeps, AcceptKeeps, LeavesKeeps
  <2> QED BY <2>2, <2>3
<1>5. CASE UNCHANGED vars
  BY <1>5 DEF vars, TableInv, Allotted, InboundInv, CallInv, CallType, RightPeer, OwnDial,
              CorpsesClosed, LiveIsCachedOrEvicted, InDialog
<1> QED BY <1>1, <1>2, <1>3, <1>4, <1>5 DEF Next

(* The inductive invariant of the connections holds in every state.        *)
THEOREM QuicInvariant == Spec => []QuicInv
<1>1. Init => QuicInv
  BY InitInv
<1>2. QuicInv /\ [Next]_vars => QuicInv'
  BY StepInv
<1> QED BY <1>1, <1>2, PTL DEF Spec

(* Every reachable state is well typed, and the counter of addresses stays *)
(* within its width (AddrTable, QuicMailTransport).                        *)
THEOREM QuicTypeCorrect == Spec => []QuicTypeOK
<1>1. QuicInv => QuicTypeOK
  BY NextIsAddr DEF QuicInv, TableInv, InboundInv, CallInv, CallType, QuicTypeOK
<1> QED BY <1>1, QuicInvariant, PTL

(* Mail is spoken only over a connection to the key it is for, and only    *)
(* connections whose certificate is the key of their datagrams are served. *)
THEOREM PeersVerified == Spec => []PeersAreVerified
<1>1. QuicInv => PeersAreVerified
  BY DEF QuicInv, InboundInv, CallInv, RightPeer, PeersAreVerified, InDialog
<1> QED BY <1>1, QuicInvariant, PTL

(* Any number of concurrent dials of a peer leave one connection in use,   *)
(* the cached one, but for those evicted while open (connection_for).      *)
THEOREM LiveConnectionsCached == Spec => []LiveIsCachedOrEvicted
<1>1. QuicInv => LiveIsCachedOrEvicted
  BY DEF QuicInv, CallInv
<1> QED BY <1>1, QuicInvariant, PTL

(* No step takes a call into its dialog on a connection on which a dialog  *)
(* has timed out (send, transport.rs:258).                                 *)
THEOREM CorpsesNotInherited == Spec => CorpseNotInherited
<1> DEFINE Fresh(s) == ~ InDialog(s) /\ InDialog(s)' => call'[s].conn \notin corpses'
<1>1. ASSUME QuicInv, [Next]_vars, NEW s \in Callers
      PROVE  Fresh(s)
  <2> SUFFICES ASSUME ~ InDialog(s), InDialog(s)'
               PROVE  call'[s].conn \notin corpses'
    OBVIOUS
  <2>0. CallType /\ OwnDial /\ CorpsesClosed
    BY <1>1 DEF QuicInv, CallInv
  <2>1. ASSUME NEW t \in Callers, NEW d \in Peers, Lookup(t, d)
        PROVE  call'[s].conn \notin corpses'
    <3>1. UNCHANGED corpses
      BY <2>1 DEF Lookup
    <3>2. CASE Usable(d) /\ At(t, "opening", d, cache[d])
      <4>1. t = s /\ call'[s].conn = cache[d]
        BY <2>0, <3>2 DEF At, InDialog, CallType
      <4> QED BY <2>0, <3>1, <3>2, <4>1 DEF Usable, CorpsesClosed
    <3>3. CASE At(t, "dial", d, NoConn)
      BY <2>0, <3>3 DEF At, InDialog, CallType
    <3> QED BY <2>1, <3>2, <3>3 DEF Lookup
  <2>2. ASSUME NEW t \in Callers, Insert(t)
        PROVE  call'[s].conn \notin corpses'
    <3>1. t = s /\ UNCHANGED corpses
      BY <2>0, <2>2 DEF Insert, At, InDialog, CallType
    <3> QED BY <2>0, <2>2, <3>1 DEF Insert, At, Usable, CallType, OwnDial, CorpsesClosed
  <2>3. ASSUME NEW t \in Callers, \/ Dialled(t) \/ DialFails(t) \/ OpenBiFails(t)
                                   \/ DialogTimeout(t) \/ Evict(t) \/ DialogEnds(t)
        PROVE  FALSE
    BY <2>0, <2>3 DEF Dialled, DialFails, OpenBiFails, DialogTimeout, Evict, DialogEnds, At,
                      Returns, Idle, InDialog, CallType
  <2>4. ASSUME NEW t \in Callers, OpenBi(t)
        PROVE  FALSE
    BY <2>0, <2>4 DEF OpenBi, At, InDialog, CallType
  <2>5. ASSUME UNCHANGED call
        PROVE  FALSE
    BY <2>5 DEF InDialog
  <2> QED BY <1>1, <2>1, <2>2, <2>3, <2>4, <2>5
             DEF Next, Timers, ConnDies, Arrives, Accept, Leaves, callVars, vars
<1>2. QuicInv /\ [Next]_vars => [\A s \in Callers : Fresh(s)]_vars
  BY <1>1
<1> QED BY <1>2, QuicInvariant, PTL DEF Spec, CorpseNotInherited
-----------------------------------------------------------------------------
(* How the sender task waits.                                              *)

Events == {"Connected", "Disconnected"}

TaskType ==
  [pc : {"start", "list", "rows", "mail", "first", "subscribe", "second", "wait", "look", "send",
         "sleep", "over"},
   dests : SUBSET Destinations, pending : SUBSET Rows, soon : BOOLEAN]

LoopTypes ==
  /\ rows \subseteq Rows /\ inserting \subseteq Rows /\ permit \in BOOLEAN
  /\ task \in TaskType
  /\ link \in [Links -> {"down", "up", "announced"}]
  /\ bus \in Seq(Events) /\ lagged \in BOOLEAN /\ stop \in BOOLEAN
  /\ unseen \subseteq rows

(* A row no cycle has listed is in front of the cycle, or its notification *)
(* is; a cycle that failed may leave it to the short interval.             *)
Ahead(r) ==
  \/ r \in inserting \/ permit
  \/ task.pc \in {"start", "list", "over"}
  \/ task.pc = "sleep" /\ task.soon
  \/ task.pc # "sleep" /\ r.dest \in task.dests

UnseenIsAhead == \A r \in unseen : Ahead(r)

LoopInv == LoopTypes /\ UnseenIsAhead /\ NoLinkIsMissed

-----------------------------------------------------------------------------
(* The bus.                                                                *)
News(b) == \E i \in 1 .. Len(b) : b[i] = "Connected"

LEMMA AppendedNews ==
  ASSUME NEW b \in Seq(Events), NEW e \in Events, News(b) \/ e = "Connected"
  PROVE  News(Append(b, e))
<1>1. Len(Append(b, e)) = Len(b) + 1 /\ Len(b) \in Nat
  OBVIOUS
<1>2. CASE News(b)
  <2>1. PICK i \in 1 .. Len(b) : b[i] = "Connected"
    BY <1>2 DEF News
  <2>2. i \in 1 .. Len(Append(b, e)) /\ Append(b, e)[i] = b[i]
    BY <1>1, <2>1
  <2> QED BY <2>1, <2>2 DEF News
<1>3. CASE e = "Connected"
  <2>1. Len(b) + 1 \in 1 .. Len(Append(b, e)) /\ Append(b, e)[Len(b) + 1] = e
    BY <1>1
  <2> QED BY <1>3, <2>1 DEF News
<1> QED BY <1>2, <1>3

LEMMA NewsInTail ==
  ASSUME NEW b \in Seq(Events), b # <<>>, News(b), Head(b) # "Connected"
  PROVE  News(Tail(b))
<1>1. PICK i \in 1 .. Len(b) : b[i] = "Connected"
  BY DEF News
<1>2. i # 1
  BY <1>1
<1>3. i - 1 \in 1 .. Len(Tail(b)) /\ Tail(b)[i - 1] = b[i]
  BY <1>1, <1>2
<1> QED BY <1>1, <1>3 DEF News

(* What is published reaches a subscribed reader, and news it has not read *)
(* stays, unless the bus was full of events after it.                      *)
LEMMA Published ==
  ASSUME LoopTypes, NEW e \in Events, Publish(e)
  PROVE  /\ bus' \in Seq(Events) /\ lagged' \in BOOLEAN
         /\ Subscribed /\ ~ lagged' => ~ lagged /\ (News(bus) \/ e = "Connected" => News(bus'))
<1> DEFINE full == Len(bus) = Depth
           rest == IF full THEN Tail(bus) ELSE bus
<1>1. bus \in Seq(Events) /\ lagged \in BOOLEAN /\ Depth \in Nat \ {0}
  BY SenderLoopAssumption DEF LoopTypes
<1>2. full => bus # <<>>
  BY <1>1
<1>3. rest \in Seq(Events)
  BY <1>1, <1>2
<1>4. /\ bus' = IF ~ Subscribed THEN bus ELSE Append(rest, e)
      /\ lagged' = (lagged \/ (Subscribed /\ full /\ Head(bus) = "Connected"))
  BY Zenon DEF Publish
<1>5. bus' \in Seq(Events)
  BY <1>1, <1>3, <1>4
<1>6. lagged' \in BOOLEAN
  BY <1>4, Zenon
<1>7. ASSUME Subscribed, ~ lagged', News(bus) \/ e = "Connected"
      PROVE  News(bus')
  <2>1. ~ (full /\ Head(bus) = "Connected") /\ bus' = Append(rest, e)
    BY <1>4, <1>7, Zenon
  <2>2. News(bus) => News(rest)
    BY <1>1, <1>2, <2>1, NewsInTail
  <2> QED BY <1>3, <1>7, <2>1, <2>2, AppendedNews
<1> QED BY <1>4, <1>5, <1>6, <1>7

LEMMA FreshTask ==
  ASSUME NEW pc \in {"start", "sleep", "over"}, NEW soon \in BOOLEAN
  PROVE  /\ Task(pc, soon) \in TaskType
         /\ Task(pc, soon).pc = pc /\ Task(pc, soon).soon = soon
BY DEF Task, TaskType

LEMMA LoopInitInv == LoopInit => LoopInv
<1> SUFFICES ASSUME LoopInit PROVE LoopInv
  OBVIOUS
<1>1. task \in TaskType /\ task.pc = "start"
  BY FreshTask DEF LoopInit
<1>2. permit \in BOOLEAN /\ lagged \in BOOLEAN /\ stop \in BOOLEAN
  BY Zenon DEF LoopInit
<1>3. rows \subseteq Rows /\ inserting \subseteq Rows /\ unseen \subseteq rows /\ bus \in Seq(Events)
  BY DEF LoopInit
<1>4. link \in [Links -> {"down", "up", "announced"}]
  BY DEF LoopInit
<1>5. LoopTypes
  BY <1>1, <1>2, <1>3, <1>4 DEF LoopTypes
<1> QED BY <1>1, <1>5 DEF LoopInv, UnseenIsAhead, Ahead, NoLinkIsMissed

LEMMA LoopStepInv ==
  ASSUME LoopInv, [LoopNext]_loopVars
  PROVE  LoopInv'
<1> USE DEF LoopInv
<1>1. ASSUME UNCHANGED loopVars PROVE LoopInv'
  BY <1>1 DEF loopVars, wakeVars, linkVars, LoopTypes, UnseenIsAhead, Ahead, NoLinkIsMissed, HasUpPeer
<1>2. ASSUME NEW r \in Rows, QueueInsert(r) PROVE LoopInv'
  BY <1>2 DEF QueueInsert, linkVars, LoopTypes, UnseenIsAhead, Ahead, NoLinkIsMissed, HasUpPeer
<1>3. ASSUME NEW r \in Rows, NotifyOne(r) PROVE LoopInv'
  BY <1>3 DEF NotifyOne, linkVars, LoopTypes, UnseenIsAhead, Ahead, NoLinkIsMissed, HasUpPeer
<1>4. ASSUME NEW r \in Rows, Removed(r) PROVE LoopInv'
  BY <1>4 DEF Removed, Gone, linkVars, LoopTypes, UnseenIsAhead, Ahead, NoLinkIsMissed, HasUpPeer
<1>5. CASE Started
  BY <1>5 DEF Started, Goto, wakeVars, linkVars, LoopTypes, TaskType, UnseenIsAhead, Ahead, NoLinkIsMissed
<1>6. CASE ListDestinations
  <2>1. /\ task' = [task EXCEPT !.pc = "rows", !.dests = {r.dest : r \in rows}]
        /\ UNCHANGED <<rows, inserting, permit, unseen, link, bus, lagged, stop>>
    BY <1>6 DEF ListDestinations, wakeVars, linkVars
  <2>2. {r.dest : r \in rows} \subseteq Destinations /\ \A r \in unseen : r.dest \in {x.dest : x \in rows}
    BY DEF LoopTypes, Rows
  <2>3. task' \in TaskType /\ task'.pc = "rows" /\ \A r \in unseen : r.dest \in task'.dests
    BY <2>1, <2>2 DEF LoopTypes, TaskType
  <2> QED BY <2>1, <2>3 DEF LoopTypes, UnseenIsAhead, Ahead, NoLinkIsMissed
<1>7. ASSUME NEW d \in Destinations, NextDestination(d) PROVE LoopInv'
  BY <1>7 DEF NextDestination, Of, wakeVars, linkVars, LoopTypes, TaskType, UnseenIsAhead, Ahead, NoLinkIsMissed
<1>8. CASE DestinationDone
  BY <1>8 DEF DestinationDone, Goto, wakeVars, linkVars, LoopTypes, TaskType, UnseenIsAhead, Ahead, NoLinkIsMissed
<1>9. CASE CycleDone \/ CycleFails
  <2>1. UNCHANGED <<rows, inserting, permit, unseen, link, bus, lagged, stop>>
    BY <1>9 DEF CycleDone, CycleFails, wakeVars, linkVars
  <2>2. /\ task' \in TaskType /\ task'.pc = "sleep"
        /\ task'.soon \/ (task.pc = "rows" /\ task.dests = {})
    BY <1>9, FreshTask DEF CycleDone, CycleFails
  <2>3. UnseenIsAhead'
    BY <2>1, <2>2 DEF UnseenIsAhead, Ahead
  <2> QED BY <2>1, <2>2, <2>3 DEF LoopTypes, NoLinkIsMissed
<1>10. ASSUME NEW r \in Rows, DropOrphan(r) \/ DeliverToSelf(r) \/ EnterGate(r) \/ Send(r)
       PROVE  LoopInv'
  BY <1>10 DEF DropOrphan, DeliverToSelf, EnterGate, Send, Gone, Goto, wakeVars, linkVars,
     LoopTypes, TaskType, UnseenIsAhead, Ahead, NoLinkIsMissed
<1>11. CASE Sleep
  BY <1>11 DEF Sleep, Goto, linkVars, LoopTypes, TaskType, UnseenIsAhead, Ahead, NoLinkIsMissed
<1>12. CASE FirstLook \/ Subscribe
  BY <1>12 DEF FirstLook, Subscribe, Goto, wakeVars, linkVars, LoopTypes, TaskType, UnseenIsAhead, Ahead,
     NoLinkIsMissed
<1>13. CASE SecondLook \/ LookAgain
  <2>1. /\ UNCHANGED <<rows, inserting, permit, unseen, link, stop>>
        /\ \/ HasUpPeer /\ LeaveGate("send")
           \/ ~ HasUpPeer /\ Goto("wait") /\ UNCHANGED <<bus, lagged>>
        /\ task.pc \in {"second", "look"}
    BY <1>13 DEF SecondLook, LookAgain, wakeVars
  <2>2. CASE HasUpPeer /\ LeaveGate("send")
    <3>1. bus' = <<>> /\ lagged' \in BOOLEAN
      BY <2>2, Zenon DEF LeaveGate
    <3>2. task' = [task EXCEPT !.pc = "send"]
      BY <2>2 DEF LeaveGate, Goto
    <3>3. task' \in TaskType /\ task'.pc = "send" /\ task'.dests = task.dests
      BY <3>2 DEF LoopTypes, TaskType
    <3> QED BY <2>1, <3>1, <3>3 DEF LoopTypes, UnseenIsAhead, Ahead, NoLinkIsMissed
  <2>3. CASE ~ HasUpPeer /\ Goto("wait") /\ UNCHANGED <<bus, lagged>>
    <3>1. task' = [task EXCEPT !.pc = "wait"]
      BY <2>3 DEF Goto
    <3>2. task' \in TaskType /\ task'.pc = "wait" /\ task'.dests = task.dests
      BY <3>1 DEF LoopTypes, TaskType
    <3>3. ~ HasUpPeer'
      BY <2>1, <2>3 DEF HasUpPeer
    <3> QED BY <2>1, <2>3, <3>2, <3>3 DEF LoopTypes, UnseenIsAhead, Ahead, NoLinkIsMissed
  <2> QED BY <2>1, <2>2, <2>3
<1>14. CASE Receive
  <2>1. /\ bus \in Seq(Events) /\ bus # <<>> /\ bus' = Tail(bus)
        /\ task' = [task EXCEPT !.pc = IF Head(bus) = "Connected" THEN "look" ELSE "wait"]
        /\ UNCHANGED <<rows, inserting, permit, unseen, link, lagged, stop>> /\ task.pc = "wait"
    BY <1>14 DEF Receive, Goto, wakeVars, LoopTypes
  <2>2. Tail(bus) \in Seq(Events)
    BY <2>1
  <2>3. LoopTypes'
    BY <2>1, <2>2 DEF LoopTypes, TaskType
  <2>4. UnseenIsAhead'
    BY <2>1 DEF UnseenIsAhead, Ahead, LoopTypes, TaskType
  <2>5. ASSUME (task.pc = "wait" /\ ~ lagged /\ HasUpPeer)'
        PROVE  (\E k \in Links : link'[k] = "up") \/ News(bus')
    <3>1. task.pc = "wait" /\ ~ lagged /\ HasUpPeer /\ Head(bus) # "Connected"
      BY <2>1, <2>5 DEF HasUpPeer, LoopTypes, TaskType
    <3> QED BY <2>1, <3>1, NewsInTail DEF NoLinkIsMissed, News
  <2> QED BY <2>3, <2>4, <2>5 DEF NoLinkIsMissed, News
<1>15. CASE Defer \/ HearStop
  <2>1. /\ UNCHANGED <<rows, inserting, permit, unseen, link, stop>>
        /\ bus' = <<>> /\ lagged' = FALSE
    BY <1>15 DEF Defer, HearStop, wakeVars
  <2>2. task' \in TaskType /\ ((task'.pc = "sleep" /\ task'.soon) \/ task'.pc = "over")
    BY <1>15, FreshTask DEF Defer, HearStop
  <2>3. bus' \in Seq(Events)
    BY <2>1
  <2>4. lagged' \in BOOLEAN
    BY <2>1, Zenon
  <2>5. LoopTypes'
    BY <2>1, <2>2, <2>3, <2>4 DEF LoopTypes
  <2> QED BY <2>2, <2>5 DEF UnseenIsAhead, Ahead, NoLinkIsMissed
<1>16. CASE SendStop
  BY <1>16 DEF SendStop, wakeVars, linkVars, LoopTypes, UnseenIsAhead, Ahead, NoLinkIsMissed, HasUpPeer
<1>17. ASSUME NEW k \in Links, LinkComesUp(k) PROVE LoopInv'
  BY <1>17 DEF LinkComesUp, wakeVars, LoopTypes, UnseenIsAhead, Ahead, NoLinkIsMissed, HasUpPeer
<1>18. ASSUME NEW k \in Links, LinkAnnounced(k) \/ LinkGoesDown(k) PROVE LoopInv'
  <2>1. PICK e \in Events : /\ Publish(e)
                            /\ link' = [link EXCEPT ![k] = IF e = "Connected" THEN "announced" ELSE "down"]
                            /\ (e = "Connected") = (link[k] = "up")
                            /\ link[k] # "down"
    BY <1>18 DEF LinkAnnounced, LinkGoesDown, Events
  <2>2. UNCHANGED <<rows, inserting, permit, unseen, task, stop>>
    BY <1>18 DEF LinkAnnounced, LinkGoesDown, wakeVars
  <2>3. /\ bus' \in Seq(Events) /\ lagged' \in BOOLEAN
        /\ Subscribed /\ ~ lagged' => ~ lagged /\ (News(bus) \/ e = "Connected" => News(bus'))
    BY <2>1, Published
  <2>4. LoopTypes'
    BY <2>1, <2>2, <2>3 DEF LoopTypes
  <2>5. UnseenIsAhead'
    BY <2>2 DEF UnseenIsAhead, Ahead
  <2>6. ASSUME (task.pc = "wait" /\ ~ lagged /\ HasUpPeer)'
        PROVE  (\E j \in Links : link'[j] = "up") \/ News(bus')
    <3>1. task.pc = "wait" /\ Subscribed /\ ~ lagged
      BY <2>2, <2>3, <2>6 DEF Subscribed
    <3>2. CASE e = "Connected"
      BY <2>3, <2>6, <3>1, <3>2
    <3>3. CASE e # "Connected"
      <4>1. PICK j \in Links : link'[j] # "down"
        BY <2>6 DEF HasUpPeer
      <4>2. HasUpPeer
        BY <2>1 DEF HasUpPeer
      <4>3. News(bus) \/ \E i \in Links : link[i] = "up"
        BY <3>1, <4>2 DEF NoLinkIsMissed, News
      <4>4. \A i \in Links : link[i] = "up" => link'[i] = "up"
        BY <2>1, <3>3 DEF LoopTypes
      <4> QED BY <2>3, <2>6, <3>1, <4>3, <4>4
    <3> QED BY <3>2, <3>3
  <2> QED BY <2>4, <2>5, <2>6 DEF NoLinkIsMissed, News
<1> QED BY <1>1, <1>2, <1>3, <1>4, <1>5, <1>6, <1>7, <1>8, <1>9, <1>10, <1>11, <1>12, <1>13,
           <1>14, <1>15, <1>16, <1>17, <1>18 DEF LoopNext, Cycle, Gate, Mesh

THEOREM LoopInvariant == LoopSpec => []LoopInv
BY LoopInitInv, LoopStepInv, PTL DEF LoopSpec

(* No wake of the sender is lost: queue_insert notifies after its row is   *)
(* committed, and a permit given in the middle of a cycle is kept          *)
(* (spawn, queue_insert).                                                  *)
THEOREM NewMailWakesTheSender == LoopSpec => []NoWakeIsLost
<1>1. LoopInv => NoWakeIsLost
  BY DEF LoopInv, UnseenIsAhead, Ahead, NoWakeIsLost
<1> QED BY LoopInvariant, <1>1, PTL

(* A link that comes up between the first look of the readiness gate and   *)
(* its subscription is seen by the second look, a later one is on the bus  *)
(* (wait_for_up_peer).                                                     *)
THEOREM NewLinkOpensTheGate == LoopSpec => []NoLinkIsMissed
<1>1. LoopInv => NoLinkIsMissed
  BY DEF LoopInv
<1> QED BY LoopInvariant, <1>1, PTL
=============================================================================
