------------------------------ MODULE QuicConns ------------------------------
(***************************************************************************)
(* The connections of the QUIC mail transport (quic/transport.rs): the     *)
(* cache that concurrent calls of send() share, dialling, the time-outs    *)
(* that close and evict a connection, and the accept loop with its check   *)
(* of the peer's key against the table of artificial addresses             *)
(* (quic/addr_table.rs).                                                   *)
(*                                                                         *)
(* The lock on the cache is never held over an await, so that what is done *)
(* under one lock is one action and anything may happen between two.  The  *)
(* library, quinn, and the mesh are external: a dial ends with any         *)
(* certificate, a connection may close at any time.                        *)
(*                                                                         *)
(* Left out: what is said in a dialog (see Delivery), the list of recently *)
(* active peers, and the end of the transport.                             *)
(***************************************************************************)
EXTENDS Integers, FiniteSets, Functions

CONSTANTS
  Self,         \* the node's key
  Peers,        \* the keys of other nodes
  Callers,      \* tasks that call send()
  Conns,        \* outgoing connections; the value of a closed one is used again
  NoConn,
  Incoming,     \* incoming connections at one time
  AddrSpace     \* 2^32, what the counter of addresses wraps at

Keys  == Peers \cup {Self}
Addrs == 0 .. AddrSpace - 1

ASSUME QuicAssumption ==
  /\ Self \notin Peers
  /\ NoConn \notin Conns
  /\ AddrSpace \in Nat /\ AddrSpace > 0
  /\ IsFiniteSet(Peers) /\ Cardinality(Keys) <= AddrSpace

VARIABLES
  conn,         \* outgoing connections: is it open, and the key of its certificate
  cache,        \* conns: peer -> connection
  call,         \* the call of send() each caller is in
  byKey,        \* AddrTable.by_key
  byAddr,       \* AddrTable.by_addr
  next,         \* AddrTable.next
  inbound,      \* incoming connections
  lost,         \* history: connections evicted from the cache while open
  corpses       \* history: connections on which a dialog timed out

callVars  == <<conn, cache, call, lost, corpses>>
tableVars == <<byKey, byAddr, next>>
vars      == <<conn, cache, call, byKey, byAddr, next, inbound, lost, corpses>>

QuicTypeOK ==
  /\ conn \in [Conns -> [open : BOOLEAN, cert : Keys]]
  /\ DOMAIN cache \subseteq Peers /\ cache \in [DOMAIN cache -> Conns]
  /\ call \in [Callers -> [pc : {"idle", "dial", "insert", "opening", "talking", "evict"},
                           dest : Keys, conn : Conns \cup {NoConn}]]
  /\ \A s \in Callers :
       /\ call[s].pc # "idle" => call[s].dest \in Peers
       /\ call[s].pc \in {"insert", "opening", "talking"} => call[s].conn \in Conns
  /\ DOMAIN byKey \subseteq Keys /\ byKey \in [DOMAIN byKey -> Addrs]
  /\ DOMAIN byAddr \subseteq Addrs /\ byAddr \in [DOMAIN byAddr -> Keys]
  /\ next \in Addrs
  /\ inbound \in [Incoming -> [pc : {"none", "handshake", "served"},
                               src : Keys, addr : Addrs, cert : Keys]]
  /\ lost \subseteq Conns /\ corpses \subseteq Conns

(* Where there is no peer, Self stands in its place.                       *)
Closed == [open |-> FALSE, cert |-> Self]
Idle   == [pc |-> "idle", dest |-> Self, conn |-> NoConn]
Nobody == [pc |-> "none", src |-> Self, addr |-> 0, cert |-> Self]

(* CoreUdpSocket::new gives the node itself the first address.             *)
Init ==
  /\ conn = [c \in Conns |-> Closed] /\ cache = [d \in {} |-> NoConn]
  /\ call = [s \in Callers |-> Idle]
  /\ byKey = [k \in {Self} |-> 0] /\ byAddr = [a \in {0} |-> Self] /\ next = 1 % AddrSpace
  /\ inbound = [i \in Incoming |-> Nobody]
  /\ lost = {} /\ corpses = {}

-----------------------------------------------------------------------------
(* The address table.                                                      *)

NextAddrWide == next + 1
NextAddr     == (next + 1) % AddrSpace

AddrForKeyStuck(k) ==
  IF k \in DOMAIN byKey THEN UNCHANGED tableVars
  ELSE /\ byKey'  = [x \in DOMAIN byKey \cup {k} |-> IF x = k THEN next ELSE byKey[x]]
       /\ byAddr' = [a \in DOMAIN byAddr \cup {next} |-> IF a = next THEN k ELSE byAddr[a]]
       /\ UNCHANGED next

AddrForKey(k) ==
  IF k \in DOMAIN byKey THEN UNCHANGED tableVars
  ELSE /\ byKey'  = [x \in DOMAIN byKey \cup {k} |-> IF x = k THEN next ELSE byKey[x]]
       /\ byAddr' = [a \in DOMAIN byAddr \cup {next} |-> IF a = next THEN k ELSE byAddr[a]]
       /\ next'   = NextAddr

-----------------------------------------------------------------------------
(* send()                                                                  *)

At(s, pc, d, c) == call' = [call EXCEPT ![s] = [pc |-> pc, dest |-> d, conn |-> c]]
Returns(s)      == call' = [call EXCEPT ![s] = Idle]
Close(c)        == conn' = [conn EXCEPT ![c] = Closed] /\ lost' = lost \ {c}

(* The cached connection to d is there and has no close_reason.            *)
Usable(d) == d \in DOMAIN cache /\ conn[cache[d]].open

(* A connection that nothing refers to, whose value stands for a new one.  *)
Unused(c) ==
  /\ ~ conn[c].open
  /\ \A d \in DOMAIN cache : cache[d] # c
  /\ \A s \in Callers : call[s].conn # c

Lookup(s, d) ==
  /\ call[s].pc = "idle"
  /\ \/ Usable(d) /\ At(s, "opening", d, cache[d]) /\ UNCHANGED tableVars
     \/ ~ Usable(d) /\ At(s, "dial", d, NoConn) /\ AddrForKey(d)
  /\ UNCHANGED <<conn, cache, inbound, lost, corpses>>

(* The dialled connection's key against the key that was dialled.          *)
Pinned(cert, d) == cert = d

Dialled(s) ==
  /\ call[s].pc = "dial"
  /\ \E c \in Conns, k \in Keys :
       /\ Unused(c)
       /\ \/ /\ Pinned(k, call[s].dest)
             /\ conn' = [conn EXCEPT ![c] = [open |-> TRUE, cert |-> k]]
             /\ corpses' = corpses \ {c}
             /\ At(s, "insert", call[s].dest, c)
          \/ /\ ~ Pinned(k, call[s].dest)      \* it is closed at once
             /\ Returns(s)
             /\ UNCHANGED <<conn, corpses>>
  /\ UNCHANGED <<cache, byKey, byAddr, next, inbound, lost>>

(* The handshake failed, or DIAL_TIMEOUT is over.                          *)
DialFails(s) ==
  /\ call[s].pc = "dial"
  /\ Returns(s)
  /\ UNCHANGED <<conn, cache, byKey, byAddr, next, inbound, lost, corpses>>

InsertOver(s) ==
  LET d == call[s].dest IN
  /\ call[s].pc = "insert"
  /\ cache' = [x \in DOMAIN cache \cup {d} |-> IF x = d THEN call[s].conn ELSE cache[x]]
  /\ At(s, "opening", d, call[s].conn)
  /\ UNCHANGED <<conn, byKey, byAddr, next, inbound, lost, corpses>>

(* The second look at the cache, now that the dial is over: the loser of   *)
(* two dials closes its own connection and uses the other.                 *)
Insert(s) ==
  LET d == call[s].dest IN
  /\ call[s].pc = "insert"
  /\ IF Usable(d)
     THEN Close(call[s].conn) /\ At(s, "opening", d, cache[d]) /\ UNCHANGED cache
     ELSE /\ cache' = [x \in DOMAIN cache \cup {d} |-> IF x = d THEN call[s].conn ELSE cache[x]]
          /\ At(s, "opening", d, call[s].conn)
          /\ UNCHANGED <<conn, lost>>
  /\ UNCHANGED <<byKey, byAddr, next, inbound, corpses>>

OpenBi(s) ==
  /\ call[s].pc = "opening" /\ conn[call[s].conn].open
  /\ At(s, "talking", call[s].dest, call[s].conn)
  /\ UNCHANGED <<conn, cache, byKey, byAddr, next, inbound, lost, corpses>>

OpenBiFails(s) ==
  /\ call[s].pc = "opening" /\ ~ conn[call[s].conn].open
  /\ At(s, "evict", call[s].dest, NoConn)
  /\ UNCHANGED <<conn, cache, byKey, byAddr, next, inbound, lost, corpses>>

(* The dialog is over: Ok, or an error of the stream or of the peer, none  *)
(* of which touches the cache.                                             *)
DialogEnds(s) ==
  /\ call[s].pc = "talking"
  /\ Returns(s)
  /\ UNCHANGED <<conn, cache, byKey, byAddr, next, inbound, lost, corpses>>

DialogTimeoutNoClose(s) ==
  /\ call[s].pc \in {"opening", "talking"}
  /\ corpses' = corpses \cup {call[s].conn}
  /\ At(s, "evict", call[s].dest, NoConn)
  /\ UNCHANGED <<conn, cache, byKey, byAddr, next, inbound, lost>>

DialogTimeoutAfterOpen(s) ==
  /\ call[s].pc = "talking"
  /\ Close(call[s].conn)
  /\ corpses' = corpses \cup {call[s].conn}
  /\ At(s, "evict", call[s].dest, NoConn)
  /\ UNCHANGED <<cache, byKey, byAddr, next, inbound>>

(* The budget of the dialog is over: the connection is closed at once, but *)
(* the lock for its removal may have to be waited for.                     *)
DialogTimeout(s) ==
  /\ call[s].pc \in {"opening", "talking"}
  /\ Close(call[s].conn)
  /\ corpses' = corpses \cup {call[s].conn}
  /\ At(s, "evict", call[s].dest, NoConn)
  /\ UNCHANGED <<cache, byKey, byAddr, next, inbound>>

(* conns.remove(&dest), whatever connection is there by now.               *)
Evict(s) ==
  LET d == call[s].dest IN
  /\ call[s].pc = "evict"
  /\ cache' = Restrict(cache, DOMAIN cache \ {d})
  /\ lost' = IF Usable(d) THEN lost \cup {cache[d]} ELSE lost
  /\ Returns(s)
  /\ UNCHANGED <<conn, byKey, byAddr, next, inbound, corpses>>

(* The peer closes, the idle time-out ends it, or its last handle is gone. *)
ConnDies(c) ==
  /\ conn[c].open
  /\ Close(c)
  /\ UNCHANGED <<cache, call, byKey, byAddr, next, inbound, corpses>>

-----------------------------------------------------------------------------
(* Incoming connections.                                                   *)

(* The first datagram from k, through the pump of the adapter; the peer    *)
(* shows whatever certificate it likes.                                    *)
Arrives(i, k, cert) ==
  /\ inbound[i].pc = "none"
  /\ AddrForKey(k)
  /\ inbound' = [inbound EXCEPT ![i] = [pc |-> "handshake", src |-> k, addr |-> byKey'[k],
                                        cert |-> cert]]
  /\ UNCHANGED callVars

(* peer_key against source_key: a connection that does not match is closed.*)
Accept(i) ==
  LET c == inbound[i] IN
  /\ c.pc = "handshake"
  /\ inbound' = [inbound EXCEPT ![i] =
                   IF c.addr \in DOMAIN byAddr /\ byAddr[c.addr] = c.cert
                   THEN [c EXCEPT !.pc = "served"] ELSE Nobody]
  /\ UNCHANGED <<callVars, byKey, byAddr, next>>

Leaves(i) ==
  /\ inbound[i].pc # "none"
  /\ inbound' = [inbound EXCEPT ![i] = Nobody]
  /\ UNCHANGED <<callVars, byKey, byAddr, next>>

-----------------------------------------------------------------------------
(* What the program does by itself, once a call is under way.              *)
Timers(s) ==
  Insert(s) \/ DialFails(s) \/ OpenBiFails(s) \/ DialogTimeout(s) \/ Evict(s)

Next ==
  \/ \E s \in Callers : \/ \E d \in Peers : Lookup(s, d)
                        \/ Dialled(s) \/ Timers(s)
                        \/ OpenBi(s) \/ DialogEnds(s)
  \/ \E c \in Conns : ConnDies(c)
  \/ \E i \in Incoming : \/ \E k \in Peers, cert \in Keys : Arrives(i, k, cert)
                         \/ Accept(i) \/ Leaves(i)

Spec == Init /\ [][Next]_vars

(* The runtime runs the tasks, and DIAL_TIMEOUT and the budget of a dialog *)
(* run out.  Nothing is assumed of the peers.                              *)
FairSpec == Spec /\ \A s \in Callers : WF_vars(Timers(s))

-----------------------------------------------------------------------------
InDialog(s) == call[s].pc \in {"opening", "talking"}

(* Mail is only spoken over a connection to the key it is for, however     *)
(* connections were dialled, lost and replaced meanwhile; and an incoming  *)
(* connection is served only under the key whose datagrams it comes from   *)
(* (connection_for, the accept loop, addr_table.rs:7).                     *)
PeersAreVerified ==
  /\ \A s \in Callers : InDialog(s) /\ conn[call[s].conn].open
                          => conn[call[s].conn].cert = call[s].dest
  /\ \A i \in Incoming : inbound[i].pc = "served" => inbound[i].cert = inbound[i].src

(* Dials of one peer at the same time do not end with two connections: an  *)
(* open connection in use is the cached one (transport.rs:394), unless an  *)
(* eviction has taken it out of the cache while it was open.               *)
LiveIsCachedOrEvicted ==
  \A s \in Callers : InDialog(s) /\ conn[call[s].conn].open =>
    \/ call[s].conn \in lost
    \/ call[s].dest \in DOMAIN cache /\ cache[call[s].dest] = call[s].conn

(* A call does not begin its dialog on a connection on which an earlier    *)
(* dialog has timed out, even before that one is evicted (send: the next   *)
(* send() must not inherit the corpse).                                    *)
CorpseNotInherited ==
  [][\A s \in Callers : ~ InDialog(s) /\ InDialog(s)' => call'[s].conn \notin corpses']_vars

(* Every call of send() returns, whatever the peers do.                    *)
EverySendReturns == \A s \in Callers : call[s].pc # "idle" ~> call[s].pc = "idle"
=============================================================================
