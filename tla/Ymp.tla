-------------------------------- MODULE Ymp --------------------------------
(***************************************************************************)
(* The Yggdrasil Mail Protocol (ymp/mod.rs, ymp/types.rs) between one      *)
(* sending and one receiving node: concurrent calls of send(), each with   *)
(* its SYN handshake, its segments and its retries, the sender's           *)
(* background reader that takes the answers, and the receiver's reader     *)
(* that acknowledges and reassembles.                                      *)
(*                                                                         *)
(* The mesh loses, delays, reorders and repeats packets: `net' is the set  *)
(* of all packets ever written, and a reader may take any of them at any   *)
(* time, again and again or never.  A packet that a decoder refuses is     *)
(* never written by this code and left out, and so are the warming of      *)
(* paths and the pacing of segments.                                       *)
(***************************************************************************)
EXTENDS Integers, SequencesExt

CONSTANTS
  Msgs,
  Length,           \* message -> its length in bytes
  FragmentSize,     \* FRAGMENT_SIZE
  MaxMessageSize,   \* MAX_MESSAGE_SIZE
  MaxSynRetries,    \* MAX_SYN_RETRIES
  MaxRetries,       \* MAX_RETRIES
  MaxBuffers,       \* MAX_REASSEMBLY_BUFFERS
  MaxRestarts       \* bound: restarts of the sending node

(* segment_count; `as u16' keeps the low 16 bits.                          *)
SegmentCount(len) ==
  LET n == (len + FragmentSize - 1) \div FragmentSize
  IN (IF n = 0 THEN 1 ELSE n) % 65536

Total(m) == SegmentCount(Length[m])
Seqs(m)  == 0 .. Total(m) - 1

ASSUME YmpAssumption ==
  /\ FragmentSize \in Nat \ {0} /\ MaxMessageSize \in Nat
  /\ Length \in [Msgs -> Nat]
  /\ \A m \in Msgs : Length[m] <= MaxMessageSize => Total(m) \in Nat \ {0}
  /\ MaxSynRetries \in Nat \ {0} /\ MaxRetries \in Nat \ {0}
  /\ MaxBuffers \in Nat \ {0}
  /\ MaxRestarts \in Nat

VARIABLES
  net,        \* every packet written so far
  nextId,     \* next_id
  send,       \* per message: its call of send()
  buffers,    \* the receiver's reassembly map, in the order of creation
  reader,     \* the receiver's reader_loop
  handed,     \* history: messages put into recv_tx
  dropped,    \* history: ids of which the receiver forgot something
  restarts    \* restarts of the sending node

sendVars == <<nextId, send>>
recvVars == <<buffers, reader, handed, dropped>>
vars     == <<net, sendVars, recvVars, restarts>>

(* The segment of m with number i, and what a buffer has for one that is   *)
(* not there yet.                                                          *)
Piece(m, i) == [msg |-> m, seq |-> i]
Missing     == [seq |-> -1]
Whole(m)    == [i \in Seqs(m) |-> Piece(m, i)]

Syn(id)              == [type |-> "syn", id |-> id]
SynAck(id)           == [type |-> "synack", id |-> id]
Data(id, i, n, body) == [type |-> "data", id |-> id, seq |-> i, total |-> n, body |-> body]
Ack(id, i)           == [type |-> "ack", id |-> id, seq |-> i]

Pieces  == [msg : Msgs, seq : Nat]
Packets ==
  [type : {"syn", "synack"}, id : Nat]
  \cup [type : {"data"}, id : Nat, seq : Nat, total : Nat, body : Pieces]
  \cup [type : {"ack"}, id : Nat, seq : Nat]

SendPc == {"new", "synwait", "burst", "wait", "check",
           "ok", "unreachable", "failed", "gone"}

YmpTypeOK ==
  /\ net \subseteq Packets
  /\ nextId \in Nat
  /\ send \in [Msgs -> [pc : SendPc, id : Nat, tries : Nat, permit : BOOLEAN,
                        seq : Nat, acked : SUBSET Nat]]
  /\ \A k \in DOMAIN buffers :
       /\ buffers[k].id \in Nat /\ buffers[k].got \in Nat
       /\ \A i \in DOMAIN buffers[k].segs : buffers[k].segs[i] \in Pieces \cup {Missing}
  /\ \A j, k \in DOMAIN buffers : buffers[j].id = buffers[k].id => j = k
  /\ Len(buffers) <= MaxBuffers
  /\ reader.pc \in {"ready", "insert", "deliver", "dead"}
  /\ dropped \subseteq Nat
  /\ restarts \in 0 .. MaxRestarts

NewSend == [pc |-> "new", id |-> 0, tries |-> 0, permit |-> FALSE, seq |-> 0, acked |-> {}]
Ready   == [pc |-> "ready"]

Init ==
  /\ net = {} /\ nextId = 0
  /\ send = [m \in Msgs |-> NewSend]
  /\ buffers = <<>> /\ reader = Ready
  /\ handed = {} /\ dropped = {}
  /\ restarts = 0

-----------------------------------------------------------------------------
(* send(): the caller.                                                     *)

Write(p) == net' = net \cup {p}

(* The call ends: its entries leave pending_syns and pending.              *)
Ended(m, how) == [NewSend EXCEPT !.pc = how, !.id = send[m].id]

Start(m) ==
  /\ send[m].pc = "new"
  /\ Length[m] <= MaxMessageSize
  /\ send' = [send EXCEPT ![m].pc = "synwait", ![m].id = nextId, ![m].tries = 1]
  /\ nextId' = nextId + 1
  /\ Write(Syn(nextId))
  /\ UNCHANGED <<recvVars, restarts>>

HearSynAck(m) ==
  /\ send[m].pc = "synwait"
  /\ send[m].permit
  /\ send' = [send EXCEPT ![m].pc = "burst", ![m].tries = 1, ![m].permit = FALSE]
  /\ UNCHANGED <<net, nextId, recvVars, restarts>>

(* The next attempt writes the SYN that `net' already has.                 *)
SynTimeout(m) ==
  /\ send[m].pc = "synwait"
  /\ ~ send[m].permit
  /\ send' = IF send[m].tries < MaxSynRetries
             THEN [send EXCEPT ![m].tries = @ + 1]
             ELSE [send EXCEPT ![m] = Ended(m, "unreachable")]
  /\ UNCHANGED <<net, nextId, recvVars, restarts>>

(* The next segment of the burst; one that is acknowledged is skipped.     *)
(* After the last one the call waits.                                      *)
WriteSegment(m) ==
  LET s    == send[m]
      last == s.seq = Total(m) - 1
  IN
  /\ s.pc = "burst"
  /\ IF s.seq \in s.acked THEN UNCHANGED net
     ELSE Write(Data(s.id, s.seq, Total(m), Piece(m, s.seq)))
  /\ send' = [send EXCEPT ![m].pc = IF last THEN "wait" ELSE "burst",
                          ![m].seq = IF last THEN 0 ELSE @ + 1]
  /\ UNCHANGED <<nextId, recvVars, restarts>>

(* notified() takes the permit; the lock of `pending' is awaited next, and *)
(* the time-out may fall in between, with the permit gone.                 *)
Wake(m) ==
  /\ send[m].pc = "wait"
  /\ send[m].permit
  /\ send' = [send EXCEPT ![m].pc = "check", ![m].permit = FALSE]
  /\ UNCHANGED <<net, nextId, recvVars, restarts>>

AllAcked(m) == Seqs(m) \subseteq send[m].acked

Check(m) ==
  /\ send[m].pc = "check"
  /\ send' = IF AllAcked(m) THEN [send EXCEPT ![m] = Ended(m, "ok")]
             ELSE [send EXCEPT ![m].pc = "wait"]
  /\ UNCHANGED <<net, nextId, recvVars, restarts>>

TimedOut(m) == (send[m].pc = "wait" /\ ~ send[m].permit) \/ send[m].pc = "check"

DataTimeoutForGood(m) ==
  /\ TimedOut(m)
  /\ send' = [send EXCEPT ![m].pc = "burst", ![m].tries = 1]
  /\ UNCHANGED <<net, nextId, recvVars, restarts>>

DataTimeout(m) ==
  /\ TimedOut(m)
  /\ send' = IF send[m].tries < MaxRetries
             THEN [send EXCEPT ![m].pc = "burst", ![m].tries = @ + 1]
             ELSE [send EXCEPT ![m] = Ended(m, "failed")]
  /\ UNCHANGED <<net, nextId, recvVars, restarts>>

-----------------------------------------------------------------------------
(* The sending node's reader: pending_syns holds the calls in their        *)
(* handshake, pending those that send data.                                *)

TakeSynAck(p) ==
  /\ p.type = "synack"
  /\ \E m \in Msgs :
       /\ send[m].pc = "synwait"
       /\ send[m].id = p.id
       /\ send' = [send EXCEPT ![m].permit = TRUE]
  /\ UNCHANGED <<net, nextId, recvVars, restarts>>

(* An ACK confirms its own segment and no other, whatever is said of a     *)
(* cumulative hint (ymp/mod.rs:48).                                        *)
AckedCumulative(m, p) == send[m].acked \cup (Seqs(m) \cap (0 .. p.seq))

AckedNow(m, p) == send[m].acked \cup (Seqs(m) \cap {p.seq})

TakeAck(p) ==
  /\ p.type = "ack"
  /\ \E m \in Msgs :
       /\ send[m].pc \in {"burst", "wait", "check"}
       /\ send[m].id = p.id
       /\ send' = [send EXCEPT ![m].acked  = AckedNow(m, p),
                               ![m].permit = @ \/ Seqs(m) \subseteq AckedNow(m, p)]
  /\ UNCHANGED <<net, nextId, recvVars, restarts>>

-----------------------------------------------------------------------------
(* The receiving node's reader.                                            *)

TakeSyn(p) ==
  /\ reader.pc = "ready"
  /\ p.type = "syn"
  /\ Write(SynAck(p.id))
  /\ UNCHANGED <<sendVars, recvVars, restarts>>

Receivable(p) == p.seq < p.total /\ p.total * FragmentSize <= MaxMessageSize

(* The acknowledgement goes out before the segment is kept.                *)
TakeData(p) ==
  /\ reader.pc = "ready"
  /\ p.type = "data"
  /\ Receivable(p)
  /\ Write(Ack(p.id, p.seq))
  /\ reader' = [pc |-> "insert", pkt |-> p]
  /\ UNCHANGED <<sendVars, buffers, handed, dropped, restarts>>

Empty(n)  == [i \in 0 .. n - 1 |-> Missing]
Known(id) == \E k \in DOMAIN buffers : buffers[k].id = id

(* The buffers a packet finds: with room made, and its own among them.     *)
Evicted(p) == ~ Known(p.id) /\ Len(buffers) >= MaxBuffers
Roomy(p)   == IF Evicted(p) THEN Tail(buffers) ELSE buffers

Opened(p)  == IF Known(p.id) THEN buffers
              ELSE Append(Roomy(p), [id |-> p.id, segs |-> Empty(p.total), got |-> 0])
Place(p)   == CHOOSE k \in DOMAIN Opened(p) : Opened(p)[k].id = p.id

FilledTwice(b, p) ==
  [b EXCEPT !.segs[p.seq] = p.body, !.got = @ + 1]

Filled(b, p) ==
  IF b.segs[p.seq] # Missing THEN b
  ELSE [b EXCEPT !.segs[p.seq] = p.body, !.got = @ + 1]

Reassembled(b) == [i \in {j \in DOMAIN b.segs : b.segs[j] # Missing} |-> b.segs[i]]

(* The buffer's size is that of the packet that opened it; a packet with a *)
(* number beyond it makes the reader panic, which ends the task.           *)
Insert ==
  /\ reader.pc = "insert"
  /\ LET p == reader.pkt
         k == Place(p)
         b == Filled(Opened(p)[k], p) IN
     /\ IF p.seq \notin DOMAIN Opened(p)[k].segs
        THEN reader' = [pc |-> "dead"] /\ UNCHANGED buffers
        ELSE IF b.got = Cardinality(DOMAIN b.segs)
        THEN /\ reader' = [pc |-> "deliver", id |-> p.id, msg |-> Reassembled(b)]
             /\ buffers' = RemoveAt(Opened(p), k)
        ELSE reader' = Ready /\ buffers' = [Opened(p) EXCEPT ![k] = b]
     /\ dropped' = dropped \cup (IF Evicted(p) THEN {Head(buffers).id} ELSE {})
  /\ UNCHANGED <<net, sendVars, handed, restarts>>

(* recv_tx.send waits, and the reader with it, until the channel has room; *)
(* how full it is depends on the receiver task and is left out.            *)
HandUp ==
  /\ reader.pc = "deliver"
  /\ handed' = handed \cup {[id |-> reader.id, msg |-> reader.msg]}
  /\ reader' = Ready
  /\ UNCHANGED <<net, sendVars, buffers, dropped, restarts>>

(* The cleanup task drops a buffer older than REASSEMBLY_TIMEOUT_SECS.     *)
Expire ==
  /\ \E k \in DOMAIN buffers :
       /\ buffers' = RemoveAt(buffers, k)
       /\ dropped' = dropped \cup {buffers[k].id}
  /\ UNCHANGED <<net, sendVars, reader, handed, restarts>>

-----------------------------------------------------------------------------
(* Restarts.  Nothing of the protocol is persistent: the ids begin again.  *)

SenderRestart ==
  /\ restarts < MaxRestarts
  /\ restarts' = restarts + 1
  /\ nextId' = 0
  /\ send' = [m \in Msgs |-> IF send[m].pc \in {"new", "ok", "unreachable", "failed"}
                             THEN send[m] ELSE [NewSend EXCEPT !.pc = "gone"]]
  /\ UNCHANGED <<net, recvVars>>

InHand == CASE reader.pc = "insert" -> {reader.pkt.id}
            [] reader.pc = "deliver" -> {reader.id}
            [] OTHER -> {}

ReceiverRestart ==
  /\ dropped' = dropped \cup {buffers[k].id : k \in DOMAIN buffers} \cup InHand
  /\ buffers' = <<>> /\ reader' = Ready
  /\ UNCHANGED <<net, sendVars, handed, restarts>>

-----------------------------------------------------------------------------
Caller(m) ==
  \/ HearSynAck(m) \/ SynTimeout(m) \/ WriteSegment(m) \/ Wake(m) \/ Check(m) \/ DataTimeout(m)

Next ==
  \/ \E m \in Msgs : Start(m) \/ Caller(m)
  \/ \E p \in net : TakeSynAck(p) \/ TakeAck(p) \/ TakeSyn(p) \/ TakeData(p)
  \/ Insert \/ HandUp \/ Expire
  \/ SenderRestart \/ ReceiverRestart

Spec == Init /\ [][Next]_vars

(* The runtime keeps running every call of send(), timers included.        *)
FairSpec == Spec /\ \A m \in Msgs : WF_vars(Caller(m))

-----------------------------------------------------------------------------
Handed == handed \cup (IF reader.pc = "deliver"
                      THEN {[id |-> reader.id, msg |-> reader.msg]} ELSE {})

(* What is put into recv_tx for the receiver task is a message that was sent, all  *)
(* of it and nothing else, for as long as the sender has not restarted:    *)
(* however the segments of concurrent messages are lost, repeated and      *)
(* mixed, and whatever is evicted (reader_loop, reassemble).               *)
WholeUntilRestart ==
  restarts = 0 =>
    \A h \in Handed : \E m \in Msgs :
       send[m].pc # "new" /\ h.id = send[m].id /\ h.msg = Whole(m)

(* A send() that returned Ok has its message handed up, or on its way in   *)
(* the reader, or something of it was dropped by the receiving node after  *)
(* it was acknowledged (send: it blocks until all segments are             *)
(* acknowledged).  It rests on an ACK that confirms one segment alone, as  *)
(* reader_loop does (ymp/mod.rs:630); under the cumulative ACKs that       *)
(* ymp/mod.rs:8 and :48 still speak of it would not hold.                  *)
OkMeansTaken ==
  restarts = 0 =>
    \A m \in Msgs : send[m].pc = "ok" =>
       \/ \E h \in Handed : h.id = send[m].id
       \/ send[m].id \in dropped
       \/ send[m].id \in InHand

(* Every call of send() returns.                                           *)
EverySendEnds ==
  \A m \in Msgs : send[m].pc = "synwait" ~> send[m].pc \in {"ok", "unreachable", "failed", "gone"}
=============================================================================
