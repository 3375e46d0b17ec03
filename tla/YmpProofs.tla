----------------------------- MODULE YmpProofs -----------------------------
(***************************************************************************)
(* Proofs about YMP: for any messages, lengths, segment size, numbers of   *)
(* retries, buffers and restarts, every reachable state is well typed and, *)
(* until the sender restarts, whatever the receiver hands up is a message  *)
(* that was sent, whole.                                                   *)
(***************************************************************************)
EXTENDS Ymp, SequenceTheorems, FiniteSetTheorems, TLAPS

Slots       == Pieces \cup {Missing}
BufferSet   == [id : Nat, segs : UNION {[0 .. n - 1 -> Slots] : n \in Nat}, got : Nat]
DataPackets == [type : {"data"}, id : Nat, seq : Nat, total : Nat, body : Pieces]
Calls       == [pc : SendPc, id : Nat, tries : Nat, permit : BOOLEAN, seq : Nat, acked : SUBSET Nat]

(* The type invariant, with the types of the records that YmpTypeOK leaves *)
(* open.                                                                   *)
NetType == net \subseteq Packets

SendType == nextId \in Nat /\ send \in [Msgs -> Calls]

OneBufferPerId == \A j, k \in DOMAIN buffers : buffers[j].id = buffers[k].id => j = k

BuffersType ==
  /\ buffers \in Seq(BufferSet)
  /\ OneBufferPerId
  /\ Len(buffers) <= MaxBuffers

ReaderType ==
  /\ reader.pc \in {"ready", "insert", "deliver", "dead"}
  /\ reader.pc = "insert" => reader.pkt \in DataPackets
  /\ reader.pc = "deliver" => reader.id \in Nat

CountType == dropped \subseteq Nat /\ restarts \in 0 .. MaxRestarts

TypeInv == NetType /\ SendType /\ BuffersType /\ ReaderType /\ CountType

-----------------------------------------------------------------------------
(* Facts about the operators.                                              *)

LEMMA SegmentCountType ==
  ASSUME NEW len \in Nat
  PROVE  SegmentCount(len) \in Nat
<1> DEFINE n == (len + FragmentSize - 1) \div FragmentSize
<1>1. FragmentSize \in Nat /\ FragmentSize > 0
  BY YmpAssumption
<1>2. n \in Int
  BY <1>1, Z3
<1> HIDE DEF n
<1>3. SegmentCount(len) = (IF n = 0 THEN 1 ELSE n) % 65536
  BY DEF SegmentCount, n
<1> QED BY <1>2, <1>3

LEMMA SeqsType ==
  ASSUME NEW m \in Msgs
  PROVE  Total(m) \in Nat /\ Seqs(m) \subseteq Nat /\ IsFiniteSet(Seqs(m))
<1>1. Total(m) \in Nat
  BY SegmentCountType, YmpAssumption DEF Total
<1> QED BY <1>1, FS_Interval DEF Seqs

LEMMA PieceType ==
  ASSUME NEW m \in Msgs, NEW i \in Nat
  PROVE  Piece(m, i) \in Pieces /\ Piece(m, i) # Missing
BY DEF Piece, Pieces, Missing

LEMMA RemoveAtFacts ==
  ASSUME NEW S, NEW s \in Seq(S), NEW k \in DOMAIN s
  PROVE  /\ RemoveAt(s, k) \in Seq(S)
         /\ Len(RemoveAt(s, k)) = Len(s) - 1
         /\ \A i \in 1 .. Len(s) - 1 :
               RemoveAt(s, k)[i] = s[IF i < k THEN i ELSE i + 1]
<1> DEFINE a == SubSeq(s, 1, k - 1)
           b == SubSeq(s, k + 1, Len(s))
<1>1. k \in 1 .. Len(s) /\ Len(s) \in Nat
  OBVIOUS
<1>2. /\ a \in Seq(S) /\ Len(a) = k - 1
      /\ \A i \in 1 .. k - 1 : a[i] = s[i]
  BY <1>1, SubSeqProperties
<1>3. /\ b \in Seq(S) /\ Len(b) = Len(s) - k
      /\ \A i \in 1 .. Len(s) - k : b[i] = s[k + i]
  BY <1>1, SubSeqProperties
<1> DEFINE c == RemoveAt(s, k)
<1>4. c = a \o b
  BY DEF RemoveAt
<1> HIDE DEF a, b
<1>5. c \in Seq(S) /\ Len(c) = Len(s) - 1
  BY <1>1, <1>2, <1>3, <1>4
<1>6. \A i \in 1 .. Len(s) - 1 : c[i] = IF i <= k - 1 THEN a[i] ELSE b[i - (k - 1)]
  <2>1. Len(a) + Len(b) = Len(s) - 1
    BY <1>1, <1>2, <1>3
  <2>2. \A i \in 1 .. Len(a) + Len(b) : (a \o b)[i] = IF i <= Len(a) THEN a[i] ELSE b[i - Len(a)]
    BY <1>2, <1>3, ConcatProperties
  <2> QED BY <1>2, <1>4, <2>1, <2>2
<1> HIDE DEF c
<1>7. ASSUME NEW i \in 1 .. Len(s) - 1
      PROVE  c[i] = s[IF i < k THEN i ELSE i + 1]
  <2>1. CASE i < k
    BY <1>1, <1>2, <1>6, <2>1
  <2>2. CASE i >= k
    <3>1. i - (k - 1) \in 1 .. Len(s) - k /\ k + (i - (k - 1)) = i + 1
      BY <1>1, <2>2
    <3>2. ~ (i <= k - 1)
      BY <1>1, <2>2
    <3>3. c[i] = b[i - (k - 1)]
      BY <1>6, <3>2
    <3>4. b[i - (k - 1)] = s[k + (i - (k - 1))]
      BY <1>3, <3>1
    <3>5. c[i] = s[i + 1] /\ ~ (i < k)
      BY <1>1, <2>2, <3>1, <3>3, <3>4
    <3> QED BY <3>5
  <2> QED BY <1>1, <2>1, <2>2
<1> QED BY <1>5, <1>7 DEF c

LEMMA PacketTypes ==
  /\ \A id, i \in Nat : Syn(id) \in Packets /\ SynAck(id) \in Packets /\ Ack(id, i) \in Packets
  /\ \A id, i, n \in Nat, body \in Pieces : Data(id, i, n, body) \in DataPackets
  /\ DataPackets \subseteq Packets
  /\ \A p \in Packets : p.id \in Nat /\ (p.type = "data" => p \in DataPackets)
BY DEF Packets, DataPackets, Syn, SynAck, Ack, Data

LEMMA BufferFields ==
  ASSUME NEW b \in BufferSet
  PROVE  b.id \in Nat /\ b.got \in Nat /\ \A i \in DOMAIN b.segs : b.segs[i] \in Slots
<1>1. PICK n \in Nat : b.segs \in [0 .. n - 1 -> Slots]
  BY DEF BufferSet
<1> QED BY <1>1 DEF BufferSet

LEMMA TypeInvImplies == TypeInv => YmpTypeOK
<1> SUFFICES ASSUME TypeInv PROVE YmpTypeOK
  OBVIOUS
<1>1. \A k \in DOMAIN buffers : buffers[k] \in BufferSet
  BY DEF TypeInv, BuffersType
<1> QED
  BY <1>1, BufferFields
  DEF TypeInv, NetType, SendType, BuffersType, OneBufferPerId, ReaderType, CountType,
      YmpTypeOK, Calls, Slots

LEMMA NewSendType == NewSend \in Calls /\ [NewSend EXCEPT !.pc = "gone"] \in Calls
BY DEF NewSend, Calls, SendPc

LEMMA InitType == Init => TypeInv
<1> SUFFICES ASSUME Init PROVE TypeInv
  OBVIOUS
<1> USE DEF Init
<1>1. NetType /\ SendType
  BY NewSendType DEF NetType, SendType
<1>2. BuffersType
  BY YmpAssumption DEF BuffersType, OneBufferPerId
<1>3. ReaderType /\ CountType
  BY YmpAssumption DEF ReaderType, CountType, Ready
<1> QED BY <1>1, <1>2, <1>3 DEF TypeInv

-----------------------------------------------------------------------------
(* The steps of the sending node.                                          *)

(* A call whose fields keep their types.                                   *)
LEMMA CallFields ==
  ASSUME NEW c \in Calls, NEW pc \in SendPc, NEW id \in Nat, NEW tries \in Nat,
         NEW permit \in BOOLEAN, NEW seq \in Nat, NEW acked \in SUBSET Nat
  PROVE  /\ [c EXCEPT !.pc = pc, !.tries = tries] \in Calls
         /\ [c EXCEPT !.pc = pc, !.id = id, !.tries = tries] \in Calls
         /\ [c EXCEPT !.pc = pc, !.seq = seq] \in Calls
         /\ [c EXCEPT !.acked = acked, !.permit = permit] \in Calls
<1> USE DEF Calls
<1>1. [c EXCEPT !.pc = pc, !.tries = tries] \in Calls
  OBVIOUS
<1>2. [c EXCEPT !.pc = pc, !.id = id, !.tries = tries] \in Calls
  OBVIOUS
<1>3. [c EXCEPT !.pc = pc, !.seq = seq] \in Calls
  OBVIOUS
<1>4. [c EXCEPT !.acked = acked, !.permit = permit] \in Calls
  OBVIOUS
<1> QED BY <1>1, <1>2, <1>3, <1>4

LEMMA EndedType ==
  ASSUME SendType, NEW m \in Msgs, NEW how \in SendPc
  PROVE  Ended(m, how) \in Calls
BY DEF SendType, Ended, NewSend, Calls, SendPc

LEMMA StartType ==
  ASSUME TypeInv, NEW m \in Msgs, Start(m)
  PROVE  TypeInv'
<1> USE DEF TypeInv, Start, recvVars
<1>1. NetType'
  BY PacketTypes DEF NetType, SendType, Write
<1>2. SendType'
  <2>1. send[m] \in Calls /\ nextId \in Nat
    BY DEF SendType
  <2>2. [send[m] EXCEPT !.pc = "synwait", !.id = nextId, !.tries = 1] \in Calls
    BY <2>1, CallFields DEF SendPc
  <2>3. send' = [send EXCEPT ![m] = [send[m] EXCEPT !.pc = "synwait", !.id = nextId, !.tries = 1]]
    OBVIOUS
  <2> QED BY <2>1, <2>2, <2>3 DEF SendType
<1>3. BuffersType' /\ ReaderType' /\ CountType'
  BY DEF BuffersType, OneBufferPerId, ReaderType, CountType
<1> QED BY <1>1, <1>2, <1>3

LEMMA CallerType ==
  ASSUME TypeInv, NEW m \in Msgs, Caller(m)
  PROVE  TypeInv'
<1> USE DEF TypeInv
<1>1. UNCHANGED <<recvVars, restarts, nextId>>
  BY DEF Caller, HearSynAck, SynTimeout, WriteSegment, Wake, Check, DataTimeout
<1>2. BuffersType' /\ ReaderType' /\ CountType'
  BY <1>1 DEF recvVars, BuffersType, OneBufferPerId, ReaderType, CountType
<1>3. \A how \in SendPc : Ended(m, how) \in Calls
  BY EndedType
<1>4. NetType' /\ SendType'
  <2>1. CASE HearSynAck(m)
    BY <2>1 DEF HearSynAck, NetType, SendType, Calls, SendPc
  <2>2. CASE SynTimeout(m)
    <3>1. [send[m] EXCEPT !.tries = @ + 1] \in Calls
      BY DEF SendType, Calls
    <3>2. Ended(m, "unreachable") \in Calls
      BY <1>3 DEF SendPc
    <3> QED BY <2>2, <3>1, <3>2 DEF SynTimeout, NetType, SendType
  <2>3. CASE WriteSegment(m)
    <3>1. send[m].id \in Nat /\ send[m].seq \in Nat
      BY DEF SendType, Calls
    <3>2. Data(send[m].id, send[m].seq, Total(m), Piece(m, send[m].seq)) \in Packets
      BY <3>1, SeqsType, PieceType, PacketTypes
    <3>3. NetType'
      BY <2>3, <3>2 DEF WriteSegment, NetType, Write
    <3> DEFINE last == send[m].seq = Total(m) - 1
               pc   == IF last THEN "wait" ELSE "burst"
               seq  == IF last THEN 0 ELSE send[m].seq + 1
    <3>4. send' = [send EXCEPT ![m] = [send[m] EXCEPT !.pc = pc, !.seq = seq]]
      BY <2>3 DEF WriteSegment
    <3>5. [send[m] EXCEPT !.pc = pc, !.seq = seq] \in Calls
      <4>1. pc \in SendPc /\ seq \in Nat /\ send[m] \in Calls
        BY <3>1 DEF SendType, SendPc
      <4> HIDE DEF pc, seq
      <4> QED BY <4>1, CallFields
    <3>6. SendType'
      BY <1>1, <3>4, <3>5 DEF SendType
    <3> QED BY <3>3, <3>6
  <2>4. CASE Wake(m)
    BY <2>4 DEF Wake, NetType, SendType, Calls, SendPc
  <2>5. CASE Check(m)
    <3>1. [send[m] EXCEPT !.pc = "wait"] \in Calls
      BY DEF SendType, Calls, SendPc
    <3> QED BY <1>3, <2>5, <3>1 DEF Check, NetType, SendType, SendPc
  <2>6. CASE DataTimeout(m)
    <3>1. send[m].tries + 1 \in Nat /\ send[m] \in Calls
      BY DEF SendType, Calls
    <3> DEFINE tries == send[m].tries + 1
    <3>2. [send[m] EXCEPT !.pc = "burst", !.tries = tries] \in Calls
      <4> HIDE DEF tries
      <4> QED BY <3>1, CallFields DEF SendPc, tries
    <3>3. Ended(m, "failed") \in Calls
      BY <1>3 DEF SendPc
    <3> QED BY <2>6, <3>2, <3>3 DEF DataTimeout, NetType, SendType
  <2> QED BY <2>1, <2>2, <2>3, <2>4, <2>5, <2>6 DEF Caller
<1> QED BY <1>2, <1>4

LEMMA AnswerType ==
  ASSUME TypeInv, NEW p \in net, TakeSynAck(p) \/ TakeAck(p)
  PROVE  TypeInv'
<1> USE DEF TypeInv
<1>1. UNCHANGED <<net, nextId, recvVars, restarts>>
  BY DEF TakeSynAck, TakeAck
<1>2. NetType' /\ BuffersType' /\ ReaderType' /\ CountType'
  BY <1>1 DEF NetType, recvVars, BuffersType, OneBufferPerId, ReaderType, CountType
<1>3. CASE TakeSynAck(p)
  <2>1. PICK m \in Msgs : send' = [send EXCEPT ![m].permit = TRUE]
    BY <1>3 DEF TakeSynAck
  <2>2. send[m] \in Calls
    BY DEF SendType
  <2>3. [send[m] EXCEPT !.permit = TRUE] \in Calls
    BY <2>2 DEF Calls
  <2>4. SendType'
    BY <1>1, <2>1, <2>3 DEF SendType
  <2> QED BY <1>2, <2>4
<1>4. CASE TakeAck(p)
  <2>1. PICK m \in Msgs :
           send' = [send EXCEPT ![m].acked  = AckedNow(m, p),
                                ![m].permit = @ \/ Seqs(m) \subseteq AckedNow(m, p)]
    BY <1>4 DEF TakeAck
  <2> DEFINE now    == AckedNow(m, p)
             permit == send[m].permit \/ Seqs(m) \subseteq now
  <2>2. send[m] \in Calls /\ now \in SUBSET Nat /\ permit \in BOOLEAN
    BY SeqsType DEF SendType, Calls, AckedNow
  <2>3. send' = [send EXCEPT ![m] = [send[m] EXCEPT !.acked = now, !.permit = permit]]
    BY <2>1
  <2> HIDE DEF now, permit
  <2>4. [send[m] EXCEPT !.acked = now, !.permit = permit] \in Calls
    BY <2>2, Zenon DEF Calls
  <2>5. SendType'
    BY <1>1, <2>3, <2>4 DEF SendType
  <2> QED BY <1>2, <2>5
<1> QED BY <1>3, <1>4

-----------------------------------------------------------------------------
(* The steps of the receiving node.                                        *)

Fresh(p) == [id |-> p.id, segs |-> Empty(p.total), got |-> 0]

LEMMA FreshType ==
  ASSUME NEW p \in DataPackets
  PROVE  Fresh(p) \in BufferSet
<1>1. p.total \in Nat /\ p.id \in Nat
  BY DEF DataPackets
<1>2. Empty(p.total) \in [0 .. p.total - 1 -> Slots]
  BY DEF Empty, Slots
<1> QED BY <1>1, <1>2 DEF Fresh, BufferSet

(* Room is made by dropping the oldest, so that the buffers that stay are  *)
(* buffers of before.                                                      *)
LEMMA RoomyFacts ==
  ASSUME BuffersType, NEW p
  PROVE  /\ Roomy(p) \in Seq(BufferSet)
         /\ ~ Known(p.id) => Len(Roomy(p)) < MaxBuffers
         /\ \A j \in DOMAIN Roomy(p) : \E k \in DOMAIN buffers : Roomy(p)[j] = buffers[k]
         /\ \A j, k \in DOMAIN Roomy(p) : Roomy(p)[j].id = Roomy(p)[k].id => j = k
<1>1. buffers \in Seq(BufferSet) /\ OneBufferPerId /\ Len(buffers) <= MaxBuffers
  BY DEF BuffersType
<1>2. MaxBuffers \in Nat \ {0}
  BY YmpAssumption
<1>3. CASE ~ Evicted(p)
  <2>1. Roomy(p) = buffers
    BY <1>3 DEF Roomy
  <2> QED BY <1>1, <1>2, <1>3, <2>1 DEF Evicted, OneBufferPerId
<1>4. CASE Evicted(p)
  <2>1. Roomy(p) = Tail(buffers) /\ buffers # <<>>
    BY <1>1, <1>2, <1>4 DEF Roomy, Evicted
  <2>2. /\ Tail(buffers) \in Seq(BufferSet)
        /\ Len(Tail(buffers)) = Len(buffers) - 1
        /\ \A j \in 1 .. Len(Tail(buffers)) : Tail(buffers)[j] = buffers[j + 1]
    BY <1>1, <2>1, HeadTailProperties
  <2>3. /\ \A j \in 1 .. Len(Tail(buffers)) : j + 1 \in DOMAIN buffers
        /\ DOMAIN Roomy(p) = 1 .. Len(Tail(buffers)) /\ Len(Tail(buffers)) \in Nat
    BY <1>1, <2>1, <2>2
  <2>4. Len(Roomy(p)) < MaxBuffers
    BY <1>1, <1>2, <2>1, <2>2
  <2>5. \A j \in DOMAIN Roomy(p) : j + 1 \in DOMAIN buffers /\ Roomy(p)[j] = buffers[j + 1]
    BY <2>1, <2>2, <2>3
  <2>6. ASSUME NEW j \in DOMAIN Roomy(p), NEW k \in DOMAIN Roomy(p), Roomy(p)[j].id = Roomy(p)[k].id
        PROVE  j = k
    <3>1. j + 1 = k + 1
      BY <1>1, <2>5, <2>6 DEF OneBufferPerId
    <3> QED BY <2>3, <3>1
  <2> QED BY <2>1, <2>2, <2>4, <2>5, <2>6
<1> QED BY <1>3, <1>4

LEMMA OpenedFacts ==
  ASSUME BuffersType, NEW p \in DataPackets
  PROVE  /\ Opened(p) \in Seq(BufferSet)
         /\ Len(Opened(p)) <= MaxBuffers
         /\ \A j, k \in DOMAIN Opened(p) : Opened(p)[j].id = Opened(p)[k].id => j = k
         /\ \A j \in DOMAIN Opened(p) :
               \/ Opened(p)[j] = Fresh(p)
               \/ \E k \in DOMAIN buffers : Opened(p)[j] = buffers[k]
         /\ Place(p) \in DOMAIN Opened(p)
         /\ Opened(p)[Place(p)].id = p.id
<1> DEFINE o == Opened(p)
           r == Roomy(p)
<1>1. SUFFICES
        /\ o \in Seq(BufferSet)
        /\ Len(o) <= MaxBuffers
        /\ \A j, k \in DOMAIN o : o[j].id = o[k].id => j = k
        /\ \A j \in DOMAIN o : o[j] = Fresh(p) \/ \E k \in DOMAIN buffers : o[j] = buffers[k]
        /\ \E k \in DOMAIN o : o[k].id = p.id
  BY DEF Place
<1>2. CASE Known(p.id)
  <2>1. o = buffers
    BY <1>2 DEF Opened
  <2> QED BY <1>2, <2>1 DEF BuffersType, OneBufferPerId, Known
<1>3. CASE ~ Known(p.id)
  <2>1. o = Append(r, Fresh(p))
    BY <1>3 DEF Opened, Fresh
  <2>2. r \in Seq(BufferSet) /\ Fresh(p) \in BufferSet /\ Len(r) < MaxBuffers
    BY <1>3, RoomyFacts, FreshType
  <2>3. \A j \in DOMAIN r : \E k \in DOMAIN buffers : r[j] = buffers[k]
    BY RoomyFacts
  <2>4. \A j, k \in DOMAIN r : r[j].id = r[k].id => j = k
    BY RoomyFacts
  <2>5. \A j \in DOMAIN r : r[j].id # p.id
    BY <1>3, <2>3 DEF Known
  <2>6. Fresh(p).id = p.id
    BY DEF Fresh
  <2> HIDE DEF o, r
  <2>7. /\ o \in Seq(BufferSet)
        /\ Len(o) = Len(r) + 1
        /\ \A j \in 1 .. Len(r) : o[j] = r[j]
        /\ o[Len(r) + 1] = Fresh(p)
    BY <2>1, <2>2, AppendProperties
  <2>8. DOMAIN r = 1 .. Len(r) /\ DOMAIN o = 1 .. Len(r) + 1 /\ Len(r) \in Nat
    BY <2>2, <2>7
  <2>9. Len(o) <= MaxBuffers
    BY <2>2, <2>7, <2>8, YmpAssumption
  <2>10. \A j \in DOMAIN o : (j \in DOMAIN r /\ o[j] = r[j]) \/ (j = Len(r) + 1 /\ o[j] = Fresh(p))
    <3> SUFFICES ASSUME NEW j \in 1 .. Len(r) + 1
                 PROVE  (j \in DOMAIN r /\ o[j] = r[j]) \/ (j = Len(r) + 1 /\ o[j] = Fresh(p))
      BY <2>8
    <3>1. j \in 1 .. Len(r) \/ j = Len(r) + 1
      BY <2>8
    <3> QED BY <2>7, <2>8, <3>1
  <2>11. \A j, k \in DOMAIN o : o[j].id = o[k].id => j = k
    <3> SUFFICES ASSUME NEW j \in DOMAIN o, NEW k \in DOMAIN o, o[j].id = o[k].id PROVE j = k
      OBVIOUS
    <3>1. CASE j \in DOMAIN r /\ o[j] = r[j]
      BY <2>4, <2>5, <2>6, <2>10, <3>1
    <3>2. CASE j = Len(r) + 1 /\ o[j] = Fresh(p)
      BY <2>5, <2>6, <2>10, <3>2
    <3> QED BY <2>10, <3>1, <3>2
  <2>12. \E k \in DOMAIN o : o[k].id = p.id
    BY <2>6, <2>7, <2>8
  <2> QED BY <2>3, <2>7, <2>9, <2>10, <2>11, <2>12
<1> QED BY <1>2, <1>3

(* The record of a buffer that keeps one more segment.                     *)
LEMMA KeepSegment ==
  ASSUME NEW Segs, NEW b \in [id : Nat, segs : Segs, got : Nat], NEW i, NEW v
  PROVE  [b EXCEPT !.segs[i] = v, !.got = @ + 1] =
           [id |-> b.id, segs |-> [b.segs EXCEPT ![i] = v], got |-> b.got + 1]
<1> DEFINE c == [b EXCEPT !.segs = [b.segs EXCEPT ![i] = v]]
<1>1. [b EXCEPT !.segs[i] = v, !.got = @ + 1] = [c EXCEPT !.got = b.got + 1]
  OBVIOUS
<1>2. c = [id |-> b.id, segs |-> [b.segs EXCEPT ![i] = v], got |-> b.got]
  OBVIOUS
<1> HIDE DEF c
<1>3. [c EXCEPT !.got = b.got + 1] =
        [id |-> b.id, segs |-> [b.segs EXCEPT ![i] = v], got |-> b.got + 1]
  BY <1>2
<1> QED BY <1>1, <1>3

LEMMA FilledType ==
  ASSUME NEW p \in DataPackets, NEW b \in BufferSet, p.seq \in DOMAIN b.segs
  PROVE  Filled(b, p) \in BufferSet /\ Filled(b, p).id = b.id
<1>1. PICK n \in Nat : b.segs \in [0 .. n - 1 -> Slots]
  BY DEF BufferSet
<1>2. b.got + 1 \in Nat /\ p.body \in Slots
  BY DEF BufferSet, DataPackets, Slots
<1>3. [b EXCEPT !.segs[p.seq] = p.body, !.got = @ + 1] =
        [id |-> b.id, segs |-> [b.segs EXCEPT ![p.seq] = p.body], got |-> b.got + 1]
  BY KeepSegment DEF BufferSet
<1>4. [b.segs EXCEPT ![p.seq] = p.body] \in [0 .. n - 1 -> Slots]
  BY <1>1, <1>2
<1>5. [id |-> b.id, segs |-> [b.segs EXCEPT ![p.seq] = p.body], got |-> b.got + 1] \in BufferSet
  BY <1>2, <1>4 DEF BufferSet
<1> QED BY <1>3, <1>5 DEF Filled

LEMMA RemoveAtRest ==
  ASSUME NEW S, NEW s \in Seq(S), NEW k \in DOMAIN s
  PROVE  /\ \A i \in DOMAIN RemoveAt(s, k) : \E j \in DOMAIN s \ {k} : RemoveAt(s, k)[i] = s[j]
         /\ \A j \in DOMAIN s \ {k} : \E i \in DOMAIN RemoveAt(s, k) : RemoveAt(s, k)[i] = s[j]
<1> DEFINE r == RemoveAt(s, k)
<1>1. /\ r \in Seq(S) /\ Len(r) = Len(s) - 1
      /\ \A i \in 1 .. Len(s) - 1 : r[i] = s[IF i < k THEN i ELSE i + 1]
  BY RemoveAtFacts
<1> HIDE DEF r
<1>2. /\ Len(s) \in Nat /\ DOMAIN s = 1 .. Len(s) /\ DOMAIN r = 1 .. Len(s) - 1
      /\ k \in 1 .. Len(s)
  BY <1>1
<1>3. ASSUME NEW i \in DOMAIN r PROVE \E j \in DOMAIN s \ {k} : r[i] = s[j]
  <2> DEFINE j == IF i < k THEN i ELSE i + 1
  <2>1. j \in DOMAIN s \ {k} /\ r[i] = s[j]
    BY <1>1, <1>2
  <2> QED BY <2>1
<1>4. ASSUME NEW j \in DOMAIN s \ {k} PROVE \E i \in DOMAIN r : r[i] = s[j]
  <2>1. CASE j < k
    BY <1>1, <1>2, <2>1
  <2>2. CASE j > k
    <3>1. j - 1 \in DOMAIN r /\ ~ (j - 1 < k) /\ (j - 1) + 1 = j
      BY <1>2, <2>2
    <3>2. r[j - 1] = s[j]
      BY <1>1, <1>2, <3>1
    <3> QED BY <3>1, <3>2
  <2> QED BY <1>2, <2>1, <2>2
<1> QED BY <1>3, <1>4 DEF r

(* What a step makes of the buffers.                                       *)
LEMMA RemovedType ==
  ASSUME NEW s \in Seq(BufferSet), NEW k \in DOMAIN s, Len(s) <= MaxBuffers,
         \A i, j \in DOMAIN s : s[i].id = s[j].id => i = j
  PROVE  /\ RemoveAt(s, k) \in Seq(BufferSet)
         /\ Len(RemoveAt(s, k)) <= MaxBuffers
         /\ \A i, j \in DOMAIN RemoveAt(s, k) :
               RemoveAt(s, k)[i].id = RemoveAt(s, k)[j].id => i = j
         /\ \A i \in DOMAIN RemoveAt(s, k) : \E j \in DOMAIN s : RemoveAt(s, k)[i] = s[j]
<1> DEFINE r == RemoveAt(s, k)
<1>1. /\ r \in Seq(BufferSet) /\ Len(r) = Len(s) - 1
      /\ \A i \in 1 .. Len(s) - 1 : r[i] = s[IF i < k THEN i ELSE i + 1]
  BY RemoveAtFacts
<1> HIDE DEF r
<1>2. /\ Len(s) \in Nat /\ DOMAIN s = 1 .. Len(s) /\ DOMAIN r = 1 .. Len(s) - 1
      /\ k \in 1 .. Len(s)
  BY <1>1
<1>3. Len(r) <= MaxBuffers
  BY <1>1, <1>2, YmpAssumption
<1>4. \A i \in DOMAIN r : \E j \in DOMAIN s : r[i] = s[j]
  BY <1>1, <1>2
<1>5. ASSUME NEW i \in DOMAIN r, NEW j \in DOMAIN r, r[i].id = r[j].id
      PROVE  i = j
  <2> DEFINE at(n) == IF n < k THEN n ELSE n + 1
  <2>1. at(i) \in DOMAIN s /\ at(j) \in DOMAIN s /\ r[i] = s[at(i)] /\ r[j] = s[at(j)]
    BY <1>1, <1>2
  <2>2. at(i) = at(j)
    BY <1>5, <2>1
  <2> QED BY <1>2, <2>2
<1> QED BY <1>1, <1>3, <1>4, <1>5 DEF r

LEMMA TakeType ==
  ASSUME TypeInv, NEW p \in net, TakeSyn(p) \/ TakeData(p)
  PROVE  TypeInv'
<1> USE DEF TypeInv
<1>1. p \in Packets /\ p.id \in Nat
  BY PacketTypes DEF NetType
<1>2. CASE TakeSyn(p)
  <2>1. NetType'
    BY <1>1, <1>2, PacketTypes DEF TakeSyn, NetType, Write
  <2> QED BY <1>2, <2>1 DEF TakeSyn, sendVars, recvVars, SendType, BuffersType, OneBufferPerId,
                            ReaderType, CountType
<1>3. CASE TakeData(p)
  <2>1. p \in DataPackets /\ p.seq \in Nat
    BY <1>1, <1>3, PacketTypes DEF TakeData, DataPackets
  <2>2. NetType'
    BY <1>1, <1>3, <2>1, PacketTypes DEF TakeData, NetType, Write
  <2>3. ReaderType'
    BY <1>3, <2>1 DEF TakeData, ReaderType
  <2> QED BY <1>3, <2>2, <2>3 DEF TakeData, sendVars, SendType, BuffersType, OneBufferPerId, CountType
<1> QED BY <1>2, <1>3

(* The three ends of an insertion: the reader panics, the message is       *)
(* complete, the reader goes on.                                           *)
LEMMA InsertCases ==
  ASSUME TypeInv, Insert
  PROVE  LET p == reader.pkt
             k == Place(p)
             b == Filled(Opened(p)[k], p)
         IN /\ p \in DataPackets
            /\ UNCHANGED <<net, sendVars, handed, restarts>>
            /\ \/ /\ p.seq \notin DOMAIN Opened(p)[k].segs
                  /\ reader'.pc = "dead" /\ UNCHANGED buffers
               \/ /\ p.seq \in DOMAIN Opened(p)[k].segs
                  /\ b.got = Cardinality(DOMAIN b.segs)
                  /\ reader' = [pc |-> "deliver", id |-> p.id, msg |-> Reassembled(b)]
                  /\ buffers' = RemoveAt(Opened(p), k)
               \/ /\ p.seq \in DOMAIN Opened(p)[k].segs
                  /\ b.got # Cardinality(DOMAIN b.segs)
                  /\ reader' = Ready
                  /\ buffers' = [Opened(p) EXCEPT ![k] = b]
            /\ dropped' \in SUBSET Nat
<1> DEFINE p == reader.pkt
<1>1. p \in DataPackets
  BY DEF Insert, TypeInv, ReaderType
<1>2. dropped' \in SUBSET Nat
  <2>1. CASE Evicted(p)
    <3>1. buffers \in Seq(BufferSet) /\ Len(buffers) > 0
      BY <2>1, YmpAssumption DEF Evicted, TypeInv, BuffersType
    <3>2. Head(buffers) \in BufferSet
      BY <3>1
    <3>3. Head(buffers).id \in Nat
      BY <3>2, BufferFields
    <3> QED BY <3>3 DEF Insert, TypeInv, CountType
  <2>2. CASE ~ Evicted(p)
    BY <2>2 DEF Insert, TypeInv, CountType
  <2> QED BY <2>1, <2>2
<1> QED BY <1>1, <1>2 DEF Insert

LEMMA InsertType ==
  ASSUME TypeInv, Insert
  PROVE  TypeInv'
<1> DEFINE p == reader.pkt
           k == Place(p)
           o == Opened(p)
           b == Filled(o[k], p)
<1>1. p \in DataPackets /\ p.id \in Nat /\ BuffersType
  BY InsertCases DEF TypeInv, DataPackets
<1>2. UNCHANGED <<net, nextId, send, restarts>> /\ dropped' \in SUBSET Nat
  BY InsertCases DEF sendVars
<1>3. NetType' /\ SendType' /\ CountType'
  BY <1>2 DEF TypeInv, NetType, SendType, CountType
<1>4. /\ o \in Seq(BufferSet) /\ Len(o) <= MaxBuffers
      /\ \A i, j \in DOMAIN o : o[i].id = o[j].id => i = j
      /\ k \in DOMAIN o
  BY <1>1, OpenedFacts
<1>5. ReaderType'
  <2>1. reader'.pc \in {"dead", "ready"} \/ (reader'.pc = "deliver" /\ reader'.id = p.id)
    BY InsertCases DEF Ready
  <2> QED BY <1>1, <2>1 DEF ReaderType
<1>6. BuffersType'
  <2>1. CASE UNCHANGED buffers
    BY <1>1, <2>1 DEF BuffersType, OneBufferPerId
  <2>2. CASE buffers' = RemoveAt(o, k)
    BY <1>4, <2>2, RemovedType DEF BuffersType, OneBufferPerId
  <2>3. CASE p.seq \in DOMAIN o[k].segs /\ buffers' = [o EXCEPT ![k] = b]
    <3>1. o[k] \in BufferSet
      BY <1>4
    <3> HIDE DEF o, k
    <3>2. b \in BufferSet /\ b.id = o[k].id
      BY <1>1, <2>3, <3>1, FilledType
    <3> HIDE DEF b
    <3>3. /\ buffers' \in Seq(BufferSet) /\ Len(buffers') = Len(o) /\ DOMAIN buffers' = DOMAIN o
      BY <1>4, <2>3, <3>2
    <3>4. \A j \in DOMAIN o : buffers'[j].id = o[j].id
      BY <1>4, <2>3, <3>2
    <3> QED BY <1>4, <3>3, <3>4 DEF BuffersType, OneBufferPerId
  <2> QED BY <2>1, <2>2, <2>3, InsertCases
<1> QED BY <1>3, <1>5, <1>6 DEF TypeInv

LEMMA OtherType ==
  ASSUME TypeInv, HandUp \/ Expire \/ SenderRestart \/ ReceiverRestart
  PROVE  TypeInv'
<1> USE DEF TypeInv
<1>1. CASE HandUp
  BY <1>1 DEF HandUp, Ready, sendVars, NetType, SendType, BuffersType, OneBufferPerId,
              ReaderType, CountType
<1>2. CASE Expire
  <2>1. PICK k \in DOMAIN buffers :
          buffers' = RemoveAt(buffers, k) /\ dropped' = dropped \cup {buffers[k].id}
    BY <1>2 DEF Expire
  <2>2. BuffersType'
    BY <2>1, RemovedType DEF BuffersType, OneBufferPerId
  <2>3. buffers[k] \in BufferSet
    BY DEF BuffersType
  <2>4. CountType'
    BY <1>2, <2>1, <2>3, BufferFields DEF Expire, CountType
  <2> QED BY <1>2, <2>2, <2>4 DEF Expire, sendVars, NetType, SendType, ReaderType
<1>3. CASE SenderRestart
  <2>1. SendType'
    BY <1>3, NewSendType DEF SenderRestart, SendType
  <2>2. CountType'
    BY <1>3, YmpAssumption DEF SenderRestart, recvVars, CountType
  <2> QED BY <1>3, <2>1, <2>2 DEF SenderRestart, recvVars, NetType, BuffersType, OneBufferPerId,
                                  ReaderType
<1>4. CASE ReceiverRestart
  <2>1. BuffersType' /\ ReaderType'
    BY <1>4, YmpAssumption DEF ReceiverRestart, BuffersType, OneBufferPerId, ReaderType, Ready
  <2>2. InHand \subseteq Nat
    BY DEF InHand, ReaderType, DataPackets
  <2>3. \A k \in DOMAIN buffers : buffers[k].id \in Nat
    BY BufferFields DEF BuffersType
  <2>4. CountType'
    BY <1>4, <2>2, <2>3 DEF ReceiverRestart, CountType
  <2> QED BY <1>4, <2>1, <2>4 DEF ReceiverRestart, sendVars, NetType, SendType
<1> QED BY <1>1, <1>2, <1>3, <1>4

LEMMA StepType == TypeInv /\ [Next]_vars => TypeInv'
<1> SUFFICES ASSUME TypeInv, [Next]_vars PROVE TypeInv'
  OBVIOUS
<1>1. CASE Next
  <2>1. ASSUME NEW m \in Msgs, Start(m) \/ Caller(m) PROVE TypeInv'
    BY <2>1, StartType, CallerType
  <2>2. ASSUME NEW p \in net, TakeSynAck(p) \/ TakeAck(p) \/ TakeSyn(p) \/ TakeData(p)
        PROVE  TypeInv'
    BY <2>2, AnswerType, TakeType
  <2>3. CASE Insert
    BY <2>3, InsertType
  <2>4. CASE HandUp \/ Expire \/ SenderRestart \/ ReceiverRestart
    BY <2>4, OtherType
  <2> QED BY <1>1, <2>1, <2>2, <2>3, <2>4 DEF Next
<1>2. CASE UNCHANGED vars
  BY <1>2 DEF vars, sendVars, recvVars, TypeInv, NetType, SendType, BuffersType, OneBufferPerId,
              ReaderType, CountType
<1> QED BY <1>1, <1>2

(* The invariant of types: every packet, call, buffer and the reader are   *)
(* well formed, no id has two buffers and their number is within the cap.  *)
THEOREM TypeInvariant == Spec => []TypeInv
BY InitType, StepType, PTL DEF Spec

(* Every reachable state is well typed, with at most MaxBuffers buffers    *)
(* and one for each id (reader_loop, cap and entry).                       *)
THEOREM YmpTypeCorrect == Spec => []YmpTypeOK
BY TypeInvariant, TypeInvImplies, PTL

-----------------------------------------------------------------------------
(* What is handed up.  Until the sender restarts, an id belongs to one     *)
(* message, so that every segment on the mesh, every segment in a buffer   *)
(* and every message handed up can be traced to it.                        *)

Sent(m) == send[m].pc # "new"

IdsDistinct ==
  /\ \A m \in Msgs : Sent(m) => send[m].id < nextId
  /\ \A m, n \in Msgs : Sent(m) /\ Sent(n) /\ send[m].id = send[n].id => m = n

(* A call stands at a segment of its message.                              *)
AtSegment ==
  \A m \in Msgs :
    /\ Sent(m) => Length[m] <= MaxMessageSize
    /\ Length[m] <= MaxMessageSize => send[m].seq \in Seqs(m)

SegmentOf(p, m) ==
  /\ Sent(m) /\ p.id = send[m].id
  /\ p.seq \in Seqs(m) /\ p.total = Total(m) /\ p.body = Piece(m, p.seq)

SegmentsFit == \A p \in net : p.type = "data" => \E m \in Msgs : SegmentOf(p, m)
InsertFits  == reader.pc = "insert" => \E m \in Msgs : SegmentOf(reader.pkt, m)

(* A buffer has the segments of one message, each at its place or missing, *)
(* and counts those that are there.                                        *)
There(segs, m) == {i \in Seqs(m) : segs[i] # Missing}

BufferOf(b, m) ==
  /\ Sent(m) /\ b.id = send[m].id
  /\ DOMAIN b.segs = Seqs(m)
  /\ \A i \in Seqs(m) : b.segs[i] \in {Missing, Piece(m, i)}
  /\ b.got = Cardinality(There(b.segs, m))

BuffersFit == \A k \in DOMAIN buffers : \E m \in Msgs : BufferOf(buffers[k], m)

HandedOf(h, m) == Sent(m) /\ h.id = send[m].id /\ h.msg = Whole(m)
HandedFit      == \A h \in Handed : \E m \in Msgs : HandedOf(h, m)

Traced   == IdsDistinct /\ AtSegment /\ SegmentsFit /\ InsertFits /\ BuffersFit /\ HandedFit
WholeInv == TypeInv /\ (restarts = 0 => Traced)

LEMMA StandsAtSegment ==
  ASSUME AtSegment, NEW m \in Msgs, Sent(m)
  PROVE  Length[m] <= MaxMessageSize /\ send[m].seq \in Seqs(m)
<1>1. Length[m] <= MaxMessageSize
  BY DEF AtSegment
<1> QED BY <1>1 DEF AtSegment

LEMMA InitWhole == Init => WholeInv
<1> SUFFICES ASSUME Init PROVE Traced
  BY InitType DEF WholeInv
<1> USE DEF Init
<1>1. \A m \in Msgs : ~ Sent(m) /\ send[m].seq = 0
  BY DEF Sent, NewSend
<1>2. \A m \in Msgs : Length[m] <= MaxMessageSize => 0 \in Seqs(m)
  BY YmpAssumption DEF Seqs
<1>3. IdsDistinct /\ AtSegment
  BY <1>1, <1>2 DEF IdsDistinct, AtSegment
<1>4. SegmentsFit /\ InsertFits /\ BuffersFit /\ HandedFit
  BY DEF SegmentsFit, InsertFits, BuffersFit, HandedFit, Handed, Ready
<1> QED BY <1>3, <1>4 DEF Traced

(* What is traced stays so while calls keep their ids.                     *)
LEMMA TraceKept ==
  ASSUME NEW m \in Msgs, Sent(m) => Sent(m)' /\ send'[m].id = send[m].id
  PROVE  /\ \A p : SegmentOf(p, m) => SegmentOf(p, m)'
         /\ \A b : BufferOf(b, m) => BufferOf(b, m)'
         /\ \A h : HandedOf(h, m) => HandedOf(h, m)'
BY DEF SegmentOf, BufferOf, HandedOf, There, Sent

LEMMA ReceiverKept ==
  ASSUME Traced, UNCHANGED recvVars,
         \A m \in Msgs : Sent(m) => Sent(m)' /\ send'[m].id = send[m].id
  PROVE  InsertFits' /\ BuffersFit' /\ HandedFit'
<1>1. \A m \in Msgs :
        /\ \A p : SegmentOf(p, m) => SegmentOf(p, m)'
        /\ \A b : BufferOf(b, m) => BufferOf(b, m)'
        /\ \A h : HandedOf(h, m) => HandedOf(h, m)'
  BY TraceKept
<1>2. InsertFits'
  BY <1>1 DEF Traced, InsertFits, recvVars
<1>3. BuffersFit'
  BY <1>1 DEF Traced, BuffersFit, recvVars
<1>4. HandedFit'
  BY <1>1 DEF Traced, HandedFit, Handed, recvVars
<1> QED BY <1>2, <1>3, <1>4

(* Segments written before stay traced, too.                               *)
LEMMA SegmentsKept ==
  ASSUME Traced, NEW new, net' = net \cup {new},
         new.type = "data" => \E m \in Msgs : SegmentOf(new, m)',
         \A m \in Msgs : Sent(m) => Sent(m)' /\ send'[m].id = send[m].id
  PROVE  SegmentsFit'
<1>1. \A m \in Msgs, p \in net : SegmentOf(p, m) => SegmentOf(p, m)'
  BY TraceKept
<1>2. ASSUME NEW p \in net, p.type = "data" PROVE \E m \in Msgs : SegmentOf(p, m)'
  BY <1>1, <1>2 DEF Traced, SegmentsFit
<1> QED BY <1>2 DEF SegmentsFit

LEMMA StartWhole ==
  ASSUME TypeInv, Traced, NEW m \in Msgs, Start(m)
  PROVE  Traced'
<1>1. send \in [Msgs -> Calls] /\ nextId \in Nat
  BY DEF TypeInv, SendType
<1>2. send' = [send EXCEPT ![m].pc = "synwait", ![m].id = nextId, ![m].tries = 1]
  BY DEF Start
<1>3. /\ \A n \in Msgs : n # m => send'[n] = send[n]
      /\ send'[m].pc = "synwait" /\ send'[m].id = nextId /\ send'[m].seq = send[m].seq
  BY <1>1, <1>2 DEF Calls
<1>4. ~ Sent(m) /\ Length[m] <= MaxMessageSize /\ nextId' = nextId + 1
  BY DEF Start, Sent
<1>5. \A n \in Msgs : Sent(n) => Sent(n)' /\ send'[n].id = send[n].id
  BY <1>3, <1>4 DEF Sent
<1>6. IdsDistinct'
  <2>1. \A n \in Msgs : send[n].id \in Nat
    BY <1>1 DEF Calls
  <2>2. \A n \in Msgs : n # m /\ Sent(n)' => Sent(n) /\ send'[n].id = send[n].id /\ send[n].id < nextId
    BY <1>3 DEF Traced, IdsDistinct, Sent
  <2> QED BY <1>1, <1>3, <1>4, <2>1, <2>2 DEF Traced, IdsDistinct
<1>7. AtSegment'
  <2>1. \A n \in Msgs : send'[n].seq = send[n].seq
    BY <1>3
  <2> QED BY <1>3, <1>4, <2>1 DEF Traced, AtSegment, Sent
<1>8. SegmentsFit'
  BY <1>5, SegmentsKept DEF Start, Write, Syn
<1>9. InsertFits' /\ BuffersFit' /\ HandedFit'
  BY <1>5, ReceiverKept DEF Start
<1> QED BY <1>6, <1>7, <1>8, <1>9 DEF Traced

(* A call that goes on keeps its id; where it stands.                      *)
LEMMA CallerKeeps ==
  ASSUME TypeInv, Traced, NEW m \in Msgs, Caller(m)
  PROVE  /\ \A n \in Msgs : (Sent(n)' <=> Sent(n)) /\ send'[n].id = send[n].id
         /\ AtSegment'
         /\ Sent(m)
         /\ UNCHANGED <<nextId, recvVars>>
<1>1. send \in [Msgs -> Calls] /\ Sent(m) /\ UNCHANGED <<nextId, recvVars>>
  BY DEF TypeInv, SendType, Sent, Caller, HearSynAck, SynTimeout, WriteSegment, Wake, Check,
         DataTimeout, TimedOut
<1>2. \A n \in Msgs : send[n] \in Calls
  BY <1>1
<1>3. Length[m] <= MaxMessageSize /\ send[m].seq \in Seqs(m)
  BY <1>1, StandsAtSegment DEF Traced
<1>4. SUFFICES
        /\ \A n \in Msgs \ {m} : send'[n] = send[n]
        /\ send'[m].pc # "new" /\ send'[m].id = send[m].id /\ send'[m].seq \in Seqs(m)
  BY <1>1, <1>3 DEF Traced, AtSegment, Sent
<1>5. 0 \in Seqs(m) /\ Total(m) \in Nat \ {0}
  BY <1>3, YmpAssumption DEF Seqs
<1>6. \A how : Ended(m, how).pc = how /\ Ended(m, how).id = send[m].id /\ Ended(m, how).seq = 0
  BY DEF Ended, NewSend
<1> USE DEF Calls
<1>7. CASE HearSynAck(m)
  BY <1>1, <1>2, <1>3, <1>7 DEF HearSynAck
<1>8. CASE SynTimeout(m)
  BY <1>1, <1>2, <1>3, <1>5, <1>6, <1>8 DEF SynTimeout
<1>9. CASE WriteSegment(m)
  <2>1. send[m].seq # Total(m) - 1 => send[m].seq + 1 \in Seqs(m)
    BY <1>3, <1>5 DEF Seqs
  <2> DEFINE last == send[m].seq = Total(m) - 1
             pc   == IF last THEN "wait" ELSE "burst"
             seq  == IF last THEN 0 ELSE send[m].seq + 1
  <2>2. send' = [send EXCEPT ![m].pc = pc, ![m].seq = seq]
    BY <1>9 DEF WriteSegment
  <2>3. pc # "new" /\ seq \in Seqs(m)
    BY <1>5, <2>1
  <2> HIDE DEF pc, seq
  <2> QED BY <1>1, <1>2, <2>2, <2>3
<1>10. CASE Wake(m)
  BY <1>1, <1>2, <1>3, <1>10 DEF Wake
<1>11. CASE Check(m)
  BY <1>1, <1>2, <1>3, <1>5, <1>6, <1>11 DEF Check
<1>12. CASE DataTimeout(m)
  BY <1>1, <1>2, <1>3, <1>5, <1>6, <1>12 DEF DataTimeout
<1> QED BY <1>7, <1>8, <1>9, <1>10, <1>11, <1>12 DEF Caller

LEMMA CallerWhole ==
  ASSUME TypeInv, Traced, NEW m \in Msgs, Caller(m)
  PROVE  Traced'
<1>1. /\ \A n \in Msgs : (Sent(n)' <=> Sent(n)) /\ send'[n].id = send[n].id
      /\ AtSegment' /\ Sent(m) /\ UNCHANGED <<nextId, recvVars>>
  BY CallerKeeps
<1>2. IdsDistinct'
  BY <1>1 DEF Traced, IdsDistinct
<1>3. SegmentsFit'
  <2>1. CASE net' = net
    <3>1. \A n \in Msgs, p \in net : SegmentOf(p, n) => SegmentOf(p, n)'
      BY <1>1, TraceKept
    <3> QED BY <2>1, <3>1 DEF Traced, SegmentsFit
  <2>2. CASE WriteSegment(m) /\ net' # net
    <3>0. PICK new : new = Data(send[m].id, send[m].seq, Total(m), Piece(m, send[m].seq))
      OBVIOUS
    <3>1. net' = net \cup {new}
      BY <2>2, <3>0 DEF WriteSegment, Write
    <3>2. send[m].seq \in Seqs(m)
      BY <1>1, StandsAtSegment DEF Traced
    <3>3. SegmentOf(new, m)'
      BY <1>1, <3>0, <3>2 DEF SegmentOf, Data, Sent
    <3> QED BY <1>1, <3>1, <3>3, SegmentsKept
  <2> QED BY <2>1, <2>2 DEF Caller, HearSynAck, SynTimeout, Wake, Check, DataTimeout
<1>4. InsertFits' /\ BuffersFit' /\ HandedFit'
  BY <1>1, ReceiverKept
<1> QED BY <1>1, <1>2, <1>3, <1>4 DEF Traced

LEMMA AnswerWhole ==
  ASSUME TypeInv, Traced, NEW p \in net, TakeSynAck(p) \/ TakeAck(p)
  PROVE  Traced'
<1>1. send \in [Msgs -> Calls] /\ UNCHANGED <<net, nextId, recvVars>>
  BY DEF TypeInv, SendType, TakeSynAck, TakeAck
<1>2. \A n \in Msgs : send'[n].pc = send[n].pc /\ send'[n].id = send[n].id /\ send'[n].seq = send[n].seq
  <2>1. CASE TakeSynAck(p)
    BY <1>1, <2>1 DEF TakeSynAck, Calls
  <2>2. CASE TakeAck(p)
    <3>1. PICK m \in Msgs :
             send' = [send EXCEPT ![m].acked  = AckedNow(m, p),
                                  ![m].permit = @ \/ Seqs(m) \subseteq AckedNow(m, p)]
      BY <2>2 DEF TakeAck
    <3> DEFINE permit == send[m].permit \/ Seqs(m) \subseteq AckedNow(m, p)
    <3>2. send' = [send EXCEPT ![m] = [send[m] EXCEPT !.acked = AckedNow(m, p), !.permit = permit]]
      BY <3>1
    <3> HIDE DEF permit
    <3> QED BY <1>1, <3>2 DEF Calls
  <2> QED BY <2>1, <2>2
<1>3. \A n \in Msgs : (Sent(n)' <=> Sent(n)) /\ send'[n].id = send[n].id
  BY <1>2 DEF Sent
<1>4. IdsDistinct' /\ AtSegment'
  BY <1>1, <1>2, <1>3 DEF Traced, IdsDistinct, AtSegment
<1>5. SegmentsFit'
  <2>1. \A n \in Msgs, q \in net : SegmentOf(q, n) => SegmentOf(q, n)'
    BY <1>3, TraceKept
  <2> QED BY <1>1, <2>1 DEF Traced, SegmentsFit
<1>6. InsertFits' /\ BuffersFit' /\ HandedFit'
  BY <1>1, <1>3, ReceiverKept
<1> QED BY <1>4, <1>5, <1>6 DEF Traced

-----------------------------------------------------------------------------
(* The buffers of one message.                                             *)

LEMMA FreshFits ==
  ASSUME NEW m \in Msgs, NEW p, SegmentOf(p, m)
  PROVE  BufferOf(Fresh(p), m)
<1>1. Sent(m) /\ p.id = send[m].id /\ p.total = Total(m)
  BY DEF SegmentOf
<1>2. Empty(p.total) = [i \in Seqs(m) |-> Missing]
  BY <1>1 DEF Empty, Seqs
<1>3. There(Empty(p.total), m) = {}
  BY <1>2 DEF There
<1>4. Fresh(p).id = p.id /\ Fresh(p).segs = Empty(p.total) /\ Fresh(p).got = 0
  BY DEF Fresh
<1> QED BY <1>1, <1>2, <1>3, <1>4, FS_EmptySet DEF BufferOf

(* A segment of the message goes to its place and is counted once.         *)
LEMMA FilledFits ==
  ASSUME NEW m \in Msgs, NEW p, SegmentOf(p, m), NEW b \in BufferSet, BufferOf(b, m)
  PROVE  BufferOf(Filled(b, p), m)
<1>1. /\ p.seq \in Seqs(m) /\ p.body = Piece(m, p.seq)
      /\ DOMAIN b.segs = Seqs(m) /\ b.got = Cardinality(There(b.segs, m))
      /\ \A i \in Seqs(m) : b.segs[i] \in {Missing, Piece(m, i)}
  BY DEF SegmentOf, BufferOf
<1>2. CASE b.segs[p.seq] # Missing
  BY <1>2 DEF Filled
<1>3. CASE b.segs[p.seq] = Missing
  <2> DEFINE segs == [b.segs EXCEPT ![p.seq] = p.body]
  <2>1. Filled(b, p) = [id |-> b.id, segs |-> segs, got |-> b.got + 1]
    BY <1>3, KeepSegment DEF Filled, BufferSet
  <2>2. p.body # Missing
    BY <1>1, SeqsType, PieceType
  <2>3. DOMAIN segs = Seqs(m) /\ \A i \in Seqs(m) : segs[i] \in {Missing, Piece(m, i)}
    BY <1>1
  <2>4. There(segs, m) = There(b.segs, m) \cup {p.seq} /\ p.seq \notin There(b.segs, m)
    BY <1>1, <1>3, <2>2 DEF There
  <2>5. IsFiniteSet(There(b.segs, m))
    BY SeqsType, FS_Subset DEF There
  <2>6. Cardinality(There(segs, m)) = Cardinality(There(b.segs, m)) + 1
    BY <2>4, <2>5, FS_AddElement
  <2> HIDE DEF segs
  <2> QED BY <1>1, <2>1, <2>3, <2>6 DEF BufferOf
<1> QED BY <1>2, <1>3

(* A buffer that has counted as many segments as it has places is whole.   *)
LEMMA CompleteIsWhole ==
  ASSUME NEW m \in Msgs, NEW b, BufferOf(b, m), b.got = Cardinality(DOMAIN b.segs)
  PROVE  Reassembled(b) = Whole(m)
<1>1. There(b.segs, m) \in SUBSET Seqs(m) /\ IsFiniteSet(Seqs(m))
  BY SeqsType DEF There
<1>2. Cardinality(There(b.segs, m)) = Cardinality(Seqs(m))
  BY DEF BufferOf
<1>3. There(b.segs, m) = Seqs(m)
  BY <1>1, <1>2, FS_Subset
<1>4. {j \in DOMAIN b.segs : b.segs[j] # Missing} = Seqs(m)
  BY <1>3 DEF There, BufferOf
<1>5. \A i \in Seqs(m) : b.segs[i] = Piece(m, i)
  BY <1>3 DEF There, BufferOf
<1> QED BY <1>4, <1>5 DEF Reassembled, Whole

LEMMA TakeWhole ==
  ASSUME TypeInv, Traced, NEW p \in net, TakeSyn(p) \/ TakeData(p)
  PROVE  Traced'
<1>1. UNCHANGED <<nextId, send>>
  BY DEF TakeSyn, TakeData, sendVars
<1>2. IdsDistinct' /\ AtSegment'
  BY <1>1 DEF Traced, IdsDistinct, AtSegment, Sent
<1>3. \A n \in Msgs : Sent(n) => Sent(n)' /\ send'[n].id = send[n].id
  BY <1>1 DEF Sent
<1>4. CASE TakeSyn(p)
  <2>1. SegmentsFit'
    BY <1>3, <1>4, SegmentsKept DEF TakeSyn, Write, SynAck
  <2>2. InsertFits' /\ BuffersFit' /\ HandedFit'
    BY <1>3, <1>4, ReceiverKept DEF TakeSyn
  <2> QED BY <1>2, <2>1, <2>2 DEF Traced
<1>5. CASE TakeData(p)
  <2>1. SegmentsFit'
    BY <1>3, <1>5, SegmentsKept DEF TakeData, Write, Ack
  <2>2. PICK m \in Msgs : SegmentOf(p, m)
    BY <1>5 DEF TakeData, Traced, SegmentsFit
  <2>3. SegmentOf(p, m)'
    BY <1>3, <2>2, TraceKept
  <2>4. InsertFits'
    BY <1>5, <2>3 DEF TakeData, InsertFits, SegmentOf
  <2>5. BuffersFit'
    <3>1. \A n \in Msgs : \A b : BufferOf(b, n) => BufferOf(b, n)'
      BY <1>3, TraceKept
    <3> QED BY <1>5, <3>1 DEF TakeData, Traced, BuffersFit
  <2>6. HandedFit'
    <3>1. \A n \in Msgs : \A h : HandedOf(h, n) => HandedOf(h, n)'
      BY <1>3, TraceKept
    <3>2. Handed' = Handed
      BY <1>5 DEF TakeData, Handed
    <3> QED BY <3>1, <3>2 DEF Traced, HandedFit
  <2> QED BY <1>2, <2>1, <2>4, <2>5, <2>6 DEF Traced
<1> QED BY <1>4, <1>5

LEMMA InsertWhole ==
  ASSUME TypeInv, Traced, Insert
  PROVE  Traced'
<1> DEFINE p == reader.pkt
           k == Place(p)
           o == Opened(p)
           b == Filled(o[k], p)
<1>1. p \in DataPackets /\ BuffersType /\ UNCHANGED <<net, nextId, send, handed>>
  BY InsertCases DEF sendVars, TypeInv
<1>2. /\ \A j \in DOMAIN o : o[j] = Fresh(p) \/ \E j2 \in DOMAIN buffers : o[j] = buffers[j2]
      /\ k \in DOMAIN o /\ o[k].id = p.id /\ o \in Seq(BufferSet) /\ Len(o) <= MaxBuffers
      /\ \A i, j \in DOMAIN o : o[i].id = o[j].id => i = j
  BY <1>1, OpenedFacts
<1>3. PICK m \in Msgs : SegmentOf(p, m)
  BY DEF Insert, Traced, InsertFits
<1>4. \A j \in DOMAIN o : \E n \in Msgs : BufferOf(o[j], n)
  BY <1>2, <1>3, FreshFits DEF Traced, BuffersFit
<1>5. BufferOf(o[k], m)
  <2>1. PICK n \in Msgs : BufferOf(o[k], n)
    BY <1>2, <1>4
  <2>2. n = m
    BY <1>2, <1>3, <2>1 DEF BufferOf, SegmentOf, Traced, IdsDistinct
  <2> QED BY <2>1, <2>2
<1>6. BufferOf(b, m)
  BY <1>2, <1>3, <1>5, FilledFits
<1>7. IdsDistinct' /\ AtSegment' /\ SegmentsFit'
  BY <1>1 DEF Traced, IdsDistinct, AtSegment, SegmentsFit, SegmentOf, Sent
<1>8. InsertFits'
  <2>1. reader'.pc # "insert"
    BY InsertCases DEF Ready
  <2> QED BY <2>1 DEF InsertFits
<1>9. \A n \in Msgs : \A c : BufferOf(c, n) => BufferOf(c, n)'
  BY <1>1, TraceKept DEF Sent
<1>10. BuffersFit'
  <2>1. SUFFICES \A j \in DOMAIN buffers' : \E n \in Msgs : BufferOf(buffers'[j], n)
    BY <1>1 DEF BuffersFit, BufferOf, Sent
  <2>2. CASE UNCHANGED buffers
    BY <2>2 DEF Traced, BuffersFit
  <2>3. CASE buffers' = RemoveAt(o, k)
    BY <1>2, <1>4, <2>3, RemovedType
  <2>4. CASE buffers' = [o EXCEPT ![k] = b]
    BY <1>2, <1>4, <1>6, <2>4
  <2> QED BY <2>2, <2>3, <2>4, InsertCases
<1>11. HandedFit'
  <2>1. SUFFICES \A h \in Handed' : \E n \in Msgs : HandedOf(h, n)
    BY <1>1 DEF HandedFit, HandedOf, Sent
  <2>2. \A h \in handed : \E n \in Msgs : HandedOf(h, n)
    BY DEF Traced, HandedFit, Handed
  <2>3. CASE reader'.pc = "deliver"
    <3>1. b.got = Cardinality(DOMAIN b.segs)
          /\ reader' = [pc |-> "deliver", id |-> p.id, msg |-> Reassembled(b)]
      BY <2>3, InsertCases DEF Ready
    <3>2. Reassembled(b) = Whole(m)
      BY <1>6, <3>1, CompleteIsWhole
    <3>3. HandedOf([id |-> p.id, msg |-> Reassembled(b)], m)
      BY <1>3, <3>2 DEF HandedOf, SegmentOf
    <3> HIDE DEF p, b
    <3>4. Handed' = handed \cup {[id |-> p.id, msg |-> Reassembled(b)]}
      BY <1>1, <3>1 DEF Handed
    <3> QED BY <2>2, <3>3, <3>4
  <2>4. CASE reader'.pc # "deliver"
    BY <1>1, <2>2, <2>4 DEF Handed
  <2> QED BY <2>3, <2>4
<1> QED BY <1>7, <1>8, <1>10, <1>11 DEF Traced

LEMMA OtherWhole ==
  ASSUME TypeInv, Traced, restarts' = 0, HandUp \/ Expire \/ SenderRestart \/ ReceiverRestart
  PROVE  Traced'
<1>1. ~ SenderRestart
  <2>1. restarts \in Nat
    BY YmpAssumption DEF TypeInv, CountType
  <2> QED BY <2>1 DEF SenderRestart
<1>2. UNCHANGED <<net, nextId, send>>
  BY <1>1 DEF HandUp, Expire, ReceiverRestart, sendVars
<1>3. IdsDistinct' /\ AtSegment' /\ SegmentsFit'
  BY <1>2 DEF Traced, IdsDistinct, AtSegment, SegmentsFit, SegmentOf, Sent
<1>4. SUFFICES InsertFits' /\ BuffersFit' /\ HandedFit'
  BY <1>3 DEF Traced
<1>5. SUFFICES
        /\ reader'.pc = "insert" => \E m \in Msgs : SegmentOf(reader'.pkt, m)
        /\ \A k \in DOMAIN buffers' : \E m \in Msgs : BufferOf(buffers'[k], m)
        /\ \A h \in Handed' : \E m \in Msgs : HandedOf(h, m)
  BY <1>2 DEF InsertFits, BuffersFit, HandedFit, SegmentOf, BufferOf, HandedOf, Sent
<1> USE DEF Traced, InsertFits, BuffersFit, HandedFit
<1>6. CASE HandUp
  <2>1. Handed' = Handed
    BY <1>6 DEF HandUp, Handed, Ready
  <2> QED BY <1>6, <2>1 DEF HandUp, Ready
<1>7. CASE Expire
  <2>1. PICK k \in DOMAIN buffers : buffers' = RemoveAt(buffers, k)
    BY <1>7 DEF Expire
  <2>2. \A j \in DOMAIN buffers' : \E n \in DOMAIN buffers : buffers'[j] = buffers[n]
    BY <2>1, RemovedType DEF TypeInv, BuffersType, OneBufferPerId
  <2>3. Handed' = Handed /\ reader' = reader
    BY <1>7 DEF Expire, Handed
  <2> QED BY <2>2, <2>3
<1>8. CASE ReceiverRestart
  <2>1. Handed' \subseteq Handed
    BY <1>8 DEF ReceiverRestart, Handed, Ready
  <2> QED BY <1>8, <2>1 DEF ReceiverRestart, Ready
<1> QED BY <1>1, <1>6, <1>7, <1>8

LEMMA StepWhole == WholeInv /\ [Next]_vars => WholeInv'
<1> SUFFICES ASSUME TypeInv, restarts = 0 => Traced, [Next]_vars, restarts' = 0
             PROVE  Traced'
  BY StepType DEF WholeInv
<1>1. restarts = 0
  <2>1. restarts \in Nat
    BY YmpAssumption DEF TypeInv, CountType
  <2>2. restarts' = restarts \/ restarts' = restarts + 1
    BY DEF Next, vars, Start, Caller, HearSynAck, SynTimeout, WriteSegment, Wake, Check,
           DataTimeout, TakeSynAck, TakeAck, TakeSyn, TakeData, Insert, HandUp, Expire,
           SenderRestart, ReceiverRestart
  <2> QED BY <2>1, <2>2
<1>2. Traced
  BY <1>1
<1>3. CASE Next
  <2>1. ASSUME NEW m \in Msgs, Start(m) \/ Caller(m) PROVE Traced'
    BY <1>2, <2>1, StartWhole, CallerWhole
  <2>2. ASSUME NEW p \in net, TakeSynAck(p) \/ TakeAck(p) \/ TakeSyn(p) \/ TakeData(p)
        PROVE  Traced'
    BY <1>2, <2>2, AnswerWhole, TakeWhole
  <2>3. CASE Insert
    BY <1>2, <2>3, InsertWhole
  <2>4. CASE HandUp \/ Expire \/ SenderRestart \/ ReceiverRestart
    BY <1>2, <2>4, OtherWhole
  <2> QED BY <1>3, <2>1, <2>2, <2>3, <2>4 DEF Next
<1>4. CASE UNCHANGED vars
  BY <1>2, <1>4 DEF vars, sendVars, recvVars, Traced, IdsDistinct, AtSegment, SegmentsFit,
                   InsertFits, BuffersFit, HandedFit, SegmentOf, BufferOf, HandedOf, Sent, Handed
<1> QED BY <1>3, <1>4

(* The inductive invariant: besides the types, until the sender restarts   *)
(* every id, segment, buffer and message handed up is traced to one send().*)
THEOREM WholeInvariant == Spec => []WholeInv
BY InitWhole, StepWhole, PTL DEF Spec

(* Until the sender restarts, what the receiver hands up is a whole        *)
(* message that was sent, however segments are lost, repeated and mixed,   *)
(* for any number of messages, segments, buffers and retries (reader_loop, *)
(* reassemble).                                                            *)
THEOREM WholeUntilRestartHolds == Spec => []WholeUntilRestart
<1>1. WholeInv => WholeUntilRestart
  BY DEF WholeInv, Traced, HandedFit, HandedOf, Sent, WholeUntilRestart
<1> QED BY <1>1, WholeInvariant, PTL

-----------------------------------------------------------------------------
(* What Ok means.  An acknowledged segment has been taken by the receiving *)
(* node: it is in its buffer or on the way there, its message has been     *)
(* handed up, or the node has dropped something of it.                     *)

InBuffer(b, id, i) == b.id = id /\ i \in DOMAIN b.segs /\ b.segs[i] # Missing

Taken(id, i) ==
  \/ id \in dropped
  \/ \E h \in Handed : h.id = id
  \/ reader.pc = "insert" /\ reader.pkt.id = id /\ reader.pkt.seq = i
  \/ \E k \in DOMAIN buffers : InBuffer(buffers[k], id, i)

AcksTrue  == \A p \in net : p.type = "ack" => Taken(p.id, p.seq)
AckedTrue ==
  \A m \in Msgs :
    /\ ~ Sent(m) => send[m].acked = {}
    /\ \A i \in send[m].acked : Taken(send[m].id, i)
OkTrue == \A m \in Msgs : send[m].pc = "ok" => \A i \in Seqs(m) : Taken(send[m].id, i)

(* A complete buffer does not stay.                                        *)
Incomplete == \A k \in DOMAIN buffers : buffers[k].got # Cardinality(DOMAIN buffers[k].segs)

Honest == AcksTrue /\ AckedTrue /\ OkTrue /\ Incomplete
OkInv  == WholeInv /\ (restarts = 0 => Honest)

LEMMA InitOk == Init => OkInv
<1> SUFFICES ASSUME Init PROVE Honest
  BY InitWhole DEF OkInv
<1>1. \A m \in Msgs : send[m].pc = "new" /\ send[m].acked = {}
  BY DEF Init, NewSend
<1>2. net = {} /\ buffers = <<>>
  BY DEF Init
<1> QED BY <1>1, <1>2 DEF Honest, AcksTrue, AckedTrue, OkTrue, Incomplete

(* Steps of the sending node leave alone what is taken.                    *)
LEMMA HonestCalls ==
  ASSUME Honest, UNCHANGED recvVars,
         \A p \in net' : p.type = "ack" => p \in net,
         \A m \in Msgs :
           /\ send'[m].pc = "new" => send[m].pc = "new" /\ send'[m].acked = {}
           /\ send'[m].acked # {} => send'[m].id = send[m].id
           /\ \A i \in send'[m].acked \ send[m].acked : Taken(send[m].id, i)
           /\ send'[m].pc = "ok" =>
                (send[m].pc = "ok" \/ AllAcked(m)) /\ send'[m].id = send[m].id
  PROVE  Honest'
<1>1. \A id, i : Taken(id, i)' <=> Taken(id, i)
  BY DEF Taken, Handed, recvVars
<1>2. AcksTrue'
  BY <1>1 DEF Honest, AcksTrue
<1>3. AckedTrue'
  BY <1>1 DEF Honest, AckedTrue, Sent
<1>4. OkTrue'
  BY <1>1 DEF Honest, OkTrue, AckedTrue, AllAcked
<1>5. Incomplete'
  BY DEF Honest, Incomplete, recvVars
<1> QED BY <1>2, <1>3, <1>4, <1>5 DEF Honest

(* Steps of the receiving node forget nothing that was taken.              *)
LEMMA HonestTakes ==
  ASSUME Honest, UNCHANGED send,
         \A id, i : Taken(id, i) => Taken(id, i)',
         \A p \in net' : p.type = "ack" => p \in net \/ Taken(p.id, p.seq)',
         Incomplete'
  PROVE  Honest'
BY DEF Honest, AcksTrue, AckedTrue, OkTrue, Sent

LEMMA StartOk ==
  ASSUME TypeInv, Honest, NEW m \in Msgs, Start(m)
  PROVE  Honest'
<1>1. send \in [Msgs -> Calls]
  BY DEF TypeInv, SendType
<1>2. send[m].acked = {}
  BY DEF Honest, AckedTrue, Sent, Start
<1>3. /\ \A n \in Msgs : n # m => send'[n] = send[n]
      /\ send'[m].pc = "synwait" /\ send'[m].acked = send[m].acked
  BY <1>1 DEF Start, Calls
<1>4. \A p \in net' : p.type = "ack" => p \in net
  BY DEF Start, Write, Syn
<1>5. \A n \in Msgs : send[n].pc = "new" => send[n].acked = {}
  BY DEF Honest, AckedTrue, Sent
<1>6. UNCHANGED recvVars
  BY DEF Start
<1> QED BY <1>2, <1>3, <1>4, <1>5, <1>6, HonestCalls

LEMMA CallerOk ==
  ASSUME TypeInv, Traced, Honest, NEW m \in Msgs, Caller(m)
  PROVE  Honest'
<1>1. send \in [Msgs -> Calls]
  BY DEF TypeInv, SendType
<1>2. /\ \A n \in Msgs : (Sent(n)' <=> Sent(n)) /\ send'[n].id = send[n].id
      /\ UNCHANGED recvVars
  BY CallerKeeps
<1>3. \A p \in net' : p.type = "ack" => p \in net
  BY DEF Caller, HearSynAck, SynTimeout, WriteSegment, Wake, Check, DataTimeout, Write, Data
<1>4. \A n \in Msgs :
        /\ send'[n].acked \in {send[n].acked, {}}
        /\ send'[n].pc = "ok" => send[n].pc = "ok" \/ AllAcked(n)
  <2>1. \A how : Ended(m, how).acked = {} /\ Ended(m, how).pc = how
    BY DEF Ended, NewSend
  <2> USE DEF Calls
  <2>2. CASE HearSynAck(m)
    BY <1>1, <2>2 DEF HearSynAck
  <2>3. CASE SynTimeout(m)
    BY <1>1, <2>1, <2>3 DEF SynTimeout
  <2>4. CASE WriteSegment(m)
    <3> DEFINE last == send[m].seq = Total(m) - 1
               pc   == IF last THEN "wait" ELSE "burst"
               seq  == IF last THEN 0 ELSE send[m].seq + 1
    <3>1. send' = [send EXCEPT ![m].pc = pc, ![m].seq = seq] /\ pc # "ok"
      BY <2>4 DEF WriteSegment
    <3> HIDE DEF pc, seq
    <3> QED BY <1>1, <3>1
  <2>5. CASE Wake(m)
    BY <1>1, <2>5 DEF Wake
  <2>6. CASE Check(m)
    BY <1>1, <2>1, <2>6 DEF Check
  <2>7. CASE DataTimeout(m)
    BY <1>1, <2>1, <2>7 DEF DataTimeout
  <2> QED BY <2>2, <2>3, <2>4, <2>5, <2>6, <2>7 DEF Caller
<1>5. \A n \in Msgs : send[n].pc = "new" => send[n].acked = {}
  BY DEF Honest, AckedTrue, Sent
<1>6. \A n \in Msgs : send'[n].pc = "new" => send[n].pc = "new"
  BY <1>2 DEF Sent
<1>7. \A n \in Msgs : send'[n].pc = "new" => send[n].pc = "new" /\ send'[n].acked = {}
  BY <1>4, <1>5, <1>6
<1>8. \A n \in Msgs : \A i \in send'[n].acked \ send[n].acked : Taken(send[n].id, i)
  BY <1>4
<1> QED BY <1>2, <1>3, <1>4, <1>7, <1>8, HonestCalls

LEMMA AnswerOk ==
  ASSUME TypeInv, Honest, NEW p \in net, TakeSynAck(p) \/ TakeAck(p)
  PROVE  Honest'
<1>1. send \in [Msgs -> Calls] /\ UNCHANGED <<net, nextId, recvVars>>
  BY DEF TypeInv, SendType, TakeSynAck, TakeAck
<1>2. \A n \in Msgs : send[n].pc = "new" => send[n].acked = {}
  BY DEF Honest, AckedTrue, Sent
<1>3. CASE TakeSynAck(p)
  <2>1. \A n \in Msgs :
          /\ send'[n].pc = send[n].pc /\ send'[n].id = send[n].id
          /\ send'[n].acked = send[n].acked
    BY <1>1, <1>3 DEF TakeSynAck, Calls
  <2> QED BY <1>1, <1>2, <2>1, HonestCalls
<1>4. CASE TakeAck(p)
  <2>1. PICK m \in Msgs :
          /\ send[m].pc \in {"burst", "wait", "check"} /\ send[m].id = p.id
          /\ send' = [send EXCEPT ![m].acked  = AckedNow(m, p),
                                  ![m].permit = @ \/ Seqs(m) \subseteq AckedNow(m, p)]
    BY <1>4 DEF TakeAck
  <2> DEFINE permit == send[m].permit \/ Seqs(m) \subseteq AckedNow(m, p)
  <2>2. send' = [send EXCEPT ![m] = [send[m] EXCEPT !.acked = AckedNow(m, p), !.permit = permit]]
    BY <2>1
  <2> HIDE DEF permit
  <2>3. \A n \in Msgs : send'[n].pc = send[n].pc /\ send'[n].id = send[n].id
    BY <1>1, <2>2 DEF Calls
  <2>4. \A n \in Msgs : n # m => send'[n].acked = send[n].acked
    BY <1>1, <2>2
  <2>5. send'[m].acked = AckedNow(m, p)
    BY <1>1, <2>2 DEF Calls
  <2>6. Taken(send[m].id, p.seq)
    BY <1>4, <2>1 DEF TakeAck, Honest, AcksTrue
  <2>7. \A i \in send'[m].acked \ send[m].acked : Taken(send[m].id, i)
    BY <2>5, <2>6 DEF AckedNow
  <2>8. \A n \in Msgs : send'[n].pc = "new" => send[n].pc = "new" /\ send'[n].acked = {}
    BY <1>2, <2>1, <2>3, <2>4
  <2>9. \A n \in Msgs : \A i \in send'[n].acked \ send[n].acked : Taken(send[n].id, i)
    BY <2>4, <2>7
  <2> QED BY <1>1, <2>3, <2>8, <2>9, HonestCalls
<1> QED BY <1>3, <1>4

LEMMA TakeOk ==
  ASSUME TypeInv, Honest, NEW p \in net, TakeSyn(p) \/ TakeData(p)
  PROVE  Honest'
<1>1. UNCHANGED send /\ UNCHANGED <<buffers, handed, dropped>>
  BY DEF TakeSyn, TakeData, sendVars, recvVars
<1>2. Incomplete'
  BY <1>1 DEF Honest, Incomplete
<1>3. CASE TakeSyn(p)
  <2>1. \A id, i : Taken(id, i) => Taken(id, i)'
    BY <1>3 DEF TakeSyn, Taken, Handed, recvVars
  <2>2. \A q \in net' : q.type = "ack" => q \in net
    BY <1>3 DEF TakeSyn, Write, SynAck
  <2> QED BY <1>1, <1>2, <2>1, <2>2, HonestTakes
<1>4. CASE TakeData(p)
  <2>1. reader.pc = "ready" /\ reader' = [pc |-> "insert", pkt |-> p]
    BY <1>4 DEF TakeData
  <2>2. Handed' = Handed
    BY <1>1, <2>1 DEF Handed
  <2>3. \A id, i : Taken(id, i) => Taken(id, i)'
    BY <1>1, <2>1, <2>2 DEF Taken
  <2>4. Taken(p.id, p.seq)'
    BY <2>1 DEF Taken
  <2>5. \A q \in net' : q.type = "ack" => q \in net \/ Taken(q.id, q.seq)'
    BY <1>4, <2>4 DEF TakeData, Write, Ack
  <2> QED BY <1>1, <1>2, <2>3, <2>5, HonestTakes
<1> QED BY <1>3, <1>4

(* An insertion keeps what other buffers have, unless it drops one, and    *)
(* puts the reader's segment at its place.                                 *)
LEMMA InsertOk ==
  ASSUME TypeInv, Traced, Honest, Insert
  PROVE  Honest'
<1> DEFINE p == reader.pkt
           k == Place(p)
           o == Opened(p)
           b == Filled(o[k], p)
<1>1. p \in DataPackets /\ BuffersType /\ UNCHANGED <<net, nextId, send, handed>>
  BY InsertCases DEF sendVars, TypeInv
<1>2. /\ k \in DOMAIN o /\ o[k].id = p.id /\ o \in Seq(BufferSet) /\ Len(o) <= MaxBuffers
      /\ \A i, j \in DOMAIN o : o[i].id = o[j].id => i = j
      /\ \A j \in DOMAIN o : o[j] = Fresh(p) \/ \E j2 \in DOMAIN buffers : o[j] = buffers[j2]
  BY <1>1, OpenedFacts
<1>3. reader.pc = "insert" /\ Handed = handed
  BY DEF Insert, Handed
<1>4. p.seq \in DOMAIN o[k].segs
  <2>1. PICK m \in Msgs : SegmentOf(p, m)
    BY <1>3 DEF Traced, InsertFits
  <2>2. PICK n \in Msgs : BufferOf(o[k], n)
    BY <1>2, <2>1, FreshFits DEF Traced, BuffersFit
  <2>3. n = m
    BY <1>2, <2>1, <2>2 DEF SegmentOf, BufferOf, Traced, IdsDistinct
  <2> QED BY <2>1, <2>2, <2>3 DEF SegmentOf, BufferOf
<1>5. o[k] \in BufferSet /\ p.body # Missing
  BY <1>1, <1>2 DEF DataPackets, Pieces, Missing
<1>6. /\ b.id = p.id
      /\ \A i : InBuffer(o[k], p.id, i) => InBuffer(b, p.id, i)
      /\ InBuffer(b, p.id, p.seq)
  <2>1. CASE o[k].segs[p.seq] # Missing
    BY <1>2, <1>4, <2>1 DEF Filled, InBuffer
  <2>2. CASE o[k].segs[p.seq] = Missing
    <3>1. b = [id |-> o[k].id, segs |-> [o[k].segs EXCEPT ![p.seq] = p.body], got |-> o[k].got + 1]
      BY <1>5, <2>2, KeepSegment DEF Filled, BufferSet
    <3> QED BY <1>2, <1>4, <1>5, <3>1 DEF InBuffer
  <2> QED BY <2>1, <2>2
(* What is in a buffer is still in one, or its message was evicted.        *)
<1>7. \A id, i : (\E j \in DOMAIN buffers : InBuffer(buffers[j], id, i)) =>
                 id \in dropped' \/ \E j \in DOMAIN o : InBuffer(o[j], id, i)
  <2>1. CASE Known(p.id)
    BY <2>1 DEF Opened
  <2>2. CASE ~ Known(p.id) /\ ~ Evicted(p)
    <3>1. o = Append(buffers, Fresh(p)) /\ buffers \in Seq(BufferSet)
      BY <1>1, <2>2 DEF Opened, Roomy, Fresh, BuffersType
    <3>2. \A j \in DOMAIN buffers : j \in DOMAIN o /\ o[j] = buffers[j]
      BY <3>1
    <3> QED BY <3>2
  <2>3. CASE ~ Known(p.id) /\ Evicted(p)
    <3>1. o = Append(Tail(buffers), Fresh(p)) /\ buffers \in Seq(BufferSet) /\ Len(buffers) > 0
      BY <1>1, <2>3, YmpAssumption DEF Opened, Roomy, Fresh, BuffersType, Evicted
    <3>2. Head(buffers).id \in dropped' /\ Head(buffers) = buffers[1]
      BY <2>3, <3>1 DEF Insert
    <3>3. \A j \in DOMAIN buffers : j # 1 => j - 1 \in DOMAIN o /\ o[j - 1] = buffers[j]
      BY <3>1
    <3> QED BY <3>2, <3>3 DEF InBuffer
  <2> QED BY <2>1, <2>2, <2>3
<1>8. dropped \subseteq dropped'
  BY DEF Insert
<1>9. \A j \in DOMAIN o \ {k} : \E j2 \in DOMAIN buffers : o[j] = buffers[j2]
  <2>1. Fresh(p).id = p.id
    BY DEF Fresh
  <2> QED BY <1>2, <2>1
<1>10. \A j \in DOMAIN o \ {k} : o[j].got # Cardinality(DOMAIN o[j].segs)
  BY <1>9 DEF Honest, Incomplete
<1>11. Handed \subseteq Handed'
  BY <1>1, <1>3 DEF Handed
<1> HIDE DEF o, k, b
<1>12. CASE /\ reader' = [pc |-> "deliver", id |-> p.id, msg |-> Reassembled(b)]
            /\ buffers' = RemoveAt(o, k)
  <2>1. \E h \in Handed' : h.id = p.id
    <3> DEFINE h == [id |-> p.id, msg |-> Reassembled(b)]
    <3>1. h \in Handed'
      BY <1>12 DEF Handed
    <3>2. h.id = p.id
      OBVIOUS
    <3> QED BY <3>1, <3>2
  <2>2. \A j \in DOMAIN o \ {k} : \E j2 \in DOMAIN buffers' : buffers'[j2] = o[j]
    BY <1>2, <1>12, RemoveAtRest
  <2>3. ASSUME NEW id, NEW i, Taken(id, i) PROVE Taken(id, i)'
    <3>1. CASE id \in dropped' \/ id = p.id \/ \E h \in Handed : h.id = id
      BY <1>11, <2>1, <3>1 DEF Taken
    <3>2. CASE \E j \in DOMAIN o : InBuffer(o[j], id, i)
      <4>1. PICK j \in DOMAIN o : InBuffer(o[j], id, i)
        BY <3>2
      <4>2. CASE j = k
        BY <1>2, <2>1, <4>1, <4>2 DEF Taken, InBuffer
      <4>3. CASE j # k
        BY <2>2, <4>1, <4>3 DEF Taken, InBuffer
      <4> QED BY <4>2, <4>3
    <3> QED BY <1>7, <1>8, <2>3, <3>1, <3>2 DEF Taken
  <2>4. \A j \in DOMAIN buffers' : \E j2 \in DOMAIN o \ {k} : buffers'[j] = o[j2]
    BY <1>2, <1>12, RemoveAtRest
  <2>5. Incomplete'
    BY <1>10, <2>4 DEF Incomplete
  <2> QED BY <1>1, <2>3, <2>5, HonestTakes
<1>13. CASE /\ reader' = Ready /\ b.got # Cardinality(DOMAIN b.segs)
            /\ buffers' = [o EXCEPT ![k] = b]
  <2>1. /\ DOMAIN buffers' = DOMAIN o /\ buffers'[k] = b
        /\ \A j \in DOMAIN o \ {k} : buffers'[j] = o[j]
    BY <1>2, <1>13
  <2>2. ASSUME NEW id, NEW i, Taken(id, i) PROVE Taken(id, i)'
    <3>1. CASE id \in dropped \/ \E h \in Handed : h.id = id
      BY <1>8, <1>11, <3>1 DEF Taken
    <3>2. CASE reader.pkt.id = id /\ reader.pkt.seq = i
      BY <1>2, <1>6, <2>1, <3>2 DEF Taken, InBuffer
    <3>3. CASE \E j \in DOMAIN buffers : InBuffer(buffers[j], id, i)
      <4>1. CASE id \in dropped'
        BY <4>1 DEF Taken
      <4>2. CASE \E j \in DOMAIN o : InBuffer(o[j], id, i)
        <5>1. PICK j \in DOMAIN o : InBuffer(o[j], id, i)
          BY <4>2
        <5>2. CASE j = k
          <6>1. id = p.id
            BY <1>2, <5>1, <5>2 DEF InBuffer
          <6>2. InBuffer(buffers'[k], id, i)
            BY <1>6, <2>1, <5>1, <5>2, <6>1
          <6> QED BY <1>2, <2>1, <6>2 DEF Taken, InBuffer
        <5>3. CASE j # k
          BY <2>1, <5>1, <5>3 DEF Taken, InBuffer
        <5> QED BY <5>2, <5>3
      <4> QED BY <1>7, <3>3, <4>1, <4>2
    <3> QED BY <2>2, <3>1, <3>2, <3>3 DEF Taken
  <2>3. Incomplete'
    BY <1>10, <1>13, <2>1 DEF Incomplete
  <2> QED BY <1>1, <2>2, <2>3, HonestTakes
<1> QED BY <1>4, <1>12, <1>13, InsertCases DEF o, k, b

LEMMA OtherOk ==
  ASSUME TypeInv, Honest, HandUp \/ Expire \/ ReceiverRestart
  PROVE  Honest'
<1>1. UNCHANGED <<net, nextId, send>>
  BY DEF HandUp, Expire, ReceiverRestart, sendVars
<1>2. CASE HandUp
  <2>1. Handed' = Handed
    BY <1>2 DEF HandUp, Handed, Ready
  <2>2. \A id, i : Taken(id, i) => Taken(id, i)'
    BY <1>2, <2>1 DEF HandUp, Taken
  <2>3. Incomplete'
    BY <1>2 DEF HandUp, Honest, Incomplete
  <2> QED BY <1>1, <2>2, <2>3, HonestTakes
<1>3. CASE Expire
  <2>1. PICK k \in DOMAIN buffers :
          buffers' = RemoveAt(buffers, k) /\ dropped' = dropped \cup {buffers[k].id}
    BY <1>3 DEF Expire
  <2>2. UNCHANGED <<reader, handed>> /\ Handed' = Handed
    BY <1>3 DEF Expire, Handed
  <2>3. buffers \in Seq(BufferSet)
    BY DEF TypeInv, BuffersType
  <2>4. \A j \in DOMAIN buffers \ {k} : \E n \in DOMAIN buffers' : buffers'[n] = buffers[j]
    BY <2>1, <2>3, RemoveAtRest
  <2>5. ASSUME NEW id, NEW i, Taken(id, i) PROVE Taken(id, i)'
    BY <2>1, <2>2, <2>4, <2>5 DEF Taken, InBuffer
  <2>6. \A n \in DOMAIN buffers' : \E j \in DOMAIN buffers \ {k} : buffers'[n] = buffers[j]
    BY <2>1, <2>3, RemoveAtRest
  <2>7. Incomplete'
    BY <2>6 DEF Honest, Incomplete
  <2> QED BY <1>1, <2>5, <2>7, HonestTakes
<1>4. CASE ReceiverRestart
  <2>1. /\ dropped' = dropped \cup {buffers[k].id : k \in DOMAIN buffers} \cup InHand
        /\ buffers' = <<>> /\ handed' = handed
    BY <1>4 DEF ReceiverRestart
  <2>2. handed \subseteq Handed'
    BY <2>1 DEF Handed
  <2>3. ASSUME NEW id, NEW i, Taken(id, i) PROVE Taken(id, i)'
    <3>1. CASE id \in dropped \/ \E k \in DOMAIN buffers : InBuffer(buffers[k], id, i)
      BY <2>1, <3>1 DEF Taken, InBuffer
    <3>2. CASE reader.pc = "insert" /\ reader.pkt.id = id
      BY <2>1, <3>2 DEF Taken, InHand
    <3>3. CASE \E h \in Handed : h.id = id
      <4>1. (\E h \in handed : h.id = id) \/ (reader.pc = "deliver" /\ reader.id = id)
        BY <3>3 DEF Handed
      <4>2. CASE reader.pc = "deliver" /\ reader.id = id
        BY <2>1, <4>2 DEF Taken, InHand
      <4> QED BY <2>2, <4>1, <4>2 DEF Taken
    <3> QED BY <2>3, <3>1, <3>2, <3>3 DEF Taken
  <2>4. Incomplete'
    BY <2>1 DEF Incomplete
  <2> QED BY <1>1, <2>3, <2>4, HonestTakes
<1> QED BY <1>2, <1>3, <1>4

LEMMA StepOk == OkInv /\ [Next]_vars => OkInv'
<1> SUFFICES ASSUME WholeInv, restarts = 0 => Honest, [Next]_vars, restarts' = 0
             PROVE  Honest'
  BY StepWhole DEF OkInv
<1>1. TypeInv /\ restarts \in Nat
  BY YmpAssumption DEF WholeInv, TypeInv, CountType
<1>2. restarts' \in {restarts, restarts + 1}
  BY DEF Next, vars, Start, Caller, HearSynAck, SynTimeout, WriteSegment, Wake, Check,
         DataTimeout, TakeSynAck, TakeAck, TakeSyn, TakeData, Insert, HandUp, Expire,
         SenderRestart, ReceiverRestart
<1>3. restarts = 0
  BY <1>1, <1>2
<1>4. Traced /\ Honest /\ ~ SenderRestart
  BY <1>3 DEF WholeInv, SenderRestart
<1>5. CASE Next
  <2>1. ASSUME NEW m \in Msgs, Start(m) \/ Caller(m) PROVE Honest'
    BY <1>1, <1>4, <2>1, StartOk, CallerOk
  <2>2. ASSUME NEW p \in net, TakeSynAck(p) \/ TakeAck(p) \/ TakeSyn(p) \/ TakeData(p)
        PROVE  Honest'
    BY <1>1, <1>4, <2>2, AnswerOk, TakeOk
  <2>3. CASE Insert
    BY <1>1, <1>4, <2>3, InsertOk
  <2>4. CASE HandUp \/ Expire \/ ReceiverRestart
    BY <1>1, <1>4, <2>4, OtherOk
  <2> QED BY <1>4, <1>5, <2>1, <2>2, <2>3, <2>4 DEF Next
<1>6. CASE UNCHANGED vars
  BY <1>4, <1>6 DEF vars, sendVars, recvVars, Honest, AcksTrue, AckedTrue, OkTrue, Incomplete,
                   Taken, Handed, Sent
<1> QED BY <1>5, <1>6

(* The invariant behind Ok: every acknowledgement under way, every segment *)
(* the sender counts and every Ok stands for segments that were taken, and *)
(* no complete buffer stays in the map.                                    *)
THEOREM OkInvariant == Spec => []OkInv
BY InitOk, StepOk, PTL DEF Spec

(* Until the sender restarts, an Ok of send() means that the message was   *)
(* handed up, is in the reader's hands, or lost something to the receiving *)
(* node after the acknowledgement (send, reader_loop), for any numbers of  *)
(* messages, segments and buffers.                                         *)
THEOREM OkMeansTakenHolds == Spec => []OkMeansTaken
<1>1. OkInv => OkMeansTaken
  <2> SUFFICES ASSUME OkInv, restarts = 0, NEW m \in Msgs, send[m].pc = "ok",
                      send[m].id \notin dropped, send[m].id \notin InHand,
                      \A h \in Handed : h.id # send[m].id
               PROVE  FALSE
    BY DEF OkMeansTaken
  <2> DEFINE id == send[m].id
  <2>1. Traced /\ Honest /\ TypeInv /\ Sent(m)
    BY DEF OkInv, WholeInv, Sent
  <2>2. \A i \in Seqs(m) : \E k \in DOMAIN buffers : InBuffer(buffers[k], id, i)
    BY <2>1 DEF Honest, OkTrue, Taken, InHand
  <2>3. 0 \in Seqs(m)
    BY <2>1, StandsAtSegment, YmpAssumption DEF Traced, Seqs
  <2>4. PICK k \in DOMAIN buffers : buffers[k].id = id
    BY <2>2, <2>3 DEF InBuffer
  <2>5. \A i \in Seqs(m) : InBuffer(buffers[k], id, i)
    BY <2>1, <2>2, <2>4 DEF InBuffer, TypeInv, BuffersType, OneBufferPerId
  <2>6. BufferOf(buffers[k], m)
    <3>1. PICK n \in Msgs : BufferOf(buffers[k], n)
      BY <2>1 DEF Traced, BuffersFit
    <3> QED BY <2>1, <2>4, <3>1 DEF Traced, IdsDistinct, BufferOf
  <2>7. There(buffers[k].segs, m) = Seqs(m) /\ DOMAIN buffers[k].segs = Seqs(m)
    BY <2>5, <2>6 DEF There, InBuffer, BufferOf
  <2> QED BY <2>1, <2>6, <2>7 DEF BufferOf, Honest, Incomplete
<1> QED BY <1>1, OkInvariant, PTL
=============================================================================
