--------------------------- MODULE DeliveryProofs ---------------------------
(***************************************************************************)
(* Proofs about the transfer of mail between two nodes: for any set of     *)
(* messages and streams, any depth of the channel and any number of        *)
(* crashes, time-outs and errors, no mail is lost, 250 means stored, an    *)
(* acknowledgement reaches only the stream of its own mail, and the whole  *)
(* dialog implements MailDelivery.                                         *)
(***************************************************************************)
EXTENDS Delivery, MailStoreProofs

(* The two halves of AckFitsStream: the items in the channel, and the one  *)
(* in the receiver's hands.                                                *)
Fits(i) == i.to # NoStream => stream[i.to].pc = "waiting" /\ stream[i.to].msg = i.msg

ChannelFits  == \A i \in DOMAIN channel : Fits(channel[i])
ReceiverFits == receiver.pc # "idle" => Fits(receiver.item)

(* A waiting stream has one mail on its way, so that the acknowledgement   *)
(* of one item leaves no other item with a stream that has been answered.  *)
OneItemPerStream ==
  /\ \A i, j \in DOMAIN channel :
        channel[i].to # NoStream /\ channel[i].to = channel[j].to => i = j
  /\ receiver.pc # "idle" =>
        \A i \in DOMAIN channel : channel[i].to # NoStream => channel[i].to # receiver.item.to

(* Who acknowledges has stored.                                            *)
AckMeansStored ==
  /\ receiver.pc = "ack" => Stored(receiver.item.msg)
  /\ attempt.pc = "confirmed" => Stored(attempt.msg)

(* The sender listens to the stream that carries its mail, and keeps the   *)
(* mail in its queue while it does.                                        *)
AttemptFits ==
  /\ attempt.pc = "dialog" =>
       /\ attempt.on \in Streams
       /\ stream[attempt.on].pc # "free"
       /\ stream[attempt.on].msg = attempt.msg
  /\ attempt.pc # "idle" => attempt.msg \in queued

(* Only submitted mail is on its way or stored.                            *)
OnlySubmitted ==
  /\ queued \subseteq submitted
  /\ \A s \in Streams : stream[s].pc # "free" => stream[s].msg \in submitted
  /\ \A i \in DOMAIN channel : channel[i].msg \in submitted
  /\ receiver.pc # "idle" => receiver.item.msg \in submitted
  /\ \A m \in Msgs : Stored(m) => m \in submitted

(* The invariant: what is stored, where acknowledgements go, and what is   *)
(* under way, over the invariants of the storage.                          *)
Storing  == NoMailLost /\ OkMeansStored /\ AckMeansStored
Routing  == ChannelFits /\ ReceiverFits /\ OneItemPerStream
Tracking == AttemptFits /\ OnlySubmitted

DeliveryInv ==
  /\ DeliveryTypeOK /\ StoreInv /\ SeenInv
  /\ Storing /\ Routing /\ Tracking

-----------------------------------------------------------------------------
(* Facts the steps share.                                                  *)

LEMMA AckFits == ChannelFits /\ ReceiverFits <=> AckFitsStream
BY DEF ChannelFits, ReceiverFits, Fits, AckFitsStream

LEMMA AnyMsgType == AnyMsg \in Msgs
BY DeliveryAssumption DEF AnyMsg

LEMMA RestTypes == /\ NoAttempt \in [pc : AttemptPc, msg : Msgs, on : Streams \cup {NoStream}]
                   /\ Free \in [pc : StreamPc, msg : Msgs]
                   /\ Idle \in [pc : ReceiverPc, item : Item]
BY AnyMsgType DEF NoAttempt, Free, Idle, AttemptPc, StreamPc, ReceiverPc, Item

LEMMA FaultType == ASSUME DeliveryTypeOK, Fault PROVE faults' \in 0 .. MaxFaults
BY DeliveryAssumption DEF DeliveryTypeOK, Fault

LEMMA StoreSame ==
  ASSUME StoreInv, SeenInv, UNCHANGED storeVars
  PROVE  StoreInv' /\ SeenInv' /\ StoreTypeOK' /\ \A n : Stored(n)' = Stored(n)
<1>1. StoreInv' /\ SeenInv'
  BY StutterInv, OthersSeen DEF storeVars
<1> QED BY <1>1 DEF storeVars, StoreInv, Stored

(* A stream that is answered either has its sender's ear or is gone.       *)
LEMMA AnswerFacts ==
  ASSUME DeliveryTypeOK, NEW s \in Streams, NEW code \in StreamPc, Answer(s, code)
  PROVE  /\ stream' \in [Streams -> [pc : StreamPc, msg : Msgs]]
         /\ \A t \in Streams : t # s => stream'[t] = stream[t]
         /\ Listening(s) => stream'[s].pc = code /\ stream'[s].msg = stream[s].msg
         /\ ~ Listening(s) => stream'[s].pc = "free"
<1>1. Free \in [pc : StreamPc, msg : Msgs] /\ Free.pc = "free"
  BY RestTypes DEF Free
<1> QED BY <1>1 DEF DeliveryTypeOK, Answer

LEMMA AbandonedFacts ==
  ASSUME DeliveryTypeOK, AttemptFits
  PROVE  /\ Abandoned \in [Streams -> [pc : StreamPc, msg : Msgs]]
         /\ \A t \in Streams : \/ Abandoned[t] = stream[t]
                               \/ /\ Abandoned[t].pc = "free"
                                  /\ stream[t].pc \in {"said250", "said451", "reset"}
<1>1. Free \in [pc : StreamPc, msg : Msgs] /\ Free.pc = "free"
  BY RestTypes DEF Free
<1> QED BY <1>1 DEF DeliveryTypeOK, Abandoned, AttemptFits

(* A step that leaves channel and receiver alone, and no waiting stream    *)
(* either, keeps the routing.                                              *)
LEMMA RoutingKept ==
  ASSUME DeliveryTypeOK, Routing, UNCHANGED <<channel, receiver>>,
         \A s \in Streams : stream[s].pc = "waiting" =>
            stream'[s].pc = "waiting" /\ stream'[s].msg = stream[s].msg
  PROVE  Routing'
<1>1. ASSUME NEW i \in Item, Fits(i) PROVE Fits(i)'
  BY <1>1 DEF Fits, Item
<1>2. \A i \in DOMAIN channel : channel[i] \in Item
  BY DEF DeliveryTypeOK
<1>3. receiver.item \in Item
  BY DEF DeliveryTypeOK
<1> QED BY <1>1, <1>2, <1>3 DEF Routing, ChannelFits, ReceiverFits, OneItemPerStream


-----------------------------------------------------------------------------
(* The steps of the sending node.                                          *)

LEMMA SubmitInv ==
  ASSUME DeliveryInv, NEW m \in Msgs, Submit(m)
  PROVE  DeliveryInv'
<1> USE DEF DeliveryInv, Submit, peerVars
<1>1. StoreInv' /\ SeenInv' /\ StoreTypeOK' /\ \A n : Stored(n)' = Stored(n)
  BY StoreSame
<1>2. DeliveryTypeOK'
  BY <1>1 DEF DeliveryTypeOK
<1>3. Storing'
  BY <1>1 DEF Storing, NoMailLost, OkMeansStored, AckMeansStored
<1>4. Routing'
  BY RoutingKept
<1>5. Tracking'
  BY <1>1 DEF Tracking, AttemptFits, OnlySubmitted
<1> QED BY <1>1, <1>2, <1>3, <1>4, <1>5

LEMMA StartSendInv ==
  ASSUME DeliveryInv, NEW m \in Msgs, NEW s \in Streams, StartSend(m, s)
  PROVE  DeliveryInv'
<1> USE DEF DeliveryInv, StartSend
<1>1. StoreInv' /\ SeenInv' /\ StoreTypeOK' /\ \A n : Stored(n)' = Stored(n)
  BY StoreSame
<1>2. DeliveryTypeOK'
  BY <1>1 DEF DeliveryTypeOK, AttemptPc, StreamPc
<1>3. Storing'
  BY <1>1 DEF Storing, NoMailLost, OkMeansStored, AckMeansStored, DeliveryTypeOK
<1>4. Routing'
  BY RoutingKept DEF DeliveryTypeOK
<1>5. Tracking'
  BY <1>1 DEF Tracking, AttemptFits, OnlySubmitted, DeliveryTypeOK
<1> QED BY <1>1, <1>2, <1>3, <1>4, <1>5

(* The one step at which the sender believes the peer: the stream that     *)
(* said 250 carried the mail of the attempt, and that mail is stored.      *)
LEMMA HearsOkInv ==
  ASSUME DeliveryInv, HearsOk
  PROVE  DeliveryInv'
<1> USE DEF DeliveryInv, HearsOk
<1>1. StoreInv' /\ SeenInv' /\ StoreTypeOK' /\ \A n : Stored(n)' = Stored(n)
  BY StoreSame
<1>2. /\ attempt.on \in Streams
      /\ stream[attempt.on].pc = "said250" /\ stream[attempt.on].msg = attempt.msg
  BY DEF Tracking, AttemptFits
<1>3. /\ stream' \in [Streams -> [pc : StreamPc, msg : Msgs]]
      /\ stream'[attempt.on].pc = "free"
      /\ \A s \in Streams : s # attempt.on => stream'[s] = stream[s]
  BY <1>2, RestTypes DEF DeliveryTypeOK, Free
<1>4. /\ attempt' \in [pc : AttemptPc, msg : Msgs, on : Streams \cup {NoStream}]
      /\ attempt'.pc = "confirmed" /\ attempt'.msg = attempt.msg
  BY DEF DeliveryTypeOK, AttemptPc
<1>5. DeliveryTypeOK'
  BY <1>1, <1>3, <1>4 DEF DeliveryTypeOK
<1>6. Storing'
  <2>1. Stored(attempt.msg)
    BY <1>2 DEF Storing, OkMeansStored
  <2> QED BY <1>1, <1>3, <1>4, <2>1 DEF Storing, NoMailLost, OkMeansStored, AckMeansStored
<1>7. Routing'
  BY <1>2, <1>3, RoutingKept
<1>8. Tracking'
  BY <1>1, <1>3, <1>4 DEF Tracking, AttemptFits, OnlySubmitted
<1> QED BY <1>1, <1>5, <1>6, <1>7, <1>8

(* The sender turns away from its stream, in whatever way.                 *)
LEMMA TurnAwayInv ==
  ASSUME DeliveryInv, attempt' = NoAttempt,
         UNCHANGED <<storeVars, submitted, queued, channel, receiver>>,
         faults' \in 0 .. MaxFaults,
         stream' \in [Streams -> [pc : StreamPc, msg : Msgs]],
         \A s \in Streams : \/ stream'[s] = stream[s]
                            \/ /\ stream'[s].pc = "free"
                               /\ stream[s].pc \in {"said250", "said451", "reset"}
  PROVE  DeliveryInv'
<1> USE DEF DeliveryInv
<1>1. StoreInv' /\ SeenInv' /\ StoreTypeOK' /\ \A n : Stored(n)' = Stored(n)
  BY StoreSame
<1>2. DeliveryTypeOK'
  BY <1>1, RestTypes DEF DeliveryTypeOK
<1>3. Storing'
  BY <1>1 DEF Storing, NoMailLost, OkMeansStored, AckMeansStored, NoAttempt
<1>4. Routing'
  BY RoutingKept
<1>5. Tracking'
  BY <1>1 DEF Tracking, AttemptFits, OnlySubmitted, NoAttempt
<1> QED BY <1>1, <1>2, <1>3, <1>4, <1>5

LEMMA HearsErrorInv ==
  ASSUME DeliveryInv, HearsError
  PROVE  DeliveryInv'
<1>1. attempt.on \in Streams
  BY DEF DeliveryInv, Tracking, AttemptFits, HearsError
<1>2. /\ stream' \in [Streams -> [pc : StreamPc, msg : Msgs]]
      /\ stream'[attempt.on].pc = "free"
      /\ \A s \in Streams : s # attempt.on => stream'[s] = stream[s]
  BY <1>1, RestTypes DEF DeliveryInv, DeliveryTypeOK, HearsError, Free
<1> QED BY <1>1, <1>2, TurnAwayInv DEF HearsError, DeliveryInv, DeliveryTypeOK

LEMMA GiveUpInv ==
  ASSUME DeliveryInv, GiveUp \/ SenderCrash
  PROVE  DeliveryInv'
<1>1. faults' \in 0 .. MaxFaults
  BY FaultType DEF DeliveryInv, GiveUp, SenderCrash
<1>2. /\ stream' \in [Streams -> [pc : StreamPc, msg : Msgs]]
      /\ \A s \in Streams : \/ stream'[s] = stream[s]
                            \/ /\ stream'[s].pc = "free"
                               /\ stream[s].pc \in {"said250", "said451", "reset"}
  BY AbandonedFacts DEF DeliveryInv, Tracking, GiveUp, SenderCrash
<1> QED BY <1>1, <1>2, TurnAwayInv DEF GiveUp, SenderCrash

LEMMA DequeueInv ==
  ASSUME DeliveryInv, Dequeue
  PROVE  DeliveryInv'
<1> USE DEF DeliveryInv, Dequeue, peerVars
<1>1. StoreInv' /\ SeenInv' /\ StoreTypeOK' /\ \A n : Stored(n)' = Stored(n)
  BY StoreSame
<1>2. DeliveryTypeOK'
  BY <1>1, RestTypes DEF DeliveryTypeOK
<1>3. Storing'
  <2>1. Stored(attempt.msg)
    BY DEF Storing, AckMeansStored
  <2>2. NoMailLost'
    BY <1>1, <2>1 DEF Storing, NoMailLost
  <2> QED BY <1>1, <2>2 DEF Storing, OkMeansStored, AckMeansStored, NoAttempt
<1>4. Routing'
  BY RoutingKept
<1>5. Tracking'
  BY <1>1 DEF Tracking, AttemptFits, OnlySubmitted, NoAttempt
<1> QED BY <1>1, <1>2, <1>3, <1>4, <1>5

-----------------------------------------------------------------------------
(* The steps of a stream at the receiving node.                            *)

LEMMA BodyReadInv ==
  ASSUME DeliveryInv, NEW s \in Streams, BodyRead(s)
  PROVE  DeliveryInv'
<1> USE DEF DeliveryInv, BodyRead, sideVars
<1>1. StoreInv' /\ SeenInv' /\ StoreTypeOK' /\ \A n : Stored(n)' = Stored(n)
  BY StoreSame
<1>2. DeliveryTypeOK'
  BY <1>1 DEF DeliveryTypeOK, StreamPc
<1>3. Storing'
  BY <1>1 DEF Storing, NoMailLost, OkMeansStored, AckMeansStored, DeliveryTypeOK
<1>4. Routing'
  BY RoutingKept DEF DeliveryTypeOK
<1>5. Tracking'
  BY <1>1 DEF Tracking, AttemptFits, OnlySubmitted, DeliveryTypeOK
<1> QED BY <1>1, <1>2, <1>3, <1>4, <1>5

(* A stream that no item points to is answered; if with 250, its mail is   *)
(* stored.                                                                 *)
LEMMA AnsweredInv ==
  ASSUME DeliveryInv, NEW s \in Streams, NEW code \in {"said250", "said451", "reset"},
         Answer(s, code), stream[s].pc \notin {"free", "waiting"},
         code = "said250" => Stored(stream[s].msg),
         UNCHANGED <<storeVars, sideVars, channel, receiver>>, faults' \in 0 .. MaxFaults
  PROVE  DeliveryInv'
<1> USE DEF DeliveryInv, sideVars
<1>1. StoreInv' /\ SeenInv' /\ StoreTypeOK' /\ \A n : Stored(n)' = Stored(n)
  BY StoreSame
<1>2. /\ stream' \in [Streams -> [pc : StreamPc, msg : Msgs]]
      /\ \A t \in Streams : t # s => stream'[t] = stream[t]
      /\ Listening(s) => stream'[s].pc = code /\ stream'[s].msg = stream[s].msg
      /\ ~ Listening(s) => stream'[s].pc = "free"
  BY AnswerFacts DEF StreamPc
<1>3. DeliveryTypeOK'
  BY <1>1, <1>2 DEF DeliveryTypeOK
<1>4. Storing'
  BY <1>1, <1>2 DEF Storing, NoMailLost, OkMeansStored, AckMeansStored
<1>5. Routing'
  BY <1>2, RoutingKept
<1>6. Tracking'
  BY <1>1, <1>2 DEF Tracking, AttemptFits, OnlySubmitted, Listening
<1> QED BY <1>1, <1>3, <1>4, <1>5, <1>6

LEMMA ServeFailsInv ==
  ASSUME DeliveryInv, NEW s \in Streams, ServeFails(s)
  PROVE  DeliveryInv'
<1>1. faults' \in 0 .. MaxFaults
  BY FaultType DEF DeliveryInv, DeliveryTypeOK, ServeFails
<1> QED BY <1>1, AnsweredInv DEF ServeFails

LEMMA Reply250Inv ==
  ASSUME DeliveryInv, NEW s \in Streams, Reply250(s)
  PROVE  DeliveryInv'
<1>1. Stored(stream[s].msg)
  BY DEF DeliveryInv, Storing, OkMeansStored, Reply250
<1> QED BY <1>1, AnsweredInv DEF Reply250, DeliveryInv, DeliveryTypeOK


LEMMA OfferInv ==
  ASSUME DeliveryInv, NEW s \in Streams, Offer(s)
  PROVE  DeliveryInv'
<1> DEFINE item == [msg |-> stream[s].msg, to |-> s]
<1> USE DEF DeliveryInv, sideVars
<1>1. /\ stream[s].pc = "offering" /\ channel' = Append(channel, item)
      /\ stream' = [stream EXCEPT ![s].pc = "waiting"]
      /\ UNCHANGED <<storeVars, sideVars, receiver, faults>>
  BY DEF Offer
<1>2. StoreInv' /\ SeenInv' /\ StoreTypeOK' /\ \A n : Stored(n)' = Stored(n)
  BY <1>1, StoreSame
<1>3. item \in Item /\ s # NoStream /\ channel \in Seq(Item)
  BY DeliveryAssumption DEF DeliveryTypeOK, Item
<1>4. /\ channel' \in Seq(Item)
      /\ DOMAIN channel' = DOMAIN channel \cup {Len(channel) + 1}
      /\ Len(channel) + 1 \notin DOMAIN channel
      /\ channel'[Len(channel) + 1] = item
      /\ \A i \in DOMAIN channel : channel'[i] = channel[i] /\ channel[i] \in Item
  BY <1>1, <1>3
<1>5. /\ stream' \in [Streams -> [pc : StreamPc, msg : Msgs]]
      /\ \A t \in Streams : t # s => stream'[t] = stream[t]
      /\ stream'[s].pc = "waiting" /\ stream'[s].msg = stream[s].msg
  BY <1>1 DEF DeliveryTypeOK, StreamPc
<1>6. DeliveryTypeOK'
  BY <1>1, <1>2, <1>4, <1>5 DEF DeliveryTypeOK
<1>7. Storing'
  BY <1>1, <1>2, <1>5 DEF Storing, NoMailLost, OkMeansStored, AckMeansStored
<1>8. Routing'
  <2>1. /\ \A i \in DOMAIN channel : channel[i].to # s
        /\ receiver.pc # "idle" => receiver.item.to # s
    BY <1>1, <1>3 DEF Routing, ChannelFits, ReceiverFits, Fits
  <2>2. ChannelFits'
    BY <1>3, <1>4, <1>5, <2>1 DEF Routing, ChannelFits, Fits, Item
  <2>3. ReceiverFits'
    BY <1>1, <1>5, <2>1 DEF Routing, ReceiverFits, Fits, DeliveryTypeOK, Item
  <2>4. OneItemPerStream'
    BY <1>1, <1>4, <2>1 DEF Routing, OneItemPerStream
  <2> QED BY <2>2, <2>3, <2>4 DEF Routing
<1>9. Tracking'
  <2>1. stream[s].msg \in submitted
    BY <1>1 DEF Tracking, OnlySubmitted
  <2>2. AttemptFits'
    BY <1>1, <1>5 DEF Tracking, AttemptFits
  <2>3. OnlySubmitted'
    BY <1>1, <1>2, <1>4, <1>5, <2>1 DEF Tracking, OnlySubmitted
  <2> QED BY <2>2, <2>3 DEF Tracking
<1> QED BY <1>2, <1>6, <1>7, <1>8, <1>9

LEMMA DurabilityTimeoutInv ==
  ASSUME DeliveryInv, NEW s \in Streams, DurabilityTimeout(s)
  PROVE  DeliveryInv'
<1> USE DEF DeliveryInv, sideVars
<1>1. /\ stream[s].pc \in {"offering", "waiting"} /\ Answer(s, "said451")
      /\ channel' = [i \in DOMAIN channel |-> Detach(channel[i], s)]
      /\ receiver' = [receiver EXCEPT !.item = Detach(@, s)]
      /\ UNCHANGED <<storeVars, sideVars>>
  BY DEF DurabilityTimeout
<1>2. StoreInv' /\ SeenInv' /\ StoreTypeOK' /\ \A n : Stored(n)' = Stored(n)
  BY <1>1, StoreSame
<1>3. faults' \in 0 .. MaxFaults
  BY FaultType DEF DurabilityTimeout
<1>4. /\ stream' \in [Streams -> [pc : StreamPc, msg : Msgs]]
      /\ \A t \in Streams : t # s => stream'[t] = stream[t]
      /\ Listening(s) => stream'[s].pc = "said451" /\ stream'[s].msg = stream[s].msg
      /\ ~ Listening(s) => stream'[s].pc = "free"
  BY <1>1, AnswerFacts DEF StreamPc
<1>5. ASSUME NEW i \in Item
      PROVE  /\ Detach(i, s) \in Item /\ Detach(i, s).msg = i.msg
             /\ Detach(i, s).to = IF i.to = s THEN NoStream ELSE i.to
  BY DEF Detach, Item
<1>6. channel \in Seq(Item) /\ \A i \in DOMAIN channel : channel[i] \in Item
  BY DEF DeliveryTypeOK
<1>7. /\ channel' \in Seq(Item) /\ DOMAIN channel' = DOMAIN channel
      /\ \A i \in DOMAIN channel :
            /\ channel'[i].msg = channel[i].msg
            /\ channel'[i].to = IF channel[i].to = s THEN NoStream ELSE channel[i].to
  <2>1. channel' = [i \in 1 .. Len(channel) |-> Detach(channel[i], s)]
    BY <1>1, <1>6
  <2>2. \A i \in 1 .. Len(channel) : Detach(channel[i], s) \in Item
    BY <1>5, <1>6
  <2>3. channel' \in Seq(Item)
    <3> HIDE DEF Detach
    <3> QED BY <1>6, <2>1, <2>2
  <2> QED BY <1>1, <1>5, <1>6, <2>3
<1>8. /\ receiver' \in [pc : ReceiverPc, item : Item]
      /\ receiver'.pc = receiver.pc /\ receiver'.item.msg = receiver.item.msg
      /\ receiver'.item.to = IF receiver.item.to = s THEN NoStream ELSE receiver.item.to
  <2>1. receiver.item \in Item /\ receiver \in [pc : ReceiverPc, item : Item]
    BY DEF DeliveryTypeOK
  <2>2. receiver'.item = Detach(receiver.item, s) /\ receiver'.pc = receiver.pc
    BY <1>1, <2>1
  <2> QED BY <1>1, <1>5, <2>1, <2>2
<1>9. DeliveryTypeOK'
  BY <1>1, <1>2, <1>3, <1>4, <1>7, <1>8 DEF DeliveryTypeOK
<1>10. Storing'
  BY <1>1, <1>2, <1>4, <1>8 DEF Storing, NoMailLost, OkMeansStored, AckMeansStored
<1>11. Routing'
  <2>1. ChannelFits'
    <3> SUFFICES ASSUME NEW i \in DOMAIN channel, channel'[i].to # NoStream
                 PROVE  /\ stream'[channel'[i].to].pc = "waiting"
                        /\ stream'[channel'[i].to].msg = channel'[i].msg
      BY <1>7 DEF ChannelFits, Fits
    <3>1. channel'[i].to = channel[i].to /\ channel[i].to # s /\ channel[i].to \in Streams
      BY <1>6, <1>7 DEF Item
    <3> QED BY <1>4, <1>7, <3>1 DEF Routing, ChannelFits, Fits
  <2>2. ReceiverFits'
    <3> SUFFICES ASSUME receiver.pc # "idle", receiver'.item.to # NoStream
                 PROVE  /\ stream'[receiver'.item.to].pc = "waiting"
                        /\ stream'[receiver'.item.to].msg = receiver'.item.msg
      BY <1>8 DEF ReceiverFits, Fits
    <3>1. /\ receiver'.item.to = receiver.item.to /\ receiver.item.to # s
          /\ receiver.item.to \in Streams
      BY <1>8 DEF DeliveryTypeOK, Item
    <3> QED BY <1>4, <1>8, <3>1 DEF Routing, ReceiverFits, Fits
  <2>3. OneItemPerStream'
    BY <1>7, <1>8 DEF Routing, OneItemPerStream
  <2> QED BY <2>1, <2>2, <2>3 DEF Routing
<1>12. Tracking'
  <2>1. AttemptFits'
    BY <1>1, <1>4 DEF Tracking, AttemptFits, Listening
  <2>2. OnlySubmitted'
    BY <1>1, <1>2, <1>4, <1>7, <1>8 DEF Tracking, OnlySubmitted
  <2> QED BY <2>1, <2>2 DEF Tracking
<1> QED BY <1>2, <1>9, <1>10, <1>11, <1>12

-----------------------------------------------------------------------------
(* The steps of the receiver task.                                         *)

LEMMA ReceiveInv ==
  ASSUME DeliveryInv, Receive
  PROVE  DeliveryInv'
<1> USE DEF DeliveryInv, sideVars
<1>1. /\ receiver.pc = "idle" /\ channel # <<>>
      /\ receiver' = [pc |-> "store", item |-> Head(channel)]
      /\ channel' = Tail(channel)
      /\ UNCHANGED <<storeVars, sideVars, stream, faults>>
  BY DEF Receive
<1>2. StoreInv' /\ SeenInv' /\ StoreTypeOK' /\ \A n : Stored(n)' = Stored(n)
  BY <1>1, StoreSame
<1>3. channel \in Seq(Item) /\ Head(channel) = channel[1] /\ 1 \in DOMAIN channel
  BY <1>1 DEF DeliveryTypeOK
<1>4. /\ channel' \in Seq(Item)
      /\ \A i \in DOMAIN channel' : i + 1 \in DOMAIN channel /\ channel'[i] = channel[i + 1]
                                    /\ i \in Nat /\ i >= 1
  BY <1>1, <1>3
<1>5. /\ receiver' \in [pc : ReceiverPc, item : Item]
      /\ receiver'.pc = "store" /\ receiver'.item = channel[1]
  BY <1>1, <1>3 DEF ReceiverPc
<1>6. DeliveryTypeOK'
  BY <1>1, <1>2, <1>4, <1>5 DEF DeliveryTypeOK
<1>7. Storing'
  BY <1>1, <1>2, <1>5 DEF Storing, NoMailLost, OkMeansStored, AckMeansStored
<1>8. Routing'
  <2>2. ChannelFits'
    BY <1>1, <1>4 DEF Routing, ChannelFits, Fits
  <2>3. ReceiverFits'
    BY <1>1, <1>3, <1>5 DEF Routing, ChannelFits, ReceiverFits, Fits
  <2>4. ASSUME NEW i \in DOMAIN channel', NEW j \in DOMAIN channel',
               channel'[i].to # NoStream, channel'[i].to = channel'[j].to
        PROVE  i = j
    <3>1. i + 1 = j + 1
      BY <1>4, <2>4 DEF Routing, OneItemPerStream
    <3> QED BY <1>4, <3>1
  <2>5. ASSUME NEW i \in DOMAIN channel', channel'[i].to # NoStream
        PROVE  channel'[i].to # receiver'.item.to
    <3>1. i + 1 # 1
      BY <1>4
    <3> QED BY <1>3, <1>4, <1>5, <2>5, <3>1 DEF Routing, OneItemPerStream
  <2> QED BY <2>2, <2>3, <2>4, <2>5 DEF Routing, OneItemPerStream
<1>9. Tracking'
  <2>1. AttemptFits'
    BY <1>1 DEF Tracking, AttemptFits
  <2>2. OnlySubmitted'
    BY <1>1, <1>2, <1>3, <1>4, <1>5 DEF Tracking, OnlySubmitted
  <2> QED BY <2>1, <2>2 DEF Tracking
<1> QED BY <1>2, <1>6, <1>7, <1>8, <1>9

(* A fingerprint found means a copy stored before: a duplicate may be      *)
(* acknowledged as well as a new mail.                                     *)
LEMMA DurableMeansStored ==
  ASSUME SeenInv, StoreInv, NEW m \in Msgs,
         DeliverNew(m) \/ (IsDuplicate(m) /\ UNCHANGED storeVars)
  PROVE  /\ StoreInv' /\ SeenInv' /\ StoreTypeOK'
         /\ Stored(m)'
         /\ \A n \in Msgs : n # m => Stored(n)' = Stored(n)
<1>1. CASE DeliverNew(m)
  <2>1. StoreInv' /\ SeenInv' /\ StoreTypeOK'
    BY <1>1, DeliverNewInv, DeliverNewSeen DEF StoreInv
  <2>2. arrivals' = [arrivals EXCEPT ![m] = Append(@, clock)]
    BY <1>1 DEF DeliverNew
  <2>3. arrivals'[m] # <<>> /\ \A n \in Msgs \ {m} : arrivals'[n] = arrivals[n]
    BY <2>2, ArrivalsAppended DEF SeenInv
  <2> QED BY <2>1, <2>3 DEF Stored
<1>2. CASE IsDuplicate(m) /\ UNCHANGED storeVars
  <2>1. Stored(m)
    BY <1>2 DEF IsDuplicate, Fresh, SeenInv, SeenMeansStored, Stored
  <2> QED BY <1>2, <2>1, StoreSame
<1> QED BY <1>1, <1>2

LEMMA StoreDurableInv ==
  ASSUME DeliveryInv, StoreDurable
  PROVE  DeliveryInv'
<1> USE DEF DeliveryInv, sideVars
<1>0. PICK m \in Msgs : m = receiver.item.msg
  BY DEF DeliveryTypeOK, Item
<1>1. /\ receiver.pc = "store"
      /\ DeliverNew(m) \/ (IsDuplicate(m) /\ UNCHANGED storeVars)
      /\ receiver' = [receiver EXCEPT !.pc = "ack"]
      /\ UNCHANGED <<sideVars, stream, channel, faults>>
  BY <1>0 DEF StoreDurable
<1>2. receiver \in [pc : ReceiverPc, item : Item]
  BY DEF DeliveryTypeOK
<1>3. /\ StoreInv' /\ SeenInv' /\ StoreTypeOK'
      /\ Stored(m)'
      /\ \A n \in Msgs : n # m => Stored(n)' = Stored(n)
  BY <1>1, DurableMeansStored
<1>4. /\ receiver' \in [pc : ReceiverPc, item : Item]
      /\ receiver'.pc = "ack" /\ receiver'.item = receiver.item
  BY <1>1, <1>2 DEF ReceiverPc
<1>5. DeliveryTypeOK'
  BY <1>1, <1>3, <1>4 DEF DeliveryTypeOK
<1>6. Storing'
  <2>1. \A n \in Msgs : Stored(n) => Stored(n)'
    BY <1>3
  <2>2. NoMailLost' /\ OkMeansStored'
    BY <1>1, <2>1 DEF Storing, NoMailLost, OkMeansStored, DeliveryTypeOK
  <2>3. AckMeansStored'
    BY <1>0, <1>1, <1>3, <1>4, <2>1 DEF Storing, AckMeansStored, DeliveryTypeOK
  <2> QED BY <2>2, <2>3 DEF Storing
<1>7. Routing'
  <2>1. ChannelFits' /\ ReceiverFits'
    BY <1>1, <1>4 DEF Routing, ChannelFits, ReceiverFits, Fits
  <2>2. OneItemPerStream'
    BY <1>1, <1>4 DEF Routing, OneItemPerStream
  <2> QED BY <2>1, <2>2 DEF Routing
<1>8. Tracking'
  <2>1. m \in submitted
    BY <1>0, <1>1 DEF Tracking, OnlySubmitted
  <2>2. AttemptFits'
    BY <1>1 DEF Tracking, AttemptFits
  <2>3. OnlySubmitted'
    BY <1>1, <1>3, <1>4, <2>1 DEF Tracking, OnlySubmitted
  <2> QED BY <2>2, <2>3 DEF Tracking
<1> QED BY <1>3, <1>5, <1>6, <1>7, <1>8

(* The receiver lets go of its item; the stream that waits for it, if one  *)
(* does, gets an answer that its mail has earned.                          *)
LEMMA LetGoInv ==
  ASSUME DeliveryInv, receiver.pc # "idle", receiver' = Idle,
         UNCHANGED <<storeVars, sideVars, channel>>, faults' \in 0 .. MaxFaults,
         stream' \in [Streams -> [pc : StreamPc, msg : Msgs]],
         \A s \in Streams : s # receiver.item.to => stream'[s] = stream[s],
         receiver.item.to # NoStream =>
            LET s == receiver.item.to IN
            \/ stream'[s].pc \in {"acked", "said451"} /\ stream'[s].msg = stream[s].msg
            \/ stream'[s].pc = "free" /\ ~ Listening(s),
         \A s \in Streams : stream'[s] # stream[s] /\ stream'[s].pc = "acked" =>
            Stored(receiver.item.msg)
  PROVE  DeliveryInv'
<1> USE DEF DeliveryInv, sideVars
<1>1. StoreInv' /\ SeenInv' /\ StoreTypeOK' /\ \A n : Stored(n)' = Stored(n)
  BY StoreSame
<1>2. Idle.pc = "idle" /\ Idle \in [pc : ReceiverPc, item : Item]
  BY RestTypes DEF Idle
<1>3. DeliveryTypeOK'
  BY <1>1, <1>2 DEF DeliveryTypeOK
<1>4. receiver.item \in Item /\ \A i \in DOMAIN channel : channel[i] \in Item
  BY DEF DeliveryTypeOK
<1>5. receiver.item.to # NoStream =>
        /\ receiver.item.to \in Streams
        /\ stream[receiver.item.to].pc = "waiting"
        /\ stream[receiver.item.to].msg = receiver.item.msg
  BY <1>4 DEF Routing, ReceiverFits, Fits, Item
<1>6. Storing'
  <2>1. OkMeansStored'
    <3> SUFFICES ASSUME NEW s \in Streams, stream'[s].pc \in {"acked", "said250"}
                 PROVE  Stored(stream'[s].msg)
      BY <1>1 DEF OkMeansStored
    <3>1. CASE stream'[s] = stream[s]
      BY <3>1 DEF Storing, OkMeansStored
    <3>2. CASE stream'[s] # stream[s]
      <4>1. s = receiver.item.to
        BY <3>2
      <4>2. s # NoStream
        BY DeliveryAssumption
      <4> QED BY <1>5, <3>2, <4>1, <4>2
    <3> QED BY <3>1, <3>2
  <2> QED BY <1>1, <1>2, <2>1 DEF Storing, NoMailLost, AckMeansStored
<1>7. Routing'
  <2>1. ChannelFits'
    <3> SUFFICES ASSUME NEW i \in DOMAIN channel, channel[i].to # NoStream
                 PROVE  stream'[channel[i].to].pc = "waiting"
                        /\ stream'[channel[i].to].msg = channel[i].msg
      BY DEF ChannelFits, Fits
    <3>1. channel[i].to \in Streams /\ channel[i].to # receiver.item.to
      BY <1>4 DEF Routing, OneItemPerStream, Item
    <3> QED BY <3>1 DEF Routing, ChannelFits, Fits
  <2> QED BY <1>2, <2>1 DEF Routing, ReceiverFits, OneItemPerStream
<1>8. Tracking'
  <2>1. AttemptFits'
    <3> SUFFICES ASSUME attempt.pc = "dialog"
                 PROVE  stream'[attempt.on].pc # "free" /\ stream'[attempt.on].msg = attempt.msg
      BY DEF Tracking, AttemptFits
    <3>1. attempt.on \in Streams /\ attempt.on # NoStream
      BY DeliveryAssumption DEF Tracking, AttemptFits
    <3>2. CASE attempt.on # receiver.item.to
      BY <3>1, <3>2 DEF Tracking, AttemptFits
    <3>3. CASE attempt.on = receiver.item.to
      BY <3>1, <3>3 DEF Tracking, AttemptFits, Listening
    <3> QED BY <3>2, <3>3
  <2>2. OnlySubmitted'
    <3> SUFFICES ASSUME NEW s \in Streams, stream'[s].pc # "free"
                 PROVE  stream'[s].msg \in submitted
      BY <1>1, <1>2 DEF Tracking, OnlySubmitted
    <3>1. CASE s # receiver.item.to
      BY <3>1 DEF Tracking, OnlySubmitted
    <3>2. CASE s = receiver.item.to
      <4>1. s # NoStream
        BY DeliveryAssumption
      <4> QED BY <1>5, <3>2, <4>1 DEF Tracking, OnlySubmitted
    <3> QED BY <3>1, <3>2
  <2> QED BY <2>1, <2>2 DEF Tracking
<1> QED BY <1>1, <1>3, <1>6, <1>7, <1>8

LEMMA StoreFailsInv ==
  ASSUME DeliveryInv, StoreFails
  PROVE  DeliveryInv'
<1>1. /\ receiver.pc = "store" /\ receiver' = Idle
      /\ UNCHANGED <<storeVars, sideVars, channel>>
      /\ IF receiver.item.to = NoStream THEN UNCHANGED stream
         ELSE Answer(receiver.item.to, "said451")
  BY DEF StoreFails
<1>2. faults' \in 0 .. MaxFaults
  BY FaultType DEF DeliveryInv, StoreFails
<1>3. CASE receiver.item.to = NoStream
  <2>1. UNCHANGED stream
    BY <1>1, <1>3
  <2> QED BY <1>1, <1>2, <1>3, <2>1, LetGoInv DEF DeliveryInv, DeliveryTypeOK
<1>4. CASE receiver.item.to # NoStream
  <2>1. receiver.item.to \in Streams /\ Answer(receiver.item.to, "said451")
    BY <1>1, <1>4 DEF DeliveryInv, DeliveryTypeOK, Item
  <2>2. /\ stream' \in [Streams -> [pc : StreamPc, msg : Msgs]]
        /\ \A t \in Streams : t # receiver.item.to => stream'[t] = stream[t]
        /\ Listening(receiver.item.to) =>
             /\ stream'[receiver.item.to].pc = "said451"
             /\ stream'[receiver.item.to].msg = stream[receiver.item.to].msg
        /\ ~ Listening(receiver.item.to) => stream'[receiver.item.to].pc = "free"
    BY <2>1, AnswerFacts DEF StreamPc, DeliveryInv
  <2>3. ASSUME NEW s \in Streams, stream'[s] # stream[s] PROVE stream'[s].pc # "acked"
    BY <2>2, <2>3
  <2> QED BY <1>1, <1>2, <2>2, <2>3, LetGoInv
<1> QED BY <1>3, <1>4

LEMMA AcknowledgeInv ==
  ASSUME DeliveryInv, Acknowledge
  PROVE  DeliveryInv'
<1>1. /\ receiver.pc = "ack" /\ receiver' = Idle
      /\ UNCHANGED <<storeVars, sideVars, channel, faults>>
      /\ IF receiver.item.to = NoStream THEN UNCHANGED stream
         ELSE stream' = [stream EXCEPT ![receiver.item.to].pc = "acked"]
  BY DEF Acknowledge
<1>2. faults' \in 0 .. MaxFaults /\ Stored(receiver.item.msg)
  BY <1>1 DEF DeliveryInv, DeliveryTypeOK, Storing, AckMeansStored
<1>3. CASE receiver.item.to = NoStream
  <2>1. UNCHANGED stream
    BY <1>1, <1>3
  <2> QED BY <1>1, <1>2, <1>3, <2>1, LetGoInv DEF DeliveryInv, DeliveryTypeOK
<1>4. CASE receiver.item.to # NoStream
  <2>1. receiver.item.to \in Streams
    BY <1>4 DEF DeliveryInv, DeliveryTypeOK, Item
  <2>2. /\ stream' \in [Streams -> [pc : StreamPc, msg : Msgs]]
        /\ \A t \in Streams : t # receiver.item.to => stream'[t] = stream[t]
        /\ stream'[receiver.item.to].pc = "acked"
        /\ stream'[receiver.item.to].msg = stream[receiver.item.to].msg
    BY <1>1, <1>4, <2>1 DEF DeliveryInv, DeliveryTypeOK, StreamPc
  <2> QED BY <1>1, <1>2, <2>2, LetGoInv
<1> QED BY <1>3, <1>4


LEMMA ReceiverCrashInv ==
  ASSUME DeliveryInv, ReceiverCrash
  PROVE  DeliveryInv'
<1> USE DEF DeliveryInv, sideVars
<1>1. /\ Reopen /\ channel' = <<>> /\ receiver' = Idle
      /\ stream' = [s \in Streams |->
                      IF ~ Listening(s) THEN Free
                      ELSE IF stream[s].pc \in {"said250", "said451"} THEN stream[s]
                      ELSE [stream[s] EXCEPT !.pc = "reset"]]
      /\ UNCHANGED <<sideVars, inboxSeen, clock, arrivals>>
  BY DEF ReceiverCrash, Reopen, OpenOn
<1>2. StoreInv' /\ SeenInv' /\ StoreTypeOK' /\ \A n : Stored(n)' = Stored(n)
  BY <1>1, ReopenInv, OthersSeen DEF StoreInv, Stored
<1>3. faults' \in 0 .. MaxFaults
  BY FaultType DEF ReceiverCrash
<1>4. /\ Idle.pc = "idle" /\ Idle \in [pc : ReceiverPc, item : Item]
      /\ Free.pc = "free" /\ Free \in [pc : StreamPc, msg : Msgs]
  BY RestTypes DEF Idle, Free
<1>5. /\ stream' \in [Streams -> [pc : StreamPc, msg : Msgs]]
      /\ \A s \in Streams : ~ Listening(s) => stream'[s].pc = "free"
      /\ \A s \in Streams : Listening(s) =>
            /\ stream'[s] = stream[s] \/ stream'[s].pc = "reset"
            /\ stream'[s].msg = stream[s].msg
  BY <1>1, <1>4 DEF DeliveryTypeOK, StreamPc
<1>6. channel' = <<>> /\ DOMAIN channel' = {} /\ channel' \in Seq(Item)
  BY <1>1
<1>7. DeliveryTypeOK'
  BY <1>1, <1>2, <1>3, <1>4, <1>5, <1>6 DEF DeliveryTypeOK
<1>8. Storing'
  BY <1>1, <1>2, <1>4, <1>5 DEF Storing, NoMailLost, OkMeansStored, AckMeansStored
<1>9. Routing'
  BY <1>1, <1>4, <1>6 DEF Routing, ChannelFits, ReceiverFits, OneItemPerStream
<1>10. Tracking'
  <2>1. AttemptFits'
    BY <1>1, <1>5 DEF Tracking, AttemptFits, Listening
  <2>2. \A s \in Streams : stream'[s].pc # "free" => stream'[s].msg \in submitted
    <3> SUFFICES ASSUME NEW s \in Streams, stream'[s].pc # "free"
                 PROVE  stream'[s].msg \in submitted
      OBVIOUS
    <3>1. Listening(s) /\ stream'[s].msg = stream[s].msg
      BY <1>5
    <3>2. stream[s].pc # "free"
      BY <3>1 DEF Tracking, AttemptFits, Listening
    <3> QED BY <3>1, <3>2 DEF Tracking, OnlySubmitted
  <2>3. OnlySubmitted'
    BY <1>1, <1>2, <1>4, <1>6, <2>2 DEF Tracking, OnlySubmitted
  <2> QED BY <2>1, <2>3 DEF Tracking
<1> QED BY <1>2, <1>7, <1>8, <1>9, <1>10

(* Neither time passing nor a stutter touches the transfer.                *)
LEMMA TransferSame ==
  ASSUME DeliveryInv, UNCHANGED <<sideVars, peerVars, faults, arrivals>>,
         StoreInv', SeenInv'
  PROVE  DeliveryInv'
<1> USE DEF DeliveryInv, sideVars, peerVars
<1>1. StoreTypeOK' /\ \A n : Stored(n)' = Stored(n)
  BY DEF StoreInv, Stored
<1>2. DeliveryTypeOK'
  BY <1>1 DEF DeliveryTypeOK
<1>3. Storing'
  BY <1>1 DEF Storing, NoMailLost, OkMeansStored, AckMeansStored
<1>4. Routing'
  BY RoutingKept
<1>5. Tracking'
  BY <1>1 DEF Tracking, AttemptFits, OnlySubmitted
<1> QED BY <1>2, <1>3, <1>4, <1>5

LEMMA TimePassesInv ==
  ASSUME DeliveryInv, TimePasses
  PROVE  DeliveryInv'
BY TickInv, TickSeen, TransferSame DEF TimePasses, Tick, DeliveryInv

LEMMA TransferStutterInv ==
  ASSUME DeliveryInv, UNCHANGED vars
  PROVE  DeliveryInv'
<1>1. StoreInv' /\ SeenInv'
  BY StoreSame DEF DeliveryInv, vars
<1> QED BY <1>1, TransferSame DEF vars, storeVars

-----------------------------------------------------------------------------
(* The transfer keeps its invariant.                                       *)

LEMMA DeliveryInitInv == Init => DeliveryInv
<1> SUFFICES ASSUME Init PROVE DeliveryInv
  OBVIOUS
<1>1. StoreInv /\ SeenInv /\ StoreTypeOK /\ \A m \in Msgs : ~ Stored(m)
  BY StoreInitInv, SeenInitInv DEF Init, StoreInv, StoreInit, Stored
<1>2. DeliveryTypeOK
  BY <1>1, RestTypes, DeliveryAssumption DEF Init, DeliveryTypeOK
<1>3. Free.pc = "free" /\ Idle.pc = "idle" /\ NoAttempt.pc = "idle"
  BY DEF Free, Idle, NoAttempt
<1>4. Storing
  BY <1>3 DEF Init, Storing, NoMailLost, OkMeansStored, AckMeansStored
<1>5. Routing
  BY <1>3 DEF Init, Routing, ChannelFits, ReceiverFits, OneItemPerStream
<1>6. Tracking
  BY <1>1, <1>3 DEF Init, Tracking, AttemptFits, OnlySubmitted
<1> QED BY <1>1, <1>2, <1>4, <1>5, <1>6 DEF DeliveryInv

LEMMA DeliveryStepInv == DeliveryInv /\ [Next]_vars => DeliveryInv'
<1> SUFFICES ASSUME DeliveryInv, Next \/ UNCHANGED vars
             PROVE  DeliveryInv'
  OBVIOUS
<1>1. CASE \E m \in Msgs : Submit(m)
  BY <1>1, SubmitInv
<1>2. CASE Sending
  BY <1>2, StartSendInv, HearsOkInv, HearsErrorInv, DequeueInv DEF Sending
<1>3. CASE Serving
  BY <1>3, BodyReadInv, OfferInv, Reply250Inv DEF Serving
<1>4. CASE Receiving
  BY <1>4, ReceiveInv, StoreDurableInv, AcknowledgeInv DEF Receiving
<1>5. CASE Failing
  BY <1>5, GiveUpInv, StoreFailsInv, ReceiverCrashInv, ServeFailsInv, DurabilityTimeoutInv
     DEF Failing
<1>6. CASE TimePasses
  BY <1>6, TimePassesInv
<1>7. CASE UNCHANGED vars
  BY <1>7, TransferStutterInv
<1> QED BY <1>1, <1>2, <1>3, <1>4, <1>5, <1>6, <1>7 DEF Next

THEOREM DeliveryInvariant == Spec => []DeliveryInv
BY DeliveryInitInv, DeliveryStepInv, PTL DEF Spec

(* Every variable of the transfer keeps its type.                          *)
THEOREM DeliveryTypeCorrect == Spec => []DeliveryTypeOK
<1>1. DeliveryInv => DeliveryTypeOK
  BY DEF DeliveryInv
<1> QED BY <1>1, DeliveryInvariant, PTL

(* No mail is lost: what the sender took from its queue the peer has       *)
(* stored, whichever process died or gave up at whatever step.             *)
THEOREM NoMailIsLost == Spec => []NoMailLost
<1>1. DeliveryInv => NoMailLost
  BY DEF DeliveryInv, Storing
<1> QED BY <1>1, DeliveryInvariant, PTL

(* The 250 of serve_one_stream is given only for a mail in the database.   *)
THEOREM OkIsStored == Spec => []OkMeansStored
<1>1. DeliveryInv => OkMeansStored
  BY DEF DeliveryInv, Storing
<1> QED BY <1>1, DeliveryInvariant, PTL

(* An acknowledgement reaches only the stream of the mail it is about.     *)
THEOREM AckIsForItsStream == Spec => []AckFitsStream
<1>1. DeliveryInv => AckFitsStream
  BY AckFits DEF DeliveryInv, Routing
<1> QED BY <1>1, DeliveryInvariant, PTL


(* Copies of one mail are stored more than the dedup window apart also     *)
(* when they come by the network: retries, lost answers, restarts.         *)
THEOREM NoRepeatsDelivered == Spec => []NoRepeatInWindow
<1>1. DeliveryInv => NoRepeatInWindow
  BY DEF DeliveryInv, SeenInv
<1> QED BY <1>1, DeliveryInvariant, PTL

-----------------------------------------------------------------------------
(* The transfer implements MailDelivery.                                   *)

Copies == [m \in Msgs |-> Len(arrivals[m])]

LEMMA StoredIsCounted ==
  ASSUME DeliveryInv, NEW m \in Msgs
  PROVE  /\ Copies[m] \in Nat
         /\ Stored(m) <=> Copies[m] > 0
<1>1. arrivals[m] \in Seq(Nat)
  BY DEF DeliveryInv, SeenInv, SeenTypeOK
<1> QED BY <1>1 DEF Copies, Stored

(* A step that touches neither the queue nor the arrivals is a stutter.    *)
LEMMA AbstractStutter ==
  ASSUME UNCHANGED <<queued, arrivals>>
  PROVE  UNCHANGED Abstract!vars
BY DEF Abstract!vars

LEMMA SubmitRefines ==
  ASSUME DeliveryInv, NEW m \in Msgs, Submit(m)
  PROVE  Abstract!Submit(m)
<1>1. m \notin queued /\ ~ Stored(m)
  BY DEF Submit, DeliveryInv, Tracking, OnlySubmitted
<1>2. Copies[m] = 0
  BY <1>1, StoredIsCounted
<1> QED BY <1>1, <1>2 DEF Submit, Abstract!Submit, Copies, storeVars

LEMMA DequeueRefines ==
  ASSUME DeliveryInv, Dequeue
  PROVE  \E m \in Msgs : Abstract!Settle(m)
<1>1. attempt.msg \in Msgs
  BY DEF DeliveryInv, DeliveryTypeOK
<1>2. attempt.msg \in queued /\ Stored(attempt.msg)
  BY DEF Dequeue, DeliveryInv, Tracking, AttemptFits, Storing, AckMeansStored
<1>3. Copies[attempt.msg] > 0
  BY <1>1, <1>2, StoredIsCounted
<1>4. PICK m \in Msgs : m = attempt.msg
  BY <1>1
<1>5. Abstract!Settle(m)
  BY <1>2, <1>3, <1>4 DEF Dequeue, Abstract!Settle, Copies, storeVars
<1> QED BY <1>5

LEMMA StoreRefines ==
  ASSUME DeliveryInv, StoreDurable
  PROVE  UNCHANGED Abstract!vars \/ \E m \in Msgs : Abstract!Store(m)
<1>1. PICK m \in Msgs : m = receiver.item.msg
  BY DEF DeliveryInv, DeliveryTypeOK, Item
<1>2. CASE DeliverNew(m)
  <2>1. arrivals' = [arrivals EXCEPT ![m] = Append(@, clock)] /\ UNCHANGED queued
    BY <1>2 DEF DeliverNew, StoreDurable, sideVars
  <2>2. /\ Len(arrivals'[m]) = Len(arrivals[m]) + 1
        /\ \A n \in Msgs \ {m} : arrivals'[n] = arrivals[n]
    BY <2>1, ArrivalsAppended DEF DeliveryInv, SeenInv
  <2>3. Copies' = [Copies EXCEPT ![m] = @ + 1]
    BY <2>2 DEF Copies
  <2>4. m \in queued \/ Copies[m] > 0
    <3>1. m \in submitted
      BY <1>1 DEF StoreDurable, DeliveryInv, Tracking, OnlySubmitted
    <3>2. m \in queued \/ Stored(m)
      BY <3>1 DEF DeliveryInv, Storing, NoMailLost
    <3> QED BY <3>2, StoredIsCounted
  <2>5. Abstract!Store(m)
    BY <2>1, <2>3, <2>4 DEF Abstract!Store, Copies
  <2> QED BY <2>5
<1>3. CASE UNCHANGED storeVars
  BY <1>3, AbstractStutter DEF StoreDurable, sideVars, storeVars
<1> QED BY <1>1, <1>2, <1>3 DEF StoreDurable

LEMMA StepRefines == DeliveryInv /\ [Next]_vars => [Abstract!Next]_(Abstract!vars)
<1> SUFFICES ASSUME DeliveryInv, Next \/ UNCHANGED vars
             PROVE  Abstract!Next \/ UNCHANGED Abstract!vars
  OBVIOUS
<1>1. CASE \E m \in Msgs : Submit(m)
  BY <1>1, SubmitRefines DEF Abstract!Next
<1>2. CASE Dequeue
  BY <1>2, DequeueRefines DEF Abstract!Next
<1>3. CASE StoreDurable
  BY <1>3, StoreRefines DEF Abstract!Next
<1>4. CASE UNCHANGED <<queued, arrivals>>
  BY <1>4, AbstractStutter
<1>5. \/ \E m \in Msgs : Submit(m)
      \/ Dequeue
      \/ StoreDurable
      \/ UNCHANGED <<queued, arrivals>>
  <2>1. CASE Sending
    BY <2>1 DEF Sending, StartSend, HearsOk, HearsError, storeVars
  <2>2. CASE Serving
    BY <2>2 DEF Serving, BodyRead, Offer, Reply250, storeVars, sideVars
  <2>3. CASE Receiving
    BY <2>3 DEF Receiving, Receive, Acknowledge, storeVars, sideVars
  <2>4. CASE Failing
    BY <2>4 DEF Failing, GiveUp, SenderCrash, StoreFails, ReceiverCrash, Reopen, OpenOn,
                ServeFails, DurabilityTimeout, storeVars, sideVars
  <2>5. CASE TimePasses \/ UNCHANGED vars
    BY <2>5 DEF TimePasses, Tick, vars, storeVars, sideVars
  <2> QED BY <2>1, <2>2, <2>3, <2>4, <2>5 DEF Next
<1> QED BY <1>1, <1>2, <1>3, <1>4, <1>5

(* The dialog, with its time-outs, late acknowledgements and crashes on    *)
(* both sides, does only what MailDelivery allows.                         *)
THEOREM TransferImplements == Spec => ImplementsMailDelivery
<1>1. Init => Abstract!Init
  <2> SUFFICES ASSUME Init PROVE Abstract!Init
    OBVIOUS
  <2>1. \A m \in Msgs : Len(arrivals[m]) = 0
    BY DEF Init, StoreInit
  <2> QED BY <2>1 DEF Init, Abstract!Init
<1> QED BY <1>1, StepRefines, DeliveryInvariant, PTL
        DEF Spec, ImplementsMailDelivery, Abstract!Spec

=============================================================================
