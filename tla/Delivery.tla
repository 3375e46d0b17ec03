------------------------------ MODULE Delivery ------------------------------
(***************************************************************************)
(* One mail's way from the queue of one node into the inbox of another:    *)
(* the sender's attempt (peer/sender.rs, QuicMailTransport::send), the     *)
(* stream that serves it at the peer (serve_one_stream), the bounded       *)
(* channel between the streams and the receiver task, and the receiver     *)
(* (peer/receiver.rs), which stores the mail and only then lets the stream *)
(* answer 250.  Either process may die at any step, a dialog may be given  *)
(* up by either side, and a stream that stopped waiting leaves its mail    *)
(* behind in the channel.                                                  *)
(*                                                                         *)
(* The tables of MailStore are those of the receiving node.  The sending   *)
(* node is reduced to its queue rows for this peer; Outbound has the rest. *)
(***************************************************************************)
EXTENDS MailStore

CONSTANTS
  Streams,      \* bound: streams open at one time
  NoStream,
  Depth,        \* RECV_QUEUE_DEPTH
  MaxFaults     \* bound: crashes, time-outs and errors

ASSUME DeliveryAssumption ==
  /\ Msgs # {}
  /\ NoStream \notin Streams
  /\ Depth \in Nat \ {0}
  /\ MaxFaults \in Nat

VARIABLES
  submitted,    \* mails ever put into the sender's queue
  queued,       \* rows of the sender's queue
  attempt,      \* the send in progress
  stream,       \* per stream: the mail it carries and how far it is
  channel,      \* recv_tx .. recv_rx: mails with the stream to acknowledge to
  receiver,     \* the receiver task
  faults

sideVars == <<submitted, queued, attempt>>
peerVars == <<stream, channel, receiver>>
vars     == <<storeVars, sideVars, peerVars, faults>>

AttemptPc  == {"idle", "dialog", "confirmed"}
StreamPc   == {"free", "serving", "offering", "waiting", "acked", "said250", "said451", "reset"}
ReceiverPc == {"idle", "store", "ack"}
Item       == [msg : Msgs, to : Streams \cup {NoStream}]

DeliveryTypeOK ==
  /\ StoreTypeOK
  /\ submitted \subseteq Msgs
  /\ queued \subseteq Msgs
  /\ attempt \in [pc : AttemptPc, msg : Msgs, on : Streams \cup {NoStream}]
  /\ stream \in [Streams -> [pc : StreamPc, msg : Msgs]]
  /\ channel \in Seq(Item)
  /\ receiver \in [pc : ReceiverPc, item : Item]
  /\ faults \in 0 .. MaxFaults

AnyMsg == CHOOSE m \in Msgs : TRUE

NoAttempt == [pc |-> "idle", msg |-> AnyMsg, on |-> NoStream]
Free      == [pc |-> "free", msg |-> AnyMsg]
Idle      == [pc |-> "idle", item |-> [msg |-> AnyMsg, to |-> NoStream]]

Init ==
  /\ StoreInit
  /\ submitted = {} /\ queued = {}
  /\ attempt = NoAttempt
  /\ stream = [s \in Streams |-> Free]
  /\ channel = <<>>
  /\ receiver = Idle
  /\ faults = 0

Fault == faults < MaxFaults /\ faults' = faults + 1

-----------------------------------------------------------------------------
(* The sending node.                                                       *)

(* accept_mail has queued a mail for this peer (module Outbound).          *)
Submit(m) ==
  /\ m \notin submitted
  /\ submitted' = submitted \cup {m}
  /\ queued' = queued \cup {m}
  /\ UNCHANGED <<storeVars, attempt, peerVars, faults>>

(* send: a connection, a stream, the kick byte; one send at a time         *)
StartSend(m, s) ==
  /\ attempt.pc = "idle"
  /\ m \in queued
  /\ stream[s].pc = "free"
  /\ attempt' = [pc |-> "dialog", msg |-> m, on |-> s]
  /\ stream' = [stream EXCEPT ![s] = [pc |-> "serving", msg |-> m]]
  /\ UNCHANGED <<storeVars, submitted, queued, channel, receiver, faults>>

Listening(s) == attempt.pc = "dialog" /\ attempt.on = s

(* A stream nobody waits on disappears with its answer.                    *)
Answer(s, code) ==
  stream' = [stream EXCEPT ![s] =
               IF Listening(s) THEN [@ EXCEPT !.pc = code] ELSE Free]

(* The dialog ends with the reply to DATA.                                 *)
HearsOk ==
  /\ attempt.pc = "dialog"
  /\ stream[attempt.on].pc = "said250"
  /\ attempt' = [attempt EXCEPT !.pc = "confirmed", !.on = NoStream]
  /\ stream' = [stream EXCEPT ![attempt.on] = Free]
  /\ UNCHANGED <<storeVars, submitted, queued, channel, receiver, faults>>

HearsErrorForGood ==
  /\ attempt.pc = "dialog"
  /\ stream[attempt.on].pc \in {"said451", "reset"}
  /\ attempt' = NoAttempt
  /\ queued' = queued \ {attempt.msg}
  /\ stream' = [stream EXCEPT ![attempt.on] = Free]
  /\ UNCHANGED <<storeVars, submitted, channel, receiver, faults>>

HearsError ==
  /\ attempt.pc = "dialog"
  /\ stream[attempt.on].pc \in {"said451", "reset"}
  /\ attempt' = NoAttempt
  /\ stream' = [stream EXCEPT ![attempt.on] = Free]
  /\ UNCHANGED <<storeVars, submitted, queued, channel, receiver, faults>>

(* What becomes of the stream that the sender no longer listens to: its    *)
(* answer goes nowhere, all else takes its course.                         *)
Abandoned ==
  IF attempt.pc = "dialog" /\ stream[attempt.on].pc \in {"said250", "said451", "reset"}
  THEN [stream EXCEPT ![attempt.on] = Free]
  ELSE stream

(* The dialog budget runs out or the connection breaks, on either side of  *)
(* the peer's answer.                                                      *)
GiveUpConfirms ==
  /\ attempt.pc = "dialog"
  /\ attempt' = [attempt EXCEPT !.pc = "confirmed", !.on = NoStream]
  /\ stream' = Abandoned
  /\ Fault
  /\ UNCHANGED <<storeVars, submitted, queued, channel, receiver>>

GiveUp ==
  /\ attempt.pc = "dialog"
  /\ attempt' = NoAttempt
  /\ stream' = Abandoned
  /\ Fault
  /\ UNCHANGED <<storeVars, submitted, queued, channel, receiver>>

(* queue_delete on the Ok arm only                                         *)
Dequeue ==
  /\ attempt.pc = "confirmed"
  /\ queued' = queued \ {attempt.msg}
  /\ attempt' = NoAttempt
  /\ UNCHANGED <<storeVars, submitted, peerVars, faults>>

(* The sending process dies or its sender is stopped.                      *)
SenderCrash ==
  /\ attempt' = NoAttempt
  /\ stream' = Abandoned
  /\ Fault
  /\ UNCHANGED <<storeVars, submitted, queued, channel, receiver>>

-----------------------------------------------------------------------------
(* The receiving node: one task per stream.                                *)

(* overlay_serve_stream has read the body.                                 *)
BodyRead(s) ==
  /\ stream[s].pc = "serving"
  /\ stream' = [stream EXCEPT ![s].pc = "offering"]
  /\ UNCHANGED <<storeVars, sideVars, channel, receiver, faults>>

(* The dialog fails before the end of DATA: the stream is reset.           *)
ServeFails(s) ==
  /\ stream[s].pc = "serving"
  /\ Answer(s, "reset")
  /\ IF Listening(s) THEN Fault ELSE UNCHANGED faults
  /\ UNCHANGED <<storeVars, sideVars, channel, receiver>>

(* tx.send((from, mail, Some(ack_tx))): waits for room in the channel      *)
OfferConfirms(s) ==
  /\ stream[s].pc = "offering"
  /\ Len(channel) < Depth
  /\ channel' = Append(channel, [msg |-> stream[s].msg, to |-> NoStream])
  /\ stream' = [stream EXCEPT ![s].pc = "acked"]
  /\ UNCHANGED <<storeVars, sideVars, receiver, faults>>

Offer(s) ==
  /\ stream[s].pc = "offering"
  /\ Len(channel) < Depth
  /\ channel' = Append(channel, [msg |-> stream[s].msg, to |-> s])
  /\ stream' = [stream EXCEPT ![s].pc = "waiting"]
  /\ UNCHANGED <<storeVars, sideVars, receiver, faults>>

DetachNothing(i, s) == i
Detach(i, s) == IF i.to = s THEN [i EXCEPT !.to = NoStream] ELSE i

(* The durability budget runs out: 451.  A mail still to be offered is     *)
(* dropped; one in the channel stays there, with nobody to acknowledge to. *)
DurabilityTimeout(s) ==
  /\ stream[s].pc \in {"offering", "waiting"}
  /\ Answer(s, "said451")
  /\ channel' = [i \in DOMAIN channel |-> Detach(channel[i], s)]
  /\ receiver' = [receiver EXCEPT !.item = Detach(@, s)]
  /\ Fault
  /\ UNCHANGED <<storeVars, sideVars>>

(* write_data_reply once ack_rx has the acknowledgement                    *)
Reply250(s) ==
  /\ stream[s].pc = "acked"
  /\ Answer(s, "said250")
  /\ UNCHANGED <<storeVars, sideVars, channel, receiver, faults>>

-----------------------------------------------------------------------------
(* The receiving node: the receiver task.                                  *)

Receive ==
  /\ receiver.pc = "idle"
  /\ channel # <<>>
  /\ receiver' = [pc |-> "store", item |-> Head(channel)]
  /\ channel' = Tail(channel)
  /\ UNCHANGED <<storeVars, sideVars, stream, faults>>

(* store: New and Duplicate are durable, and acknowledged.                 *)
StoreDurableOnce ==
  /\ receiver.pc = "store"
  /\ \/ /\ DeliverNew(receiver.item.msg)
        /\ receiver' = [receiver EXCEPT !.pc = "ack"]
        /\ UNCHANGED stream
     \/ /\ IsDuplicate(receiver.item.msg)
        /\ receiver' = Idle
        /\ IF receiver.item.to = NoStream THEN UNCHANGED stream
           ELSE Answer(receiver.item.to, "said451")
        /\ UNCHANGED storeVars
  /\ UNCHANGED <<sideVars, channel, faults>>

StoreDurable ==
  /\ receiver.pc = "store"
  /\ \/ DeliverNew(receiver.item.msg)
     \/ IsDuplicate(receiver.item.msg) /\ UNCHANGED storeVars
  /\ receiver' = [receiver EXCEPT !.pc = "ack"]
  /\ UNCHANGED <<sideVars, stream, channel, faults>>

(* Failed: ack_tx is dropped, and a stream that still waits answers 451.   *)
StoreFails ==
  /\ receiver.pc = "store"
  /\ receiver' = Idle
  /\ IF receiver.item.to = NoStream THEN UNCHANGED stream
     ELSE Answer(receiver.item.to, "said451")
  /\ Fault
  /\ UNCHANGED <<storeVars, sideVars, channel>>

Acknowledge ==
  /\ receiver.pc = "ack"
  /\ receiver' = Idle
  /\ IF receiver.item.to = NoStream THEN UNCHANGED stream
     ELSE stream' = [stream EXCEPT ![receiver.item.to].pc = "acked"]
  /\ UNCHANGED <<storeVars, sideVars, channel, faults>>

(* The receiving process dies; only its database, and answers already on   *)
(* their way, survive.                                                     *)
ReceiverCrash ==
  /\ Reopen
  /\ channel' = <<>>
  /\ receiver' = Idle
  /\ stream' = [s \in Streams |->
                  IF ~ Listening(s) THEN Free
                  ELSE IF stream[s].pc \in {"said250", "said451"} THEN stream[s]
                  ELSE [stream[s] EXCEPT !.pc = "reset"]]
  /\ Fault
  /\ UNCHANGED sideVars

TimePasses == Tick /\ UNCHANGED <<sideVars, peerVars, faults>>

-----------------------------------------------------------------------------
Sending   == \/ \E m \in Msgs, s \in Streams : StartSend(m, s)
             \/ HearsOk \/ HearsError \/ Dequeue
Serving   == \E s \in Streams : BodyRead(s) \/ Offer(s) \/ Reply250(s)
Receiving == Receive \/ StoreDurable \/ Acknowledge

Failing ==
  \/ GiveUp \/ SenderCrash \/ StoreFails \/ ReceiverCrash
  \/ \E s \in Streams : ServeFails(s) \/ DurabilityTimeout(s)

Next ==
  \/ \E m \in Msgs : Submit(m)
  \/ Sending \/ Serving \/ Receiving \/ Failing \/ TimePasses

Spec == Init /\ [][Next]_vars

(* Tasks are scheduled: the sender's, each stream's, the receiver's.       *)
Fairness ==
  /\ WF_vars(Sending)
  /\ \A s \in Streams : WF_vars(BodyRead(s)) /\ WF_vars(Offer(s)) /\ WF_vars(Reply250(s))
  /\ WF_vars(Receiving)

FairSpec == Spec /\ Fairness

-----------------------------------------------------------------------------
Stored(m) == arrivals[m] # <<>>

(* A mail handed to the sender is in its queue or in the peer's inbox: it  *)
(* is dequeued only after the peer has stored it, whichever side dies or   *)
(* gives up in between (transport.rs:250, receiver.rs:55).                 *)
NoMailLost == \A m \in submitted : m \in queued \/ Stored(m)

(* A stream says 250 only for a mail that is in the database.              *)
OkMeansStored ==
  \A s \in Streams : stream[s].pc \in {"acked", "said250"} => Stored(stream[s].msg)

(* The acknowledgement a receiver is about to give, or a channel item      *)
(* carries, belongs to the mail of the stream that waits for it: a late    *)
(* answer never confirms another mail.                                     *)
AckFitsStream ==
  LET items == {channel[i] : i \in DOMAIN channel}
               \cup (IF receiver.pc = "idle" THEN {} ELSE {receiver.item})
  IN \A i \in items : i.to # NoStream =>
        stream[i.to].pc = "waiting" /\ stream[i.to].msg = i.msg

Abstract == INSTANCE MailDelivery WITH
  pending <- queued, copies <- [m \in Msgs |-> Len(arrivals[m])]

(* The dialog with its time-outs and crashes does what MailDelivery says.  *)
ImplementsMailDelivery == Abstract!Spec

(* When failures stop, every mail is stored by the peer and dequeued.      *)
EveryMailSettles == Abstract!EventuallySettled
=============================================================================
