------------------------------ MODULE Outbound ------------------------------
(***************************************************************************)
(* From a mail client's DATA to the recipient: the SMTP sessions that put  *)
(* a mail in Outbox and enqueue it for each recipient (smtp/mod.rs,        *)
(* accept_mail), and the one sender task that drains the queue             *)
(* (peer/sender.rs).  They share nothing but the database, and every call  *)
(* of it is a step of its own, so the two interleave between any two       *)
(* calls.  The network is a link that comes and goes and a send that       *)
(* succeeds, fails, or fails after the peer has stored the mail.           *)
(*                                                                         *)
(* A message is submitted once; the step of a session is tx[m].  Keys are  *)
(* numbers because the sender visits destinations in key order (the        *)
(* primary key of `queue' is the index that SELECT DISTINCT walks).        *)
(***************************************************************************)
EXTENDS MailStore

CONSTANTS
  Self,         \* the node's own key
  Preloaded,    \* messages queued when the process starts
  PreDests,     \* the keys they are queued for
  MaxRcpts,     \* bound: recipients of one submission
  MaxFaults,    \* bound: crashes and storage errors
  MaxCancels    \* bound: the user stops cancelling with so many pairs in cancelled

ASSUME OutboundAssumption ==
  /\ Msgs # {}
  /\ Dests \subseteq Nat /\ Self \in Dests
  /\ IsFiniteSet(Dests)
  /\ Preloaded \subseteq Msgs /\ IsFiniteSet(Preloaded)
  /\ PreDests \subseteq Dests
  /\ MaxRcpts \in Nat /\ MaxFaults \in Nat /\ MaxCancels \in Nat

VARIABLES
  tx,           \* per message: the SMTP transaction that carries it
  told,         \* per message: the reply its client got, or "none"
  rcpts,        \* per message: its recipients
  snd,          \* the sender task
  up,           \* some peer link is up
  delivered,    \* history: <<message, key>> stored by the recipient
  cancelled,    \* history: <<message, key>> the user took back: the queue
                \* cleared, or the mail marked \Deleted in Outbox
  overtaken,    \* history: messages the sender counted out while their session
                \* still had recipients to queue
  faults        \* crashes and storage errors so far

smtpVars == <<tx, told, rcpts>>
envVars  == <<up, delivered, cancelled, overtaken, faults>>
vars     == <<storeVars, smtpVars, snd, envVars>>

None == 0       \* no mail id: UIDs start at 1

(* tx[m].pc is "new", "enqueue", "rollback", "expunge", "done" or "lost",  *)
(* and tx[m].todo the recipients that got no row of the queue, for good    *)
(* once the session is over;                                               *)
(* snd.pc is "sleep", "dest", "mail", "drop", "local", "gate", "send",     *)
(* "dequeue", "count" or "move".                                           *)

(* A session that carries no mail; a sender between two destinations.      *)
At(pc) == [pc |-> pc, id |-> None, todo |-> {}]
Between(pc, dests) == [pc |-> pc, dests |-> dests, dest |-> Self, pending |-> {},
                       id |-> None, msg |-> CHOOSE m \in Msgs : TRUE]

(* What the previous process left: the preloaded mails in Outbox, one row  *)
(* of the queue for each of their recipients, each submission long over.   *)
PreloadedAs(f) ==
  /\ mails = {[mailbox |-> "Outbox", id |-> f[m], msg |-> m, deleted |-> FALSE] : m \in Preloaded}
  /\ queue = {[dest |-> d, mailbox |-> "Outbox", id |-> f[m]] : d \in PreDests, m \in Preloaded}
  /\ uidNext = [b \in Protected |-> IF b = "Outbox" THEN Cardinality(Preloaded) + 1 ELSE 1]

Init ==
  /\ \E f \in [Preloaded -> 1 .. Cardinality(Preloaded)] :
        (\A m, n \in Preloaded : f[m] = f[n] => m = n) /\ PreloadedAs(f)
  /\ inboxSeen = {} /\ clock = 0 /\ arrivals = [m \in Msgs |-> <<>>]
  /\ tx = [m \in Msgs |-> At(IF m \in Preloaded THEN "done" ELSE "new")]
  /\ told = [m \in Msgs |-> IF m \in Preloaded THEN "250" ELSE "none"]
  /\ rcpts = [m \in Msgs |-> IF m \in Preloaded THEN PreDests ELSE {}]
  /\ snd = Between("sleep", {})
  /\ up = FALSE
  /\ delivered = {} /\ cancelled = {} /\ overtaken = {} /\ faults = 0

Fault ==
  /\ faults < MaxFaults
  /\ faults' = faults + 1
  /\ UNCHANGED <<up, delivered, cancelled, overtaken>>

-----------------------------------------------------------------------------
(* The SMTP session: Session::accept_mail.                                 *)

Goto(m, pc) == tx' = [tx EXCEPT ![m].pc = pc]

(* The session is over with this mail.                                     *)
Over(m) == tx' = [tx EXCEPT ![m].pc = "done", ![m].id = None]

Reply(m, code) ==
  /\ told' = [told EXCEPT ![m] = code]
  /\ Over(m)

(* mail_insert("Outbox"), the recipients parsed and deduplicated before it *)
Submit(m) ==
  /\ tx[m].pc = "new"
  /\ MailInsert("Outbox", m)
  /\ ~ InsertCollides("Outbox")
  /\ \E R \in SUBSET Dests :
       /\ Cardinality(R) \in 1 .. MaxRcpts
       /\ rcpts' = [rcpts EXCEPT ![m] = R]
       /\ tx' = [tx EXCEPT ![m] = [pc |-> "enqueue", id |-> NextUid("Outbox"), todo |-> R]]
  /\ UNCHANGED <<told, snd, envVars>>

SubmitFails(m) ==
  /\ tx[m].pc = "new"
  /\ MailInsertFails("Outbox")
  /\ Reply(m, "451")
  /\ Fault
  /\ UNCHANGED <<rcpts, snd>>

(* queue_insert for the next recipient                                     *)
Enqueue(m) ==
  /\ tx[m].pc = "enqueue"
  /\ \E d \in tx[m].todo :
       /\ QueueInsert(d, "Outbox", tx[m].id)
       /\ tx' = [tx EXCEPT ![m].todo = @ \ {d}]
  /\ UNCHANGED <<told, rcpts, snd, envVars>>

(* queue_insert refused: the mail is no longer in Outbox, or an error.     *)
(* The client is answered before the rollback, whose errors are logged.    *)
EnqueueRefused(m) ==
  /\ tx[m].pc = "enqueue"
  /\ tx[m].todo # {}
  /\ \/ /\ \E d \in tx[m].todo : ~ QueueAccepts(d, "Outbox", tx[m].id)
        /\ UNCHANGED envVars
     \/ Fault
  /\ told' = [told EXCEPT ![m] = "451"]
  /\ UNCHANGED <<storeVars, rcpts, snd>>

EnqueueFailsForGood(m) ==
  EnqueueRefused(m) /\ Over(m)

EnqueueFails(m) ==
  EnqueueRefused(m) /\ Goto(m, "rollback")

RollbackDelete(m) ==
  /\ tx[m].pc = "rollback"
  /\ \/ MailDelete("Outbox", tx[m].id) /\ UNCHANGED envVars
     \/ UNCHANGED storeVars /\ Fault
  /\ Goto(m, "expunge")
  /\ UNCHANGED <<told, rcpts, snd>>

RollbackExpunge(m) ==
  /\ tx[m].pc = "expunge"
  /\ \/ MailExpunge("Outbox") /\ UNCHANGED envVars
     \/ UNCHANGED storeVars /\ Fault
  /\ Over(m)
  /\ UNCHANGED <<told, rcpts, snd>>

Accept(m) ==
  /\ tx[m].pc = "enqueue"
  /\ tx[m].todo = {}
  /\ Reply(m, "250")
  /\ UNCHANGED <<storeVars, rcpts, snd, envVars>>

-----------------------------------------------------------------------------
(* The sender task: process_queue and deliver_to_self.                     *)

SndGoto(pc) == snd' = [snd EXCEPT !.pc = pc]

(* The cycle returns, and the task sleeps before the next.  An error makes *)
(* the sleep shorter and ends nothing; the length of a sleep is left out.  *)
CycleEnds == snd' = Between("sleep", {})

CycleFailsForGood == snd' = Between("stopped", {})

CycleFails == CycleEnds

NextMailAgain == snd' = [snd EXCEPT !.pc = "mail"]

NextMail == snd' = [snd EXCEPT !.pc = "mail", !.pending = @ \ {snd.id}]

(* The timer or the notify of queue_insert; then queue_list_destinations.  *)
Wake ==
  /\ snd.pc = "sleep"
  /\ snd' = Between("dest", QueueDests)
  /\ UNCHANGED <<storeVars, smtpVars, envVars>>

NextDest ==
  /\ snd.pc = "dest"
  /\ snd.dests # {}
  /\ LET d == Least(snd.dests) IN
       snd' = [snd EXCEPT !.pc = "mail", !.dests = @ \ {d}, !.dest = d,
                          !.pending = QueuedIds(d)]
  /\ UNCHANGED <<storeVars, smtpVars, envVars>>

CycleDone ==
  /\ snd.pc = "dest"
  /\ snd.dests = {}
  /\ CycleEnds
  /\ UNCHANGED <<storeVars, smtpVars, envVars>>

DestDone ==
  /\ snd.pc = "mail"
  /\ snd.pending = {}
  /\ snd' = Between("dest", snd.dests)
  /\ UNCHANGED <<storeVars, smtpVars, envVars>>

(* mail_get("Outbox", id) of the newest mail left for this destination     *)
GetMail ==
  /\ snd.pc = "mail"
  /\ snd.pending # {}
  /\ LET id == Greatest(snd.pending) IN
       snd' = [snd EXCEPT !.id = id,
                 !.msg = IF HasMail("Outbox", id) THEN Mail("Outbox", id).msg ELSE @,
                 !.pc = IF ~ HasMail("Outbox", id) THEN "drop"
                        ELSE IF snd.dest = Self THEN "local" ELSE "gate"]
  /\ UNCHANGED <<storeVars, smtpVars, envVars>>

DropOrphan ==
  /\ snd.pc = "drop"
  /\ QueueDelete(snd.dest, "Outbox", snd.id)
  /\ NextMail
  /\ UNCHANGED <<smtpVars, envVars>>

GateOpens ==
  /\ snd.pc = "gate"
  /\ up
  /\ SndGoto("send")
  /\ UNCHANGED <<storeVars, smtpVars, envVars>>

(* wait_for_up_peer reached its deadline: the whole cycle is abandoned.    *)
GateDefers ==
  /\ snd.pc = "gate"
  /\ ~ up
  /\ CycleFails
  /\ UNCHANGED <<storeVars, smtpVars, envVars>>

Deliver == delivered' = delivered \cup {<<snd.msg, snd.dest>>}

(* quic.send: stored and confirmed, refused or lost, or stored by the peer *)
(* with the confirmation lost.  An error only skips to the next mail.      *)
SendOk ==
  /\ snd.pc = "send"
  /\ up
  /\ Deliver
  /\ SndGoto("dequeue")
  /\ UNCHANGED <<storeVars, smtpVars, up, cancelled, overtaken, faults>>

SendLostForGood ==
  /\ snd.pc = "send"
  /\ SndGoto("dequeue")
  /\ UNCHANGED <<storeVars, smtpVars, envVars>>

SendLost ==
  /\ snd.pc = "send"
  /\ NextMail
  /\ UNCHANGED <<storeVars, smtpVars, envVars>>

SendUnconfirmed ==
  /\ snd.pc = "send"
  /\ up
  /\ Deliver
  /\ NextMail
  /\ UNCHANGED <<storeVars, smtpVars, up, cancelled, overtaken, faults>>

(* deliver_to_self: mail_insert_inbox_dedup, no network                    *)
StoreLocally ==
  /\ snd.pc = "local"
  /\ DeliverNew(snd.msg) \/ (IsDuplicate(snd.msg) /\ UNCHANGED storeVars)
  /\ Deliver
  /\ SndGoto("dequeue")
  /\ UNCHANGED <<smtpVars, up, cancelled, overtaken, faults>>

(* queue_delete while the mail is still in Outbox, then the count, then    *)
(* the move of a mail nobody waits for any more.  A session that is not    *)
(* done with its recipients is overtaken.                                  *)
Dequeue ==
  /\ snd.pc = "dequeue"
  /\ QueueDelete(snd.dest, "Outbox", snd.id)
  /\ SndGoto("count")
  /\ UNCHANGED <<smtpVars, envVars>>

Overtakes ==
  overtaken' = overtaken \cup {m \in {snd.msg} : tx[m].pc = "enqueue" /\ tx[m].todo # {}}

CountLeftIgnored ==
  /\ snd.pc = "count"
  /\ SndGoto("move") /\ Overtakes
  /\ UNCHANGED <<storeVars, smtpVars, up, delivered, cancelled, faults>>

CountLeft ==
  /\ snd.pc = "count"
  /\ \/ QueueCount("Outbox", snd.id) # 0 /\ NextMail /\ UNCHANGED overtaken
     \/ QueueCount("Outbox", snd.id) = 0 /\ SndGoto("move") /\ Overtakes
  /\ UNCHANGED <<storeVars, smtpVars, up, delivered, cancelled, faults>>

MoveToSent ==
  /\ snd.pc = "move"
  /\ MailMove("Outbox", "Sent", snd.id)
  /\ NextMail
  /\ UNCHANGED <<smtpVars, envVars>>

(* A storage call of the cycle fails: `?' leaves the cycle.  The orphan's  *)
(* removal and the move ignore their errors.                               *)
StorageErrorEndsCycle ==
  /\ snd.pc \in {"dest", "mail", "local", "dequeue", "count"}
  /\ Fault
  /\ CycleFails
  /\ UNCHANGED <<storeVars, smtpVars>>

StorageErrorIgnored ==
  /\ snd.pc \in {"drop", "move"}
  /\ Fault
  /\ NextMail
  /\ UNCHANGED <<storeVars, smtpVars>>

-----------------------------------------------------------------------------
(* The rest of the node and the world.                                     *)

LinkUp   == ~ up /\ up' = TRUE /\ UNCHANGED <<storeVars, smtpVars, snd, delivered, cancelled, overtaken, faults>>
LinkDown == up /\ up' = FALSE /\ UNCHANGED <<storeVars, smtpVars, snd, delivered, cancelled, overtaken, faults>>

(* clear_outbound_queue of the mobile crate, one row at a time             *)
ClearQueued ==
  /\ Cardinality(cancelled) < MaxCancels
  /\ \E q \in queue :
       /\ QueueDelete(q.dest, "Outbox", q.id)
       /\ cancelled' = cancelled \cup
            {<<r.msg, q.dest>> : r \in {x \in mails : x.mailbox = q.mailbox /\ x.id = q.id}}
  /\ UNCHANGED <<smtpVars, snd, up, delivered, overtaken, faults>>

(* IMAP STORE +FLAGS \Deleted and EXPUNGE on Outbox: marking a mail cancels *)
(* it, and any expunge of Outbox, a rollback's too, takes it away.         *)
ClientDeletes ==
  /\ Cardinality(cancelled) < MaxCancels
  /\ \E r \in mails :
       /\ r.mailbox = "Outbox" /\ ~ r.deleted
       /\ SetDeleted("Outbox", r.id, TRUE)
       /\ cancelled' = cancelled \cup {<<r.msg, d>> : d \in rcpts[r.msg]}
  /\ UNCHANGED <<smtpVars, snd, up, delivered, overtaken, faults>>

ClientExpunges ==
  /\ \E r \in mails : r.mailbox = "Outbox" /\ r.deleted
  /\ MailExpunge("Outbox")
  /\ UNCHANGED <<smtpVars, snd, envVars>>

TimePasses == Tick /\ UNCHANGED <<smtpVars, snd, envVars>>

(* The process dies, alone or in the middle of a mail_insert, and starts   *)
(* again: sessions are gone, the sender begins a new cycle.                *)
Crash ==
  /\ Reopen \/ CrashInInsert("Outbox")
  /\ tx' = [m \in Msgs |-> IF tx[m].pc \in {"new", "done"} THEN tx[m]
                           ELSE [tx[m] EXCEPT !.pc = "lost", !.id = None]]
  /\ snd' = Between("sleep", {})
  /\ Fault
  /\ UNCHANGED <<told, rcpts>>

Smtp(m) ==
  \/ Submit(m) \/ SubmitFails(m) \/ Enqueue(m) \/ EnqueueFails(m)
  \/ RollbackDelete(m) \/ RollbackExpunge(m) \/ Accept(m)

Sender ==
  \/ Wake \/ NextDest \/ CycleDone \/ DestDone \/ GetMail \/ DropOrphan
  \/ GateOpens \/ GateDefers \/ SendOk \/ SendLost \/ SendUnconfirmed
  \/ StoreLocally \/ Dequeue \/ CountLeft \/ MoveToSent

Trouble == StorageErrorEndsCycle \/ StorageErrorIgnored \/ Crash

NodeActs ==
  \/ \E m \in Msgs : Smtp(m)
  \/ Sender \/ Trouble \/ LinkUp \/ LinkDown
  \/ ClearQueued \/ ClientDeletes \/ ClientExpunges

Next == NodeActs \/ TimePasses

Spec == Init /\ [][Next]_vars

(* The runtime keeps running the sender task; and of the sends of one mail *)
(* to one key, repeated for ever over a link that is up, one succeeds.     *)
SendOkOf(m, d) == snd.msg = m /\ snd.dest = d /\ SendOk

Fairness ==
  /\ WF_vars(Sender)
  /\ \A m \in Msgs, d \in Dests \ {Self} : SF_vars(SendOkOf(m, d))

FairSpec == Spec /\ Fairness

-----------------------------------------------------------------------------
(* Safety.                                                                 *)

Row(m, d, q) ==
  /\ q.dest = d
  /\ \E r \in mails : r.msg = m /\ r.mailbox = "Outbox" /\ q.mailbox = "Outbox" /\ r.id = q.id
Queued(m, d)  == \E q \in queue : Row(m, d, q)
Settled(m, d) == <<m, d>> \in delivered \cup cancelled

(* The recipients whose row the session has put into the queue.            *)
Entered(m) == rcpts[m] \ tx[m].todo

(* What smtp/mod.rs:155 says: "every recipient must get into the queue".   *)
(* A mail whose client was told 250 is, for each recipient, stored by the  *)
(* recipient, cancelled by the user, or still in Outbox with its queue row.*)
EveryRecipientIsKept ==
  \A m \in Msgs : told[m] = "250" =>
     \A d \in rcpts[m] : Settled(m, d) \/ Queued(m, d)

(* The same of every mail but those the sender overtook: it had delivered  *)
(* to all recipients in the queue before the session got to the next.  No  *)
(* other order of calls, crash or error loses an accepted mail             *)
(* (accept_mail, process_queue).                                           *)
AcceptedMailIsKept ==
  \A m \in Msgs \ overtaken : told[m] = "250" =>
     \A d \in rcpts[m] : Settled(m, d) \/ Queued(m, d)

(* A mail whose client was told 451, and will submit it again, has reached *)
(* at most those recipients that were queued before the failure; once the  *)
(* rollback is over nothing of it is left for the sender to take up, in    *)
(* Outbox or, by the cascade, in the queue, unless a second error hit the  *)
(* rollback (accept_mail rolls back what it stored before the failure).    *)
RefusedMailIsWithdrawn ==
  \A m \in Msgs : told[m] = "451" =>
     /\ \A d \in Dests : <<m, d>> \in delivered => d \in Entered(m)
     /\ tx[m].pc = "done" /\ faults < 2 =>
          ~ \E r \in mails : r.msg = m /\ r.mailbox = "Outbox"

(* A mail is in Sent only when nobody in the queue is waiting for it: the  *)
(* move comes after the last recipient of a group is dequeued, if it did   *)
(* not overtake the session (sender.rs:155).                               *)
SentMeansSettled ==
  \A r \in mails : r.mailbox = "Sent" /\ r.msg \notin overtaken =>
     \A d \in Entered(r.msg) : Settled(r.msg, d)

(* The sender works from snapshots of the queue and of the mail, yet never *)
(* sends a mail whose row it has itself removed: what a peer confirmed is  *)
(* not sent to it again.  Only the user and a rollback take a row away     *)
(* under its hands.                                                        *)
SendingWhatIsQueued ==
  snd.pc \in {"gate", "send", "local", "dequeue"} =>
     \/ [dest |-> snd.dest, mailbox |-> "Outbox", id |-> snd.id] \in queue
     \/ <<snd.msg, snd.dest>> \in cancelled
     \/ told[snd.msg] = "451"

(* A mail to oneself that counts as delivered is in the inbox.  A second   *)
(* copy takes a crash or an error between the store and the removal of the *)
(* queue row, for each copy another one, and a retry that comes when the   *)
(* dedup window is over (deliver_to_self).                                 *)
SelfCopyRepeatsLate ==
  \A m \in Msgs :
     /\ (<<m, Self>> \in delivered) = (arrivals[m] # <<>>)
     /\ Len(arrivals[m]) <= 1 + faults
     /\ \A i \in 1 .. Len(arrivals[m]) - 1 : arrivals[m][i + 1] - arrivals[m][i] > Window

-----------------------------------------------------------------------------
(* Liveness.                                                               *)

(* Once some peer link stays up, every mail that was accepted is stored by *)
(* each of its recipients, whatever is queued before it and however often  *)
(* its sends fail (unless the user takes it back or the sender overtook    *)
(* the session).                                                           *)
AcceptedMailIsDelivered ==
  <>[]up => \A m \in Msgs, d \in Dests :
              (told[m] = "250" /\ m \notin overtaken /\ d \in rcpts[m]) ~> Settled(m, d)
=============================================================================
