------------------------------ MODULE MailStore ------------------------------
(***************************************************************************)
(* The SQLite database behind every component of the node, and the storage *)
(* operations the others call (crates/yggmail/src/storage).  The tables    *)
(* are relations: a mail is a row of `mails', a pending delivery a row of  *)
(* `queue', a fingerprint of a stored inbound mail a row of `inboxSeen';   *)
(* the table `mailboxes' is the function `uidNext' from the names of the   *)
(* mailboxes that exist to their UID counters.                             *)
(*                                                                         *)
(* One connection behind one mutex serves every thread, so one storage     *)
(* call is one action.  The exception is mails::insert, four statements    *)
(* that each commit by themselves: a crash or an error leaves a prefix of  *)
(* them behind.                                                            *)
(*                                                                         *)
(* Left out: message bytes, dates, subscription flags, and the at-rest     *)
(* encryption of a blob.  A message value stands for a sender's key        *)
(* together with the raw bytes, the pair the fingerprint is taken of.      *)
(***************************************************************************)
EXTENDS Integers, Sequences, FiniteSets

CONSTANTS
  Msgs,         \* message values
  ChatMsgs,     \* those that carry the header X-Tyr-Chat: 1
  Dests,        \* recipient keys
  UserBoxes,    \* mailbox names a client may use beside the protected ones
  Window,       \* DEDUP_WINDOW_SECS
  MaxUid,       \* bound: UIDs handed out per mailbox
  MaxMails,     \* bound: rows of `mails'
  MaxClock      \* bound: the wall clock

Protected == {"INBOX", "Outbox", "Sent"}
Boxes     == Protected \cup UserBoxes

(* The mailbox an inbound mail is put in.  TyrChat is not protected.       *)
InboundMailbox(m) == IF m \in ChatMsgs THEN "TyrChat" ELSE "INBOX"

ASSUME StoreAssumption ==
  /\ ChatMsgs \subseteq Msgs
  /\ "TyrChat" \in UserBoxes
  /\ UserBoxes \cap Protected = {}
  /\ Window \in Nat
  /\ MaxUid \in Nat /\ MaxMails \in Nat /\ MaxClock \in Nat

VARIABLES
  uidNext,      \* table mailboxes: name -> uid_next
  mails,        \* table mails
  queue,        \* table queue
  inboxSeen,    \* table inbox_seen
  clock,        \* SystemTime::now, in seconds
  arrivals      \* history: for each inbound message, the times it was stored

tables    == <<uidNext, mails, queue, inboxSeen>>
storeVars == <<uidNext, mails, queue, inboxSeen, clock, arrivals>>

Uid      == Nat \ {0}
MailRow  == [mailbox : Boxes, id : Uid, msg : Msgs, deleted : BOOLEAN]
QueueRow == [dest : Dests, mailbox : Boxes, id : Uid]
SeenRow  == [msg : Msgs, at : Nat]

StoreTypeOK ==
  /\ DOMAIN uidNext \subseteq Boxes
  /\ uidNext \in [DOMAIN uidNext -> Uid]
  /\ mails \subseteq MailRow
  /\ queue \subseteq QueueRow
  /\ inboxSeen \subseteq SeenRow
  /\ clock \in Nat
  /\ arrivals \in [Msgs -> Seq(Nat)]

StoreInit ==
  /\ uidNext = [b \in Protected |-> 1]
  /\ mails = {} /\ queue = {} /\ inboxSeen = {}
  /\ clock = 0 /\ arrivals = [m \in Msgs |-> <<>>]

-----------------------------------------------------------------------------
(* Lookups.                                                                *)

HasMail(b, id)  == \E r \in mails : r.mailbox = b /\ r.id = id
Mail(b, id)     == CHOOSE r \in mails : r.mailbox = b /\ r.id = id
Ids(b)          == {r.id : r \in {x \in mails : x.mailbox = b}}
QueuedIds(d)    == {q.id : q \in {x \in queue : x.dest = d}}
QueueDests      == {q.dest : q \in queue}
QueueCount(b, id) == Cardinality({q \in queue : q.mailbox = b /\ q.id = id})

(* The end of a list that is read in the order of its keys.                *)
Least(S)    == CHOOSE x \in S : \A y \in S : x <= y
Greatest(S) == CHOOSE x \in S : \A y \in S : x >= y

CascadeKeep(gone) == queue

(* The referential actions of the schema: a queue row goes with its mail.  *)
CascadeDelete(gone) ==
  {q \in queue : ~ \E r \in gone : r.mailbox = q.mailbox /\ r.id = q.id}

-----------------------------------------------------------------------------
(* mails::insert                                                           *)

EnsureBox(u, b) == [x \in DOMAIN u \cup {b} |-> IF x \in DOMAIN u THEN u[x] ELSE 1]
LowestFree(b)   == Least({u \in 1 .. Cardinality(Ids(b)) + 1 : u \notin Ids(b)})
NextUid(b)      == EnsureBox(uidNext, b)[b]
NotBumped(b)    == EnsureBox(uidNext, b)
Bumped(b)       == [EnsureBox(uidNext, b) EXCEPT ![b] = @ + 1]

NewRow(b, m)    == [mailbox |-> b, id |-> NextUid(b), msg |-> m, deleted |-> FALSE]

(* The primary key (mailbox, id) refuses the row: the counter stays bumped.*)
InsertCollides(b) == HasMail(b, NextUid(b))
RoomFor(b)        == NextUid(b) <= MaxUid /\ Cardinality(mails) < MaxMails

MailInsert(b, m) ==
  /\ RoomFor(b)
  /\ uidNext' = Bumped(b)
  /\ mails' = IF InsertCollides(b) THEN mails ELSE mails \cup {NewRow(b, m)}
  /\ UNCHANGED <<queue, inboxSeen, clock, arrivals>>

(* What an insert that stops part way has committed.                       *)
PartOfInsert(b) == {uidNext, EnsureBox(uidNext, b), Bumped(b)}

MailInsertFails(b) ==
  /\ NextUid(b) <= MaxUid
  /\ uidNext' \in PartOfInsert(b)
  /\ UNCHANGED <<mails, queue, inboxSeen, clock, arrivals>>

-----------------------------------------------------------------------------
(* mail_insert_inbox_dedup: one transaction, so it commits whole or leaves *)
(* nothing (the prune of old fingerprints included, on a duplicate).       *)

FreshShort     == {s \in inboxSeen : s.at > clock - Window}
Fresh          == {s \in inboxSeen : s.at >= clock - Window}
IsDuplicateNever(m) == FALSE
IsDuplicate(m) == \E s \in Fresh : s.msg = m

DeliverNewTorn(m) ==
  /\ ~ IsDuplicate(m)
  /\ inboxSeen' = Fresh \cup {[msg |-> m, at |-> clock]}
  /\ UNCHANGED <<uidNext, mails, queue, clock, arrivals>>

DeliverNew(m) ==
  LET b == InboundMailbox(m) IN
  /\ ~ IsDuplicate(m)
  /\ ~ InsertCollides(b)
  /\ RoomFor(b)
  /\ inboxSeen' = Fresh \cup {[msg |-> m, at |-> clock]}
  /\ uidNext' = Bumped(b)
  /\ mails' = mails \cup {NewRow(b, m)}
  /\ arrivals' = [arrivals EXCEPT ![m] = Append(@, clock)]
  /\ UNCHANGED <<queue, clock>>

-----------------------------------------------------------------------------
(* The other operations on mails.                                          *)

MailMove(from, to, id) ==
  IF HasMail(from, id) /\ ~ HasMail(to, id)
  THEN LET row == Mail(from, id) IN
       /\ mails' = (mails \ {row}) \cup {[row EXCEPT !.mailbox = to]}
       /\ queue' = {IF q.mailbox = from /\ q.id = id
                    THEN [q EXCEPT !.mailbox = to] ELSE q : q \in queue}
       /\ UNCHANGED <<uidNext, inboxSeen, clock, arrivals>>
  ELSE UNCHANGED storeVars      \* no such row, or a primary key collision

SetDeleted(b, id, flag) ==
  /\ mails' = {IF r.mailbox = b /\ r.id = id
               THEN [r EXCEPT !.deleted = flag] ELSE r : r \in mails}
  /\ UNCHANGED <<uidNext, queue, inboxSeen, clock, arrivals>>

MailDelete(b, id) == SetDeleted(b, id, TRUE)

MailExpunge(b) ==
  LET gone == {r \in mails : r.mailbox = b /\ r.deleted} IN
  /\ mails' = mails \ gone
  /\ queue' = CascadeDelete(gone)
  /\ UNCHANGED <<uidNext, inboxSeen, clock, arrivals>>

-----------------------------------------------------------------------------
(* Mailboxes.                                                              *)

CreateMailbox(b) ==
  /\ b \notin DOMAIN uidNext
  /\ uidNext' = EnsureBox(uidNext, b)
  /\ UNCHANGED <<mails, queue, inboxSeen, clock, arrivals>>

DeleteMailbox(b) ==
  LET gone == {r \in mails : r.mailbox = b} IN
  /\ b \in DOMAIN uidNext
  /\ uidNext' = [x \in DOMAIN uidNext \ {b} |-> uidNext[x]]
  /\ mails' = mails \ gone
  /\ queue' = CascadeDelete(gone)
  /\ UNCHANGED <<inboxSeen, clock, arrivals>>

RenameMailboxAfresh(old, new) ==
  /\ old \in DOMAIN uidNext
  /\ new \notin DOMAIN uidNext
  /\ uidNext' = [x \in (DOMAIN uidNext \ {old}) \cup {new} |->
                   IF x = new THEN 1 ELSE uidNext[x]]
  /\ mails' = {IF r.mailbox = old THEN [r EXCEPT !.mailbox = new] ELSE r : r \in mails}
  /\ queue' = {IF q.mailbox = old THEN [q EXCEPT !.mailbox = new] ELSE q : q \in queue}
  /\ UNCHANGED <<inboxSeen, clock, arrivals>>

RenameMailbox(old, new) ==
  /\ old \in DOMAIN uidNext
  /\ new \notin DOMAIN uidNext
  /\ uidNext' = [x \in (DOMAIN uidNext \ {old}) \cup {new} |->
                   IF x = new THEN uidNext[old] ELSE uidNext[x]]
  /\ mails' = {IF r.mailbox = old THEN [r EXCEPT !.mailbox = new] ELSE r : r \in mails}
  /\ queue' = {IF q.mailbox = old THEN [q EXCEPT !.mailbox = new] ELSE q : q \in queue}
  /\ UNCHANGED <<inboxSeen, clock, arrivals>>

-----------------------------------------------------------------------------
(* The queue.                                                              *)

(* queue_insert fails when the mail is gone or the row is already there.   *)
QueueAccepts(d, b, id) ==
  HasMail(b, id) /\ [dest |-> d, mailbox |-> b, id |-> id] \notin queue

QueueInsert(d, b, id) ==
  /\ QueueAccepts(d, b, id)
  /\ queue' = queue \cup {[dest |-> d, mailbox |-> b, id |-> id]}
  /\ UNCHANGED <<uidNext, mails, inboxSeen, clock, arrivals>>

QueueDelete(d, b, id) ==
  /\ queue' = queue \ {[dest |-> d, mailbox |-> b, id |-> id]}
  /\ UNCHANGED <<uidNext, mails, inboxSeen, clock, arrivals>>

-----------------------------------------------------------------------------
(* SqliteStorage::open on a database that holds the counters u: the        *)
(* protected mailboxes exist, every counter is lifted above the ids its    *)
(* mailbox holds, and queue rows that do not name Outbox are dropped.      *)

LiftedToRows(u) ==
  [b \in DOMAIN u \cup Protected |->
     CHOOSE n \in {1} \cup {i + 1 : i \in Ids(b)} : \A i \in Ids(b) : n > i]

Lifted(u) ==
  [b \in DOMAIN u \cup Protected |->
     LET c == IF b \in DOMAIN u THEN u[b] ELSE 1 IN
     CHOOSE n \in {c} \cup {i + 1 : i \in Ids(b)} :
        n >= c /\ \A i \in Ids(b) : n > i]

OpenOn(u) ==
  /\ uidNext' = Lifted(u)
  /\ queue' = {q \in queue : q.mailbox = "Outbox"}
  /\ UNCHANGED <<mails, inboxSeen, clock, arrivals>>

Reopen           == OpenOn(uidNext)
CrashInInsert(b) == NextUid(b) <= MaxUid /\ \E u \in PartOfInsert(b) : OpenOn(u)

Tick ==
  /\ clock < MaxClock
  /\ clock' = clock + 1
  /\ UNCHANGED <<uidNext, mails, queue, inboxSeen, arrivals>>

-----------------------------------------------------------------------------
(* Every call the program makes of the storage, in any order: mail is put  *)
(* into any mailbox (an IMAP APPEND or COPY) but moved only from Outbox to *)
(* Sent, and only a mailbox that is not protected is deleted or renamed.   *)

StoreNext ==
  \/ \E b \in Boxes, m \in Msgs : MailInsert(b, m)
  \/ \E b \in Boxes : MailInsertFails(b)
  \/ \E m \in Msgs : DeliverNew(m)
  \/ \E id \in Ids("Outbox") : MailMove("Outbox", "Sent", id)
  \/ \E r \in mails, f \in BOOLEAN : SetDeleted(r.mailbox, r.id, f)
  \/ \E b \in Boxes : MailExpunge(b)
  \/ \E b \in Boxes : CreateMailbox(b)
  \/ \E b \in UserBoxes : DeleteMailbox(b)
  \/ \E b \in UserBoxes, c \in Boxes : RenameMailbox(b, c)
  \/ \E d \in Dests, id \in Ids("Outbox") : QueueInsert(d, "Outbox", id)
  \/ \E q \in queue : QueueDelete(q.dest, "Outbox", q.id)
  \/ \E b \in Boxes : CrashInInsert(b)
  \/ Reopen
  \/ Tick

StoreSpec == StoreInit /\ [][StoreNext]_storeVars

-----------------------------------------------------------------------------
(* Safety.                                                                 *)

UniqueKeys    == \A r, s \in mails : r.mailbox = s.mailbox /\ r.id = s.id => r = s
MailsInBoxes  == \A r \in mails : r.mailbox \in DOMAIN uidNext
QueueHasMail  == \A q \in queue : HasMail(q.mailbox, q.id)
ProtectedStay == Protected \subseteq DOMAIN uidNext

(* The tables stay consistent whatever is deleted, moved or renamed in     *)
(* whatever order: keys are unique, a mail lies in a mailbox that exists,  *)
(* a queue row names a mail that exists, and no call ever loses one of the *)
(* three protected mailboxes.                                              *)
Integrity == UniqueKeys /\ MailsInBoxes /\ QueueHasMail /\ ProtectedStay

(* UIDNEXT is above every UID in use, so that the next mail gets a UID the *)
(* client has not seen: through crashes in the middle of an insert,        *)
(* renames and reopenings (mails::insert_with, the lift in open).  Sent is *)
(* left out: mail_move brings rows there with the ids they had in Outbox.  *)
UidBelowNext ==
  \A r \in mails : r.mailbox # "Sent" => r.id < uidNext[r.mailbox]

(* No step lowers the UID counter of a mailbox that stays in existence.    *)
CounterNeverFalls ==
  [][\A b \in DOMAIN uidNext : b \in DOMAIN uidNext' => uidNext'[b] >= uidNext[b]]_storeVars

(* A fingerprint stands for a mail that was stored, and stored last at the *)
(* fingerprint's time: no crash or error leaves the fingerprint of a mail  *)
(* that is not there, which would refuse the peer's retry and lose it.     *)
SeenMeansStored ==
  \A s \in inboxSeen :
     /\ arrivals[s.msg] # <<>>
     /\ s.at = arrivals[s.msg][Len(arrivals[s.msg])]

(* Two copies of one inbound mail are stored more than the dedup window    *)
(* apart, however often the peer repeats it.                               *)
NoRepeatInWindow ==
  \A m \in Msgs : \A i \in 1 .. Len(arrivals[m]) - 1 :
     arrivals[m][i + 1] - arrivals[m][i] > Window

=============================================================================
