----------------------------- MODULE ImapSession -----------------------------
(***************************************************************************)
(* The IMAP server (imap/mod.rs): clients' sessions over the database of   *)
(* MailStore, beside the node's own tasks that store, move and submit      *)
(* mail.  A command is several storage calls, each under the lock by       *)
(* itself, so that commands of two sessions and the node's own calls       *)
(* interleave between the listing of a mailbox and the work on each mail.  *)
(*                                                                         *)
(* The library imap-server reads commands and writes answers.              *)
(*                                                                         *)
(* Left out: LOGIN, LIST, SUBSCRIBE, STATUS, SEARCH, poll and the live     *)
(* count, which change no mail; CREATE, DELETE and RENAME, one call of     *)
(* MailStore each; and the flags other than \Deleted, though a STORE of    *)
(* them, which reads and writes back \Deleted as well, is kept.            *)
(***************************************************************************)
EXTENDS MailStore

CONSTANTS
  Sessions,     \* connections of mail clients
  ClientBoxes,  \* mailboxes the clients work with
  NoBox         \* no mailbox selected

ASSUME ImapAssumption == NoBox \notin Boxes /\ ClientBoxes \subseteq Boxes

VARIABLES
  session,      \* YggmailSession, and the command it is in
  known,        \* history: what clients were told of a mailbox, UID and mail
  marked        \* history: mails a client has named in a STORE of \Deleted

imapVars == <<storeVars, session, known, marked>>
histVars == <<known, marked>>

(* Mailboxes whose rows keep their UIDs: they cannot be renamed, and no    *)
(* mail is moved into them.                                                *)
Kept == Protected \ {"Sent"}

NoRow == [mailbox |-> NoBox]

(* A session is at pc "idle", "each" (a mail of its list is next), "write" *)
(* or "flag"; op is "fetch", "mark", "unmark", "other" or "copy"; todo are *)
(* the UIDs the command has yet to reach, the lowest first, row the mail   *)
(* it has read or stored, box the mailbox it names.                        *)
NewSession == [pc |-> "idle", selected |-> NoBox, op |-> "none", todo |-> {},
               row |-> NoRow, box |-> NoBox]

ImapInit ==
  /\ StoreInit
  /\ session = [s \in Sessions |-> NewSession]
  /\ known = {} /\ marked = {}

-----------------------------------------------------------------------------
(* The UIDs of a mailbox that a sequence set names, by UID or by position  *)
(* in what mail_list returns, which is in ascending order.                 *)
Position(b, id) == Cardinality({i \in Ids(b) : i <= id})
Matching(b, uid, set) == {id \in Ids(b) : (IF uid THEN id ELSE Position(b, id)) \in set}

(* The command of session s is over.                                       *)
Finish(s) == session' = [session EXCEPT ![s] =
                           [NewSession EXCEPT !.selected = session[s].selected]]

(* A client learns that m has the UID id in b.                             *)
Learns(b, id, m) ==
  known' = IF b \in Kept THEN known \cup {[mailbox |-> b, id |-> id, msg |-> m]} ELSE known

(* SELECT, also of a mailbox that does not exist.  Its five reads change   *)
(* nothing, and nothing of its answer is used again here.                  *)
Select(s, b) ==
  /\ session[s].pc = "idle"
  /\ session' = [session EXCEPT ![s].selected = b]
  /\ UNCHANGED <<storeVars, histVars>>

CloseBox(s) ==
  /\ session[s].pc = "idle"
  /\ session' = [session EXCEPT ![s].selected = NoBox]
  /\ UNCHANGED <<storeVars, histVars>>

(* FETCH, STORE and COPY begin with the listing of the selected mailbox.   *)
Begin(s, op, uid, set, dest) ==
  LET b == session[s].selected IN
  /\ session[s].pc = "idle" /\ b # NoBox
  /\ session' = [session EXCEPT ![s].pc = "each", ![s].op = op, ![s].box = dest,
                                ![s].todo = Matching(b, uid, set)]
  /\ marked' = IF op = "mark" /\ b \in Kept
               THEN marked \cup {<<b, id>> : id \in Matching(b, uid, set)} ELSE marked
  /\ UNCHANGED <<storeVars, known>>

(* mail_get of the next UID; a mail that is gone by now is passed over.    *)
Get(s) ==
  LET b == session[s].selected
      id == Least(session[s].todo) IN
  /\ session[s].pc = "each" /\ session[s].todo # {}
  /\ \/ /\ ~ HasMail(b, id)
        /\ session' = [session EXCEPT ![s].todo = @ \ {id}]
        /\ UNCHANGED known
     \/ /\ HasMail(b, id) /\ session[s].op = "fetch"
        /\ session' = [session EXCEPT ![s].todo = @ \ {id}]
        /\ Learns(b, id, Mail(b, id).msg)
     \/ /\ HasMail(b, id) /\ session[s].op # "fetch"
        /\ session' = [session EXCEPT ![s].pc = "write", ![s].row = Mail(b, id)]
        /\ UNCHANGED known
  /\ UNCHANGED <<storeVars, marked>>

(* STORE writes all four flags as it has read and changed them.            *)
NewDeletedUnlessUnmarked(op, row) == op # "unmark"
NewDeleted(op, row) == IF op = "other" THEN row.deleted ELSE op = "mark"

Write(s) ==
  LET r == session[s].row IN
  /\ session[s].pc = "write" /\ session[s].op # "copy"
  /\ SetDeleted(r.mailbox, r.id, NewDeleted(session[s].op, r))
  /\ session' = [session EXCEPT ![s].pc = "each", ![s].todo = @ \ {session[s].row.id},
                                ![s].row = NoRow]
  /\ UNCHANGED histVars

(* COPY inserts the bytes as a new mail without flags.                     *)
Copy(s) ==
  LET b == session[s].box
      m == session[s].row.msg IN
  /\ session[s].pc = "write" /\ session[s].op = "copy"
  /\ ~ InsertCollides(b) /\ MailInsert(b, m)
  /\ session' = [session EXCEPT ![s].pc = "each", ![s].todo = @ \ {session[s].row.id},
                                ![s].row = NoRow]
  /\ Learns(b, NextUid(b), m)
  /\ UNCHANGED marked

(* The insert fails, on a key in use too: the copies made so far stay.     *)
CopyFails(s) ==
  /\ session[s].pc = "write" /\ session[s].op = "copy"
  /\ MailInsertFails(session[s].box) \/ UNCHANGED storeVars
  /\ Finish(s)
  /\ UNCHANGED histVars

Done(s) ==
  /\ session[s].pc = "each" /\ session[s].todo = {}
  /\ UNCHANGED <<storeVars, histVars>>
  /\ Finish(s)

(* A read fails: what was done so far stays.  A write of flags that fails  *)
(* is not noticed.                                                         *)
GetFails(s) ==
  /\ session[s].pc = "each"
  /\ UNCHANGED <<storeVars, histVars>>
  /\ Finish(s)

WriteFails(s) ==
  /\ session[s].pc = "write" /\ session[s].op # "copy"
  /\ session' = [session EXCEPT ![s].pc = "each", ![s].todo = @ \ {session[s].row.id},
                                ![s].row = NoRow]
  /\ UNCHANGED <<storeVars, histVars>>

(* EXPUNGE, and UID EXPUNGE, whose set of UIDs is not looked at.           *)
Expunge(s) ==
  /\ session[s].pc = "idle" /\ session[s].selected # NoBox
  /\ MailExpunge(session[s].selected)
  /\ Finish(s)
  /\ UNCHANGED histVars

(* APPEND, with its flags, if it has any, in a second call, whose failure  *)
(* is not noticed.                                                         *)
AppendMail(s, b, m, flags) ==
  /\ session[s].pc = "idle"
  /\ ~ InsertCollides(b) /\ MailInsert(b, m)
  /\ Learns(b, NextUid(b), m)
  /\ session' = IF flags = "none" THEN session
                ELSE [session EXCEPT ![s].pc = "flag", ![s].op = flags, ![s].row = NewRow(b, m)]
  /\ marked' = IF flags = "mark" /\ b \in Kept THEN marked \cup {<<b, NextUid(b)>>} ELSE marked

AppendFails(s, b) ==
  /\ session[s].pc = "idle"
  /\ MailInsertFails(b)
  /\ UNCHANGED <<session, histVars>>

Flag(s) ==
  /\ session[s].pc = "flag"
  /\ \/ SetDeleted(session[s].row.mailbox, session[s].row.id, session[s].op = "mark")
     \/ UNCHANGED storeVars
  /\ Finish(s)
  /\ UNCHANGED histVars

-----------------------------------------------------------------------------
(* The rest of the node: the receiver task stores a mail, or a restart     *)
(* ends the sessions.  What sessions of SMTP and the sender do in Outbox   *)
(* and Sent beside a client is in Outbound.                                *)
Node ==
  \/ /\ \E m \in Msgs : DeliverNew(m)
     /\ UNCHANGED <<session, histVars>>
  \/ /\ Reopen
     /\ session' = [s \in Sessions |-> NewSession]
     /\ UNCHANGED histVars

Working(s) == Get(s) \/ Write(s) \/ Copy(s) \/ CopyFails(s) \/ Done(s) \/ Flag(s)

Command(s) ==
  \/ \E b \in ClientBoxes : Select(s, b) \/ AppendFails(s, b)
  \/ \E op \in {"fetch", "mark", "unmark", "other"}, uid \in BOOLEAN, set \in SUBSET (1 .. MaxUid) :
       Begin(s, op, uid, set, NoBox)
  \/ \E uid \in BOOLEAN, set \in SUBSET (1 .. MaxUid), dest \in ClientBoxes :
       Begin(s, "copy", uid, set, dest)
  \/ \E b \in ClientBoxes, m \in Msgs, flags \in {"none", "mark", "other"} :
       AppendMail(s, b, m, flags)
  \/ CloseBox(s) \/ Expunge(s)

ImapNext ==
  \/ \E s \in Sessions : Command(s) \/ Working(s) \/ GetFails(s) \/ WriteFails(s)
  \/ Node

ImapSpec == ImapInit /\ [][ImapNext]_imapVars

-----------------------------------------------------------------------------
(* What a client has been told of a UID stays true: as long as there is a  *)
(* mail of that UID in the mailbox, it is that mail, through expunges,     *)
(* copies, deliveries and restarts (mails.rs:80, the answers of FETCH,     *)
(* COPY and APPEND).  Not in Sent, and not across the deletion of a        *)
(* mailbox, where UIDs begin again.                                        *)
UidMeansOneMail ==
  \A k \in known : \A r \in mails :
     r.mailbox = k.mailbox /\ r.id = k.id => r.msg = k.msg

(* A mail that leaves INBOX was named in a STORE of \Deleted, or appended  *)
(* with it, however STOREs and EXPUNGEs of sessions interleave with        *)
(* deliveries.                                                             *)
ExpungedWasMarked ==
  [][\A r \in mails :
       r.mailbox \in Kept /\ ~ (\E x \in mails' : x.mailbox = r.mailbox /\ x.id = r.id)
       => <<r.mailbox, r.id>> \in marked]_imapVars

(* The number of a mail, its position in the mailbox, is moved by nothing  *)
(* but the expunge of another: what is delivered, appended or copied       *)
(* meanwhile comes after all that is there, so that the numbers a client   *)
(* has seen stay good for its next command (mail_list, ORDER BY id; the    *)
(* counting of fetch and store).  Not in Sent, where mail_move may put a   *)
(* mail before others.                                                     *)
NumbersStay ==
  [][\A b \in Kept : Ids(b) \subseteq Ids(b)' =>
       \A id \in Ids(b) : Position(b, id)' = Position(b, id)]_imapVars
=============================================================================
