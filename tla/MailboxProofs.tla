---------------------------- MODULE MailboxProofs ----------------------------
(***************************************************************************)
(* Proofs about the two users of the database that a mail client talks to: *)
(* the IMAP sessions (ImapSession), and the SMTP sessions with the sender  *)
(* task (Outbound).  They stand together because they rest on the same     *)
(* facts: both only ever step the storage as MailStore allows, and what    *)
(* they promise holds from the storage's invariant StoreInv and a few      *)
(* facts about who works with which mail.                                  *)
(***************************************************************************)
EXTENDS Outbound, ImapSession, MailStoreProofs

-----------------------------------------------------------------------------
(* Lists read in the order of their keys.                                  *)

LEMMA LeastIsFirst ==
  ASSUME NEW S, S \subseteq Nat, S # {}
  PROVE  Least(S) \in S /\ \A y \in S : Least(S) <= y
<1>1. PICK x \in S : \A y \in S : ~ (<<y, x>> \in OpToRel(<, Nat))
  BY NatLessThanWellFounded, WFMin
<1>2. ASSUME NEW y \in S, ~ (x <= y) PROVE FALSE
  <2>1. y < x /\ y \in Nat /\ x \in Nat
    BY <1>2
  <2>2. <<y, x>> \in OpToRel(<, Nat)
    BY <2>1 DEF OpToRel
  <2> QED BY <1>1, <2>2
<1>3. \E z \in S : \A y \in S : z <= y
  BY <1>2
<1> QED BY <1>3, Zenon DEF Least

LEMMA GreatestIsLast ==
  ASSUME NEW S, S \subseteq Nat, IsFiniteSet(S), S # {}
  PROVE  Greatest(S) \in S /\ \A y \in S : Greatest(S) >= y
<1> S \subseteq Int
  OBVIOUS
<1>1. \E x \in S : \A y \in S : x >= y
  BY GreatestExists
<1> QED BY <1>1, Zenon DEF Greatest

-----------------------------------------------------------------------------
(* The IMAP sessions.                                                      *)

(* What holds of the mails of one session: a STORE of \Deleted works on    *)
(* mails it has named, and no session writes back a mark that was not made *)
(* on purpose.                                                             *)
Named(b, id) == b \in Kept => <<b, id>> \in marked

SessionType ==
  [pc : {"idle", "each", "write", "flag"}, selected : Boxes \cup {NoBox},
   op : {"none", "fetch", "mark", "unmark", "other", "copy"}, todo : SUBSET Nat,
   row : MailRow \cup {NoRow}, box : Boxes \cup {NoBox}]

SessionOK(c) ==
  /\ c.pc \in {"each", "write"} => c.selected \in Boxes
  /\ c.pc \in {"each", "write"} /\ c.op = "copy" => c.box \in Boxes
  /\ c.pc \in {"write", "flag"} => c.row \in MailRow
  /\ c.pc = "write" => c.row.mailbox = c.selected /\ c.row.id \in c.todo

MarksOnPurpose(c) ==
  /\ c.pc \in {"each", "write"} /\ c.op = "mark" => \A id \in c.todo : Named(c.selected, id)
  /\ c.pc = "flag" /\ c.op = "mark" => Named(c.row.mailbox, c.row.id)
  /\ c.pc = "write" /\ c.row.deleted => Named(c.row.mailbox, c.row.id)

SessionsOK ==
  /\ session \in [Sessions -> SessionType]
  /\ \A s \in Sessions : SessionOK(session[s]) /\ MarksOnPurpose(session[s])

(* Only mails that were named carry the mark.                              *)
DeletedIsNamed == \A r \in mails : r.deleted => Named(r.mailbox, r.id)

(* What clients know is below the counter, so no later mail can contradict *)
(* it.                                                                     *)
KnownIsOld ==
  \A k \in known : k.mailbox \in Kept /\ k.id \in Uid /\ k.id < uidNext[k.mailbox]

ImapInv ==
  /\ StoreInv
  /\ SessionsOK
  /\ DeletedIsNamed
  /\ KnownIsOld
  /\ UidMeansOneMail

(* What one storage call of an IMAP session makes of INBOX and Outbox: the *)
(* mails there are old ones, or have a fresh UID and no mark; and no       *)
(* counter falls.                                                          *)
OldOrFresh ==
  /\ \A x \in mails' : x.mailbox \in Kept =>
        \/ \E r \in mails : r.mailbox = x.mailbox /\ r.id = x.id /\ r.msg = x.msg
        \/ x.id >= uidNext[x.mailbox]
  /\ \A b \in Kept : uidNext'[b] >= uidNext[b]

LEMMA KeptCounters ==
  ASSUME StoreInv, NEW b \in Kept
  PROVE  b \in Boxes /\ b \in DOMAIN uidNext /\ b # "Sent" /\ uidNext[b] \in Uid
BY DEF StoreInv, StoreTypeOK, Integrity, ProtectedStay, Kept, Protected, Boxes

LEMMA InsertIsFresh ==
  ASSUME StoreInv, NEW b \in Boxes, NEW m, uidNext' = Bumped(b),
         mails' = mails \/ mails' = mails \cup {NewRow(b, m)}
  PROVE  OldOrFresh
<1>1. \A x \in DOMAIN uidNext :
         /\ uidNext[x] = EnsureBox(uidNext, b)[x] /\ uidNext[x] <= Bumped(b)[x]
         /\ Bumped(b)[x] \in Uid
  BY EnsuredCounters DEF StoreInv
<1>2. \A c \in Kept : c \in DOMAIN uidNext /\ uidNext[c] \in Uid
  BY KeptCounters
<1>3. \A c \in Kept : uidNext'[c] >= uidNext[c]
  BY <1>1, <1>2 DEF Uid
<1>4. b \in Kept => NewRow(b, m).id >= uidNext[b]
  BY <1>1, <1>2 DEF NewRow, NextUid, Uid
<1>5. NewRow(b, m).mailbox = b
  BY DEF NewRow
<1> QED BY <1>3, <1>4, <1>5 DEF OldOrFresh

LEMMA OthersAreOld ==
  ASSUME StoreInv,
         \/ \E b \in Boxes : MailInsertFails(b)
         \/ \E b, id, f : SetDeleted(b, id, f)
         \/ \E b : MailExpunge(b)
         \/ Reopen
         \/ UNCHANGED storeVars
  PROVE  OldOrFresh
<1> DEFINE Grow == \A c \in Kept : uidNext'[c] >= uidNext[c]
<1>1. \A c \in Kept : c \in DOMAIN uidNext /\ uidNext[c] \in Uid
  BY KeptCounters
<1>2. UNCHANGED uidNext => Grow
  BY <1>1 DEF Uid
<1>3. CASE \E b \in Boxes : MailInsertFails(b)
  <2>1. PICK b \in Boxes : MailInsertFails(b)
    BY <1>3
  <2>2. \A x \in DOMAIN uidNext :
         /\ uidNext[x] = EnsureBox(uidNext, b)[x] /\ uidNext[x] <= Bumped(b)[x]
         /\ Bumped(b)[x] \in Uid
    BY EnsuredCounters DEF StoreInv
  <2>3. uidNext' \in {uidNext, EnsureBox(uidNext, b), Bumped(b)}
    BY <2>1 DEF MailInsertFails, PartOfInsert
  <2>4. Grow
    BY <1>1, <2>2, <2>3 DEF Uid
  <2> QED BY <2>1, <2>4 DEF OldOrFresh, MailInsertFails
<1>4. CASE \E b, id, f : SetDeleted(b, id, f)
  <2>1. UNCHANGED uidNext
    BY <1>4 DEF SetDeleted
  <2>2. \A x \in mails' : \E r \in mails : r.mailbox = x.mailbox /\ r.id = x.id /\ r.msg = x.msg
    <3>1. PICK b, id, f : SetDeleted(b, id, f)
      BY <1>4
    <3>2. \A r \in mails : r \in MailRow
      BY DEF StoreInv, StoreTypeOK
    <3> QED BY <3>1, <3>2 DEF SetDeleted, MailRow
  <2> QED BY <1>2, <2>1, <2>2 DEF OldOrFresh
<1>5. CASE \E b : MailExpunge(b)
  BY <1>2, <1>5 DEF MailExpunge, OldOrFresh
<1>6. CASE Reopen
  <2>1. mails' = mails /\ uidNext' = Lifted(uidNext)
    BY <1>6 DEF Reopen, OpenOn
  <2>2. Grow
    <3> SUFFICES ASSUME NEW c \in Kept PROVE uidNext'[c] >= uidNext[c]
      OBVIOUS
    <3> QED BY <1>1, <2>1, LiftedCounter DEF StoreInv, StoreTypeOK
  <2> QED BY <2>1, <2>2 DEF OldOrFresh
<1>7. CASE UNCHANGED storeVars
  BY <1>2, <1>7 DEF storeVars, OldOrFresh
<1> QED BY <1>3, <1>4, <1>5, <1>6, <1>7

(* What clients knew stays true through such a call.                       *)
LEMMA KnownStaysTrue ==
  ASSUME StoreInv, StoreInv', KnownIsOld, UidMeansOneMail, OldOrFresh, NEW k \in known
  PROVE  /\ k.mailbox \in Kept /\ k.id \in Uid /\ k.id < uidNext'[k.mailbox]
         /\ \A r \in mails' : r.mailbox = k.mailbox /\ r.id = k.id => r.msg = k.msg
<1>1. k.mailbox \in Kept /\ k.id \in Uid /\ k.id < uidNext[k.mailbox]
  BY DEF KnownIsOld
<1>2. uidNext[k.mailbox] \in Uid /\ uidNext'[k.mailbox] \in Uid
  <2>1. \A b \in Kept : uidNext'[b] \in Uid
    BY DEF StoreInv, StoreTypeOK, Integrity, ProtectedStay, Kept
  <2> QED BY <1>1, <2>1, KeptCounters
<1>3. k.id < uidNext'[k.mailbox]
  BY <1>1, <1>2 DEF OldOrFresh, Uid
<1>4. ASSUME NEW r \in mails', r.mailbox = k.mailbox, r.id = k.id PROVE r.msg = k.msg
  <2>1. ~ r.id >= uidNext[r.mailbox]
    BY <1>1, <1>2, <1>4 DEF Uid
  <2>2. \E x \in mails : x.mailbox = r.mailbox /\ x.id = r.id /\ x.msg = r.msg
    BY <1>1, <1>4, <2>1 DEF OldOrFresh
  <2> QED BY <1>4, <2>2 DEF UidMeansOneMail
<1> QED BY <1>1, <1>3, <1>4

LEMMA KnownKept ==
  ASSUME StoreInv, StoreInv', KnownIsOld, UidMeansOneMail, OldOrFresh, UNCHANGED known
  PROVE  KnownIsOld' /\ UidMeansOneMail'
BY KnownStaysTrue DEF KnownIsOld, UidMeansOneMail

(* A client learns of a mail that is there after the step, or was refused. *)
LEMMA KnownLearned ==
  ASSUME StoreInv, StoreInv', KnownIsOld, UidMeansOneMail, OldOrFresh,
         NEW b, NEW id \in Uid, NEW m, Learns(b, id, m),
         \E x \in mails' : x.mailbox = b /\ x.id = id /\ x.msg = m
  PROVE  KnownIsOld' /\ UidMeansOneMail'
<1> DEFINE k0 == [mailbox |-> b, id |-> id, msg |-> m]
<1>1. CASE b \notin Kept
  BY <1>1, KnownKept DEF Learns
<1>2. CASE b \in Kept
  <2>1. known' = known \cup {k0}
    BY <1>2 DEF Learns
  <2>2. id < uidNext'[b]
    <3>1. b # "Sent"
      BY <1>2 DEF Kept
    <3> QED BY <3>1 DEF StoreInv, UidBelowNext
  <2>3. \A r \in mails' : r.mailbox = b /\ r.id = id => r.msg = m
    BY DEF StoreInv, Integrity, UniqueKeys
  <2>4. \A k \in known : /\ k.mailbox \in Kept /\ k.id \in Uid /\ k.id < uidNext'[k.mailbox]
                        /\ \A r \in mails' : r.mailbox = k.mailbox /\ r.id = k.id => r.msg = k.msg
    BY KnownStaysTrue
  <2> QED BY <1>2, <2>1, <2>2, <2>3, <2>4 DEF KnownIsOld, UidMeansOneMail
<1> QED BY <1>1, <1>2

(* Marks are never withdrawn from the history.                             *)
LEMMA OneSession ==
  ASSUME SessionsOK, NEW s \in Sessions, session' \in [Sessions -> SessionType],
         \A t \in Sessions \ {s} : session'[t] = session[t],
         marked \subseteq marked', SessionOK(session[s])', MarksOnPurpose(session[s])'
  PROVE  SessionsOK'
<1> SUFFICES ASSUME NEW t \in Sessions \ {s}
             PROVE  SessionOK(session[t])' /\ MarksOnPurpose(session[t])'
  BY DEF SessionsOK
<1>1. SessionOK(session[t]) /\ MarksOnPurpose(session[t]) /\ session'[t] = session[t]
  BY DEF SessionsOK
<1> QED BY <1>1 DEF SessionOK, MarksOnPurpose, Named

(* A session between commands: nothing is asked of it but its type.        *)
LEMMA SessionRests ==
  ASSUME SessionsOK, NEW s \in Sessions, session' \in [Sessions -> SessionType],
         \A t \in Sessions \ {s} : session'[t] = session[t],
         marked \subseteq marked', session'[s].pc = "idle"
  PROVE  SessionsOK'
BY OneSession DEF SessionOK, MarksOnPurpose

LEMMA FinishRests ==
  ASSUME SessionsOK, NEW s \in Sessions, Finish(s), UNCHANGED marked
  PROVE  SessionsOK'
<1>1. session[s].selected \in Boxes \cup {NoBox}
  BY DEF SessionsOK, SessionType
<1>2. [NewSession EXCEPT !.selected = session[s].selected] \in SessionType
  BY <1>1 DEF NewSession, SessionType
<1>3. /\ session' \in [Sessions -> SessionType]
      /\ \A t \in Sessions \ {s} : session'[t] = session[t]
      /\ session'[s].pc = "idle"
  BY <1>2 DEF Finish, SessionsOK, NewSession
<1> QED BY <1>3, SessionRests

(* A session that goes on to the next mail of its list.                    *)
LEMMA NextMailRests ==
  ASSUME SessionsOK, NEW s \in Sessions, session' \in [Sessions -> SessionType],
         \A t \in Sessions \ {s} : session'[t] = session[t],
         session[s].pc \in {"each", "write"}, session'[s].pc = "each",
         session'[s].todo \subseteq session[s].todo,
         session'[s].selected = session[s].selected, session'[s].op = session[s].op,
         session'[s].box = session[s].box, UNCHANGED marked
  PROVE  SessionsOK'
<1>1. SessionOK(session[s]) /\ MarksOnPurpose(session[s])
  BY DEF SessionsOK
<1>2. SessionOK(session[s])'
  BY <1>1 DEF SessionOK
<1>3. \A id \in session'[s].todo :
         session'[s].op = "mark" /\ session'[s].selected \in Kept
         => <<session'[s].selected, id>> \in marked'
  BY <1>1 DEF MarksOnPurpose, Named
<1>4. MarksOnPurpose(session[s])'
  BY <1>3 DEF MarksOnPurpose, Named
<1> QED BY <1>2, <1>4, OneSession

-----------------------------------------------------------------------------
(* One lemma per command.                                                  *)

LEMMA SelectInv ==
  ASSUME ImapInv, NEW s \in Sessions, NEW b \in Boxes \cup {NoBox}, session[s].pc = "idle",
         session' = [session EXCEPT ![s].selected = b], UNCHANGED <<storeVars, histVars>>
  PROVE  SessionsOK'
<1>1. session[s] \in SessionType /\ UNCHANGED marked
  BY DEF ImapInv, SessionsOK, histVars
<1>2. [session[s] EXCEPT !.selected = b] \in SessionType
  BY <1>1 DEF SessionType
<1>3. /\ session' \in [Sessions -> SessionType]
      /\ \A t \in Sessions \ {s} : session'[t] = session[t]
      /\ session'[s].pc = "idle"
  BY <1>1, <1>2 DEF ImapInv, SessionsOK, SessionType
<1> QED BY <1>1, <1>3, SessionRests DEF ImapInv

LEMMA BeginInv ==
  ASSUME ImapInv, NEW s \in Sessions, NEW uid \in BOOLEAN, NEW set,
         NEW op \in {"fetch", "mark", "unmark", "other", "copy"}, NEW dest \in Boxes \cup {NoBox},
         op = "copy" => dest \in Boxes, Begin(s, op, uid, set, dest)
  PROVE  SessionsOK'
<1> DEFINE b == session[s].selected
           M == Matching(b, uid, set)
           d == [session[s] EXCEPT !.pc = "each", !.op = op, !.box = dest, !.todo = M]
<1>1. session[s] \in SessionType /\ b \in Boxes
  BY DEF ImapInv, SessionsOK, SessionType, Begin
<1>2. M \subseteq Nat
  BY IdsFinite DEF Matching, ImapInv, StoreInv, StoreTypeOK, Uid
<1>3. d \in SessionType /\ d.pc = "each" /\ d.op = op /\ d.box = dest /\ d.todo = M /\ d.selected = b
  <2> HIDE DEF M
  <2> QED BY <1>1, <1>2 DEF SessionType
<1>4. session' = [session EXCEPT ![s] = d]
  BY <1>1 DEF Begin, ImapInv, SessionsOK
<1> HIDE DEF d
<1>5. /\ session' \in [Sessions -> SessionType]
      /\ \A t \in Sessions \ {s} : session'[t] = session[t]
      /\ session'[s] = d
  BY <1>3, <1>4 DEF ImapInv, SessionsOK
<1>6. SessionOK(d)
  BY <1>1, <1>3 DEF SessionOK
<1>7. marked \subseteq marked' /\ (op = "mark" /\ b \in Kept => \A id \in M : <<b, id>> \in marked')
  BY DEF Begin
<1> HIDE DEF M
<1>8. MarksOnPurpose(session[s])'
  BY <1>3, <1>5, <1>7 DEF MarksOnPurpose, Named
<1> QED BY <1>5, <1>6, <1>7, <1>8, OneSession DEF ImapInv

LEMMA FirstOfList ==
  ASSUME ImapInv, NEW s \in Sessions, session[s].todo # {}
  PROVE  Least(session[s].todo) \in session[s].todo
BY LeastIsFirst DEF ImapInv, SessionsOK, SessionType

LEMMA GetInv ==
  ASSUME ImapInv, NEW s \in Sessions, Get(s)
  PROVE  SessionsOK'
<1> DEFINE c == session[s]
           b == c.selected
           id == Least(c.todo)
<1>1. c \in SessionType /\ SessionOK(c) /\ MarksOnPurpose(c) /\ c.pc = "each" /\ b \in Boxes
      /\ id \in c.todo /\ UNCHANGED marked /\ c.todo \in SUBSET Nat
  BY FirstOfList DEF ImapInv, SessionsOK, SessionOK, SessionType, Get
<1>2. CASE session' = [session EXCEPT ![s].todo = @ \ {id}]
  <2> DEFINE d == [c EXCEPT !.todo = @ \ {id}]
  <2>1. session' = [session EXCEPT ![s] = d]
    BY <1>2 DEF ImapInv, SessionsOK
  <2> HIDE DEF id
  <2>2. /\ d \in SessionType /\ d.pc = "each" /\ d.todo = c.todo \ {id} /\ d.selected = b
        /\ d.op = c.op /\ d.box = c.box
    BY <1>1 DEF SessionType
  <2> HIDE DEF d
  <2>3. /\ session' \in [Sessions -> SessionType] /\ session'[s] = d
        /\ \A t \in Sessions \ {s} : session'[t] = session[t]
    BY <2>1, <2>2 DEF ImapInv, SessionsOK
  <2> QED BY <1>1, <2>2, <2>3, NextMailRests DEF ImapInv
<1>3. CASE HasMail(b, id) /\ session' = [session EXCEPT ![s].pc = "write", ![s].row = Mail(b, id)]
  <2> DEFINE r == Mail(b, id)
             d == [c EXCEPT !.pc = "write", !.row = r]
  <2>1. session' = [session EXCEPT ![s] = d]
    BY <1>3 DEF ImapInv, SessionsOK
  <2>2. r \in mails /\ r.mailbox = b /\ r.id = id
    BY <1>3, MailFound
  <2>3. r \in MailRow /\ (r.deleted => Named(r.mailbox, r.id))
    BY <2>2 DEF ImapInv, StoreInv, StoreTypeOK, DeletedIsNamed
  <2> HIDE DEF id, r
  <2>4. /\ d \in SessionType /\ d.pc = "write" /\ d.todo = c.todo /\ d.selected = b
        /\ d.op = c.op /\ d.box = c.box /\ d.row = r
    BY <1>1, <2>3 DEF SessionType
  <2> HIDE DEF d
  <2>5. /\ session' \in [Sessions -> SessionType] /\ session'[s] = d
        /\ \A t \in Sessions \ {s} : session'[t] = session[t]
    BY <2>1, <2>4 DEF ImapInv, SessionsOK
  <2>6. SessionOK(d)
    BY <1>1, <2>2, <2>3, <2>4 DEF SessionOK
  <2>7. MarksOnPurpose(d)
    BY <1>1, <2>2, <2>3, <2>4 DEF MarksOnPurpose, Named
  <2>8. MarksOnPurpose(session[s])'
    BY <1>1, <2>5, <2>7 DEF MarksOnPurpose, Named
  <2> QED BY <1>1, <2>5, <2>6, <2>8, OneSession DEF ImapInv
<1> QED BY <1>2, <1>3 DEF Get

(* The write of a STORE or a COPY is over: the session goes on.            *)
LEMMA WrittenInv ==
  ASSUME ImapInv, NEW s \in Sessions, session[s].pc = "write", UNCHANGED marked,
         session' = [session EXCEPT ![s].pc = "each", ![s].todo = @ \ {session[s].row.id},
                                    ![s].row = NoRow]
  PROVE  SessionsOK'
<1> DEFINE c == session[s]
           id == c.row.id
           d == [c EXCEPT !.pc = "each", !.todo = @ \ {id}, !.row = NoRow]
<1>1. c \in SessionType
  BY DEF ImapInv, SessionsOK
<1>2. session' = [session EXCEPT ![s] = d]
  BY DEF ImapInv, SessionsOK
<1> HIDE DEF id
<1>3. /\ d.pc = "each" /\ d.todo = c.todo \ {id}
      /\ d.selected = c.selected /\ d.op = c.op /\ d.box = c.box
  BY <1>1 DEF SessionType
<1>4. d \in SessionType
  BY <1>1 DEF SessionType
<1> HIDE DEF d
<1>5. /\ session' \in [Sessions -> SessionType] /\ session'[s] = d
      /\ \A t \in Sessions \ {s} : session'[t] = session[t]
  BY <1>2, <1>4 DEF ImapInv, SessionsOK
<1> QED BY <1>3, <1>5, NextMailRests DEF ImapInv

LEMMA AppendInv ==
  ASSUME ImapInv, NEW s \in Sessions, NEW b \in Boxes, NEW m \in Msgs,
         NEW flags \in {"none", "mark", "other"}, AppendMail(s, b, m, flags)
  PROVE  SessionsOK'
<1> DEFINE c == session[s]
           r == NewRow(b, m)
           d == [c EXCEPT !.pc = "flag", !.op = flags, !.row = r]
<1>1. c \in SessionType /\ c.pc = "idle" /\ marked \subseteq marked'
  BY DEF ImapInv, SessionsOK, AppendMail
<1>2. CASE flags = "none"
  <2>1. session' = session
    BY <1>2 DEF AppendMail
  <2> QED BY <1>1, <2>1, SessionRests DEF ImapInv, SessionsOK
<1>3. CASE flags # "none"
  <2>1. session' = [session EXCEPT ![s] = d]
    BY <1>3 DEF AppendMail, ImapInv, SessionsOK
  <2>2. r \in MailRow /\ r.mailbox = b /\ r.id = NextUid(b)
    BY EnsuredCounters DEF NewRow, MailRow, ImapInv, StoreInv
  <2> HIDE DEF r
  <2>3. /\ d \in SessionType /\ d.pc = "flag" /\ d.op = flags /\ d.row = r
    BY <1>1, <1>3, <2>2 DEF SessionType
  <2> HIDE DEF d
  <2>4. /\ session' \in [Sessions -> SessionType] /\ session'[s] = d
        /\ \A t \in Sessions \ {s} : session'[t] = session[t]
    BY <2>1, <2>3 DEF ImapInv, SessionsOK
  <2>5. SessionOK(d)
    BY <2>2, <2>3 DEF SessionOK
  <2>6. flags = "mark" /\ b \in Kept => <<b, NextUid(b)>> \in marked'
    BY DEF AppendMail
  <2>7. MarksOnPurpose(session[s])'
    BY <2>2, <2>3, <2>4, <2>6 DEF MarksOnPurpose, Named
  <2> QED BY <1>1, <2>4, <2>5, <2>7, OneSession DEF ImapInv
<1> QED BY <1>2, <1>3

-----------------------------------------------------------------------------
(* A STORE or an APPEND writes \Deleted only on a mail that was named.     *)

LEMMA MarkIsNamed ==
  ASSUME ImapInv, UNCHANGED marked, NEW r \in MailRow, NEW flag \in BOOLEAN,
         flag => Named(r.mailbox, r.id), SetDeleted(r.mailbox, r.id, flag)
  PROVE  DeletedIsNamed'
<1> SUFFICES ASSUME NEW x \in mails', x.deleted PROVE Named(x.mailbox, x.id)'
  BY DEF DeletedIsNamed
<1>1. PICK y \in mails : x = IF y.mailbox = r.mailbox /\ y.id = r.id
                            THEN [y EXCEPT !.deleted = flag] ELSE y
  BY DEF SetDeleted
<1>2. y \in MailRow
  BY DEF ImapInv, StoreInv, StoreTypeOK
<1>3. CASE y.mailbox = r.mailbox /\ y.id = r.id
  <2>1. x.mailbox = r.mailbox /\ x.id = r.id /\ x.deleted = flag
    BY <1>1, <1>2, <1>3 DEF MailRow
  <2> QED BY <2>1 DEF Named
<1>4. CASE ~ (y.mailbox = r.mailbox /\ y.id = r.id)
  BY <1>1, <1>4 DEF ImapInv, DeletedIsNamed, Named
<1> QED BY <1>3, <1>4

LEMMA OthersAreNamed ==
  ASSUME ImapInv, marked \subseteq marked',
         \A x \in mails' : x \in mails \/ ~ x.deleted
  PROVE  DeletedIsNamed'
BY DEF ImapInv, DeletedIsNamed, Named

(* Marking a mail that is not there changes nothing.                       *)
LEMMA SetDeletedStores ==
  ASSUME NEW b, NEW id, NEW flag \in BOOLEAN, SetDeleted(b, id, flag)
  PROVE  StoreNext \/ UNCHANGED storeVars
<1>1. CASE HasMail(b, id)
  BY <1>1 DEF HasMail, StoreNext
<1>2. CASE ~ HasMail(b, id)
  <2>1. mails' = mails
    BY <1>2 DEF HasMail, SetDeleted
  <2> QED BY <2>1 DEF SetDeleted, storeVars
<1> QED BY <1>1, <1>2

LEMMA MailInsertStores ==
  ASSUME StoreInv, NEW b \in Boxes, NEW m \in Msgs, MailInsert(b, m), ~ InsertCollides(b)
  PROVE  /\ StoreNext
         /\ OldOrFresh
         /\ \A x \in mails' : x \in mails \/ ~ x.deleted
         /\ NextUid(b) \in Uid
         /\ \E x \in mails' : x.mailbox = b /\ x.id = NextUid(b) /\ x.msg = m
<1>1. uidNext' = Bumped(b) /\ mails' = mails \cup {NewRow(b, m)}
  BY DEF MailInsert
<1>2. OldOrFresh
  BY <1>1, InsertIsFresh
<1>3. NextUid(b) \in Uid
  BY EnsuredCounters DEF StoreInv
<1>4. /\ NewRow(b, m).mailbox = b /\ NewRow(b, m).id = NextUid(b)
      /\ NewRow(b, m).msg = m /\ ~ NewRow(b, m).deleted
  BY DEF NewRow
<1>5. StoreNext
  BY DEF StoreNext
<1> QED BY <1>1, <1>2, <1>3, <1>4, <1>5

LEMMA DeliverNewStores ==
  ASSUME StoreInv, NEW m \in Msgs, DeliverNew(m)
  PROVE  /\ StoreNext
         /\ OldOrFresh
         /\ \A x \in mails' : x \in mails \/ ~ x.deleted
<1>1. /\ uidNext' = Bumped(InboundMailbox(m))
      /\ mails' = mails \cup {NewRow(InboundMailbox(m), m)}
  BY DEF DeliverNew
<1>2. OldOrFresh
  BY <1>1, InsertIsFresh, InboxIsBox
<1> QED BY <1>1, <1>2 DEF StoreNext, NewRow

(* One call of the storage, seen by a session: what is to be shown of it.  *)
LEMMA CallKeepsInv ==
  ASSUME ImapInv, StoreNext \/ UNCHANGED storeVars, OldOrFresh, DeletedIsNamed', SessionsOK',
         UNCHANGED known
  PROVE  ImapInv'
<1>1. StoreInv /\ StoreInv' /\ KnownIsOld /\ UidMeansOneMail
  BY StoreStepInv DEF ImapInv
<1>2. KnownIsOld' /\ UidMeansOneMail'
  BY <1>1, KnownKept
<1> QED BY <1>1, <1>2 DEF ImapInv

LEMMA LearningKeepsInv ==
  ASSUME ImapInv, StoreNext \/ UNCHANGED storeVars, OldOrFresh, DeletedIsNamed', SessionsOK',
         NEW b, NEW id \in Uid, NEW m, Learns(b, id, m),
         \E x \in mails' : x.mailbox = b /\ x.id = id /\ x.msg = m
  PROVE  ImapInv'
<1>1. StoreInv /\ StoreInv' /\ KnownIsOld /\ UidMeansOneMail
  BY StoreStepInv DEF ImapInv
<1>2. KnownIsOld' /\ UidMeansOneMail'
  BY <1>1, KnownLearned
<1> QED BY <1>1, <1>2 DEF ImapInv

LEMMA ImapInitInv == ImapInit => ImapInv
<1> SUFFICES ASSUME ImapInit PROVE ImapInv
  OBVIOUS
<1>1. NewSession \in SessionType /\ SessionOK(NewSession) /\ MarksOnPurpose(NewSession)
  BY DEF NewSession, SessionType, SessionOK, MarksOnPurpose
<1>2. SessionsOK
  BY <1>1 DEF ImapInit, SessionsOK
<1>3. mails = {} /\ known = {} /\ StoreInv
  BY StoreInitInv DEF ImapInit, StoreInit
<1> QED BY <1>2, <1>3 DEF ImapInv, DeletedIsNamed, KnownIsOld, UidMeansOneMail

(* The step of the whole: every command is calls of the storage that       *)
(* MailStore allows, and keeps the invariant.                              *)
LEMMA ImapStepInv ==
  ASSUME ImapInv, ImapNext \/ UNCHANGED imapVars
  PROVE  ImapInv' /\ (StoreNext \/ UNCHANGED storeVars)
<1> USE DEF ImapInv
<1> DEFINE Stores == StoreNext \/ UNCHANGED storeVars
<1>1. ASSUME UNCHANGED storeVars, marked \subseteq marked'
      PROVE  DeletedIsNamed' /\ OldOrFresh
  BY <1>1, OthersAreOld, OthersAreNamed DEF storeVars
<1>2. ASSUME NEW s \in Sessions, NEW b \in Boxes \cup {NoBox}, session[s].pc = "idle",
             session' = [session EXCEPT ![s].selected = b], UNCHANGED <<storeVars, histVars>>
      PROVE  ImapInv' /\ Stores
  BY <1>1, <1>2, SelectInv, CallKeepsInv DEF histVars
<1>3. ASSUME NEW s \in Sessions, NEW uid \in BOOLEAN, NEW set,
             NEW op \in {"fetch", "mark", "unmark", "other", "copy"},
             NEW dest \in Boxes \cup {NoBox},
             op = "copy" => dest \in Boxes, Begin(s, op, uid, set, dest)
      PROVE  ImapInv' /\ Stores
  <2>1. UNCHANGED storeVars /\ UNCHANGED known /\ marked \subseteq marked'
    BY <1>3 DEF Begin
  <2> QED BY <1>1, <1>3, <2>1, BeginInv, CallKeepsInv
<1>4. ASSUME NEW s \in Sessions, Get(s)
      PROVE  ImapInv' /\ Stores
  <2>1. UNCHANGED storeVars /\ marked' = marked
    BY <1>4 DEF Get
  <2>2. CASE UNCHANGED known
    BY <1>1, <1>4, <2>1, <2>2, GetInv, CallKeepsInv
  <2>3. CASE \E b, id : HasMail(b, id) /\ Learns(b, id, Mail(b, id).msg)
    <3>1. PICK b, id : HasMail(b, id) /\ Learns(b, id, Mail(b, id).msg)
      BY <2>3
    <3>2. Mail(b, id) \in mails' /\ Mail(b, id).mailbox = b /\ Mail(b, id).id = id /\ id \in Uid
      BY <2>1, <3>1, MailFound DEF storeVars, StoreInv, StoreTypeOK, MailRow
    <3>3. SessionsOK' /\ DeletedIsNamed' /\ OldOrFresh
      BY <1>1, <1>4, <2>1, GetInv
    <3>4. ImapInv'
      BY <2>1, <3>1, <3>2, <3>3, LearningKeepsInv
    <3> QED BY <2>1, <3>4
  <2> QED BY <1>4, <2>2, <2>3 DEF Get
<1>5. ASSUME NEW s \in Sessions, Write(s)
      PROVE  ImapInv' /\ Stores
  <2> DEFINE r == session[s].row
             flag == NewDeleted(session[s].op, r)
  <2>1. /\ session[s].pc = "write" /\ SetDeleted(r.mailbox, r.id, flag)
        /\ UNCHANGED <<known, marked>>
    BY <1>5 DEF Write, histVars
  <2>2. r \in MailRow /\ SessionOK(session[s]) /\ MarksOnPurpose(session[s])
    BY <2>1 DEF SessionsOK, SessionOK
  <2>3. flag \in BOOLEAN
    BY <2>2 DEF NewDeleted, MailRow
  <2>4. flag => Named(r.mailbox, r.id)
    BY <2>1, <2>2 DEF NewDeleted, SessionOK, MarksOnPurpose
  <2>5. Stores /\ OldOrFresh /\ DeletedIsNamed'
    <3> HIDE DEF flag, r
    <3> QED BY <2>1, <2>2, <2>3, <2>4, SetDeletedStores, OthersAreOld, MarkIsNamed
  <2>6. SessionsOK'
    BY <1>5, <2>1, WrittenInv DEF Write
  <2> QED BY <2>1, <2>5, <2>6, CallKeepsInv
<1>6. ASSUME NEW s \in Sessions, WriteFails(s)
      PROVE  ImapInv' /\ Stores
  BY <1>1, <1>6, WrittenInv, CallKeepsInv DEF WriteFails, histVars
<1>7. ASSUME NEW s \in Sessions, Copy(s)
      PROVE  ImapInv' /\ Stores
  <2> DEFINE b == session[s].box
             m == session[s].row.msg
  <2>1. /\ session[s].pc = "write" /\ session[s].op = "copy" /\ ~ InsertCollides(b)
        /\ MailInsert(b, m) /\ Learns(b, NextUid(b), m) /\ UNCHANGED marked
    BY <1>7 DEF Copy
  <2>2. b \in Boxes /\ m \in Msgs
    BY <2>1 DEF SessionsOK, SessionOK, MailRow
  <2>3. SessionsOK'
    BY <1>7, <2>1, WrittenInv DEF Copy
  <2> HIDE DEF b, m
  <2>4. /\ StoreNext /\ OldOrFresh /\ DeletedIsNamed' /\ NextUid(b) \in Uid
        /\ \E x \in mails' : x.mailbox = b /\ x.id = NextUid(b) /\ x.msg = m
    BY <2>1, <2>2, MailInsertStores, OthersAreNamed
  <2>5. ImapInv'
    BY <2>1, <2>3, <2>4, LearningKeepsInv
  <2> QED BY <2>4, <2>5
<1>8. ASSUME NEW s \in Sessions, CopyFails(s)
      PROVE  ImapInv' /\ Stores
  <2>1. session[s].box \in Boxes /\ Finish(s) /\ UNCHANGED <<known, marked>>
    BY <1>8 DEF CopyFails, SessionsOK, SessionOK, histVars
  <2>2. SessionsOK'
    BY <2>1, FinishRests
  <2>3. CASE UNCHANGED storeVars
    BY <1>1, <2>1, <2>2, <2>3, CallKeepsInv
  <2>4. CASE MailInsertFails(session[s].box)
    <3>1. Stores /\ OldOrFresh /\ mails' = mails
      BY <2>1, <2>4, OthersAreOld DEF StoreNext, MailInsertFails
    <3> QED BY <2>1, <2>2, <3>1, OthersAreNamed, CallKeepsInv
  <2> QED BY <1>8, <2>3, <2>4 DEF CopyFails
<1>9. ASSUME NEW s \in Sessions, Done(s) \/ GetFails(s)
      PROVE  ImapInv' /\ Stores
  BY <1>1, <1>9, FinishRests, CallKeepsInv DEF Done, GetFails, histVars
<1>10. ASSUME NEW s \in Sessions, Expunge(s)
       PROVE  ImapInv' /\ Stores
  <2>1. /\ session[s].selected \in Boxes /\ Finish(s) /\ UNCHANGED <<known, marked>>
        /\ MailExpunge(session[s].selected)
    BY <1>10 DEF Expunge, SessionsOK, SessionType, histVars
  <2>2. Stores /\ OldOrFresh /\ mails' \subseteq mails
    BY <2>1, OthersAreOld DEF StoreNext, MailExpunge
  <2> QED BY <2>1, <2>2, FinishRests, OthersAreNamed, CallKeepsInv
<1>11. ASSUME NEW s \in Sessions, NEW b \in Boxes, NEW m \in Msgs,
              NEW flags \in {"none", "mark", "other"}, AppendMail(s, b, m, flags)
       PROVE  ImapInv' /\ Stores
  <2>1. /\ ~ InsertCollides(b) /\ MailInsert(b, m) /\ Learns(b, NextUid(b), m)
        /\ marked \subseteq marked'
    BY <1>11 DEF AppendMail
  <2>2. /\ StoreNext /\ OldOrFresh /\ DeletedIsNamed' /\ NextUid(b) \in Uid
        /\ \E x \in mails' : x.mailbox = b /\ x.id = NextUid(b) /\ x.msg = m
    BY <2>1, MailInsertStores, OthersAreNamed
  <2>3. SessionsOK'
    BY <1>11, AppendInv
  <2>4. ImapInv'
    BY <2>1, <2>2, <2>3, LearningKeepsInv
  <2> QED BY <2>2, <2>4
<1>12. ASSUME NEW s \in Sessions, NEW b \in Boxes, AppendFails(s, b)
       PROVE  ImapInv' /\ Stores
  <2>1. MailInsertFails(b) /\ UNCHANGED <<session, known, marked>>
    BY <1>12 DEF AppendFails, histVars
  <2>2. Stores /\ OldOrFresh /\ mails' = mails
    BY <2>1, OthersAreOld DEF StoreNext, MailInsertFails
  <2>3. SessionsOK'
    BY <2>1 DEF SessionsOK, MarksOnPurpose, Named
  <2> QED BY <2>1, <2>2, <2>3, OthersAreNamed, CallKeepsInv
<1>13. ASSUME NEW s \in Sessions, Flag(s)
       PROVE  ImapInv' /\ Stores
  <2> DEFINE r == session[s].row
             flag == session[s].op = "mark"
  <2>1. session[s].pc = "flag" /\ Finish(s) /\ UNCHANGED <<known, marked>>
    BY <1>13 DEF Flag, histVars
  <2>2. SessionsOK'
    BY <2>1, FinishRests
  <2>3. r \in MailRow /\ flag \in BOOLEAN /\ (flag => Named(r.mailbox, r.id))
    BY <2>1 DEF SessionsOK, SessionOK, MarksOnPurpose
  <2>4. CASE UNCHANGED storeVars
    BY <1>1, <2>1, <2>2, <2>4, CallKeepsInv
  <2>5. CASE SetDeleted(r.mailbox, r.id, flag)
    <3>1. Stores /\ OldOrFresh /\ DeletedIsNamed'
      <4> HIDE DEF flag, r
      <4> QED BY <2>1, <2>3, <2>5, SetDeletedStores, OthersAreOld, MarkIsNamed
    <3> QED BY <2>1, <2>2, <3>1, CallKeepsInv
  <2> QED BY <1>13, <2>4, <2>5 DEF Flag
<1>14. CASE Node
  <2>1. UNCHANGED <<known, marked>>
    BY <1>14 DEF Node, histVars
  <2>2. CASE (\E m \in Msgs : DeliverNew(m)) /\ UNCHANGED session
    <3>1. SessionsOK'
      BY <2>1, <2>2 DEF SessionsOK, MarksOnPurpose, Named
    <3> QED BY <2>1, <2>2, <3>1, DeliverNewStores, OthersAreNamed, CallKeepsInv
  <2>3. CASE Reopen /\ session' = [s \in Sessions |-> NewSession]
    <3>1. NewSession \in SessionType /\ SessionOK(NewSession) /\ NewSession.pc = "idle"
      BY DEF NewSession, SessionType, SessionOK
    <3>2. SessionsOK'
      BY <2>3, <3>1 DEF SessionsOK, MarksOnPurpose
    <3>3. Stores /\ OldOrFresh /\ mails' = mails
      BY <2>3, OthersAreOld DEF StoreNext, Reopen, OpenOn
    <3> QED BY <2>1, <3>2, <3>3, OthersAreNamed, CallKeepsInv
  <2> QED BY <1>14, <2>2, <2>3 DEF Node
<1>15. CASE UNCHANGED imapVars
  <2>1. SessionsOK'
    BY <1>15 DEF imapVars, SessionsOK, MarksOnPurpose, Named
  <2> QED BY <1>1, <1>15, <2>1, CallKeepsInv DEF imapVars
<1>16. ASSUME NEW s \in Sessions, Command(s)
       PROVE  ImapInv' /\ Stores
  <2>1. ClientBoxes \subseteq Boxes
    BY ImapAssumption
  <2>2. CASE \E b \in ClientBoxes : Select(s, b)
    BY <1>2, <2>1, <2>2 DEF Select
  <2>3. CASE CloseBox(s)
    BY <1>2, <2>3 DEF CloseBox
  <2>4. CASE \E b \in ClientBoxes : AppendFails(s, b)
    BY <1>12, <2>1, <2>4
  <2>5. CASE \E op \in {"fetch", "mark", "unmark", "other"}, uid \in BOOLEAN,
               set \in SUBSET (1 .. MaxUid) : Begin(s, op, uid, set, NoBox)
    BY <1>3, <2>5
  <2>6. CASE \E uid \in BOOLEAN, set \in SUBSET (1 .. MaxUid), dest \in ClientBoxes :
               Begin(s, "copy", uid, set, dest)
    BY <1>3, <2>1, <2>6
  <2>7. CASE \E b \in ClientBoxes, m \in Msgs, flags \in {"none", "mark", "other"} :
               AppendMail(s, b, m, flags)
    BY <1>11, <2>1, <2>7
  <2>8. CASE Expunge(s)
    BY <1>10, <2>8
  <2> QED BY <1>16, <2>2, <2>3, <2>4, <2>5, <2>6, <2>7, <2>8 DEF Command
<1>17. ASSUME NEW s \in Sessions, Working(s) \/ GetFails(s) \/ WriteFails(s)
       PROVE  ImapInv' /\ Stores
  BY <1>4, <1>5, <1>6, <1>7, <1>8, <1>9, <1>13, <1>17 DEF Working
<1> QED BY <1>14, <1>15, <1>16, <1>17 DEF ImapNext

THEOREM ImapInvariant == ImapSpec => []ImapInv
<1>1. ImapInv /\ [ImapNext]_imapVars => ImapInv'
  BY ImapStepInv
<1> QED BY ImapInitInv, <1>1, PTL DEF ImapSpec

(* The IMAP server uses the storage as every client of it may: whatever    *)
(* the sessions do, the database behaves as MailStore says, with all that  *)
(* is proved of it there (imap/mod.rs makes no other change to a table).   *)
THEOREM ImapUsesStore == ImapSpec => StoreSpec
<1>1. ImapInit => StoreInit
  BY DEF ImapInit
<1>2. ImapInv /\ [ImapNext]_imapVars => [StoreNext]_storeVars
  BY ImapStepInv
<1> QED BY ImapInvariant, <1>1, <1>2, PTL DEF ImapSpec, StoreSpec

(* A UID a client has been told of never comes to name another mail, for   *)
(* any number of sessions and mails (mails.rs:80).                         *)
THEOREM UidsMeanOneMail == ImapSpec => []UidMeansOneMail
<1>1. ImapInv => UidMeansOneMail
  BY DEF ImapInv
<1> QED BY <1>1, ImapInvariant, PTL

LEMMA ImapCallsAreFresh ==
  ASSUME ImapInv, ImapNext \/ UNCHANGED imapVars
  PROVE  OldOrFresh
<1> USE DEF ImapInv
<1>1. ASSUME UNCHANGED storeVars PROVE OldOrFresh
  BY <1>1, OthersAreOld
<1>2. ASSUME NEW s \in Sessions, Expunge(s) PROVE OldOrFresh
  BY <1>2, OthersAreOld DEF Expunge
<1>3. ASSUME NEW s \in Sessions, Flag(s) \/ Write(s) PROVE OldOrFresh
  BY <1>3, OthersAreOld DEF Flag, Write
<1>4. ASSUME NEW s \in Sessions, Copy(s) \/ CopyFails(s) PROVE OldOrFresh
  <2>1. session[s].pc = "write" /\ session[s].op = "copy"
    BY <1>4 DEF Copy, CopyFails
  <2>2. session[s].box \in Boxes /\ session[s].row.msg \in Msgs
    BY <2>1 DEF SessionsOK, SessionOK, MailRow
  <2> QED BY <1>4, <2>2, MailInsertStores, OthersAreOld DEF Copy, CopyFails
<1>5. ASSUME NEW s \in Sessions, NEW b \in Boxes, AppendFails(s, b) PROVE OldOrFresh
  BY <1>5, OthersAreOld DEF AppendFails
<1>6. ASSUME NEW s \in Sessions, NEW b \in Boxes, NEW m \in Msgs, NEW flags, AppendMail(s, b, m, flags)
      PROVE  OldOrFresh
  BY <1>6, MailInsertStores DEF AppendMail
<1>7. CASE Node
  BY <1>7, DeliverNewStores, OthersAreOld DEF Node
<1>8. ASSUME NEW s \in Sessions, Get(s) \/ Done(s) \/ GetFails(s) \/ WriteFails(s) PROVE OldOrFresh
  BY <1>1, <1>8 DEF Get, Done, GetFails, WriteFails
<1>9. ASSUME NEW s \in Sessions, Command(s) PROVE OldOrFresh
  <2>1. ClientBoxes \subseteq Boxes
    BY ImapAssumption
  <2>2. ASSUME NEW b, Select(s, b) \/ CloseBox(s) PROVE OldOrFresh
    BY <1>1, <2>2 DEF Select, CloseBox
  <2>3. ASSUME NEW op, NEW uid, NEW set, NEW dest, Begin(s, op, uid, set, dest) PROVE OldOrFresh
    BY <1>1, <2>3 DEF Begin
  <2> HIDE DEF ImapInv
  <2> QED BY <1>2, <1>5, <1>6, <1>9, <2>1, <2>2, <2>3 DEF Command
<1> HIDE DEF ImapInv
<1> QED BY <1>1, <1>2, <1>3, <1>4, <1>7, <1>8, <1>9 DEF ImapNext, Working, imapVars

(* A mail keeps its number as long as none is expunged: what comes later   *)
(* has a higher UID than all that is there (mail_list, and the counter of  *)
(* mails::insert).                                                         *)
THEOREM NumbersOfMailsStay == ImapSpec => NumbersStay
<1>1. ASSUME ImapInv, ImapInv', OldOrFresh, NEW b \in Kept, Ids(b) \subseteq Ids(b)',
             NEW id \in Ids(b)
      PROVE  Position(b, id)' = Position(b, id)
  <2>1. b # "Sent" /\ uidNext[b] \in Uid
    BY <1>1, KeptCounters DEF ImapInv
  <2>2. ASSUME NEW i \in Ids(b) PROVE i \in Uid /\ i < uidNext[b]
    <3>1. PICK r \in mails : r.mailbox = b /\ r.id = i
      BY <2>2 DEF Ids
    <3>2. r \in MailRow
      BY <1>1 DEF ImapInv, StoreInv, StoreTypeOK
    <3>3. r.id < uidNext[r.mailbox]
      BY <1>1, <2>1, <3>1 DEF ImapInv, StoreInv, UidBelowNext
    <3> QED BY <3>1, <3>2, <3>3 DEF MailRow
  <2>3. ASSUME NEW i \in Ids(b)', i \notin Ids(b) PROVE i >= uidNext[b]
    <3>1. PICK x \in mails' : x.mailbox = b /\ x.id = i
      BY <2>3 DEF Ids
    <3>2. ~ \E r \in mails : r.mailbox = b /\ r.id = i
      BY <2>3 DEF Ids
    <3> QED BY <1>1, <3>1, <3>2 DEF OldOrFresh
  <2>4. Ids(b)' \subseteq Uid
    BY <1>1 DEF ImapInv, StoreInv, StoreTypeOK, Ids, MailRow
  <2>5. \A i \in Ids(b)' : i <= id => i \in Ids(b)
    BY <1>1, <2>1, <2>2, <2>3, <2>4 DEF Uid
  <2>6. {i \in Ids(b)' : i <= id} = {i \in Ids(b) : i <= id}
    BY <1>1, <2>5
  <2> QED BY <2>6 DEF Position
<1> DEFINE Stay == \A b \in Kept : Ids(b) \subseteq Ids(b)' =>
                     \A id \in Ids(b) : Position(b, id)' = Position(b, id)
<1>2. ASSUME ImapInv, [ImapNext]_imapVars PROVE Stay
  <2>1. ImapInv' /\ OldOrFresh
    BY <1>2, ImapStepInv, ImapCallsAreFresh
  <2> QED BY <1>1, <1>2, <2>1
<1> HIDE DEF Stay
<1>3. ImapInv /\ [ImapNext]_imapVars => [Stay]_imapVars
  BY <1>2
<1>4. ImapSpec => [][Stay]_imapVars
  BY ImapInvariant, <1>3, PTL DEF ImapSpec
<1> QED BY <1>4 DEF NumbersStay, Stay

(* What leaves INBOX or Outbox by a client's EXPUNGE was marked by a client *)
(* (store, imap/mod.rs:256, writes back the flags it has read, never those *)
(* of another mail).                                                       *)
THEOREM ExpungedWereMarked == ImapSpec => ExpungedWasMarked
<1> DEFINE A == \A r \in mails :
                  r.mailbox \in Kept /\ ~ (\E x \in mails' : x.mailbox = r.mailbox /\ x.id = r.id)
                  => <<r.mailbox, r.id>> \in marked
           KeysStay == \A r \in mails : \E x \in mails' : x.mailbox = r.mailbox /\ x.id = r.id
<1>1. ImapInv /\ [ImapNext]_imapVars => [A]_imapVars
  <2> SUFFICES ASSUME ImapInv, ImapNext PROVE A
    OBVIOUS
  <2>1. CASE KeysStay
    BY <2>1
  <2>2. ASSUME NEW b, MailExpunge(b) PROVE A
    <3>1. \A r \in mails : r \in mails' \/ r.deleted
      BY <2>2 DEF MailExpunge
    <3> QED BY <3>1 DEF ImapInv, DeletedIsNamed, Named
  <2>3. ASSUME NEW b, NEW id, NEW f, SetDeleted(b, id, f) PROVE KeysStay
    <3>1. mails \subseteq MailRow
      BY DEF ImapInv, StoreInv, StoreTypeOK
    <3> SUFFICES ASSUME NEW r \in mails
                 PROVE  \E x \in mails' : x.mailbox = r.mailbox /\ x.id = r.id
      OBVIOUS
    <3> DEFINE x == IF r.mailbox = b /\ r.id = id THEN [r EXCEPT !.deleted = f] ELSE r
    <3>2. x \in mails' /\ x.mailbox = r.mailbox /\ x.id = r.id
      BY <2>3, <3>1 DEF SetDeleted, MailRow
    <3> QED BY <3>2
  <2>4. UNCHANGED mails => KeysStay
    OBVIOUS
  <2>5. ASSUME NEW b, NEW m, MailInsert(b, m) PROVE KeysStay
    BY <2>5 DEF MailInsert
  <2>6. ASSUME NEW m, DeliverNew(m) PROVE KeysStay
    BY <2>6 DEF DeliverNew
  <2>7. CASE Node
    BY <2>1, <2>4, <2>6, <2>7 DEF Node, Reopen, OpenOn
  <2>8. ASSUME NEW s \in Sessions, Expunge(s) PROVE A
    BY <2>2, <2>8 DEF Expunge
  <2>9. ASSUME NEW s \in Sessions, Flag(s) PROVE KeysStay
    BY <2>3, <2>4, <2>9 DEF Flag, storeVars
  <2>10. ASSUME NEW s \in Sessions, Write(s) PROVE KeysStay
    BY <2>3, <2>10 DEF Write
  <2>11. ASSUME NEW s \in Sessions, Copy(s) PROVE KeysStay
    BY <2>5, <2>11 DEF Copy
  <2>12. ASSUME NEW s \in Sessions, Get(s) \/ CopyFails(s) \/ Done(s) \/ GetFails(s) \/ WriteFails(s)
         PROVE  KeysStay
    BY <2>4, <2>12 DEF Get, CopyFails, MailInsertFails, Done, GetFails, WriteFails, storeVars
  <2>13. ASSUME NEW s \in Sessions, NEW b, NEW m, NEW flags, AppendMail(s, b, m, flags)
         PROVE  KeysStay
    BY <2>5, <2>13 DEF AppendMail
  <2>14. ASSUME NEW s \in Sessions, NEW b, Select(s, b) \/ CloseBox(s) \/ AppendFails(s, b)
         PROVE  KeysStay
    BY <2>4, <2>14 DEF Select, CloseBox, AppendFails, MailInsertFails, storeVars
  <2>15. ASSUME NEW s \in Sessions, NEW op, NEW uid, NEW set, NEW dest, Begin(s, op, uid, set, dest)
         PROVE  KeysStay
    BY <2>4, <2>15 DEF Begin, storeVars
  <2> HIDE DEF A, KeysStay
  <2>16. ASSUME NEW s \in Sessions, Command(s) PROVE A
    <3>1. CASE \E b \in ClientBoxes : Select(s, b) \/ AppendFails(s, b)
      BY <2>1, <2>14, <3>1
    <3>2. CASE CloseBox(s)
      BY <2>1, <2>14, <3>2
    <3>3. CASE Expunge(s)
      BY <2>8, <3>3
    <3>4. CASE \/ \E op \in {"fetch", "mark", "unmark", "other"}, uid \in BOOLEAN,
                    set \in SUBSET (1 .. MaxUid) : Begin(s, op, uid, set, NoBox)
               \/ \E uid \in BOOLEAN, set \in SUBSET (1 .. MaxUid), dest \in ClientBoxes :
                    Begin(s, "copy", uid, set, dest)
      BY <2>1, <2>15, <3>4
    <3>5. CASE \E b \in ClientBoxes, m \in Msgs, flags \in {"none", "mark", "other"} :
                  AppendMail(s, b, m, flags)
      BY <2>1, <2>13, <3>5
    <3> QED BY <2>16, <3>1, <3>2, <3>3, <3>4, <3>5 DEF Command
  <2>17. ASSUME NEW s \in Sessions, Working(s) \/ GetFails(s) \/ WriteFails(s) PROVE A
    BY <2>1, <2>9, <2>10, <2>11, <2>12, <2>17 DEF Working
  <2> QED BY <2>7, <2>16, <2>17 DEF ImapNext
<1> QED BY ImapInvariant, <1>1, PTL DEF ImapSpec, ExpungedWasMarked

-----------------------------------------------------------------------------
(* Submission and the sender: types, and the use of the storage.           *)

(* The sender has the mail of a queue row in hand.                         *)
Carrying == {"gate", "send", "local", "dequeue", "count", "move"}

TxType == [pc : {"new", "enqueue", "rollback", "expunge", "done", "lost"}, id : Nat,
           todo : SUBSET Dests]

SndType == [pc : {"sleep", "dest", "mail", "drop"} \cup Carrying, dests : SUBSET Dests,
            dest : Dests, pending : SUBSET Nat, id : Nat, msg : Msgs]

OutTypeOK ==
  /\ tx \in [Msgs -> TxType]
  /\ told \in [Msgs -> {"none", "250", "451"}]
  /\ rcpts \in [Msgs -> SUBSET Dests]
  /\ snd \in SndType /\ IsFiniteSet(snd.pending)
  /\ delivered \subseteq Msgs \X Dests /\ cancelled \subseteq Msgs \X Dests
  /\ overtaken \subseteq Msgs /\ faults \in Nat

LEMMA BetweenTyped ==
  ASSUME NEW pc \in {"sleep", "dest", "mail", "drop"} \cup Carrying, NEW D \in SUBSET Dests
  PROVE  /\ Between(pc, D) \in SndType /\ IsFiniteSet(Between(pc, D).pending)
         /\ Between(pc, D).pc = pc /\ Between(pc, D).pending = {} /\ Between(pc, D).id = None
<1>1. (CHOOSE m \in Msgs : TRUE) \in Msgs
  BY OutboundAssumption
<1>2. Between(pc, D) \in SndType
  BY <1>1, OutboundAssumption DEF Between, SndType, None
<1>3. Between(pc, D).pending = {} /\ Between(pc, D).pc = pc /\ Between(pc, D).id = None
  BY DEF Between
<1> QED BY <1>2, <1>3, FS_EmptySet

LEMMA QueuedIdsFinite ==
  ASSUME StoreInv, NEW d
  PROVE  QueuedIds(d) \subseteq Uid /\ IsFiniteSet(QueuedIds(d))
<1> DEFINE f == [r \in mails |-> r.id]
           I == {f[r] : r \in mails}
<1>1. IsFiniteSet(I)
  <2> f = [r \in mails |-> f[r]] /\ DOMAIN f = mails
    OBVIOUS
  <2> HIDE DEF f
  <2> QED BY ImageFinite DEF StoreInv
<1>2. QueuedIds(d) \subseteq I
  BY DEF QueuedIds, StoreInv, Integrity, QueueHasMail, HasMail
<1>3. QueuedIds(d) \subseteq Uid
  BY DEF QueuedIds, StoreInv, StoreTypeOK, QueueRow
<1> QED BY <1>1, <1>2, <1>3, FS_Subset

(* The mails that the previous process left are as many as their UIDs.     *)
LEMMA OutInitStore == Init => StoreInv
<1> SUFFICES ASSUME Init PROVE StoreInv
  OBVIOUS
<1> DEFINE n == Cardinality(Preloaded)
<1>1. n \in Nat
  BY OutboundAssumption, FS_CardinalityType
<1>2. PICK f \in [Preloaded -> 1 .. n] : (\A l, m \in Preloaded : f[l] = f[m] => l = m) /\ PreloadedAs(f)
  BY DEF Init
<1> DEFINE R(m) == [mailbox |-> "Outbox", id |-> f[m], msg |-> m, deleted |-> FALSE]
<1>3. /\ mails = {R(m) : m \in Preloaded}
      /\ queue = {[dest |-> d, mailbox |-> "Outbox", id |-> f[m]] : d \in PreDests, m \in Preloaded}
      /\ uidNext = [b \in Protected |-> IF b = "Outbox" THEN n + 1 ELSE 1]
      /\ inboxSeen = {} /\ clock = 0 /\ arrivals = [m \in Msgs |-> <<>>]
  BY <1>2 DEF PreloadedAs, Init
<1>4. \A m \in Preloaded : m \in Msgs /\ f[m] \in 1 .. n
  BY <1>2, OutboundAssumption
<1> HIDE DEF n
<1>5. "Outbox" \in Boxes /\ "Outbox" \in Protected
  BY DEF Boxes, Protected
<1>6. StoreTypeOK
  <2>0. \A m \in Preloaded : f[m] \in Uid
    BY <1>1, <1>4 DEF Uid
  <2>1. mails \subseteq MailRow
    <3>1. ASSUME NEW m \in Preloaded
          PROVE  [mailbox |-> "Outbox", id |-> f[m], msg |-> m, deleted |-> FALSE] \in MailRow
      BY <1>4, <1>5, <2>0 DEF MailRow
    <3> QED BY <1>3, <3>1
  <2>3. queue \subseteq QueueRow
    BY <1>3, <1>5, <2>0, OutboundAssumption DEF QueueRow
  <2>2. DOMAIN uidNext = Protected /\ uidNext \in [Protected -> Uid]
    BY <1>1, <1>3 DEF Uid
  <2> QED BY <1>3, <2>1, <2>2, <2>3 DEF StoreTypeOK, Boxes
<1>7. IsFiniteSet(mails)
  <2> DEFINE g == [m \in Preloaded |-> R(m)]
  <2>1. g = [m \in Preloaded |-> g[m]] /\ DOMAIN g = Preloaded /\ mails = {g[m] : m \in Preloaded}
    BY <1>3
  <2> HIDE DEF g
  <2> QED BY <2>1, ImageFinite, OutboundAssumption
<1>8. Integrity
  <2>1. UniqueKeys
    <3> SUFFICES ASSUME NEW r \in mails, NEW s \in mails, r.id = s.id PROVE r = s
      BY DEF UniqueKeys
    <3>1. PICK l \in Preloaded, m \in Preloaded : r = R(l) /\ s = R(m)
      BY <1>3
    <3> QED BY <1>2, <3>1
  <2>2. MailsInBoxes /\ ProtectedStay
    BY <1>3, <1>5 DEF MailsInBoxes, ProtectedStay
  <2>3. QueueHasMail
    <3> SUFFICES ASSUME NEW q \in queue PROVE \E r \in mails : r.mailbox = q.mailbox /\ r.id = q.id
      BY DEF QueueHasMail, HasMail
    <3>1. PICK m \in Preloaded : q.mailbox = "Outbox" /\ q.id = f[m]
      BY <1>3
    <3>2. R(m) \in mails /\ R(m).mailbox = "Outbox" /\ R(m).id = f[m]
      BY <1>3
    <3> HIDE DEF R
    <3> QED BY <3>1, <3>2
  <2> QED BY <2>1, <2>2, <2>3 DEF Integrity
<1>9. UidBelowNext
  BY <1>1, <1>3, <1>4, <1>5 DEF UidBelowNext
<1> QED BY <1>6, <1>7, <1>8, <1>9 DEF StoreInv

LEMMA OutInitTyped == Init => OutTypeOK
<1> SUFFICES ASSUME Init PROVE OutTypeOK
  OBVIOUS
<1>1. tx \in [Msgs -> TxType]
  BY DEF Init, At, TxType, None
<1>2. snd = Between("sleep", {})
  BY DEF Init
<1>3. snd \in SndType /\ IsFiniteSet(snd.pending)
  BY <1>2, BetweenTyped
<1> QED BY <1>1, <1>3, OutboundAssumption DEF Init, OutTypeOK

(* What a step of a session makes of its transaction.                      *)
OthersKeepTx(m) == \A n \in Msgs \ {m} : tx'[n] = tx[n]

TxBecomes(m, pc, id, todo) ==
  /\ tx' \in [Msgs -> TxType]
  /\ tx'[m].pc = pc /\ tx'[m].id = id /\ tx'[m].todo = todo
  /\ OthersKeepTx(m)

LEMMA TxSet ==
  ASSUME OutTypeOK, NEW m \in Msgs, NEW c \in TxType, tx' = [tx EXCEPT ![m] = c]
  PROVE  TxBecomes(m, c.pc, c.id, c.todo)
BY DEF OutTypeOK, TxBecomes, OthersKeepTx

LEMMA OverTyped ==
  ASSUME OutTypeOK, NEW m \in Msgs, Over(m)
  PROVE  TxBecomes(m, "done", None, tx[m].todo)
<1> DEFINE c == [tx[m] EXCEPT !.pc = "done", !.id = None]
<1>1. tx[m] \in TxType /\ tx' = [tx EXCEPT ![m] = c]
  BY DEF OutTypeOK, Over
<1>2. c \in TxType /\ c.pc = "done" /\ c.id = None /\ c.todo = tx[m].todo
  BY <1>1 DEF TxType, None
<1> HIDE DEF c
<1>3. TxBecomes(m, c.pc, c.id, c.todo)
  BY <1>1, <1>2, TxSet
<1> QED BY <1>2, <1>3

LEMMA ReplyTyped ==
  ASSUME OutTypeOK, NEW m \in Msgs, NEW code \in {"250", "451"}, Reply(m, code)
  PROVE  /\ TxBecomes(m, "done", None, tx[m].todo)
         /\ told' \in [Msgs -> {"none", "250", "451"}] /\ told'[m] = code
         /\ \A n \in Msgs \ {m} : told'[n] = told[n]
BY OverTyped DEF Reply, OutTypeOK

LEMMA SubmitTyped ==
  ASSUME StoreInv, OutTypeOK, NEW m \in Msgs, Submit(m)
  PROVE  \E R \in SUBSET Dests :
           /\ Cardinality(R) \in 1 .. MaxRcpts
           /\ TxBecomes(m, "enqueue", NextUid("Outbox"), R)
           /\ rcpts' \in [Msgs -> SUBSET Dests] /\ rcpts'[m] = R
           /\ \A n \in Msgs \ {m} : rcpts'[n] = rcpts[n]
<1>1. PICK R \in SUBSET Dests :
         /\ Cardinality(R) \in 1 .. MaxRcpts
         /\ rcpts' = [rcpts EXCEPT ![m] = R]
         /\ tx' = [tx EXCEPT ![m] = [pc |-> "enqueue", id |-> NextUid("Outbox"), todo |-> R]]
  BY DEF Submit
<1> DEFINE c == [pc |-> "enqueue", id |-> NextUid("Outbox"), todo |-> R]
<1>2. "Outbox" \in Boxes
  BY DEF Boxes, Protected
<1>3. c \in TxType /\ c.pc = "enqueue" /\ c.id = NextUid("Outbox") /\ c.todo = R
  BY <1>2, EnsuredCounters DEF TxType, StoreInv, Uid
<1>4. tx' = [tx EXCEPT ![m] = c]
  BY <1>1
<1> HIDE DEF c
<1>5. TxBecomes(m, c.pc, c.id, c.todo)
  BY <1>3, <1>4, TxSet
<1> QED BY <1>1, <1>3, <1>5 DEF OutTypeOK

LEMMA EnqueueTyped ==
  ASSUME OutTypeOK, NEW m \in Msgs, Enqueue(m)
  PROVE  \E d \in tx[m].todo : /\ QueueInsert(d, "Outbox", tx[m].id)
                             /\ TxBecomes(m, "enqueue", tx[m].id, tx[m].todo \ {d})
<1>1. PICK d \in tx[m].todo : QueueInsert(d, "Outbox", tx[m].id) /\ tx' = [tx EXCEPT ![m].todo = @ \ {d}]
  BY DEF Enqueue
<1> DEFINE c == [tx[m] EXCEPT !.todo = @ \ {d}]
<1>2. tx[m] \in TxType /\ tx' = [tx EXCEPT ![m] = c]
  BY <1>1 DEF OutTypeOK
<1>3. c \in TxType /\ c.pc = "enqueue" /\ c.id = tx[m].id /\ c.todo = tx[m].todo \ {d}
  BY <1>2 DEF TxType, Enqueue
<1> HIDE DEF c
<1>4. TxBecomes(m, c.pc, c.id, c.todo)
  BY <1>2, <1>3, TxSet
<1> QED BY <1>1, <1>3, <1>4

LEMMA EnqueueFailsTyped ==
  ASSUME OutTypeOK, NEW m \in Msgs, EnqueueFails(m)
  PROVE  /\ TxBecomes(m, "rollback", tx[m].id, tx[m].todo)
         /\ told' \in [Msgs -> {"none", "250", "451"}] /\ told'[m] = "451"
         /\ \A n \in Msgs \ {m} : told'[n] = told[n]
<1> DEFINE c == [tx[m] EXCEPT !.pc = "rollback"]
<1>1. tx[m] \in TxType /\ tx' = [tx EXCEPT ![m] = c]
  BY DEF OutTypeOK, EnqueueFails, Goto
<1>2. c \in TxType /\ c.pc = "rollback" /\ c.id = tx[m].id /\ c.todo = tx[m].todo
  BY <1>1 DEF TxType
<1> HIDE DEF c
<1>3. TxBecomes(m, c.pc, c.id, c.todo)
  BY <1>1, <1>2, TxSet
<1> QED BY <1>2, <1>3 DEF EnqueueFails, EnqueueRefused, OutTypeOK

LEMMA RollbackDeleteTyped ==
  ASSUME OutTypeOK, NEW m \in Msgs, RollbackDelete(m)
  PROVE  TxBecomes(m, "expunge", tx[m].id, tx[m].todo)
<1> DEFINE c == [tx[m] EXCEPT !.pc = "expunge"]
<1>1. tx[m] \in TxType /\ tx' = [tx EXCEPT ![m] = c]
  BY DEF OutTypeOK, RollbackDelete, Goto
<1>2. c \in TxType /\ c.pc = "expunge" /\ c.id = tx[m].id /\ c.todo = tx[m].todo
  BY <1>1 DEF TxType
<1> HIDE DEF c
<1>3. TxBecomes(m, c.pc, c.id, c.todo)
  BY <1>1, <1>2, TxSet
<1> QED BY <1>2, <1>3

LEMMA RollbackExpungeTyped ==
  ASSUME OutTypeOK, NEW m \in Msgs, RollbackExpunge(m)
  PROVE  TxBecomes(m, "done", None, tx[m].todo)
BY OverTyped DEF RollbackExpunge

LEMMA CrashTyped ==
  ASSUME OutTypeOK, Crash
  PROVE  /\ tx' \in [Msgs -> TxType]
         /\ \A m \in Msgs : tx[m].pc \in {"new", "done"} => tx'[m] = tx[m]
         /\ \A m \in Msgs : tx[m].pc \notin {"new", "done"} =>
               tx'[m].pc = "lost" /\ tx'[m].id = None /\ tx'[m].todo = tx[m].todo
<1> DEFINE l(m) == [tx[m] EXCEPT !.pc = "lost", !.id = None]
<1>1. tx' = [m \in Msgs |-> IF tx[m].pc \in {"new", "done"} THEN tx[m] ELSE l(m)]
  BY DEF Crash
<1>2. ASSUME NEW m \in Msgs
      PROVE  /\ tx[m] \in TxType /\ l(m) \in TxType
             /\ l(m).pc = "lost" /\ l(m).id = None /\ l(m).todo = tx[m].todo
  <2>1. tx[m] \in TxType
    BY DEF OutTypeOK
  <2> QED BY <2>1 DEF TxType, None
<1> HIDE DEF l
<1> QED BY <1>1, <1>2

(* What a step of the sender makes of its state.                           *)
SndTyped == snd \in SndType /\ IsFiniteSet(snd.pending)
SndRests == snd.id = None /\ snd.pending = {}

LEMMA RestTyped ==
  ASSUME NEW pc \in {"sleep", "dest"}, NEW D \in SUBSET Dests, snd' = Between(pc, D)
  PROVE  SndTyped' /\ SndRests' /\ snd'.pc = pc
BY BetweenTyped DEF SndTyped, SndRests

LEMMA GotoTyped ==
  ASSUME OutTypeOK, NEW pc \in Carrying, SndGoto(pc)
  PROVE  /\ SndTyped' /\ snd'.pc = pc /\ snd'.dest = snd.dest /\ snd'.pending = snd.pending
         /\ snd'.id = snd.id /\ snd'.msg = snd.msg
BY DEF OutTypeOK, SndGoto, SndType, SndTyped

LEMMA NextMailTyped ==
  ASSUME OutTypeOK, NextMail
  PROVE  /\ SndTyped' /\ snd'.pc = "mail" /\ snd'.dest = snd.dest
         /\ snd'.pending = snd.pending \ {snd.id} /\ snd'.id = snd.id /\ snd'.msg = snd.msg
<1>1. snd \in SndType /\ IsFiniteSet(snd.pending \ {snd.id})
  BY FS_Subset DEF OutTypeOK
<1> QED BY <1>1 DEF NextMail, SndType, SndTyped

LEMMA NextDestTyped ==
  ASSUME StoreInv, OutTypeOK, NextDest
  PROVE  /\ SndTyped' /\ snd'.pc = "mail" /\ snd'.pending = QueuedIds(snd'.dest)
         /\ snd'.id = snd.id /\ snd'.msg = snd.msg
<1> DEFINE d == Least(snd.dests)
           Q == QueuedIds(d)
<1>1. snd \in SndType /\ snd.dests \in SUBSET Dests
  BY DEF OutTypeOK, SndType
<1>2. d \in Dests
  BY <1>1, LeastIsFirst, OutboundAssumption DEF NextDest
<1>3. Q \in SUBSET Nat /\ IsFiniteSet(Q)
  BY QueuedIdsFinite DEF Uid
<1>4. snd' = [snd EXCEPT !.pc = "mail", !.dests = @ \ {d}, !.dest = d, !.pending = Q]
  BY DEF NextDest
<1> HIDE DEF Q, d
<1>5. SndTyped' /\ snd'.pc = "mail" /\ snd'.pending = Q /\ snd'.dest = d
      /\ snd'.id = snd.id /\ snd'.msg = snd.msg
  BY <1>1, <1>2, <1>3, <1>4 DEF SndType, SndTyped
<1> QED BY <1>5 DEF Q

LEMMA GetMailTyped ==
  ASSUME StoreInv, OutTypeOK, GetMail
  PROVE  /\ SndTyped' /\ snd'.id \in snd.pending /\ snd'.dest = snd.dest
         /\ snd'.pending = snd.pending
         /\ \/ ~ HasMail("Outbox", snd'.id) /\ snd'.pc = "drop" /\ snd'.msg = snd.msg
            \/ /\ HasMail("Outbox", snd'.id) /\ snd'.msg = Mail("Outbox", snd'.id).msg
               /\ snd'.pc = IF snd.dest = Self THEN "local" ELSE "gate"
<1> DEFINE i == Greatest(snd.pending)
           l == Mail("Outbox", i).msg
           n == IF HasMail("Outbox", i) THEN l ELSE snd.msg
           p == IF ~ HasMail("Outbox", i) THEN "drop"
                ELSE IF snd.dest = Self THEN "local" ELSE "gate"
<1>1. snd \in SndType /\ IsFiniteSet(snd.pending) /\ snd.pending \in SUBSET Nat
  BY DEF OutTypeOK, SndType
<1>2. i \in snd.pending
  BY <1>1, GreatestIsLast DEF GetMail
<1>3. n \in Msgs
  <2>1. CASE HasMail("Outbox", i)
    BY <2>1, MailFound DEF StoreInv, StoreTypeOK, MailRow
  <2> QED BY <1>1, <2>1 DEF SndType
<1>4. snd' = [snd EXCEPT !.id = i, !.msg = n, !.pc = p]
  BY DEF GetMail
<1>5. p \in {"drop", "local", "gate"}
  OBVIOUS
<1> HIDE DEF i, n, p
<1>6. SndTyped' /\ snd'.id = i /\ snd'.msg = n /\ snd'.pc = p /\ snd'.dest = snd.dest
      /\ snd'.pending = snd.pending
  BY <1>1, <1>2, <1>3, <1>4, <1>5 DEF SndType, SndTyped, Carrying
<1> QED BY <1>2, <1>6 DEF n, p

-----------------------------------------------------------------------------
(* Every step of Outbound is a step of the storage, or leaves it alone.    *)

LEMMA QueueDeleteStores ==
  ASSUME NEW d, NEW id, QueueDelete(d, "Outbox", id)
  PROVE  StoreNext \/ UNCHANGED storeVars
<1> DEFINE q == [dest |-> d, mailbox |-> "Outbox", id |-> id]
<1>1. CASE q \in queue
  <2>1. QueueDelete(q.dest, "Outbox", q.id)
    OBVIOUS
  <2> QED BY <1>1, <2>1 DEF StoreNext
<1>2. CASE q \notin queue
  BY <1>2 DEF QueueDelete, storeVars
<1> QED BY <1>1, <1>2

LEMMA OutboxMailboxes == "Outbox" \in Boxes /\ "Sent" \in Boxes
BY DEF Boxes, Protected

LEMMA OutStepStores ==
  ASSUME StoreInv, OutTypeOK, Next \/ UNCHANGED vars
  PROVE  StoreNext \/ UNCHANGED storeVars
<1>0. snd.msg \in Msgs
  BY DEF OutTypeOK, SndType
<1>1. ASSUME NEW m \in Msgs, Smtp(m) PROVE StoreNext \/ UNCHANGED storeVars
  <2>1. CASE Submit(m)
    BY <2>1, OutboxMailboxes DEF Submit, StoreNext
  <2>2. CASE SubmitFails(m)
    BY <2>2, OutboxMailboxes DEF SubmitFails, StoreNext
  <2>3. CASE Enqueue(m)
    <3>1. PICK d \in tx[m].todo : QueueInsert(d, "Outbox", tx[m].id)
      BY <2>3, EnqueueTyped
    <3>2. d \in Dests /\ tx[m].id \in Ids("Outbox")
      BY <3>1 DEF OutTypeOK, TxType, QueueInsert, QueueAccepts, HasMail, Ids
    <3> QED BY <3>1, <3>2 DEF StoreNext
  <2>4. CASE EnqueueFails(m)
    BY <2>4 DEF EnqueueFails, EnqueueRefused
  <2>5. CASE RollbackDelete(m)
    BY <2>5, SetDeletedStores DEF RollbackDelete, MailDelete
  <2>6. CASE RollbackExpunge(m)
    BY <2>6, OutboxMailboxes DEF RollbackExpunge, StoreNext
  <2>7. CASE Accept(m)
    BY <2>7 DEF Accept
  <2> QED BY <1>1, <2>1, <2>2, <2>3, <2>4, <2>5, <2>6, <2>7 DEF Smtp
<1>2. CASE Sender
  <2>1. CASE DropOrphan \/ Dequeue
    BY <2>1, QueueDeleteStores DEF DropOrphan, Dequeue
  <2>2. CASE StoreLocally
    BY <1>0, <2>2 DEF StoreLocally, StoreNext
  <2>3. CASE MoveToSent
    <3>1. CASE snd.id \in Ids("Outbox")
      BY <2>3, <3>1 DEF MoveToSent, StoreNext
    <3>2. CASE snd.id \notin Ids("Outbox")
      <4>1. ~ HasMail("Outbox", snd.id)
        BY <3>2 DEF HasMail, Ids
      <4> QED BY <2>3, <4>1 DEF MoveToSent, MailMove
    <3> QED BY <3>1, <3>2
  <2>4. CASE \/ Wake \/ NextDest \/ CycleDone \/ DestDone \/ GetMail \/ GateOpens \/ GateDefers
             \/ SendOk \/ SendLost \/ SendUnconfirmed \/ CountLeft
    BY <2>4 DEF Wake, NextDest, CycleDone, DestDone, GetMail, GateOpens, GateDefers, SendOk,
                SendLost, SendUnconfirmed, CountLeft
  <2> QED BY <1>2, <2>1, <2>2, <2>3, <2>4 DEF Sender
<1>3. CASE Trouble
  BY <1>3, OutboxMailboxes DEF Trouble, StorageErrorEndsCycle, StorageErrorIgnored, Crash, StoreNext
<1>4. CASE LinkUp \/ LinkDown \/ TimePasses \/ UNCHANGED vars
  BY <1>4 DEF LinkUp, LinkDown, TimePasses, StoreNext, vars
<1>5. CASE ClearQueued
  BY <1>5, QueueDeleteStores DEF ClearQueued
<1>6. CASE ClientDeletes
  BY <1>6, SetDeletedStores DEF ClientDeletes
<1>7. CASE ClientExpunges
  BY <1>7, OutboxMailboxes DEF ClientExpunges, StoreNext
<1> QED BY <1>1, <1>2, <1>3, <1>4, <1>5, <1>6, <1>7 DEF Next, NodeActs

-----------------------------------------------------------------------------
(* The types of the rest.                                                  *)

EnvTyped ==
  /\ delivered \subseteq Msgs \X Dests /\ cancelled \subseteq Msgs \X Dests
  /\ overtaken \subseteq Msgs /\ faults \in Nat

TypedParts ==
  /\ tx \in [Msgs -> TxType]
  /\ told \in [Msgs -> {"none", "250", "451"}]
  /\ rcpts \in [Msgs -> SUBSET Dests]
  /\ SndTyped /\ EnvTyped

LEMMA TypedInParts == (OutTypeOK <=> TypedParts) /\ (OutTypeOK' <=> TypedParts')
BY DEF OutTypeOK, TypedParts, SndTyped, EnvTyped

LEMMA FaultTyped ==
  ASSUME OutTypeOK, Fault \/ UNCHANGED envVars
  PROVE  /\ EnvTyped' /\ UNCHANGED <<delivered, cancelled, overtaken>>
         /\ faults' \in Nat /\ faults' >= faults
         /\ Fault => faults' = faults + 1
BY DEF OutTypeOK, Fault, envVars, EnvTyped

LEMMA DeliverTyped ==
  ASSUME OutTypeOK, Deliver, UNCHANGED <<cancelled, overtaken, faults>>
  PROVE  EnvTyped'
BY DEF OutTypeOK, SndType, Deliver, EnvTyped

LEMMA SenderTyped ==
  ASSUME StoreInv, OutTypeOK, Sender
  PROVE  SndTyped' /\ EnvTyped'
<1>0. EnvTyped /\ SndTyped /\ snd \in SndType /\ snd.dests \in SUBSET Dests
  BY TypedInParts DEF TypedParts, SndTyped, SndType
<1>1. UNCHANGED envVars => EnvTyped'
  BY <1>0 DEF envVars, EnvTyped
<1>2. CASE Wake
  <2>1. QueueDests \in SUBSET Dests
    BY DEF QueueDests, StoreInv, StoreTypeOK, QueueRow
  <2> QED BY <1>1, <1>2, <2>1, RestTyped DEF Wake
<1>3. CASE NextDest
  BY <1>1, <1>3, NextDestTyped DEF NextDest
<1>4. CASE CycleDone \/ GateDefers
  BY <1>1, <1>4, RestTyped DEF CycleDone, GateDefers, CycleFails, CycleEnds
<1>5. CASE DestDone
  BY <1>0, <1>1, <1>5, RestTyped DEF DestDone
<1>6. CASE GetMail
  BY <1>1, <1>6, GetMailTyped DEF GetMail
<1>7. CASE DropOrphan \/ SendLost \/ MoveToSent
  BY <1>1, <1>7, NextMailTyped DEF DropOrphan, SendLost, MoveToSent
<1>8. CASE GateOpens \/ Dequeue
  BY <1>1, <1>8, GotoTyped DEF GateOpens, Dequeue, Carrying
<1>9. CASE SendOk \/ StoreLocally
  BY <1>9, GotoTyped, DeliverTyped DEF SendOk, StoreLocally, Carrying
<1>10. CASE SendUnconfirmed
  BY <1>10, NextMailTyped, DeliverTyped DEF SendUnconfirmed
<1>11. CASE CountLeft
  <2>1. SndTyped'
    BY <1>11, GotoTyped, NextMailTyped DEF CountLeft, Carrying
  <2>2. /\ UNCHANGED <<delivered, cancelled, faults>> /\ snd.msg \in Msgs
        /\ overtaken' \subseteq overtaken \cup {snd.msg}
    BY <1>0, <1>11 DEF CountLeft, Overtakes, SndType
  <2> QED BY <1>0, <2>1, <2>2 DEF EnvTyped
<1> QED BY <1>2, <1>3, <1>4, <1>5, <1>6, <1>7, <1>8, <1>9, <1>10, <1>11 DEF Sender

LEMMA SmtpTyped ==
  ASSUME StoreInv, OutTypeOK, NEW m \in Msgs, Smtp(m)
  PROVE  OutTypeOK'
<1>0. /\ EnvTyped /\ SndTyped /\ rcpts \in [Msgs -> SUBSET Dests]
      /\ told \in [Msgs -> {"none", "250", "451"}]
  BY TypedInParts DEF TypedParts
<1>1. (UNCHANGED envVars \/ Fault) => EnvTyped'
  BY FaultTyped
<1>2. UNCHANGED snd => SndTyped'
  BY <1>0 DEF SndTyped
<1>3. CASE Submit(m)
  <2>1. tx' \in [Msgs -> TxType] /\ rcpts' \in [Msgs -> SUBSET Dests]
    BY <1>3, SubmitTyped DEF TxBecomes
  <2> QED BY <1>0, <1>1, <1>2, <1>3, <2>1, TypedInParts DEF TypedParts, Submit
<1>4. CASE SubmitFails(m)
  <2>1. tx' \in [Msgs -> TxType] /\ told' \in [Msgs -> {"none", "250", "451"}]
    BY <1>4, ReplyTyped DEF SubmitFails, TxBecomes
  <2> QED BY <1>0, <1>1, <1>2, <1>4, <2>1, TypedInParts DEF TypedParts, SubmitFails
<1>5. CASE Enqueue(m)
  <2>1. tx' \in [Msgs -> TxType]
    BY <1>5, EnqueueTyped DEF TxBecomes
  <2> QED BY <1>0, <1>1, <1>2, <1>5, <2>1, TypedInParts DEF TypedParts, Enqueue
<1>6. CASE EnqueueFails(m)
  <2>1. tx' \in [Msgs -> TxType] /\ told' \in [Msgs -> {"none", "250", "451"}]
    BY <1>6, EnqueueFailsTyped DEF TxBecomes
  <2> QED BY <1>0, <1>1, <1>2, <1>6, <2>1, TypedInParts DEF TypedParts, EnqueueFails, EnqueueRefused
<1>7. CASE RollbackDelete(m)
  <2>1. tx' \in [Msgs -> TxType]
    BY <1>7, RollbackDeleteTyped DEF TxBecomes
  <2> QED BY <1>0, <1>1, <1>2, <1>7, <2>1, TypedInParts DEF TypedParts, RollbackDelete
<1>8. CASE RollbackExpunge(m)
  <2>1. tx' \in [Msgs -> TxType]
    BY <1>8, RollbackExpungeTyped DEF TxBecomes
  <2> QED BY <1>0, <1>1, <1>2, <1>8, <2>1, TypedInParts DEF TypedParts, RollbackExpunge
<1>9. CASE Accept(m)
  <2>1. tx' \in [Msgs -> TxType] /\ told' \in [Msgs -> {"none", "250", "451"}]
    BY <1>9, ReplyTyped DEF Accept, TxBecomes
  <2> QED BY <1>0, <1>1, <1>2, <1>9, <2>1, TypedInParts DEF TypedParts, Accept
<1> QED BY <1>3, <1>4, <1>5, <1>6, <1>7, <1>8, <1>9 DEF Smtp

LEMMA OutStepTyped ==
  ASSUME StoreInv, OutTypeOK, Next \/ UNCHANGED vars
  PROVE  OutTypeOK'
<1>0. /\ EnvTyped /\ SndTyped /\ rcpts \in [Msgs -> SUBSET Dests] /\ tx \in [Msgs -> TxType]
      /\ told \in [Msgs -> {"none", "250", "451"}]
  BY TypedInParts DEF TypedParts
<1>1. ASSUME UNCHANGED smtpVars, SndTyped', EnvTyped' PROVE OutTypeOK'
  BY <1>0, <1>1, TypedInParts DEF TypedParts, smtpVars
<1>2. UNCHANGED snd => SndTyped'
  BY <1>0 DEF SndTyped
<1>3. CASE \E m \in Msgs : Smtp(m)
  BY <1>3, SmtpTyped
<1>4. CASE Sender
  <2>1. UNCHANGED smtpVars
    BY <1>4 DEF Sender, Wake, NextDest, CycleDone, DestDone, GetMail, DropOrphan, GateOpens,
                GateDefers, SendOk, SendLost, SendUnconfirmed, StoreLocally, Dequeue, CountLeft,
                MoveToSent
  <2> QED BY <1>1, <1>4, <2>1, SenderTyped
<1>5. CASE StorageErrorEndsCycle \/ StorageErrorIgnored
  <2>1. SndTyped'
    BY <1>5, RestTyped, NextMailTyped DEF StorageErrorEndsCycle, StorageErrorIgnored, CycleFails,
                                          CycleEnds
  <2>2. EnvTyped' /\ UNCHANGED smtpVars
    BY <1>5, FaultTyped DEF StorageErrorEndsCycle, StorageErrorIgnored
  <2> QED BY <1>1, <2>1, <2>2
<1>6. CASE Crash
  <2>0. snd' = Between("sleep", {}) /\ {} \in SUBSET Dests
    BY <1>6 DEF Crash
  <2>1. SndTyped'
    BY <2>0, RestTyped
  <2>2. EnvTyped'
    BY <1>6, FaultTyped DEF Crash
  <2>3. tx' \in [Msgs -> TxType]
    BY <1>6, CrashTyped
  <2> QED BY <1>0, <1>6, <2>1, <2>2, <2>3, TypedInParts DEF TypedParts, Crash
<1>7. CASE LinkUp \/ LinkDown \/ ClientExpunges \/ TimePasses \/ UNCHANGED vars
  <2>1. UNCHANGED <<tx, told, rcpts, snd, delivered, cancelled, overtaken, faults>>
    BY <1>7 DEF LinkUp, LinkDown, ClientExpunges, TimePasses, vars, smtpVars, envVars
  <2> QED BY <1>0, <1>1, <1>2, <2>1 DEF EnvTyped, smtpVars
<1>8. CASE ClearQueued
  <2>1. UNCHANGED smtpVars /\ UNCHANGED <<snd, delivered, overtaken, faults>>
    BY <1>8 DEF ClearQueued
  <2>2. PICK q \in queue : cancelled' = cancelled \cup
            {<<r.msg, q.dest>> : r \in {x \in mails : x.mailbox = q.mailbox /\ x.id = q.id}}
    BY <1>8 DEF ClearQueued
  <2>3. q.dest \in Dests /\ \A r \in mails : r.msg \in Msgs
    BY DEF StoreInv, StoreTypeOK, QueueRow, MailRow
  <2>4. cancelled' \subseteq Msgs \X Dests
    BY <1>0, <2>2, <2>3 DEF EnvTyped
  <2> QED BY <1>0, <1>1, <1>2, <2>1, <2>4 DEF EnvTyped
<1>9. CASE ClientDeletes
  <2>1. UNCHANGED smtpVars /\ UNCHANGED <<snd, delivered, overtaken, faults>>
    BY <1>9 DEF ClientDeletes
  <2>2. PICK r \in mails : cancelled' = cancelled \cup {<<r.msg, d>> : d \in rcpts[r.msg]}
    BY <1>9 DEF ClientDeletes
  <2>3. r.msg \in Msgs /\ rcpts[r.msg] \in SUBSET Dests
    BY <1>0 DEF StoreInv, StoreTypeOK, MailRow
  <2>4. cancelled' \subseteq Msgs \X Dests
    BY <1>0, <2>2, <2>3 DEF EnvTyped
  <2> QED BY <1>0, <1>1, <1>2, <2>1, <2>4 DEF EnvTyped
<1> QED BY <1>3, <1>4, <1>5, <1>6, <1>7, <1>8, <1>9 DEF Next, NodeActs, Trouble

THEOREM OutboundInvariant == Spec => [](StoreInv /\ OutTypeOK)
<1>1. StoreInv /\ OutTypeOK /\ [Next]_vars => StoreInv' /\ OutTypeOK'
  BY OutStepStores, OutStepTyped, StoreStepInv
<1> QED BY OutInitStore, OutInitTyped, <1>1, PTL DEF Spec

(* SMTP sessions, the sender, clearing the queue and a client's deletions  *)
(* change the tables only by the calls of MailStore, so that all that is   *)
(* proved of the database holds beneath them.                              *)
THEOREM OutboundUsesStore == Spec => [][StoreNext]_storeVars /\ []StoreInv
<1>1. StoreInv /\ OutTypeOK /\ [Next]_vars => [StoreNext]_storeVars
  BY OutStepStores
<1> QED BY OutboundInvariant, <1>1, PTL DEF Spec

-----------------------------------------------------------------------------
(* From submission to Sent: the inductive invariant.                       *)

InOutbox(id) == {r \in mails : r.mailbox = "Outbox" /\ r.id = id}
QRow(d, id)  == [dest |-> d, mailbox |-> "Outbox", id |-> id]

(* The session of m has recipients left to queue, and will queue them.     *)
Queueing(m) == tx[m].pc = "enqueue" /\ tx[m].todo # {}

(* Where the session of each mail is, and what its client was told.        *)
SessionSteps ==
  \A m \in Msgs :
    /\ tx[m].pc \in {"new", "enqueue"} => told[m] = "none"
    /\ tx[m].pc \in {"rollback", "expunge"} => told[m] = "451"
    /\ tx[m].pc = "new" => rcpts[m] = {}
    /\ told[m] = "250" => tx[m].todo = {}
    /\ tx[m].todo \subseteq rcpts[m]

(* Every id somebody remembers was handed out before the next one.         *)
IdsAreOld ==
  /\ \A m \in Msgs : tx[m].id < uidNext["Outbox"]
  /\ \A id \in snd.pending \cup {snd.id} : id < uidNext["Outbox"]
  /\ \A q \in queue : q.id < uidNext["Outbox"]

(* A mail is in Outbox or in Sent, and there once.                         *)
OneRow ==
  \A r, s \in mails : r.mailbox \in {"Outbox", "Sent"} /\ s.mailbox \in {"Outbox", "Sent"}
                      /\ r.msg = s.msg => r = s

NewIsNowhere == \A r \in mails : r.mailbox \in {"Outbox", "Sent"} => tx[r.msg].pc # "new"

SessionRow ==
  \A m \in Msgs :
    /\ \A r \in InOutbox(tx[m].id) : r.msg = m
    /\ tx[m].pc \in {"enqueue", "rollback"} =>
         \A r \in mails : r.mailbox = "Outbox" /\ r.msg = m => r.id = tx[m].id

(* A row of the queue whose id a mail of Outbox has is that mail's, and    *)
(* the session has put it there: the rows a move took to Sent share their  *)
(* id with no mail of Outbox.                                              *)
QueueForRcpts ==
  \A q \in queue : \A r \in InOutbox(q.id) : q.mailbox = "Outbox" /\ q.dest \in Entered(r.msg)

Untouched == \A m \in Msgs, d \in Dests : <<m, d>> \in delivered => d \in Entered(m)

(* A mail in Outbox is queued for whoever was entered and has not got it.  *)
RowsCovered ==
  \A r \in mails : r.mailbox = "Outbox" =>
     \A d \in Entered(r.msg) : Settled(r.msg, d) \/ QRow(d, r.id) \in queue

(* Only a rollback, or the move that overtakes a session, can take a row   *)
(* away from somebody who still waits for the mail.                        *)
KeptUnlessRefused ==
  \A m \in Msgs \ overtaken : told[m] # "451" =>
     \A d \in Entered(m) : Settled(m, d) \/ Queued(m, d)

DeletedIsCancelled ==
  \A r \in mails : r.mailbox = "Outbox" /\ r.deleted =>
     told[r.msg] = "451" \/ \A d \in rcpts[r.msg] : <<r.msg, d>> \in cancelled

(* How far the rollback of a refused mail that is still there has come: it *)
(* takes two errors, of the enqueueing and of the rollback, to leave it.   *)
RolledBack ==
  \A r \in mails : told[r.msg] = "451" /\ r.mailbox = "Outbox" =>
     /\ tx[r.msg].pc = "rollback" => faults >= 1
     /\ tx[r.msg].pc = "expunge" => faults >= 2 \/ (faults >= 1 /\ r.deleted)
     /\ tx[r.msg].pc = "done" => faults >= 2

(* What the sender remembers of the mail in its hands.  Before the move    *)
(* the queue was empty of it, and whoever has not been overtaken adds no   *)
(* row any more.                                                           *)
SenderKnows ==
  /\ snd.pc \in {"sleep", "dest"} => SndRests
  /\ snd.pc = "mail" => snd.id \notin snd.pending
  /\ snd.pc = "drop" => InOutbox(snd.id) = {}
  /\ snd.pc \in Carrying =>
       /\ snd.dest \in Entered(snd.msg)
       /\ \A r \in mails : r.mailbox = "Outbox" => (r.id = snd.id <=> r.msg = snd.msg)
  /\ snd.pc \in {"dequeue", "count", "move"} => <<snd.msg, snd.dest>> \in delivered
  /\ snd.pc = "move" /\ snd.msg \notin overtaken =>
       ~ Queueing(snd.msg) /\ \A q \in queue : q.mailbox = "Outbox" => q.id # snd.id

(* The snapshot of a destination's rows: those still to come are in the    *)
(* queue, or taken back.                                                   *)
PendingIsWaiting ==
  \A id \in snd.pending \ {snd.id} : \A r \in InOutbox(id) :
     /\ snd.dest \in Entered(r.msg)
     /\ QRow(snd.dest, id) \in queue \/ <<r.msg, snd.dest>> \in cancelled

SndInv == SenderKnows /\ PendingIsWaiting /\ SendingWhatIsQueued
TrailInv ==
  /\ IdsAreOld /\ OneRow /\ NewIsNowhere /\ SessionRow /\ QueueForRcpts
  /\ Untouched /\ RowsCovered /\ KeptUnlessRefused /\ SentMeansSettled
FlagInv == DeletedIsCancelled /\ RolledBack

OutInv == StoreInv /\ OutTypeOK /\ SessionSteps /\ TrailInv /\ SndInv /\ FlagInv

-----------------------------------------------------------------------------
(* What most steps have in common: they settle what they take out of the   *)
(* queue, and let the mails lie that are still queued.                     *)

(* What every step of the storage does, whoever calls it.                  *)
StoreRises == StoreInv' /\ uidNext'["Outbox"] >= uidNext["Outbox"]

Grows ==
  /\ delivered \subseteq delivered' /\ cancelled \subseteq cancelled' /\ overtaken \subseteq overtaken'
  /\ faults' \in Nat /\ faults' >= faults

NewlyDelivered ==
  \A m \in Msgs, d \in Dests : <<m, d>> \in delivered' => <<m, d>> \in delivered \/ d \in Entered(m)

(* The mail of a refused session is gone with its rows.                    *)
Withdrawn(r) == told[r.msg] = "451" /\ ~ \E x \in mails' : x.mailbox = "Outbox" /\ x.id = r.id

LostIsSettled ==
  \A q \in queue \ queue' : \A r \in InOutbox(q.id) :
     <<r.msg, q.dest>> \in delivered' \cup cancelled' \/ Withdrawn(r)

LostToUser ==
  \A q \in queue \ queue' : \A r \in InOutbox(q.id) :
     <<r.msg, q.dest>> \in cancelled' \/ Withdrawn(r)

RowsStay ==
  \A q \in queue \cap queue' : \A r \in InOutbox(q.id) :
     \E x \in mails' : x.mailbox = "Outbox" /\ x.id = r.id /\ x.msg = r.msg

OldRows ==
  \A x \in mails' : x.mailbox \in {"Outbox", "Sent"} =>
     \E r \in mails : r.mailbox = x.mailbox /\ r.id = x.id /\ r.msg = x.msg

(* A step of a session that puts no mail in Outbox and queues none.        *)
TxQuiet ==
  /\ rcpts' = rcpts
  /\ \A m \in Msgs :
       /\ tx'[m].todo = tx[m].todo
       /\ tx'[m].pc = "new" => tx[m].pc = "new"
       /\ tx'[m].id = tx[m].id \/ tx'[m].id = None
       /\ tx'[m].pc \in {"enqueue", "rollback"} =>
            tx[m].pc \in {"enqueue", "rollback"} /\ tx'[m].id = tx[m].id
       /\ tx'[m].pc = "enqueue" => tx[m].pc = "enqueue"
       /\ told[m] = "451" => told'[m] = "451"

(* The sender turns to no mail that is not queued.                         *)
SndQuiet ==
  \A id \in snd'.pending \cup {snd'.id} :
     id \in snd.pending \cup {snd.id, None} \/ \E q \in queue : q.id = id

LEMMA OutboxCounter ==
  /\ StoreInv => uidNext["Outbox"] \in Uid /\ "Outbox" \in DOMAIN uidNext
  /\ StoreInv' => uidNext'["Outbox"] \in Uid /\ "Outbox" \in DOMAIN uidNext'
BY DEF StoreInv, StoreTypeOK, Integrity, ProtectedStay, Protected

LEMMA RowTypes ==
  /\ StoreInv => /\ \A r \in mails : r.msg \in Msgs /\ r.id \in Uid /\ r \in MailRow
                 /\ \A q \in queue : q.dest \in Dests /\ q.id \in Uid /\ q \in QueueRow
  /\ StoreInv' => /\ \A r \in mails' : r.msg \in Msgs /\ r.id \in Uid
                  /\ \A q \in queue' : q.dest \in Dests /\ q.id \in Uid /\ q \in QueueRow
BY DEF StoreInv, StoreTypeOK, MailRow, QueueRow

LEMMA EnteredSame ==
  ASSUME TxQuiet
  PROVE  \A m \in Msgs : Entered(m)' = Entered(m)
BY DEF TxQuiet, Entered

(* A row of the queue that a mail of Outbox has, is written as QRow.       *)
LEMMA RowOfQueue ==
  ASSUME StoreInv, QueueForRcpts, NEW q \in queue, NEW r \in InOutbox(q.id)
  PROVE  q = QRow(q.dest, q.id)
<1>1. q.mailbox = "Outbox" /\ q \in QueueRow
  BY RowTypes DEF QueueForRcpts
<1> QED BY <1>1 DEF QueueRow, QRow

(* Somebody who is settled or queued stays so.                             *)
LEMMA KeptOn ==
  ASSUME StoreInv, QueueForRcpts, NEW m, NEW d, Settled(m, d) \/ Queued(m, d), told[m] # "451",
         Grows, LostIsSettled, RowsStay
  PROVE  <<m, d>> \in delivered' \cup cancelled' \/ Queued(m, d)'
<1>1. CASE Settled(m, d)
  BY <1>1 DEF Settled, Grows
<1>2. CASE Queued(m, d)
  <2>1. PICK q \in queue : Row(m, d, q)
    BY <1>2 DEF Queued
  <2>2. PICK r \in mails : r.msg = m /\ r.mailbox = "Outbox" /\ q.mailbox = "Outbox" /\ r.id = q.id
    BY <2>1 DEF Row
  <2>3. r \in InOutbox(q.id) /\ q.dest = d
    BY <2>1, <2>2 DEF InOutbox, Row
  <2>4. CASE q \in queue'
    BY <2>2, <2>3, <2>4 DEF RowsStay, Queued, Row
  <2>5. CASE q \notin queue'
    BY <2>2, <2>3, <2>5 DEF LostIsSettled, Withdrawn
  <2> QED BY <2>4, <2>5
<1> QED BY <1>1, <1>2

LEMMA QuietStep ==
  ASSUME OutInv, StoreRises, TxQuiet, SndQuiet, Grows, NewlyDelivered, LostIsSettled, RowsStay,
         OldRows, queue' \subseteq queue
  PROVE  TrailInv'
<1> USE DEF OutInv, TrailInv
<1>0. /\ \A x \in mails' : x.msg \in Msgs /\ x.id \in Uid
      /\ \A r \in mails : r.msg \in Msgs /\ r.id \in Uid
      /\ \A m \in Msgs : Entered(m)' = Entered(m)
  BY RowTypes, EnteredSame DEF StoreRises
<1>1. IdsAreOld'
  <2>1. uidNext["Outbox"] \in Uid /\ uidNext'["Outbox"] \in Uid
    BY OutboxCounter DEF StoreRises
  <2>2. \A id \in Nat : id < uidNext["Outbox"] => id < uidNext'["Outbox"]
    BY <2>1 DEF Uid, StoreRises
  <2>3. ASSUME NEW m \in Msgs PROVE tx'[m].id < uidNext'["Outbox"]
    <3>1. tx[m].id \in Nat /\ tx[m].id < uidNext["Outbox"]
      BY DEF OutTypeOK, TxType, IdsAreOld
    <3> QED BY <2>1, <2>2, <3>1 DEF TxQuiet, None, Uid
  <2>4. \A q \in queue : q.id \in Nat /\ q.id < uidNext["Outbox"]
    BY RowTypes DEF IdsAreOld, Uid
  <2>5. ASSUME NEW id \in snd'.pending \cup {snd'.id} PROVE id < uidNext'["Outbox"]
    <3>1. id \in Nat /\ id < uidNext["Outbox"]
      <4>1. CASE id \in snd.pending \cup {snd.id}
        BY <4>1 DEF IdsAreOld, OutTypeOK, SndType
      <4>2. CASE id = None
        BY <2>1, <4>2 DEF None, Uid
      <4>3. CASE \E q \in queue : q.id = id
        BY <2>4, <4>3
      <4> QED BY <2>5, <4>1, <4>2, <4>3 DEF SndQuiet
    <3> QED BY <2>2, <3>1
  <2> QED BY <2>2, <2>3, <2>4, <2>5 DEF IdsAreOld
<1>2. OneRow'
  <2> SUFFICES ASSUME NEW x \in mails', NEW y \in mails', x.msg = y.msg,
                      x.mailbox \in {"Outbox", "Sent"}, y.mailbox \in {"Outbox", "Sent"}
               PROVE  x = y
    BY DEF OneRow
  <2>1. PICK r \in mails : r.mailbox = x.mailbox /\ r.id = x.id /\ r.msg = x.msg
    BY DEF OldRows
  <2>2. PICK s \in mails : s.mailbox = y.mailbox /\ s.id = y.id /\ s.msg = y.msg
    BY DEF OldRows
  <2>3. r = s
    BY <2>1, <2>2 DEF OneRow
  <2> QED BY <2>1, <2>2, <2>3 DEF StoreRises, StoreInv, Integrity, UniqueKeys
<1>3. NewIsNowhere'
  BY <1>0 DEF NewIsNowhere, OldRows, TxQuiet
<1>4. SessionRow'
  <2> SUFFICES ASSUME NEW m \in Msgs, NEW x \in mails', x.mailbox = "Outbox"
               PROVE  /\ x.id = tx'[m].id => x.msg = m
                      /\ tx'[m].pc \in {"enqueue", "rollback"} /\ x.msg = m => x.id = tx'[m].id
    BY DEF SessionRow, InOutbox
  <2>1. PICK r \in mails : r.mailbox = "Outbox" /\ r.id = x.id /\ r.msg = x.msg
    BY DEF OldRows
  <2>2. x.id # None
    BY <1>0 DEF Uid, None
  <2>3. x.id = tx'[m].id => r \in InOutbox(tx[m].id)
    BY <2>1, <2>2 DEF TxQuiet, InOutbox
  <2> QED BY <2>1, <2>3 DEF SessionRow, TxQuiet
<1>5. QueueForRcpts'
  <2> SUFFICES ASSUME NEW q \in queue', NEW x \in mails', x.mailbox = "Outbox", x.id = q.id
               PROVE  q.mailbox = "Outbox" /\ q.dest \in rcpts'[x.msg] \ tx'[x.msg].todo
    BY DEF QueueForRcpts, InOutbox, Entered
  <2>1. PICK r \in mails : r.mailbox = "Outbox" /\ r.id = x.id /\ r.msg = x.msg
    BY DEF OldRows
  <2>2. q.mailbox = "Outbox" /\ q.dest \in Entered(r.msg)
    BY <2>1 DEF InOutbox, QueueForRcpts
  <2> QED BY <1>0, <2>1, <2>2 DEF Entered
<1>6. Untouched'
  BY <1>0 DEF Untouched, NewlyDelivered
<1>7. RowsCovered'
  <2> SUFFICES ASSUME NEW x \in mails', x.mailbox = "Outbox", NEW d \in rcpts'[x.msg] \ tx'[x.msg].todo
               PROVE  <<x.msg, d>> \in delivered' \cup cancelled' \/ QRow(d, x.id) \in queue'
    BY DEF RowsCovered, Settled, Entered, QRow
  <2>1. PICK r \in mails : r.mailbox = "Outbox" /\ r.id = x.id /\ r.msg = x.msg
    BY DEF OldRows
  <2>2. d \in Entered(r.msg)
    BY <1>0, <2>1 DEF Entered
  <2>3. CASE Settled(r.msg, d)
    BY <2>1, <2>3 DEF Settled, Grows
  <2>4. CASE QRow(d, r.id) \in queue
    <3>1. CASE QRow(d, r.id) \in queue'
      BY <2>1, <3>1
    <3>2. CASE QRow(d, r.id) \notin queue'
      <4>1. r \in InOutbox(QRow(d, r.id).id) /\ QRow(d, r.id).dest = d
        BY <2>1 DEF InOutbox, QRow
      <4> QED BY <2>1, <2>4, <3>2, <4>1 DEF LostIsSettled, Withdrawn
    <3> QED BY <3>1, <3>2
  <2> QED BY <2>1, <2>2, <2>3, <2>4 DEF RowsCovered
<1>8. KeptUnlessRefused'
  <2> SUFFICES ASSUME NEW m \in Msgs, m \notin overtaken', told'[m] # "451",
                      NEW d \in rcpts'[m] \ tx'[m].todo
               PROVE  <<m, d>> \in delivered' \cup cancelled' \/ Queued(m, d)'
    BY DEF KeptUnlessRefused, Settled, Entered
  <2>1. m \notin overtaken /\ told[m] # "451" /\ d \in Entered(m)
    BY <1>0 DEF Grows, TxQuiet, Entered
  <2>2. Settled(m, d) \/ Queued(m, d)
    BY <2>1 DEF KeptUnlessRefused
  <2> QED BY <2>1, <2>2, KeptOn
<1>9. SentMeansSettled'
  <2> SUFFICES ASSUME NEW x \in mails', x.mailbox = "Sent", x.msg \notin overtaken',
                      NEW d \in rcpts'[x.msg] \ tx'[x.msg].todo
               PROVE  <<x.msg, d>> \in delivered' \cup cancelled'
    BY DEF SentMeansSettled, Settled, Entered
  <2>1. PICK r \in mails : r.mailbox = "Sent" /\ r.id = x.id /\ r.msg = x.msg
    BY DEF OldRows
  <2>2. d \in Entered(r.msg) /\ r.msg \notin overtaken
    BY <1>0, <2>1 DEF Grows, Entered
  <2> QED BY <2>1, <2>2 DEF SentMeansSettled, Settled, Grows
<1> QED BY <1>1, <1>2, <1>3, <1>4, <1>5, <1>6, <1>7, <1>8, <1>9

(* Steps that leave the tables and the sessions alone.                     *)
LEMMA NoCallStep ==
  ASSUME OutInv, StoreRises, UNCHANGED <<mails, queue>>, UNCHANGED smtpVars, SndQuiet, Grows,
         NewlyDelivered
  PROVE  SessionSteps' /\ TrailInv' /\ FlagInv'
<1>1. UNCHANGED <<mails, queue, tx, told, rcpts>>
  BY DEF smtpVars
<1>2. SessionSteps'
  BY <1>1 DEF OutInv, SessionSteps
<1>3. TxQuiet
  BY <1>1 DEF TxQuiet
<1>4. LostIsSettled /\ RowsStay /\ OldRows
  BY <1>1 DEF LostIsSettled, RowsStay, OldRows, InOutbox
<1>5. TrailInv'
  BY <1>1, <1>3, <1>4, QuietStep
<1>6. DeletedIsCancelled'
  BY <1>1 DEF OutInv, FlagInv, DeletedIsCancelled, Grows
<1>7. RolledBack'
  BY <1>1 DEF OutInv, FlagInv, OutTypeOK, RolledBack, Grows
<1> QED BY <1>2, <1>5, <1>6, <1>7 DEF FlagInv

(* The rows of Outbox keep their flags.                                    *)
LEMMA FlagsKept ==
  ASSUME OutInv, UNCHANGED <<tx, told, rcpts>>, Grows,
         \A x \in mails' : x.mailbox = "Outbox" => x \in mails
  PROVE  FlagInv'
<1>1. DeletedIsCancelled'
  BY DEF OutInv, FlagInv, DeletedIsCancelled, Grows
<1>2. RolledBack'
  BY DEF OutInv, FlagInv, OutTypeOK, RolledBack, Grows
<1> QED BY <1>1, <1>2 DEF FlagInv

(* The others step while the sender works: sessions enter recipients, but  *)
(* a new row of the mail in its hands is added only by a session that is   *)
(* still queueing it.                                                      *)
LEMMA SenderKept ==
  ASSUME OutInv, StoreInv', UNCHANGED <<snd, overtaken>>, Grows, LostToUser,
         \A m \in Msgs : /\ Entered(m) \subseteq Entered(m)'
                         /\ Queueing(m)' => Queueing(m) \/ tx[m].pc = "new"
                         /\ told[m] = "451" => told'[m] = "451",
         \A x \in mails' : x.mailbox = "Outbox" =>
            \/ \E r \in mails : r.mailbox = "Outbox" /\ r.id = x.id /\ r.msg = x.msg
            \/ tx[x.msg].pc = "new" /\ x.id \notin snd.pending \cup {snd.id},
         \A q \in queue' \ queue : q.id = snd.id /\ snd.pc = "move" => Queueing(snd.msg)
  PROVE  SndInv'
<1> USE DEF OutInv, SndInv
<1>0. /\ snd.msg \in Msgs /\ \A x \in mails' : x.msg \in Msgs
      /\ snd.pc \in Carrying => tx[snd.msg].pc # "new"
  BY RowTypes DEF OutTypeOK, SndType, SenderKnows, Entered, SessionSteps
<1>1. SenderKnows'
  <2>1. snd.pc \in {"sleep", "dest"} => SndRests'
    BY DEF SenderKnows, SndRests
  <2>2. snd.pc = "drop" => InOutbox(snd.id)' = {}
    BY DEF SenderKnows, InOutbox
  <2>3. snd.pc \in Carrying => snd.dest \in Entered(snd.msg)'
    BY <1>0 DEF SenderKnows
  <2>4. snd.pc \in Carrying =>
          \A x \in mails' : x.mailbox = "Outbox" => (x.id = snd.id <=> x.msg = snd.msg)
    BY <1>0 DEF SenderKnows
  <2>5. snd.pc = "move" /\ snd.msg \notin overtaken =>
          ~ Queueing(snd.msg)' /\ \A q \in queue' : q.mailbox = "Outbox" => q.id # snd.id
    BY <1>0 DEF SenderKnows, Carrying
  <2>6. snd.pc \in {"dequeue", "count", "move"} => <<snd.msg, snd.dest>> \in delivered'
    BY DEF SenderKnows, Grows
  <2>7. snd.pc = "mail" => snd.id \notin snd.pending
    BY DEF SenderKnows
  <2> QED BY <2>1, <2>2, <2>3, <2>4, <2>5, <2>6, <2>7 DEF SenderKnows, InOutbox, Entered, Queueing
<1>2. PendingIsWaiting'
  <2> SUFFICES ASSUME NEW id \in snd.pending \ {snd.id}, NEW x \in mails', x.mailbox = "Outbox", x.id = id
               PROVE  /\ snd.dest \in rcpts'[x.msg] \ tx'[x.msg].todo
                      /\ QRow(snd.dest, id) \in queue' \/ <<x.msg, snd.dest>> \in cancelled'
    BY DEF PendingIsWaiting, InOutbox, Entered, QRow
  <2>1. PICK r \in mails : r.mailbox = "Outbox" /\ r.id = id /\ r.msg = x.msg
    OBVIOUS
  <2>2. /\ r \in InOutbox(id) /\ snd.dest \in Entered(r.msg)
        /\ QRow(snd.dest, id) \in queue \/ <<r.msg, snd.dest>> \in cancelled
    BY <2>1 DEF PendingIsWaiting, InOutbox
  <2>3. QRow(snd.dest, id).id = id /\ QRow(snd.dest, id).dest = snd.dest
    BY DEF QRow
  <2>4. QRow(snd.dest, id) \in queue' \/ <<x.msg, snd.dest>> \in cancelled'
    BY <2>1, <2>2, <2>3 DEF LostToUser, Withdrawn, Grows
  <2> QED BY <1>0, <2>1, <2>2, <2>4 DEF Entered
<1>3. SendingWhatIsQueued'
  <2> SUFFICES ASSUME snd.pc \in {"gate", "send", "local", "dequeue"}, QRow(snd.dest, snd.id) \notin queue',
                      told'[snd.msg] # "451"
               PROVE  <<snd.msg, snd.dest>> \in cancelled'
    BY DEF SendingWhatIsQueued, QRow
  <2>1. told[snd.msg] # "451"
    BY <1>0
  <2>2. CASE QRow(snd.dest, snd.id) \in queue
    <3>1. QRow(snd.dest, snd.id).id = snd.id /\ QRow(snd.dest, snd.id).dest = snd.dest
          /\ QRow(snd.dest, snd.id).mailbox = "Outbox"
      BY DEF QRow
    <3>2. PICK r \in InOutbox(snd.id) : TRUE
      BY <2>2, <3>1 DEF StoreInv, Integrity, QueueHasMail, HasMail, InOutbox
    <3>3. r.msg = snd.msg
      BY <3>2 DEF SenderKnows, Carrying, InOutbox
    <3> QED BY <2>1, <2>2, <3>1, <3>2, <3>3 DEF LostToUser, Withdrawn
  <2>3. CASE QRow(snd.dest, snd.id) \notin queue
    BY <2>1, <2>3 DEF SendingWhatIsQueued, Grows, QRow
  <2> QED BY <2>2, <2>3
<1> QED BY <1>1, <1>2, <1>3

(* The sender between two destinations, and between two mails.             *)
LEMMA RestKeeps ==
  ASSUME snd'.pc \in {"sleep", "dest"}, SndRests'
  PROVE  SndInv'
BY DEF SndInv, SenderKnows, SndRests, Carrying, PendingIsWaiting, SendingWhatIsQueued

LEMMA NextMailKeeps ==
  ASSUME OutInv, NextMail, UNCHANGED smtpVars, cancelled \subseteq cancelled',
         \A x \in mails' : x.mailbox = "Outbox" => x \in mails,
         \A id \in snd.pending \ {snd.id} : QRow(snd.dest, id) \in queue => QRow(snd.dest, id) \in queue'
  PROVE  SndInv'
<1>1. /\ snd'.pc = "mail" /\ snd'.pending = snd.pending \ {snd.id} /\ snd'.id = snd.id
      /\ snd'.dest = snd.dest
  BY NextMailTyped DEF OutInv
<1>2. UNCHANGED <<tx, rcpts>>
  BY DEF smtpVars
<1>3. PendingIsWaiting'
  BY <1>1, <1>2 DEF OutInv, SndInv, PendingIsWaiting, InOutbox, Entered, QRow
<1>4. SenderKnows' /\ SendingWhatIsQueued'
  BY <1>1 DEF SenderKnows, SendingWhatIsQueued, Carrying
<1> QED BY <1>3, <1>4 DEF SndInv

(* The sender goes on with the mail in its hands.                          *)
LEMMA GotoKeeps ==
  ASSUME OutInv, NEW pc \in Carrying, SndGoto(pc), snd.pc \in Carrying,
         UNCHANGED smtpVars, cancelled \subseteq cancelled',
         \A x \in mails' : x.mailbox = "Outbox" => x \in mails,
         \A id : id # snd.id /\ QRow(snd.dest, id) \in queue => QRow(snd.dest, id) \in queue',
         pc \in {"dequeue", "count", "move"} => <<snd.msg, snd.dest>> \in delivered',
         pc = "move" /\ snd.msg \notin overtaken' =>
            ~ Queueing(snd.msg) /\ \A q \in queue' : q.mailbox = "Outbox" => q.id # snd.id,
         pc \in {"gate", "send", "local", "dequeue"} =>
            snd.pc \in {"gate", "send", "local", "dequeue"} /\ queue' = queue
  PROVE  SndInv'
<1> USE DEF OutInv, SndInv
<1>1. /\ snd'.pc = pc /\ snd'.dest = snd.dest /\ snd'.pending = snd.pending
      /\ snd'.id = snd.id /\ snd'.msg = snd.msg
  BY GotoTyped
<1>2. UNCHANGED <<tx, told, rcpts>>
  BY DEF smtpVars
<1>3. SenderKnows'
  BY <1>1, <1>2 DEF SenderKnows, InOutbox, Carrying, Entered, Queueing
<1>4. PendingIsWaiting'
  <2> SUFFICES ASSUME NEW id \in snd.pending \ {snd.id}, NEW x \in mails', x.mailbox = "Outbox", x.id = id
               PROVE  /\ snd.dest \in Entered(x.msg)
                      /\ QRow(snd.dest, id) \in queue' \/ <<x.msg, snd.dest>> \in cancelled'
    BY <1>1, <1>2 DEF PendingIsWaiting, InOutbox, Entered, QRow
  <2>1. /\ x \in InOutbox(id) /\ snd.dest \in Entered(x.msg)
        /\ QRow(snd.dest, id) \in queue \/ <<x.msg, snd.dest>> \in cancelled
    BY DEF PendingIsWaiting, InOutbox
  <2> QED BY <2>1
<1>5. SendingWhatIsQueued'
  BY <1>1, <1>2 DEF SendingWhatIsQueued
<1> QED BY <1>3, <1>4, <1>5

-----------------------------------------------------------------------------
(* The steps of the sender that only read.                                 *)

PathKept == SessionSteps' /\ TrailInv' /\ FlagInv' /\ SndInv'

LEMMA EnvGrows ==
  ASSUME OutTypeOK, UNCHANGED envVars \/ Fault
  PROVE  Grows /\ NewlyDelivered /\ UNCHANGED <<delivered, cancelled, overtaken>>
BY FaultTyped DEF OutTypeOK, Grows, NewlyDelivered, envVars

LEMMA DeliverGrows ==
  ASSUME OutInv, Deliver, UNCHANGED <<cancelled, overtaken, faults>>, snd.pc \in Carrying
  PROVE  Grows /\ NewlyDelivered /\ <<snd.msg, snd.dest>> \in delivered'
<1>1. snd.dest \in Entered(snd.msg) /\ faults \in Nat
  BY DEF OutInv, SndInv, SenderKnows, OutTypeOK
<1>2. delivered' = delivered \cup {<<snd.msg, snd.dest>>}
  BY DEF Deliver
<1>3. Grows /\ <<snd.msg, snd.dest>> \in delivered'
  BY <1>1, <1>2 DEF Grows
<1>4. NewlyDelivered
  <2> SUFFICES ASSUME NEW m \in Msgs, NEW d \in Dests, <<m, d>> \in delivered', <<m, d>> \notin delivered
               PROVE  d \in Entered(m)
    BY DEF NewlyDelivered
  <2>1. m = snd.msg /\ d = snd.dest
    BY <1>2
  <2> QED BY <1>1, <2>1
<1> QED BY <1>3, <1>4

LEMMA RestStep ==
  ASSUME OutInv, StoreRises, UNCHANGED storeVars, UNCHANGED smtpVars, UNCHANGED envVars \/ Fault,
         \E D \in SUBSET Dests, pc \in {"sleep", "dest"} : snd' = Between(pc, D)
  PROVE  PathKept
<1>1. Grows /\ NewlyDelivered
  BY EnvGrows DEF OutInv
<1>2. SndRests' /\ snd'.pc \in {"sleep", "dest"}
  BY RestTyped
<1>3. SndQuiet
  BY <1>2 DEF SndQuiet, SndRests
<1>4. SessionSteps' /\ TrailInv' /\ FlagInv'
  BY <1>1, <1>3, NoCallStep DEF storeVars
<1> QED BY <1>2, <1>4, RestKeeps DEF PathKept

LEMMA NextMailStep ==
  ASSUME OutInv, StoreRises, UNCHANGED storeVars, UNCHANGED smtpVars, Grows, NewlyDelivered, NextMail
  PROVE  PathKept
<1>1. snd'.pending = snd.pending \ {snd.id} /\ snd'.id = snd.id
  BY NextMailTyped DEF OutInv
<1>2. SndQuiet
  BY <1>1 DEF SndQuiet
<1>3. SessionSteps' /\ TrailInv' /\ FlagInv'
  BY <1>2, NoCallStep DEF storeVars
<1>4. SndInv'
  BY NextMailKeeps DEF storeVars, Grows
<1> QED BY <1>3, <1>4 DEF PathKept

LEMMA GotoStep ==
  ASSUME OutInv, StoreRises, NEW pc \in Carrying, SndGoto(pc), snd.pc \in Carrying,
         UNCHANGED storeVars, UNCHANGED smtpVars, Grows, NewlyDelivered,
         pc \in {"dequeue", "count", "move"} => <<snd.msg, snd.dest>> \in delivered',
         pc = "move" /\ snd.msg \notin overtaken' =>
            ~ Queueing(snd.msg) /\ \A q \in queue : q.mailbox = "Outbox" => q.id # snd.id,
         pc \in {"gate", "send", "local", "dequeue"} => snd.pc \in {"gate", "send", "local", "dequeue"}
  PROVE  PathKept
<1>1. snd'.pending = snd.pending /\ snd'.id = snd.id
  BY GotoTyped DEF OutInv
<1>2. SndQuiet
  BY <1>1 DEF SndQuiet
<1>3. SessionSteps' /\ TrailInv' /\ FlagInv'
  BY <1>2, NoCallStep DEF storeVars
<1>4. SndInv'
  BY GotoKeeps DEF storeVars, Grows
<1> QED BY <1>3, <1>4 DEF PathKept

LEMMA NextDestStep ==
  ASSUME OutInv, StoreRises, NextDest
  PROVE  PathKept
<1> USE DEF OutInv
<1>1. /\ UNCHANGED storeVars /\ UNCHANGED smtpVars /\ UNCHANGED envVars /\ snd.pc = "dest"
      /\ UNCHANGED <<mails, queue, tx, rcpts>>
  BY DEF NextDest, storeVars, smtpVars
<1>2. Grows /\ NewlyDelivered
  BY <1>1, EnvGrows
<1>3. /\ snd'.pc = "mail" /\ snd'.pending = QueuedIds(snd'.dest) /\ snd'.id = snd.id
  BY NextDestTyped
<1>4. snd.id = None
  BY <1>1 DEF SndInv, SenderKnows, SndRests
<1>5. \A id \in QueuedIds(snd'.dest) : id # None /\ \E q \in queue : q.id = id /\ q.dest = snd'.dest
  BY QueuedIdsFinite DEF QueuedIds, Uid, None
<1>6. SndQuiet
  BY <1>3, <1>4, <1>5 DEF SndQuiet
<1>7. SessionSteps' /\ TrailInv' /\ FlagInv'
  BY <1>1, <1>2, <1>6, NoCallStep
<1>8. PendingIsWaiting'
  <2> SUFFICES ASSUME NEW id \in snd'.pending, NEW r \in InOutbox(id)
               PROVE  snd'.dest \in Entered(r.msg) /\ QRow(snd'.dest, id) \in queue
    BY <1>1 DEF PendingIsWaiting, InOutbox, Entered, QRow
  <2>1. PICK q \in queue : q.id = id /\ q.dest = snd'.dest
    BY <1>3, <1>5
  <2>2. r \in InOutbox(q.id)
    BY <2>1
  <2>3. q.dest \in Entered(r.msg)
    BY <2>2 DEF TrailInv, QueueForRcpts
  <2>4. q = QRow(q.dest, q.id)
    BY <2>2, RowOfQueue DEF TrailInv
  <2> QED BY <2>1, <2>3, <2>4
<1>9. SenderKnows' /\ SendingWhatIsQueued'
  BY <1>3, <1>4, <1>5 DEF SenderKnows, SendingWhatIsQueued, Carrying
<1> QED BY <1>7, <1>8, <1>9 DEF SndInv, PathKept

LEMMA GetMailStep ==
  ASSUME OutInv, StoreRises, GetMail
  PROVE  PathKept
<1> USE DEF OutInv
<1> DEFINE id == snd'.id
           r == Mail("Outbox", id)
<1>1. UNCHANGED storeVars /\ UNCHANGED smtpVars /\ UNCHANGED envVars /\ snd.pc = "mail"
  BY DEF GetMail
<1>2. Grows /\ NewlyDelivered /\ UNCHANGED <<delivered, cancelled, mails, queue, tx, told, rcpts>>
  BY <1>1, EnvGrows DEF storeVars, smtpVars
<1>3. /\ id \in snd.pending /\ snd'.dest = snd.dest /\ snd'.pending = snd.pending
      /\ \/ ~ HasMail("Outbox", id) /\ snd'.pc = "drop" /\ snd'.msg = snd.msg
         \/ /\ HasMail("Outbox", id) /\ snd'.msg = r.msg
            /\ snd'.pc = IF snd.dest = Self THEN "local" ELSE "gate"
  BY GetMailTyped
<1>4. snd.id \notin snd.pending
  BY <1>1 DEF SndInv, SenderKnows
<1>5. SndQuiet
  BY <1>3 DEF SndQuiet
<1>6. SessionSteps' /\ TrailInv' /\ FlagInv'
  BY <1>1, <1>2, <1>5, NoCallStep
<1>7. \A x \in InOutbox(id) : /\ snd.dest \in Entered(x.msg)
                              /\ QRow(snd.dest, id) \in queue \/ <<x.msg, snd.dest>> \in cancelled
  BY <1>3, <1>4 DEF SndInv, PendingIsWaiting
<1>8. PendingIsWaiting'
  <2> SUFFICES ASSUME NEW i \in snd.pending, NEW x \in mails, x.mailbox = "Outbox", x.id = i
               PROVE  /\ snd.dest \in Entered(x.msg)
                      /\ QRow(snd.dest, i) \in queue \/ <<x.msg, snd.dest>> \in cancelled
    BY <1>2, <1>3 DEF PendingIsWaiting, InOutbox, Entered, QRow
  <2>1. x \in InOutbox(i) /\ i \in snd.pending \ {snd.id}
    BY <1>4 DEF InOutbox
  <2> QED BY <2>1 DEF SndInv, PendingIsWaiting
<1>9. CASE ~ HasMail("Outbox", id)
  <2>1. snd'.pc = "drop" /\ {x \in mails' : x.mailbox = "Outbox" /\ x.id = snd'.id} = {}
    BY <1>2, <1>3, <1>9 DEF HasMail
  <2>2. SenderKnows' /\ SendingWhatIsQueued'
    BY <2>1 DEF SenderKnows, SendingWhatIsQueued, Carrying, InOutbox
  <2> QED BY <1>6, <1>8, <2>2 DEF SndInv, PathKept
<1>10. CASE HasMail("Outbox", id)
  <2>1. r \in mails /\ r.mailbox = "Outbox" /\ r.id = id /\ r \in InOutbox(id)
    BY <1>10, MailFound DEF InOutbox
  <2>2. snd'.msg = r.msg /\ snd'.pc \in {"local", "gate"}
    BY <1>3, <1>10
  <2>3. \A x \in mails : x.mailbox = "Outbox" => (x.id = id <=> x.msg = r.msg)
    <3>1. \A x \in mails : x.mailbox = "Outbox" /\ x.id = id => x = r
      BY <2>1 DEF StoreInv, Integrity, UniqueKeys
    <3>2. \A x \in mails : x.mailbox = "Outbox" /\ x.msg = r.msg => x = r
      BY <2>1 DEF TrailInv, OneRow
    <3> QED BY <2>1, <3>1, <3>2
  <2>4. snd.dest \in Entered(r.msg) /\ (QRow(snd.dest, id) \in queue \/ <<r.msg, snd.dest>> \in cancelled)
    BY <1>7, <2>1
  <2> HIDE DEF r, id
  <2>5. SenderKnows'
    BY <1>2, <1>3, <2>2, <2>3, <2>4 DEF SenderKnows, InOutbox, Carrying, Entered, id
  <2>6. SendingWhatIsQueued'
    BY <1>2, <1>3, <2>2, <2>4 DEF SendingWhatIsQueued, QRow, id
  <2> QED BY <1>6, <1>8, <2>5, <2>6 DEF SndInv, PathKept
<1> QED BY <1>9, <1>10

(* count_by_mail says that no row of Outbox is left for the mail.          *)
LEMMA CountIsRight ==
  ASSUME StoreInv, NEW id, QueueCount("Outbox", id) = 0
  PROVE  \A q \in queue : q.mailbox = "Outbox" => q.id # id
<1> DEFINE Q == {q \in queue : q.mailbox = "Outbox" /\ q.id = id}
           f == [d \in Dests |-> QRow(d, id)]
           F == {f[d] : d \in Dests}
<1>1. IsFiniteSet(F)
  <2> f = [d \in Dests |-> f[d]] /\ DOMAIN f = Dests
    OBVIOUS
  <2> HIDE DEF f
  <2> QED BY ImageFinite, OutboundAssumption
<1>2. ASSUME NEW q \in Q PROVE q \in F
  <2>1. q \in QueueRow /\ q.mailbox = "Outbox" /\ q.id = id
    BY RowTypes
  <2>2. q.dest \in Dests /\ q = f[q.dest]
    BY <2>1 DEF QueueRow, QRow
  <2> QED BY <2>2
<1>3. IsFiniteSet(Q)
  <2> HIDE DEF Q, F
  <2> QED BY <1>1, <1>2, FS_Subset
<1>4. Q = {}
  <2>1. Cardinality(Q) = 0
    BY DEF QueueCount
  <2> HIDE DEF Q
  <2> QED BY <1>3, <2>1, FS_EmptySet
<1> QED BY <1>4

(* The count finds nobody: a session that is still queueing is overtaken.  *)
LEMMA CountLeftStep ==
  ASSUME OutInv, StoreRises, CountLeft
  PROVE  PathKept
<1>1. /\ UNCHANGED storeVars /\ UNCHANGED smtpVars /\ snd.pc = "count" /\ snd.pc \in Carrying
      /\ UNCHANGED <<delivered, cancelled, faults>>
  BY DEF CountLeft, Carrying
<1>2. overtaken \subseteq overtaken'
  BY DEF CountLeft, Overtakes
<1>3. Grows /\ NewlyDelivered
  BY <1>1, <1>2 DEF Grows, NewlyDelivered, OutInv, OutTypeOK
<1>4. CASE QueueCount("Outbox", snd.id) = 0 /\ SndGoto("move") /\ Overtakes
  <2>1. \A q \in queue : q.mailbox = "Outbox" => q.id # snd.id
    BY <1>4, CountIsRight DEF OutInv
  <2>2. snd.msg \notin overtaken' => ~ Queueing(snd.msg)
    BY <1>4 DEF Overtakes, Queueing
  <2>3. <<snd.msg, snd.dest>> \in delivered'
    BY <1>1 DEF OutInv, SndInv, SenderKnows
  <2> QED BY <1>1, <1>3, <1>4, <2>1, <2>2, <2>3, GotoStep DEF Carrying
<1>5. CASE NextMail
  BY <1>1, <1>3, <1>5, NextMailStep
<1> QED BY <1>4, <1>5 DEF CountLeft

LEMMA SenderReadsStep ==
  ASSUME OutInv, StoreRises,
         \/ Wake \/ NextDest \/ CycleDone \/ DestDone \/ GetMail \/ GateOpens \/ GateDefers
         \/ SendOk \/ SendLost \/ SendUnconfirmed \/ CountLeft
         \/ StorageErrorEndsCycle \/ StorageErrorIgnored
  PROVE  PathKept
<1>0. snd.dests \in SUBSET Dests /\ QueueDests \in SUBSET Dests /\ {} \in SUBSET Dests
  BY DEF OutInv, OutTypeOK, SndType, QueueDests, StoreInv, StoreTypeOK, QueueRow
<1>1. (UNCHANGED envVars \/ Fault) => Grows /\ NewlyDelivered
  BY EnvGrows DEF OutInv
<1>2. CASE Wake \/ CycleDone \/ DestDone \/ GateDefers \/ StorageErrorEndsCycle
  <2>1. UNCHANGED storeVars /\ UNCHANGED smtpVars /\ (UNCHANGED envVars \/ Fault)
    BY <1>2 DEF Wake, CycleDone, DestDone, GateDefers, StorageErrorEndsCycle
  <2>2. \E D \in SUBSET Dests, pc \in {"sleep", "dest"} : snd' = Between(pc, D)
    BY <1>0, <1>2 DEF Wake, CycleDone, DestDone, GateDefers, StorageErrorEndsCycle, CycleFails,
                      CycleEnds
  <2> QED BY <2>1, <2>2, RestStep
<1>3. CASE NextDest \/ GetMail \/ CountLeft
  BY <1>3, NextDestStep, GetMailStep, CountLeftStep
<1>4. CASE GateOpens
  BY <1>1, <1>4, GotoStep DEF GateOpens, Carrying
<1>5. CASE SendOk
  <2>1. snd.pc = "send" /\ snd.pc \in Carrying /\ Deliver /\ SndGoto("dequeue")
        /\ UNCHANGED storeVars /\ UNCHANGED smtpVars /\ UNCHANGED <<cancelled, overtaken, faults>>
    BY <1>5 DEF SendOk, Carrying
  <2> QED BY <2>1, DeliverGrows, GotoStep DEF Carrying
<1>6. CASE SendUnconfirmed
  <2>1. snd.pc \in Carrying /\ Deliver /\ NextMail
        /\ UNCHANGED storeVars /\ UNCHANGED smtpVars /\ UNCHANGED <<cancelled, overtaken, faults>>
    BY <1>6 DEF SendUnconfirmed, Carrying
  <2> QED BY <2>1, DeliverGrows, NextMailStep
<1>7. CASE SendLost \/ StorageErrorIgnored
  BY <1>1, <1>7, NextMailStep DEF SendLost, StorageErrorIgnored
<1> QED BY <1>2, <1>3, <1>4, <1>5, <1>6, <1>7

-----------------------------------------------------------------------------
(* The steps of the sender that write.                                     *)

LEMMA OutboxMailboxesApart ==
  ASSUME NEW m \in Msgs
  PROVE  InboundMailbox(m) \notin {"Outbox", "Sent"} /\ InboundMailbox(m) \in Boxes
BY InboxIsBox, StoreAssumption DEF InboundMailbox, Protected

LEMMA TxUnchanged ==
  ASSUME UNCHANGED smtpVars
  PROVE  TxQuiet /\ (SessionSteps => SessionSteps') /\ UNCHANGED <<tx, told, rcpts>>
BY DEF smtpVars, TxQuiet, SessionSteps

(* A queue row is removed whose recipient is settled, or whose mail is gone.*)
LEMMA QueueDeleteStep ==
  ASSUME OutInv, StoreRises, NEW d, NEW id, QueueDelete(d, "Outbox", id), UNCHANGED smtpVars, SndQuiet,
         Grows, UNCHANGED delivered,
         \A r \in InOutbox(id) : <<r.msg, d>> \in delivered' \cup cancelled'
  PROVE  SessionSteps' /\ TrailInv' /\ FlagInv'
<1> USE DEF OutInv
<1>1. /\ queue' = queue \ {QRow(d, id)}
      /\ UNCHANGED <<uidNext, mails>>
  BY DEF QueueDelete, QRow
<1>2. LostIsSettled
  <2> SUFFICES ASSUME NEW q \in queue \ queue', NEW r \in InOutbox(q.id)
               PROVE  <<r.msg, q.dest>> \in delivered' \cup cancelled'
    BY DEF LostIsSettled
  <2>1. q.dest = d /\ q.id = id
    BY <1>1 DEF QRow
  <2> QED BY <2>1
<1>3. RowsStay /\ OldRows /\ NewlyDelivered
  BY <1>1 DEF RowsStay, OldRows, InOutbox, NewlyDelivered
<1>4. TrailInv'
  BY <1>1, <1>2, <1>3, TxUnchanged, QuietStep
<1>5. FlagInv'
  BY <1>1, TxUnchanged, FlagsKept
<1> QED BY <1>4, <1>5, TxUnchanged

LEMMA DropOrphanStep ==
  ASSUME OutInv, StoreRises, DropOrphan
  PROVE  PathKept
<1> USE DEF OutInv
<1>1. /\ snd.pc = "drop" /\ QueueDelete(snd.dest, "Outbox", snd.id) /\ NextMail
      /\ UNCHANGED smtpVars /\ UNCHANGED envVars
  BY DEF DropOrphan
<1>2. Grows /\ UNCHANGED <<delivered, cancelled>>
  BY <1>1, EnvGrows
<1>3. snd'.pending = snd.pending \ {snd.id} /\ snd'.id = snd.id
  BY <1>1, NextMailTyped
<1>4. SndQuiet
  BY <1>3 DEF SndQuiet
<1>5. InOutbox(snd.id) = {}
  BY <1>1 DEF SndInv, SenderKnows
<1>6. SessionSteps' /\ TrailInv' /\ FlagInv'
  BY <1>1, <1>2, <1>4, <1>5, QueueDeleteStep
<1>7. mails' = mails /\ queue' = queue \ {QRow(snd.dest, snd.id)}
  BY <1>1 DEF QueueDelete, QRow
<1>8. \A id : id # snd.id /\ QRow(snd.dest, id) \in queue => QRow(snd.dest, id) \in queue'
  BY <1>7 DEF QRow
<1>9. SndInv'
  BY <1>1, <1>2, <1>7, <1>8, NextMailKeeps
<1> QED BY <1>6, <1>9 DEF PathKept

LEMMA DequeueStep ==
  ASSUME OutInv, StoreRises, Dequeue
  PROVE  PathKept
<1> USE DEF OutInv
<1>1. /\ snd.pc = "dequeue" /\ QueueDelete(snd.dest, "Outbox", snd.id) /\ SndGoto("count")
      /\ UNCHANGED smtpVars /\ UNCHANGED envVars /\ snd.pc \in Carrying
  BY DEF Dequeue, Carrying
<1>2. Grows /\ UNCHANGED <<delivered, cancelled>>
  BY <1>1, EnvGrows
<1>3. snd'.pending = snd.pending /\ snd'.id = snd.id
  BY <1>1, GotoTyped DEF Carrying
<1>4. SndQuiet
  BY <1>3 DEF SndQuiet
<1>5. /\ \A r \in InOutbox(snd.id) : r.msg = snd.msg
      /\ <<snd.msg, snd.dest>> \in delivered
  BY <1>1 DEF SndInv, SenderKnows, InOutbox
<1>6. SessionSteps' /\ TrailInv' /\ FlagInv'
  BY <1>1, <1>2, <1>4, <1>5, QueueDeleteStep
<1>7. mails' = mails /\ queue' = queue \ {QRow(snd.dest, snd.id)}
  BY <1>1 DEF QueueDelete, QRow
<1>8. \A id : id # snd.id /\ QRow(snd.dest, id) \in queue => QRow(snd.dest, id) \in queue'
  BY <1>7 DEF QRow
<1>9. SndInv'
  BY <1>1, <1>2, <1>5, <1>7, <1>8, GotoKeeps DEF Carrying
<1> QED BY <1>6, <1>9 DEF PathKept

LEMMA StoreLocallyStep ==
  ASSUME OutInv, StoreRises, StoreLocally
  PROVE  PathKept
<1> USE DEF OutInv
<1>1. /\ snd.pc = "local" /\ snd.pc \in Carrying /\ Deliver /\ SndGoto("dequeue")
      /\ DeliverNew(snd.msg) \/ UNCHANGED storeVars
      /\ UNCHANGED smtpVars /\ UNCHANGED <<cancelled, overtaken, faults>> /\ snd.msg \in Msgs
  BY DEF StoreLocally, Carrying, OutTypeOK, SndType
<1>2. Grows /\ NewlyDelivered /\ <<snd.msg, snd.dest>> \in delivered'
  BY <1>1, DeliverGrows
<1>3. CASE UNCHANGED storeVars
  BY <1>1, <1>2, <1>3, GotoStep DEF Carrying
<1>4. CASE DeliverNew(snd.msg)
  <2> DEFINE b == InboundMailbox(snd.msg)
             n == NewRow(b, snd.msg)
  <2>1. /\ mails' = mails \cup {n} /\ queue' = queue
    BY <1>4 DEF DeliverNew
  <2>2. n.mailbox = b /\ b \notin {"Outbox", "Sent"} /\ b \in Boxes
    BY <1>1, OutboxMailboxesApart DEF NewRow
  <2> HIDE DEF n
  <2>3. LostIsSettled /\ RowsStay /\ OldRows
    BY <2>1, <2>2 DEF LostIsSettled, RowsStay, OldRows, InOutbox
  <2>4. snd'.pending = snd.pending /\ snd'.id = snd.id
    BY <1>1, GotoTyped DEF Carrying
  <2>5. SndQuiet
    BY <2>4 DEF SndQuiet
  <2>6. TrailInv'
    BY <1>1, <1>2, <2>1, <2>3, <2>5, TxUnchanged, QuietStep
  <2>7. FlagInv'
    BY <1>1, <1>2, <2>1, <2>2, TxUnchanged, FlagsKept
  <2>8. SndInv'
    BY <1>1, <1>2, <2>1, <2>2, GotoKeeps DEF Grows, Carrying
  <2> QED BY <1>1, <2>6, <2>7, <2>8, TxUnchanged DEF PathKept
<1> QED BY <1>1, <1>3, <1>4

(* The move: a session that was overtaken may have rows left in the queue, *)
(* and they go to Sent with the mail.                                      *)
LEMMA MoveToSentStep ==
  ASSUME OutInv, StoreRises, MoveToSent
  PROVE  PathKept
<1> USE DEF OutInv
<1>1. /\ snd.pc = "move" /\ MailMove("Outbox", "Sent", snd.id) /\ NextMail
      /\ UNCHANGED smtpVars /\ UNCHANGED envVars
  BY DEF MoveToSent
<1>2. Grows /\ NewlyDelivered /\ UNCHANGED <<delivered, cancelled, overtaken>>
  BY <1>1, EnvGrows
<1>3. /\ snd'.pending = snd.pending \ {snd.id} /\ snd'.id = snd.id /\ snd'.dest = snd.dest
  BY <1>1, NextMailTyped
<1>4. /\ snd.msg \notin overtaken => \A q \in queue : q.mailbox = "Outbox" => q.id # snd.id
      /\ \A r \in InOutbox(snd.id) : r.msg = snd.msg
  BY <1>1 DEF SndInv, SenderKnows, Carrying, InOutbox
<1>5. CASE UNCHANGED storeVars
  BY <1>1, <1>2, <1>5, NextMailStep
<1>6. CASE ~ UNCHANGED storeVars
  <2> DEFINE row == Mail("Outbox", snd.id)
             n   == [row EXCEPT !.mailbox = "Sent"]
             tr(q) == IF q.mailbox = "Outbox" /\ q.id = snd.id THEN [q EXCEPT !.mailbox = "Sent"] ELSE q
  <2>1. /\ HasMail("Outbox", snd.id)
        /\ mails' = (mails \ {row}) \cup {n}
        /\ queue' = {tr(q) : q \in queue}
    BY <1>1, <1>6 DEF MailMove
  <2>2. row \in InOutbox(snd.id) /\ row \in mails
    BY <2>1, MailFound DEF InOutbox
  <2>3. /\ row \in MailRow /\ row.msg = snd.msg /\ row.msg \in Msgs
        /\ row.mailbox = "Outbox" /\ row.id = snd.id
    BY <1>4, <2>2 DEF InOutbox, StoreInv, StoreTypeOK, MailRow
  <2>4. n.mailbox = "Sent" /\ n.id = snd.id /\ n.msg = snd.msg
    BY <2>3 DEF MailRow
  <2>5. \A q \in queue : tr(q).id = q.id /\ (q.id # snd.id => tr(q) = q)
    BY RowTypes DEF QueueRow
  <2>6. UNCHANGED <<tx, told, rcpts>> /\ \A m : Entered(m)' = Entered(m)
    BY <1>1 DEF smtpVars, Entered
  <2> HIDE DEF n, row, tr
  <2>7. \A x \in mails' : x.mailbox = "Outbox" => x \in mails /\ x # row /\ x.id # snd.id
    BY <2>1, <2>2, <2>3, <2>4 DEF StoreInv, Integrity, UniqueKeys
  <2>8. /\ \A q \in queue : q.id # snd.id => q \in queue'
        /\ \A q \in queue' : \E p \in queue : p.id = q.id /\ (q.id # snd.id => p = q)
    BY <2>1, <2>5
  <2>9. IdsAreOld'
    <3>1. uidNext' = uidNext
      BY <1>1, <1>6 DEF MailMove
    <3> QED BY <1>3, <2>6, <2>8, <3>1 DEF TrailInv, IdsAreOld
  <2>10. OneRow'
    <3> SUFFICES ASSUME NEW x \in mails', NEW y \in mails', x.msg = y.msg,
                        x.mailbox \in {"Outbox", "Sent"}, y.mailbox \in {"Outbox", "Sent"}
                 PROVE  x = y
      BY DEF OneRow
    <3>1. \A z \in mails : z.msg = snd.msg /\ z.mailbox \in {"Outbox", "Sent"} => z = row
      BY <2>2, <2>3 DEF TrailInv, OneRow
    <3>2. x = n \/ (x \in mails /\ x # row)
      BY <2>1
    <3>3. y = n \/ (y \in mails /\ y # row)
      BY <2>1
    <3> QED BY <2>4, <3>1, <3>2, <3>3 DEF TrailInv, OneRow
  <2>11. NewIsNowhere'
    BY <2>1, <2>2, <2>3, <2>4, <2>6 DEF TrailInv, NewIsNowhere
  <2>12. SessionRow'
    BY <2>6, <2>7 DEF TrailInv, SessionRow, InOutbox
  <2>13. QueueForRcpts'
    <3> SUFFICES ASSUME NEW q \in queue', NEW x \in mails', x.mailbox = "Outbox", x.id = q.id
                 PROVE  q.mailbox = "Outbox" /\ q.dest \in Entered(x.msg)
      BY <2>6 DEF QueueForRcpts, InOutbox
    <3>1. q \in queue /\ x \in InOutbox(q.id)
      BY <2>7, <2>8 DEF InOutbox
    <3> QED BY <3>1 DEF TrailInv, QueueForRcpts
  <2>14. Untouched'
    BY <1>2, <2>6 DEF TrailInv, Untouched
  <2>15. RowsCovered'
    <3> SUFFICES ASSUME NEW x \in mails', x.mailbox = "Outbox", NEW d \in Entered(x.msg)
                 PROVE  Settled(x.msg, d) \/ QRow(d, x.id) \in queue'
      BY <1>2, <2>6 DEF RowsCovered, Settled, QRow
    <3>1. Settled(x.msg, d) \/ QRow(d, x.id) \in queue
      BY <2>7 DEF TrailInv, RowsCovered
    <3>2. QRow(d, x.id).id # snd.id
      BY <2>7 DEF QRow
    <3> QED BY <2>8, <3>1, <3>2
  <2>16. KeptUnlessRefused'
    <3> SUFFICES ASSUME NEW m \in Msgs, m \notin overtaken, told[m] # "451", NEW d \in Entered(m)
                 PROVE  Settled(m, d) \/ Queued(m, d)'
      BY <1>2, <2>6 DEF KeptUnlessRefused, Settled
    <3>1. CASE Settled(m, d)
      BY <3>1
    <3>2. CASE Queued(m, d)
      <4>1. PICK q \in queue, r \in mails :
               q.dest = d /\ r.msg = m /\ r.mailbox = "Outbox" /\ q.mailbox = "Outbox" /\ r.id = q.id
        BY <3>2 DEF Queued, Row
      <4>2. r # row
        BY <1>4, <2>3, <4>1
      <4>3. r \in mails' /\ r.id # snd.id
        BY <2>1, <2>7, <4>1, <4>2
      <4> QED BY <2>8, <4>1, <4>3 DEF Queued, Row
    <3> QED BY <3>1, <3>2 DEF TrailInv, KeptUnlessRefused
  <2>17. SentMeansSettled'
    <3> SUFFICES ASSUME NEW x \in mails', x.mailbox = "Sent", x.msg \notin overtaken, NEW d \in Entered(x.msg)
                 PROVE  Settled(x.msg, d)
      BY <1>2, <2>6 DEF SentMeansSettled, Settled
    <3>1. CASE x \in mails
      BY <3>1 DEF TrailInv, SentMeansSettled
    <3>2. CASE x = n
      <4>1. Settled(snd.msg, d) \/ QRow(d, snd.id) \in queue
        BY <2>2, <2>3, <2>4, <3>2 DEF TrailInv, RowsCovered
      <4> QED BY <1>4, <2>4, <3>2, <4>1 DEF QRow
    <3> QED BY <2>1, <3>1, <3>2
  <2>18. TrailInv'
    BY <2>9, <2>10, <2>11, <2>12, <2>13, <2>14, <2>15, <2>16, <2>17 DEF TrailInv
  <2>19. \A id : id # snd.id /\ QRow(snd.dest, id) \in queue => QRow(snd.dest, id) \in queue'
    BY <2>8 DEF QRow
  <2>20. SndInv'
    BY <1>1, <1>2, <2>7, <2>19, NextMailKeeps
  <2>21. FlagInv'
    BY <1>2, <2>6, <2>7, FlagsKept
  <2> QED BY <1>1, <2>18, <2>20, <2>21, TxUnchanged DEF PathKept
<1> QED BY <1>5, <1>6

-----------------------------------------------------------------------------
(* The rest of the node and the world.                                     *)

(* What the sender has in its hands, when others take rows away.           *)
LEMMA SenderQuiet ==
  ASSUME OutInv, StoreInv', UNCHANGED <<snd, overtaken>>, Grows, LostToUser, TxQuiet, OldRows,
         queue' \subseteq queue
  PROVE  SndInv'
<1>1. \A m \in Msgs : /\ Entered(m) \subseteq Entered(m)'
                      /\ Queueing(m)' => Queueing(m)
                      /\ told[m] = "451" => told'[m] = "451"
  BY EnteredSame DEF TxQuiet, Queueing
<1> QED BY <1>1, SenderKept DEF OldRows

LEMMA WorldStep ==
  ASSUME OutInv, StoreRises,
         UNCHANGED <<mails, queue, smtpVars, snd, delivered, cancelled, overtaken, faults>>
  PROVE  PathKept
<1>1. Grows /\ NewlyDelivered /\ SndQuiet /\ UNCHANGED smtpVars
  BY DEF OutInv, OutTypeOK, Grows, NewlyDelivered, SndQuiet
<1>2. LostToUser /\ OldRows
  BY DEF LostToUser, OldRows
<1>3. SessionSteps' /\ TrailInv' /\ FlagInv'
  BY <1>1, NoCallStep
<1>4. SndInv'
  BY <1>1, <1>2, TxUnchanged, SenderQuiet DEF StoreRises
<1> QED BY <1>3, <1>4 DEF PathKept

(* The user clears a row of the queue: it counts as taken back.  A row the *)
(* move has taken to Sent is not removed, and is nobody's in Outbox.       *)
LEMMA ClearQueuedStep ==
  ASSUME OutInv, StoreRises, ClearQueued
  PROVE  PathKept
<1> USE DEF OutInv
<1>1. PICK q \in queue :
         /\ QueueDelete(q.dest, "Outbox", q.id)
         /\ cancelled' = cancelled \cup
              {<<r.msg, q.dest>> : r \in {x \in mails : x.mailbox = q.mailbox /\ x.id = q.id}}
  BY DEF ClearQueued
<1>2. UNCHANGED smtpVars /\ UNCHANGED <<snd, delivered, overtaken, faults>>
  BY DEF ClearQueued
<1>3. \A r \in InOutbox(q.id) : <<r.msg, q.dest>> \in cancelled'
  <2> SUFFICES ASSUME NEW r \in InOutbox(q.id) PROVE <<r.msg, q.dest>> \in cancelled'
    OBVIOUS
  <2>1. q.mailbox = "Outbox" /\ r \in mails /\ r.mailbox = "Outbox" /\ r.id = q.id
    BY DEF TrailInv, QueueForRcpts, InOutbox
  <2> QED BY <1>1, <2>1
<1>4. Grows /\ SndQuiet
  BY <1>1, <1>2 DEF Grows, OutTypeOK, SndQuiet
<1>5. SessionSteps' /\ TrailInv' /\ FlagInv'
  BY <1>1, <1>2, <1>3, <1>4, QueueDeleteStep
<1>6. queue' = queue \ {QRow(q.dest, q.id)} /\ mails' = mails
  BY <1>1 DEF QueueDelete, QRow
<1>7. LostToUser
  <2> SUFFICES ASSUME NEW p \in queue \ queue', NEW r \in InOutbox(p.id)
               PROVE  <<r.msg, p.dest>> \in cancelled'
    BY DEF LostToUser
  <2>1. p.dest = q.dest /\ p.id = q.id
    BY <1>6 DEF QRow
  <2> QED BY <1>3, <2>1
<1>8. OldRows
  BY <1>6 DEF OldRows
<1>9. SndInv'
  BY <1>2, <1>4, <1>6, <1>7, <1>8, TxUnchanged, SenderQuiet DEF StoreRises
<1> QED BY <1>5, <1>9 DEF PathKept

(* Marking a mail \Deleted in Outbox, and what an expunge takes away.      *)
RaisesFlag(id) ==
  \A x \in mails' : x.mailbox = "Outbox" =>
     \E r \in mails : /\ r.mailbox = "Outbox" /\ r.id = x.id /\ r.msg = x.msg
                      /\ x.deleted <=> r.deleted \/ r.id = id

LEMMA Marked ==
  ASSUME StoreInv, NEW id, SetDeleted("Outbox", id, TRUE)
  PROVE  OldRows /\ RowsStay /\ queue' = queue /\ RaisesFlag(id)
<1> DEFINE f(r) == IF r.mailbox = "Outbox" /\ r.id = id THEN [r EXCEPT !.deleted = TRUE] ELSE r
<1>1. mails' = {f(r) : r \in mails} /\ queue' = queue
  BY DEF SetDeleted
<1>2. ASSUME NEW r \in mails
      PROVE  /\ f(r).mailbox = r.mailbox /\ f(r).id = r.id /\ f(r).msg = r.msg
             /\ r.mailbox = "Outbox" => (f(r).deleted <=> r.deleted \/ r.id = id)
  <2>1. r \in MailRow
    BY DEF StoreInv, StoreTypeOK
  <2>2. CASE r.mailbox = "Outbox" /\ r.id = id
    BY <2>1, <2>2 DEF MailRow
  <2>3. CASE ~ (r.mailbox = "Outbox" /\ r.id = id)
    BY <2>1, <2>3 DEF MailRow
  <2> QED BY <2>2, <2>3
<1> HIDE DEF f
<1>3. OldRows
  BY <1>1, <1>2 DEF OldRows
<1>4. RowsStay
  BY <1>1, <1>2 DEF RowsStay, InOutbox
<1> QED BY <1>1, <1>2, <1>3, <1>4 DEF RaisesFlag

LEMMA Expunged ==
  ASSUME OutInv, MailExpunge("Outbox"), cancelled \subseteq cancelled'
  PROVE  /\ OldRows /\ RowsStay /\ queue' \subseteq queue /\ LostIsSettled /\ LostToUser
         /\ \A x \in mails' : x \in mails /\ (x.mailbox = "Outbox" => ~ x.deleted)
<1> USE DEF OutInv
<1>1. /\ mails' = mails \ {r \in mails : r.mailbox = "Outbox" /\ r.deleted}
      /\ queue' = {q \in queue : ~ \E r \in {x \in mails : x.mailbox = "Outbox" /\ x.deleted} :
                                      r.mailbox = q.mailbox /\ r.id = q.id}
  BY DEF MailExpunge, CascadeDelete
<1>2. ASSUME NEW q \in queue \ queue', NEW r \in InOutbox(q.id)
      PROVE  <<r.msg, q.dest>> \in cancelled' \/ Withdrawn(r)
  <2>1. PICK g \in mails : g.mailbox = "Outbox" /\ g.deleted /\ g.mailbox = q.mailbox /\ g.id = q.id
    BY <1>1
  <2>2. g = r /\ r \in mails
    BY <2>1 DEF InOutbox, StoreInv, Integrity, UniqueKeys
  <2>3. r.msg \in Msgs
    BY <2>2, RowTypes
  <2>4. CASE told[r.msg] = "451"
    <3>1. \A x \in mails : x.mailbox = "Outbox" /\ x.id = r.id => x = r
      BY <2>1, <2>2 DEF StoreInv, Integrity, UniqueKeys
    <3> QED BY <1>1, <2>1, <2>2, <2>4, <3>1 DEF Withdrawn
  <2>5. CASE told[r.msg] # "451"
    <3>1. q.dest \in rcpts[r.msg]
      BY DEF TrailInv, QueueForRcpts, Entered
    <3> QED BY <2>1, <2>2, <2>5, <3>1 DEF FlagInv, DeletedIsCancelled
  <2> QED BY <2>4, <2>5
<1>3. LostIsSettled /\ LostToUser
  BY <1>2 DEF LostIsSettled, LostToUser
<1>4. OldRows
  BY <1>1 DEF OldRows
<1>5. RowsStay
  <2> SUFFICES ASSUME NEW q \in queue \cap queue', NEW r \in InOutbox(q.id) PROVE r \in mails'
    BY DEF RowsStay, InOutbox
  <2>1. q.mailbox = "Outbox"
    BY DEF TrailInv, QueueForRcpts
  <2> QED BY <1>1, <2>1 DEF InOutbox
<1> QED BY <1>1, <1>3, <1>4, <1>5

LEMMA ClientDeletesStep ==
  ASSUME OutInv, StoreRises, ClientDeletes
  PROVE  PathKept
<1> USE DEF OutInv
<1>1. PICK r \in mails :
         /\ r.mailbox = "Outbox" /\ SetDeleted("Outbox", r.id, TRUE)
         /\ cancelled' = cancelled \cup {<<r.msg, d>> : d \in rcpts[r.msg]}
  BY DEF ClientDeletes
<1>2. UNCHANGED smtpVars /\ UNCHANGED <<snd, delivered, overtaken, faults>>
      /\ UNCHANGED <<tx, told, rcpts>>
  BY DEF ClientDeletes, smtpVars
<1>3. Grows /\ NewlyDelivered /\ SndQuiet
  BY <1>1, <1>2 DEF Grows, OutTypeOK, SndQuiet, NewlyDelivered
<1>4. OldRows /\ RowsStay /\ queue' = queue /\ RaisesFlag(r.id)
  BY <1>1, Marked
<1>5. LostIsSettled /\ LostToUser
  BY <1>4 DEF LostIsSettled, LostToUser
<1>6. TrailInv'
  BY <1>2, <1>3, <1>4, <1>5, TxUnchanged, QuietStep
<1>7. DeletedIsCancelled'
  <2> SUFFICES ASSUME NEW x \in mails', x.mailbox = "Outbox", x.deleted, told[x.msg] # "451", NEW d \in rcpts[x.msg]
               PROVE  <<x.msg, d>> \in cancelled'
    BY <1>2 DEF DeletedIsCancelled
  <2>1. PICK s \in mails : /\ s.mailbox = "Outbox" /\ s.id = x.id /\ s.msg = x.msg
                           /\ x.deleted <=> s.deleted \/ s.id = r.id
    BY <1>4 DEF RaisesFlag
  <2>2. CASE s.deleted
    BY <1>1, <2>1, <2>2 DEF FlagInv, DeletedIsCancelled
  <2>3. CASE s.id = r.id
    <3>1. s = r
      BY <1>1, <2>1, <2>3 DEF StoreInv, Integrity, UniqueKeys
    <3> QED BY <1>1, <2>1, <3>1
  <2> QED BY <2>1, <2>2, <2>3
<1>8. RolledBack'
  <2> SUFFICES ASSUME NEW x \in mails', x.mailbox = "Outbox", told[x.msg] = "451"
               PROVE  /\ tx[x.msg].pc = "rollback" => faults >= 1
                      /\ tx[x.msg].pc = "expunge" => faults >= 2 \/ (faults >= 1 /\ x.deleted)
                      /\ tx[x.msg].pc = "done" => faults >= 2
    BY <1>2 DEF RolledBack
  <2> QED BY <1>4 DEF RaisesFlag, FlagInv, RolledBack
<1>9. SndInv'
  BY <1>2, <1>3, <1>4, <1>5, TxUnchanged, SenderQuiet DEF StoreRises
<1> QED BY <1>2, <1>6, <1>7, <1>8, <1>9, TxUnchanged DEF PathKept, FlagInv

LEMMA ClientExpungesStep ==
  ASSUME OutInv, StoreRises, ClientExpunges
  PROVE  PathKept
<1> USE DEF OutInv
<1>1. /\ MailExpunge("Outbox") /\ UNCHANGED smtpVars
      /\ UNCHANGED <<snd, delivered, cancelled, overtaken, faults>>
  BY DEF ClientExpunges, envVars
<1>2. Grows /\ NewlyDelivered /\ SndQuiet
  BY <1>1 DEF Grows, OutTypeOK, SndQuiet, NewlyDelivered
<1>3. /\ OldRows /\ RowsStay /\ queue' \subseteq queue /\ LostIsSettled /\ LostToUser
      /\ \A x \in mails' : x \in mails /\ (x.mailbox = "Outbox" => ~ x.deleted)
  BY <1>1, <1>2, Expunged DEF Grows
<1>4. TrailInv'
  BY <1>1, <1>2, <1>3, TxUnchanged, QuietStep
<1>5. FlagInv'
  BY <1>1, <1>2, <1>3, TxUnchanged, FlagsKept
<1>6. SndInv'
  BY <1>1, <1>2, <1>3, TxUnchanged, SenderQuiet DEF StoreRises
<1> QED BY <1>1, <1>4, <1>5, <1>6, TxUnchanged DEF PathKept

(* The process dies and starts again: no mail is lost, and of the queue    *)
(* only rows that are nobody's in Outbox.                                  *)
LEMMA CrashStep ==
  ASSUME OutInv, StoreRises, Crash
  PROVE  PathKept
<1> USE DEF OutInv
<1>1. /\ Reopen \/ CrashInInsert("Outbox")
      /\ snd' = Between("sleep", {}) /\ Fault /\ UNCHANGED <<told, rcpts>>
  BY DEF Crash
<1>2. Grows /\ NewlyDelivered /\ UNCHANGED <<delivered, cancelled>>
  BY <1>1, EnvGrows
<1>3. mails' = mails /\ queue' = {q \in queue : q.mailbox = "Outbox"}
  BY <1>1 DEF Reopen, CrashInInsert, OpenOn
<1>4. LostIsSettled
  <2> SUFFICES ASSUME NEW q \in queue \ queue', NEW r \in InOutbox(q.id) PROVE FALSE
    BY DEF LostIsSettled
  <2>1. q.mailbox = "Outbox"
    BY DEF TrailInv, QueueForRcpts
  <2> QED BY <1>3, <2>1
<1>5. RowsStay /\ OldRows /\ queue' \subseteq queue
  BY <1>3 DEF RowsStay, OldRows, InOutbox
<1>6. /\ \A m \in Msgs : tx[m].pc \in {"new", "done"} => tx'[m] = tx[m]
      /\ \A m \in Msgs : tx[m].pc \notin {"new", "done"} =>
            tx'[m].pc = "lost" /\ tx'[m].id = None /\ tx'[m].todo = tx[m].todo
  BY CrashTyped
<1>7. TxQuiet
  BY <1>1, <1>6 DEF TxQuiet
<1>8. SndRests' /\ snd'.pc = "sleep"
  BY <1>1, RestTyped DEF Between
<1>9. SndQuiet
  BY <1>8 DEF SndQuiet, SndRests
<1>10. TrailInv'
  BY <1>2, <1>4, <1>5, <1>7, <1>9, QuietStep
<1>11. SessionSteps'
  BY <1>1, <1>6 DEF SessionSteps
<1>12. FlagInv'
  <2>1. DeletedIsCancelled'
    BY <1>1, <1>2, <1>3 DEF FlagInv, DeletedIsCancelled
  <2>2. RolledBack'
    BY RowTypes, <1>1, <1>2, <1>3, <1>6 DEF FlagInv, RolledBack, Grows, OutTypeOK
  <2> QED BY <2>1, <2>2 DEF FlagInv
<1>13. SndInv'
  BY <1>8, RestKeeps
<1> QED BY <1>10, <1>11, <1>12, <1>13 DEF PathKept

-----------------------------------------------------------------------------
(* The SMTP sessions.  The steps that queue nothing.                       *)

LEMMA AcceptStep ==
  ASSUME OutInv, StoreRises, NEW m \in Msgs, Accept(m)
  PROVE  PathKept
<1> USE DEF OutInv
<1>1. /\ tx[m].pc = "enqueue" /\ tx[m].todo = {} /\ Reply(m, "250")
      /\ UNCHANGED <<rcpts, snd, mails, queue>> /\ UNCHANGED envVars
  BY DEF Accept, storeVars
<1>2. /\ tx'[m].pc = "done" /\ tx'[m].id = None /\ tx'[m].todo = {} /\ told'[m] = "250"
      /\ \A n \in Msgs \ {m} : tx'[n] = tx[n] /\ told'[n] = told[n]
  BY <1>1, ReplyTyped DEF TxBecomes, OthersKeepTx
<1>3. Grows /\ NewlyDelivered /\ UNCHANGED <<delivered, cancelled, overtaken>> /\ faults' = faults
  BY <1>1, EnvGrows DEF envVars
<1>4. told[m] = "none" /\ \A r \in mails : r.msg \in Msgs
  BY <1>1, RowTypes DEF SessionSteps
<1>5. TxQuiet
  BY <1>1, <1>2, <1>4 DEF TxQuiet
<1>6. SndQuiet /\ LostIsSettled /\ LostToUser /\ RowsStay /\ OldRows
  BY <1>1 DEF SndQuiet, LostIsSettled, LostToUser, RowsStay, OldRows, InOutbox
<1>7. TrailInv'
  BY <1>1, <1>3, <1>5, <1>6, QuietStep
<1>8. SessionSteps'
  BY <1>1, <1>2 DEF SessionSteps
<1>9. DeletedIsCancelled'
  BY <1>1, <1>2, <1>3, <1>4 DEF FlagInv, DeletedIsCancelled
<1>10. RolledBack'
  BY <1>1, <1>2, <1>3, <1>4 DEF FlagInv, RolledBack
<1>11. SndInv'
  BY <1>1, <1>3, <1>5, <1>6, SenderQuiet DEF StoreRises
<1> QED BY <1>7, <1>8, <1>9, <1>10, <1>11 DEF PathKept, FlagInv

LEMMA SubmitFailsStep ==
  ASSUME OutInv, StoreRises, NEW m \in Msgs, SubmitFails(m)
  PROVE  PathKept
<1> USE DEF OutInv
<1>1. /\ tx[m].pc = "new" /\ Reply(m, "451") /\ Fault
      /\ UNCHANGED <<rcpts, snd>> /\ UNCHANGED <<mails, queue>>
  BY DEF SubmitFails, MailInsertFails
<1>2. /\ tx'[m].pc = "done" /\ tx'[m].id = None /\ tx'[m].todo = tx[m].todo /\ told'[m] = "451"
      /\ \A n \in Msgs \ {m} : tx'[n] = tx[n] /\ told'[n] = told[n]
  BY <1>1, ReplyTyped DEF TxBecomes, OthersKeepTx
<1>3. Grows /\ NewlyDelivered /\ UNCHANGED <<delivered, cancelled, overtaken>>
  BY <1>1, EnvGrows
<1>4. TxQuiet
  BY <1>1, <1>2 DEF TxQuiet
<1>5. SndQuiet /\ LostIsSettled /\ LostToUser /\ RowsStay /\ OldRows
  BY <1>1 DEF SndQuiet, LostIsSettled, LostToUser, RowsStay, OldRows, InOutbox
<1>6. TrailInv'
  BY <1>1, <1>3, <1>4, <1>5, QuietStep
<1>7. SessionSteps'
  BY <1>1, <1>2 DEF SessionSteps
<1>8. \A r \in mails : r.msg \in Msgs /\ (r.msg = m => r.mailbox # "Outbox")
  BY <1>1, RowTypes DEF TrailInv, NewIsNowhere
<1>9. DeletedIsCancelled'
  BY <1>1, <1>2, <1>3, <1>8 DEF FlagInv, DeletedIsCancelled
<1>10. RolledBack'
  BY <1>1, <1>2, <1>3, <1>8 DEF FlagInv, RolledBack, Grows, OutTypeOK
<1>11. SndInv'
  BY <1>1, <1>3, <1>4, <1>5, SenderQuiet DEF StoreRises
<1> QED BY <1>6, <1>7, <1>9, <1>10, <1>11 DEF PathKept, FlagInv

(* A call that queues the mail is refused: as nobody else queues it, the   *)
(* mail is not in Outbox any more, or there was an error.                  *)
LEMMA EnqueueFailsStep ==
  ASSUME OutInv, StoreRises, NEW m \in Msgs, EnqueueFails(m)
  PROVE  PathKept
<1> USE DEF OutInv
<1>1. /\ tx[m].pc = "enqueue"
      /\ UNCHANGED <<rcpts, snd, mails, queue>>
      /\ \/ /\ \E d \in tx[m].todo : ~ QueueAccepts(d, "Outbox", tx[m].id)
            /\ UNCHANGED envVars
         \/ Fault
  BY DEF EnqueueFails, EnqueueRefused, storeVars
<1>2. /\ tx'[m].pc = "rollback" /\ tx'[m].id = tx[m].id /\ tx'[m].todo = tx[m].todo /\ told'[m] = "451"
      /\ \A n \in Msgs \ {m} : tx'[n] = tx[n] /\ told'[n] = told[n]
  BY EnqueueFailsTyped DEF TxBecomes, OthersKeepTx
<1>3. Grows /\ NewlyDelivered /\ UNCHANGED <<delivered, cancelled, overtaken>>
  BY <1>1, EnvGrows
<1>4. TxQuiet
  BY <1>1, <1>2 DEF TxQuiet
<1>5. SndQuiet /\ LostIsSettled /\ LostToUser /\ RowsStay /\ OldRows
  BY <1>1 DEF SndQuiet, LostIsSettled, LostToUser, RowsStay, OldRows, InOutbox
<1>6. TrailInv'
  BY <1>1, <1>3, <1>4, <1>5, QuietStep
<1>7. SessionSteps'
  BY <1>1, <1>2 DEF SessionSteps
<1>8. \A r \in mails : r.msg \in Msgs
  BY RowTypes
<1>9. DeletedIsCancelled'
  BY <1>1, <1>2, <1>3, <1>8 DEF FlagInv, DeletedIsCancelled
<1>10. ASSUME NEW r \in mails, r.mailbox = "Outbox", r.msg = m PROVE faults' >= 1
  <2>1. r.id = tx[m].id /\ r \in InOutbox(tx[m].id)
    BY <1>1, <1>10 DEF TrailInv, SessionRow, InOutbox
  <2>2. ASSUME NEW d \in tx[m].todo PROVE QueueAccepts(d, "Outbox", tx[m].id)
    <3>1. HasMail("Outbox", tx[m].id)
      BY <1>10, <2>1 DEF HasMail
    <3>2. QRow(d, tx[m].id) \notin queue
      <4> SUFFICES ASSUME QRow(d, tx[m].id) \in queue PROVE FALSE
        OBVIOUS
      <4>1. QRow(d, tx[m].id).id = tx[m].id /\ QRow(d, tx[m].id).dest = d
        BY DEF QRow
      <4>2. d \in Entered(m)
        BY <1>10, <2>1, <4>1 DEF TrailInv, QueueForRcpts
      <4> QED BY <2>2, <4>2 DEF Entered
    <3> QED BY <3>1, <3>2 DEF QueueAccepts, QRow
  <2>3. Fault
    BY <1>1, <2>2
  <2> QED BY <2>3 DEF Fault, OutTypeOK
<1>11. RolledBack'
  BY <1>1, <1>2, <1>3, <1>8, <1>10 DEF FlagInv, RolledBack, Grows, OutTypeOK
<1>12. SndInv'
  BY <1>1, <1>3, <1>4, <1>5, SenderQuiet DEF StoreRises
<1> QED BY <1>6, <1>7, <1>9, <1>11, <1>12 DEF PathKept, FlagInv

LEMMA RollbackDeleteStep ==
  ASSUME OutInv, StoreRises, NEW m \in Msgs, RollbackDelete(m)
  PROVE  PathKept
<1> USE DEF OutInv
<1>1. /\ tx[m].pc = "rollback" /\ UNCHANGED <<told, rcpts, snd>>
      /\ \/ SetDeleted("Outbox", tx[m].id, TRUE) /\ UNCHANGED envVars
         \/ UNCHANGED storeVars /\ Fault
  BY DEF RollbackDelete, MailDelete
<1>2. /\ tx'[m].pc = "expunge" /\ tx'[m].id = tx[m].id /\ tx'[m].todo = tx[m].todo
      /\ \A n \in Msgs \ {m} : tx'[n] = tx[n]
  BY RollbackDeleteTyped DEF TxBecomes, OthersKeepTx
<1>3. Grows /\ NewlyDelivered /\ UNCHANGED <<delivered, cancelled, overtaken>>
  BY <1>1, EnvGrows
<1>4. told[m] = "451" /\ \A r \in mails : r.msg \in Msgs
  BY <1>1, RowTypes DEF SessionSteps
<1>5. TxQuiet
  BY <1>1, <1>2 DEF TxQuiet
<1>6. SndQuiet
  BY <1>1 DEF SndQuiet
<1>7. SessionSteps'
  BY <1>1, <1>2, <1>4 DEF SessionSteps
<1>8. CASE SetDeleted("Outbox", tx[m].id, TRUE) /\ UNCHANGED envVars
  <2>1. OldRows /\ RowsStay /\ queue' = queue /\ RaisesFlag(tx[m].id)
    BY <1>8, Marked
  <2>2. LostIsSettled /\ LostToUser
    BY <2>1 DEF LostIsSettled, LostToUser
  <2>3. TrailInv'
    BY <1>3, <1>5, <1>6, <2>1, <2>2, QuietStep
  <2>4. faults' = faults
    BY <1>8 DEF envVars
  <2>5. ASSUME NEW x \in mails', x.mailbox = "Outbox"
        PROVE  \E r \in mails : /\ r.mailbox = "Outbox" /\ r.msg = x.msg /\ (r.deleted => x.deleted)
                                /\ x.msg = m => x.deleted
                                /\ x.deleted => r.deleted \/ x.msg = m
    <3>1. PICK r \in mails : /\ r.mailbox = "Outbox" /\ r.id = x.id /\ r.msg = x.msg
                             /\ x.deleted <=> r.deleted \/ r.id = tx[m].id
      BY <2>1, <2>5 DEF RaisesFlag
    <3>2. r.id = tx[m].id <=> r.msg = m
      BY <1>1, <3>1 DEF TrailInv, SessionRow, InOutbox
    <3> QED BY <3>1, <3>2
  <2>6. DeletedIsCancelled'
    BY <1>1, <1>3, <1>4, <2>5 DEF FlagInv, DeletedIsCancelled
  <2>7. RolledBack'
    <3> SUFFICES ASSUME NEW x \in mails', x.mailbox = "Outbox", told[x.msg] = "451"
                 PROVE  /\ tx'[x.msg].pc = "rollback" => faults >= 1
                        /\ tx'[x.msg].pc = "expunge" => faults >= 2 \/ (faults >= 1 /\ x.deleted)
                        /\ tx'[x.msg].pc = "done" => faults >= 2
      BY <1>1, <2>4 DEF RolledBack
    <3>1. PICK r \in mails : /\ r.mailbox = "Outbox" /\ r.msg = x.msg /\ (r.deleted => x.deleted)
                             /\ x.msg = m => x.deleted
      BY <2>5
    <3>2. CASE x.msg = m
      BY <1>1, <1>2, <3>1, <3>2 DEF FlagInv, RolledBack
    <3>3. CASE x.msg # m
      BY <1>2, <1>4, <3>1, <3>3 DEF FlagInv, RolledBack
    <3> QED BY <3>2, <3>3
  <2>8. SndInv'
    BY <1>1, <1>3, <1>5, <2>1, <2>2, SenderQuiet DEF StoreRises
  <2> QED BY <1>7, <2>3, <2>6, <2>7, <2>8 DEF PathKept, FlagInv
<1>9. CASE UNCHANGED storeVars /\ Fault
  <2>1. UNCHANGED <<mails, queue>>
    BY <1>9 DEF storeVars
  <2>2. LostIsSettled /\ LostToUser /\ RowsStay /\ OldRows
    BY <2>1 DEF LostIsSettled, LostToUser, RowsStay, OldRows, InOutbox
  <2>3. TrailInv'
    BY <1>3, <1>5, <1>6, <2>1, <2>2, QuietStep
  <2>4. faults' = faults + 1 /\ faults \in Nat
    BY <1>9 DEF Fault, OutTypeOK
  <2>5. DeletedIsCancelled'
    BY <1>1, <1>3, <2>1 DEF FlagInv, DeletedIsCancelled
  <2>6. RolledBack'
    BY <1>1, <1>2, <1>4, <2>1, <2>4 DEF FlagInv, RolledBack
  <2>7. SndInv'
    BY <1>1, <1>3, <1>5, <2>1, <2>2, SenderQuiet DEF StoreRises
  <2> QED BY <1>7, <2>3, <2>5, <2>6, <2>7 DEF PathKept, FlagInv
<1> QED BY <1>1, <1>8, <1>9

LEMMA RollbackExpungeStep ==
  ASSUME OutInv, StoreRises, NEW m \in Msgs, RollbackExpunge(m)
  PROVE  PathKept
<1> USE DEF OutInv
<1>1. /\ tx[m].pc = "expunge" /\ UNCHANGED <<told, rcpts, snd>>
      /\ \/ MailExpunge("Outbox") /\ UNCHANGED envVars
         \/ UNCHANGED storeVars /\ Fault
  BY DEF RollbackExpunge
<1>2. /\ tx'[m].pc = "done" /\ tx'[m].id = None /\ tx'[m].todo = tx[m].todo
      /\ \A n \in Msgs \ {m} : tx'[n] = tx[n]
  BY RollbackExpungeTyped DEF TxBecomes, OthersKeepTx
<1>3. Grows /\ NewlyDelivered /\ UNCHANGED <<delivered, cancelled, overtaken>>
  BY <1>1, EnvGrows
<1>4. told[m] = "451" /\ \A r \in mails : r.msg \in Msgs
  BY <1>1, RowTypes DEF SessionSteps
<1>5. TxQuiet
  BY <1>1, <1>2 DEF TxQuiet
<1>6. SndQuiet
  BY <1>1 DEF SndQuiet
<1>7. SessionSteps'
  BY <1>1, <1>2, <1>4 DEF SessionSteps
<1>8. CASE MailExpunge("Outbox") /\ UNCHANGED envVars
  <2>1. /\ OldRows /\ RowsStay /\ queue' \subseteq queue /\ LostIsSettled /\ LostToUser
        /\ \A x \in mails' : x \in mails /\ (x.mailbox = "Outbox" => ~ x.deleted)
    BY <1>3, <1>8, Expunged
  <2>2. TrailInv'
    BY <1>3, <1>5, <1>6, <2>1, QuietStep
  <2>3. faults' = faults
    BY <1>8 DEF envVars
  <2>4. DeletedIsCancelled'
    BY <2>1 DEF DeletedIsCancelled
  <2>5. RolledBack'
    BY <1>1, <1>2, <1>4, <2>1, <2>3 DEF FlagInv, RolledBack
  <2>6. SndInv'
    BY <1>1, <1>3, <1>5, <2>1, SenderQuiet DEF StoreRises
  <2> QED BY <1>7, <2>2, <2>4, <2>5, <2>6 DEF PathKept, FlagInv
<1>9. CASE UNCHANGED storeVars /\ Fault
  <2>1. UNCHANGED <<mails, queue>>
    BY <1>9 DEF storeVars
  <2>2. LostIsSettled /\ LostToUser /\ RowsStay /\ OldRows
    BY <2>1 DEF LostIsSettled, LostToUser, RowsStay, OldRows, InOutbox
  <2>3. TrailInv'
    BY <1>3, <1>5, <1>6, <2>1, <2>2, QuietStep
  <2>4. faults' = faults + 1 /\ faults \in Nat
    BY <1>9 DEF Fault, OutTypeOK
  <2>5. DeletedIsCancelled'
    BY <1>1, <1>3, <2>1 DEF FlagInv, DeletedIsCancelled
  <2>6. RolledBack'
    BY <1>1, <1>2, <1>4, <2>1, <2>4 DEF FlagInv, RolledBack
  <2>7. SndInv'
    BY <1>1, <1>3, <1>5, <2>1, <2>2, SenderQuiet DEF StoreRises
  <2> QED BY <1>7, <2>3, <2>5, <2>6, <2>7 DEF PathKept, FlagInv
<1> QED BY <1>1, <1>8, <1>9

-----------------------------------------------------------------------------
(* One more recipient of the mail is queued.                               *)

LEMMA EnqueueStep ==
  ASSUME OutInv, StoreRises, NEW m \in Msgs, Enqueue(m)
  PROVE  PathKept
<1> USE DEF OutInv
<1>1. PICK d \in tx[m].todo : QueueInsert(d, "Outbox", tx[m].id) /\ TxBecomes(m, "enqueue", tx[m].id, tx[m].todo \ {d})
  BY EnqueueTyped
<1> DEFINE p == QRow(d, tx[m].id)
<1>2. /\ HasMail("Outbox", tx[m].id) /\ queue' = queue \cup {p}
      /\ UNCHANGED <<uidNext, mails>>
  BY <1>1 DEF QueueInsert, QueueAccepts, QRow
<1>3. /\ tx[m].pc = "enqueue" /\ UNCHANGED <<told, rcpts, snd>> /\ UNCHANGED envVars
      /\ UNCHANGED <<delivered, cancelled, overtaken, faults>>
  BY DEF Enqueue, envVars
<1>4. /\ tx'[m].pc = "enqueue" /\ tx'[m].id = tx[m].id /\ tx'[m].todo = tx[m].todo \ {d}
      /\ \A n \in Msgs \ {m} : tx'[n] = tx[n]
  BY <1>1 DEF TxBecomes, OthersKeepTx
<1>5. p.dest = d /\ p.mailbox = "Outbox" /\ p.id = tx[m].id
  BY DEF QRow
<1> HIDE DEF p
<1>6. PICK row \in mails : row.mailbox = "Outbox" /\ row.id = tx[m].id
  BY <1>2 DEF HasMail
<1>7. row.msg = m /\ \A r \in mails : r.mailbox = "Outbox" => (r.id = tx[m].id <=> r.msg = m)
  BY <1>3, <1>6 DEF TrailInv, SessionRow, InOutbox
<1>8. d \in rcpts[m] /\ told[m] = "none" /\ tx[m].todo \subseteq rcpts[m]
  BY <1>1, <1>3 DEF SessionSteps
<1>9. /\ Entered(m)' = Entered(m) \cup {d}
      /\ \A n \in Msgs \ {m} : Entered(n)' = Entered(n)
      /\ \A n \in Msgs : Entered(n) \subseteq Entered(n)'
  BY <1>1, <1>3, <1>4, <1>8 DEF Entered
<1>10. Grows
  BY <1>3 DEF Grows, OutTypeOK
<1>11. LostIsSettled /\ LostToUser /\ RowsStay /\ \A r \in mails : r.msg \in Msgs
  BY <1>2, RowTypes DEF LostIsSettled, LostToUser, RowsStay, InOutbox
<1>12. SessionSteps'
  BY <1>3, <1>4 DEF SessionSteps
<1>13. IdsAreOld' /\ OneRow' /\ NewIsNowhere' /\ SessionRow'
  BY <1>2, <1>3, <1>4, <1>5, <1>11 DEF TrailInv, IdsAreOld, OneRow, NewIsNowhere, SessionRow, InOutbox
<1>14. QueueForRcpts'
  <2> SUFFICES ASSUME NEW q \in queue', NEW r \in InOutbox(q.id)
               PROVE  q.mailbox = "Outbox" /\ q.dest \in Entered(r.msg)'
    BY <1>2 DEF QueueForRcpts, InOutbox, Entered
  <2>0. r \in mails /\ r.mailbox = "Outbox" /\ r.id = q.id
    BY DEF InOutbox
  <2>1. CASE q \in queue
    BY <1>9, <1>11, <2>0, <2>1 DEF TrailInv, QueueForRcpts
  <2>2. CASE q = p
    <3>1. r.msg = m
      BY <1>5, <1>7, <2>0, <2>2
    <3> QED BY <1>5, <1>9, <2>2, <3>1
  <2> QED BY <1>2, <2>1, <2>2
<1>15. Untouched'
  BY <1>3, <1>9 DEF TrailInv, Untouched
<1>16. RowsCovered'
  <2> SUFFICES ASSUME NEW r \in mails, r.mailbox = "Outbox", NEW e \in Entered(r.msg)'
               PROVE  Settled(r.msg, e) \/ QRow(e, r.id) \in queue'
    BY <1>2, <1>3 DEF RowsCovered, Settled, Entered, QRow
  <2>1. CASE e \in Entered(r.msg)
    BY <1>2, <2>1 DEF TrailInv, RowsCovered
  <2>2. CASE r.msg = m /\ e = d
    BY <1>2, <1>7, <2>2 DEF p
  <2> QED BY <1>9, <1>11, <2>1, <2>2
<1>17. KeptUnlessRefused'
  <2> SUFFICES ASSUME NEW n \in Msgs, n \notin overtaken, told[n] # "451", NEW e \in Entered(n)'
               PROVE  <<n, e>> \in delivered' \cup cancelled' \/ Queued(n, e)'
    BY <1>3 DEF KeptUnlessRefused, Settled, Entered
  <2>1. CASE e \in Entered(n)
    <3>1. Settled(n, e) \/ Queued(n, e)
      BY <2>1 DEF TrailInv, KeptUnlessRefused
    <3> QED BY <1>10, <1>11, <3>1, KeptOn DEF TrailInv
  <2>2. CASE n = m /\ e = d
    BY <1>2, <1>5, <1>6, <1>7, <2>2 DEF Queued, Row
  <2> QED BY <1>9, <2>1, <2>2
<1>18. SentMeansSettled'
  <2> SUFFICES ASSUME NEW x \in mails, x.mailbox = "Sent", x.msg \notin overtaken, NEW e \in Entered(x.msg)'
               PROVE  Settled(x.msg, e)
    BY <1>2, <1>3 DEF SentMeansSettled, Settled, Entered
  <2>1. x.msg # m
    BY <1>6, <1>7 DEF TrailInv, OneRow
  <2> QED BY <1>9, <1>11, <2>1 DEF TrailInv, SentMeansSettled
<1>19. FlagInv'
  <2>1. DeletedIsCancelled'
    BY <1>2, <1>3 DEF FlagInv, DeletedIsCancelled
  <2>2. RolledBack'
    BY <1>2, <1>3, <1>4, <1>11 DEF FlagInv, RolledBack
  <2> QED BY <2>1, <2>2 DEF FlagInv
<1>20. SndInv'
  <2>1. \A n \in Msgs : Queueing(n)' => Queueing(n)
    BY <1>1, <1>3, <1>4 DEF Queueing
  <2>2. \A q \in queue' \ queue : q.id = snd.id /\ snd.pc = "move" => Queueing(snd.msg)
    <3> SUFFICES ASSUME p.id = snd.id, snd.pc = "move" PROVE Queueing(snd.msg)
      BY <1>2
    <3>1. snd.msg = m
      BY <1>5, <1>6, <1>7 DEF SndInv, SenderKnows, Carrying
    <3> QED BY <1>1, <1>3, <3>1 DEF Queueing
  <2>3. \A x \in mails' : x.mailbox = "Outbox" => x \in mails
    BY <1>2
  <2> QED BY <1>3, <1>9, <1>10, <1>11, <2>1, <2>2, <2>3, SenderKept DEF StoreRises
<1> QED BY <1>12, <1>13, <1>14, <1>15, <1>16, <1>17, <1>18, <1>19, <1>20 DEF PathKept, TrailInv

-----------------------------------------------------------------------------
(* A mail is submitted, for any number of recipients.                      *)

LEMMA SubmitStep ==
  ASSUME OutInv, StoreRises, NEW m \in Msgs, Submit(m)
  PROVE  PathKept
<1> USE DEF OutInv
<1>1. /\ tx[m].pc = "new" /\ MailInsert("Outbox", m) /\ ~ InsertCollides("Outbox")
      /\ UNCHANGED <<told, snd>> /\ UNCHANGED envVars
      /\ UNCHANGED <<delivered, cancelled, overtaken, faults>>
  BY DEF Submit, envVars
<1>2. PICK R \in SUBSET Dests :
           /\ TxBecomes(m, "enqueue", NextUid("Outbox"), R)
           /\ rcpts' \in [Msgs -> SUBSET Dests] /\ rcpts'[m] = R
           /\ \A n \in Msgs \ {m} : rcpts'[n] = rcpts[n]
  BY SubmitTyped
<1> DEFINE id == NextUid("Outbox")
           n  == NewRow("Outbox", m)
<1>3. id = uidNext["Outbox"] /\ id \in Uid /\ uidNext'["Outbox"] = id + 1
  BY <1>1, OutboxCounter, OutboxMailboxes, EnsuredCounters DEF MailInsert, NextUid, EnsureBox, StoreInv
<1>4. mails' = mails \cup {n} /\ queue' = queue
  BY <1>1 DEF MailInsert
<1>5. n.mailbox = "Outbox" /\ n.id = id /\ n.msg = m /\ ~ n.deleted
  BY DEF NewRow
<1>6. /\ tx'[m].pc = "enqueue" /\ tx'[m].id = id /\ tx'[m].todo = R
      /\ \A k \in Msgs \ {m} : tx'[k] = tx[k]
  BY <1>2 DEF TxBecomes, OthersKeepTx
<1> HIDE DEF id, n
<1>7. told[m] = "none" /\ rcpts[m] = {}
  BY <1>1 DEF SessionSteps
<1>8. \A r \in mails : r.msg \in Msgs /\ (r.mailbox \in {"Outbox", "Sent"} => r.msg # m)
  BY <1>1, RowTypes DEF TrailInv, NewIsNowhere
<1>9. \A r \in mails : r.mailbox = "Outbox" => r.id < id /\ r.id # id
  <2> SUFFICES ASSUME NEW r \in mails, r.mailbox = "Outbox" PROVE r.id < id /\ r.id # id
    OBVIOUS
  <2>1. r.id < uidNext["Outbox"]
    BY DEF StoreInv, UidBelowNext
  <2>2. r.id \in Uid
    BY RowTypes
  <2> QED BY <1>3, <2>1, <2>2 DEF Uid
<1>10. /\ \A k \in Msgs : tx[k].id \in Nat /\ tx[k].id < id /\ tx[k].id # id
       /\ \A i \in snd.pending \cup {snd.id} : i \in Nat /\ i < id /\ i # id
       /\ \A q \in queue : q.id \in Nat /\ q.id < id /\ q.id # id
  <2>1. \A k \in Msgs : tx[k].id \in Nat /\ tx[k].id < id
    BY <1>3 DEF TrailInv, IdsAreOld, OutTypeOK, TxType
  <2>2. \A i \in snd.pending \cup {snd.id} : i \in Nat /\ i < id
    BY <1>3 DEF TrailInv, IdsAreOld, OutTypeOK, SndType
  <2>3. \A q \in queue : q.id < id /\ q.id \in Nat
    BY <1>3, RowTypes DEF TrailInv, IdsAreOld, Uid
  <2> QED BY <1>3, <2>1, <2>2, <2>3 DEF Uid
<1>11. /\ Entered(m) = {} /\ Entered(m)' = {}
       /\ \A k \in Msgs \ {m} : Entered(k)' = Entered(k)
  BY <1>2, <1>6, <1>7 DEF Entered
<1>12. Grows
  BY <1>1 DEF Grows, OutTypeOK
<1>13. LostIsSettled /\ LostToUser /\ RowsStay
  BY <1>4 DEF LostIsSettled, LostToUser, RowsStay, InOutbox
<1>14. SessionSteps'
  BY <1>1, <1>2, <1>6, <1>7 DEF SessionSteps
<1>15. IdsAreOld'
  BY <1>1, <1>3, <1>4, <1>6, <1>10 DEF IdsAreOld, Uid
<1>16. OneRow' /\ NewIsNowhere'
  BY <1>4, <1>5, <1>6, <1>8 DEF TrailInv, OneRow, NewIsNowhere
<1>17. SessionRow'
  BY <1>4, <1>5, <1>6, <1>8, <1>9, <1>10 DEF TrailInv, SessionRow, InOutbox
<1>18. QueueForRcpts'
  <2> SUFFICES ASSUME NEW q \in queue, NEW x \in mails', x.mailbox = "Outbox", x.id = q.id
               PROVE  q.mailbox = "Outbox" /\ q.dest \in Entered(x.msg)'
    BY <1>4 DEF QueueForRcpts, InOutbox, Entered
  <2>1. x \in mails /\ x \in InOutbox(q.id)
    BY <1>4, <1>5, <1>10 DEF InOutbox
  <2> QED BY <1>8, <1>11, <2>1 DEF TrailInv, QueueForRcpts
<1>19. Untouched'
  BY <1>1, <1>11 DEF TrailInv, Untouched
<1>20. RowsCovered'
  <2> SUFFICES ASSUME NEW x \in mails', x.mailbox = "Outbox", NEW e \in Entered(x.msg)'
               PROVE  Settled(x.msg, e) \/ QRow(e, x.id) \in queue
    BY <1>1, <1>4 DEF RowsCovered, Settled, Entered, QRow
  <2>1. x \in mails /\ x.msg \in Msgs \ {m}
    BY <1>4, <1>5, <1>8, <1>11
  <2> QED BY <1>11, <2>1 DEF TrailInv, RowsCovered
<1>21. KeptUnlessRefused'
  <2> SUFFICES ASSUME NEW k \in Msgs, k \notin overtaken, told[k] # "451", NEW e \in Entered(k)'
               PROVE  <<k, e>> \in delivered' \cup cancelled' \/ Queued(k, e)'
    BY <1>1 DEF KeptUnlessRefused, Settled, Entered
  <2>1. e \in Entered(k)
    BY <1>11
  <2>2. Settled(k, e) \/ Queued(k, e)
    BY <2>1 DEF TrailInv, KeptUnlessRefused
  <2> QED BY <1>12, <1>13, <2>2, KeptOn DEF TrailInv
<1>22. SentMeansSettled'
  <2> SUFFICES ASSUME NEW x \in mails', x.mailbox = "Sent", x.msg \notin overtaken, NEW e \in Entered(x.msg)'
               PROVE  Settled(x.msg, e)
    BY <1>1 DEF SentMeansSettled, Settled, Entered
  <2>1. x \in mails /\ x.msg \in Msgs \ {m}
    BY <1>4, <1>5, <1>8
  <2> QED BY <1>11, <2>1 DEF TrailInv, SentMeansSettled
<1>23. FlagInv'
  <2>1. DeletedIsCancelled'
    BY <1>1, <1>2, <1>4, <1>5, <1>8 DEF FlagInv, DeletedIsCancelled
  <2>2. RolledBack'
    BY <1>1, <1>4, <1>5, <1>6, <1>7, <1>8 DEF FlagInv, RolledBack
  <2> QED BY <2>1, <2>2 DEF FlagInv
<1>24. SndInv'
  <2>1. \A k \in Msgs : /\ Entered(k) \subseteq Entered(k)'
                        /\ Queueing(k)' => Queueing(k) \/ tx[k].pc = "new"
    BY <1>1, <1>6, <1>11 DEF Queueing
  <2>2. \A x \in mails' : x.mailbox = "Outbox" =>
           x \in mails \/ (tx[x.msg].pc = "new" /\ x.id \notin snd.pending \cup {snd.id})
    BY <1>1, <1>4, <1>5, <1>10
  <2> QED BY <1>1, <1>4, <1>12, <1>13, <2>1, <2>2, SenderKept DEF StoreRises
<1> QED BY <1>14, <1>15, <1>16, <1>17, <1>18, <1>19, <1>20, <1>21, <1>22, <1>23, <1>24
        DEF PathKept, TrailInv

-----------------------------------------------------------------------------
(* The invariant of the way of a mail is inductive.                        *)

LEMMA OutInitInv == Init => OutInv
<1> SUFFICES ASSUME Init PROVE OutInv
  OBVIOUS
<1>1. StoreInv /\ OutTypeOK
  BY OutInitStore, OutInitTyped
<1>2. PICK f \in [Preloaded -> 1 .. Cardinality(Preloaded)] : PreloadedAs(f)
  BY DEF Init
<1>3. Cardinality(Preloaded) \in Nat /\ \A k \in Preloaded : k \in Msgs /\ f[k] \in 1 .. Cardinality(Preloaded)
  BY <1>2, OutboundAssumption, FS_CardinalityType
<1>4. uidNext["Outbox"] = Cardinality(Preloaded) + 1
  BY <1>2 DEF PreloadedAs, Protected
<1> DEFINE R(m) == [mailbox |-> "Outbox", id |-> f[m], msg |-> m, deleted |-> FALSE]
<1>5. /\ \A r \in mails : r.mailbox = "Outbox" /\ r.id = f[r.msg] /\ r.msg \in Preloaded /\ ~ r.deleted
      /\ \A r, s \in mails : r.msg = s.msg => r = s
      /\ \A m \in Preloaded : \E r \in mails : r.msg = m /\ r.id = f[m]
  <2>1. mails = {R(m) : m \in Preloaded}
    BY <1>2 DEF PreloadedAs
  <2>2. \A m : R(m).mailbox = "Outbox" /\ R(m).id = f[m] /\ R(m).msg = m /\ ~ R(m).deleted
    OBVIOUS
  <2> HIDE DEF R
  <2> QED BY <2>1, <2>2
<1>6. queue = {QRow(d, f[m]) : d \in PreDests, m \in Preloaded}
  BY <1>2 DEF PreloadedAs, QRow
<1>7. \A q \in queue : q.dest \in PreDests /\ q.mailbox = "Outbox" /\ \E m \in Preloaded : q.id = f[m]
  BY <1>6 DEF QRow
<1>8. /\ \A m \in Msgs : /\ tx[m].pc = IF m \in Preloaded THEN "done" ELSE "new"
                         /\ tx[m].id = None /\ tx[m].todo = {}
                         /\ told[m] = IF m \in Preloaded THEN "250" ELSE "none"
                         /\ rcpts[m] = IF m \in Preloaded THEN PreDests ELSE {}
      /\ delivered = {}
  BY DEF Init, At
<1>9. snd.pc = "sleep" /\ snd.pending = {} /\ snd.id = None
  BY DEF Init, Between
<1>10. \A m \in Msgs : Entered(m) = IF m \in Preloaded THEN PreDests ELSE {}
  BY <1>8 DEF Entered
<1>11. SessionSteps
  BY <1>8 DEF SessionSteps
<1>12. IdsAreOld
  BY <1>3, <1>4, <1>7, <1>8, <1>9 DEF IdsAreOld, None
<1>13. OneRow /\ NewIsNowhere
  BY <1>3, <1>5, <1>8 DEF OneRow, NewIsNowhere
<1>14. SessionRow
  <2>1. \A r \in mails : r.id # None
    BY <1>3, <1>5 DEF None
  <2> QED BY <1>8, <2>1 DEF SessionRow, InOutbox
<1>15. QueueForRcpts
  BY <1>3, <1>5, <1>7, <1>10 DEF QueueForRcpts, InOutbox
<1>16. Untouched
  BY <1>8 DEF Untouched
<1>17. RowsCovered
  BY <1>3, <1>5, <1>6, <1>10 DEF RowsCovered
<1>18. KeptUnlessRefused
  <2> SUFFICES ASSUME NEW m \in Preloaded, NEW d \in PreDests PROVE Queued(m, d)
    BY <1>10 DEF KeptUnlessRefused
  <2>1. PICK r \in mails : r.msg = m /\ r.id = f[m] /\ r.mailbox = "Outbox"
    BY <1>5
  <2>2. QRow(d, f[m]) \in queue
    BY <1>6
  <2>3. QRow(d, f[m]).dest = d /\ QRow(d, f[m]).mailbox = "Outbox" /\ QRow(d, f[m]).id = f[m]
    BY DEF QRow
  <2> QED BY <2>1, <2>2, <2>3 DEF Queued, Row
<1>19. SentMeansSettled
  BY <1>5 DEF SentMeansSettled
<1>20. FlagInv
  BY <1>3, <1>5, <1>8 DEF FlagInv, DeletedIsCancelled, RolledBack
<1>21. SndInv
  BY <1>9 DEF SndInv, SenderKnows, SndRests, Carrying, PendingIsWaiting, SendingWhatIsQueued
<1> QED BY <1>1, <1>11, <1>12, <1>13, <1>14, <1>15, <1>16, <1>17, <1>18, <1>19, <1>20, <1>21
        DEF OutInv, TrailInv

LEMMA OutStepInv == OutInv /\ [Next]_vars => OutInv'
<1> SUFFICES ASSUME OutInv, [Next]_vars PROVE OutInv'
  OBVIOUS
<1>1. StoreNext \/ UNCHANGED storeVars
  BY OutStepStores DEF OutInv
<1>2. StoreRises
  <2>1. StoreInv'
    BY <1>1, StoreStepInv DEF OutInv
  <2>2. "Outbox" \in DOMAIN uidNext /\ "Outbox" \in DOMAIN uidNext'
    BY <2>1, OutboxCounter DEF OutInv
  <2> QED BY <1>1, <2>1, <2>2, CountersRise DEF OutInv, StoreRises
<1>3. PathKept
  <2>1. ASSUME NEW m \in Msgs, Smtp(m) PROVE PathKept
    BY <1>2, <2>1, SubmitStep, SubmitFailsStep, EnqueueStep, EnqueueFailsStep, RollbackDeleteStep,
       RollbackExpungeStep, AcceptStep DEF Smtp
  <2>2. CASE Sender
    BY <1>2, <2>2, SenderReadsStep, DropOrphanStep, StoreLocallyStep, DequeueStep, MoveToSentStep
       DEF Sender
  <2>3. CASE Trouble
    BY <1>2, <2>3, SenderReadsStep, CrashStep DEF Trouble
  <2>4. CASE LinkUp \/ LinkDown \/ TimePasses \/ UNCHANGED vars
    <3>1. UNCHANGED <<mails, queue, smtpVars, snd, delivered, cancelled, overtaken, faults>>
      BY <2>4 DEF LinkUp, LinkDown, TimePasses, Tick, vars, storeVars, envVars
    <3> QED BY <1>2, <3>1, WorldStep
  <2>5. CASE ClearQueued \/ ClientDeletes \/ ClientExpunges
    BY <1>2, <2>5, ClearQueuedStep, ClientDeletesStep, ClientExpungesStep
  <2> QED BY <2>1, <2>2, <2>3, <2>4, <2>5 DEF Next, NodeActs
<1>4. OutTypeOK'
  BY OutStepTyped DEF OutInv
<1> QED BY <1>2, <1>3, <1>4 DEF OutInv, PathKept, StoreRises

(* For any number of recipients, crashes, errors and cancellations.        *)
THEOREM OutboundPathInvariant == Spec => []OutInv
BY OutInitInv, OutStepInv, PTL DEF Spec

(* A mail whose client was told 250 is, for each recipient, stored, taken  *)
(* back or still queued, unless the sender overtook its session: no other  *)
(* order of calls, crash or error loses it (accept_mail, process_queue).   *)
THEOREM AcceptedMailsAreKept == Spec => []AcceptedMailIsKept
<1>1. OutInv => AcceptedMailIsKept
  BY DEF OutInv, TrailInv, KeptUnlessRefused, SessionSteps, AcceptedMailIsKept, Entered
<1> QED BY OutboundPathInvariant, <1>1, PTL

(* A mail whose client was told 451 has reached at most the recipients     *)
(* that were queued before the failure, and when the rollback is over      *)
(* nothing of it is left in Outbox, unless a second error hit the rollback *)
(* (accept_mail): however many recipients were queued, and whatever the    *)
(* sender was doing with the mail at the time.                             *)
THEOREM RefusedMailsAreWithdrawn == Spec => []RefusedMailIsWithdrawn
<1>1. OutInv => RefusedMailIsWithdrawn
  BY DEF OutInv, TrailInv, FlagInv, OutTypeOK, Untouched, RolledBack, RefusedMailIsWithdrawn
<1> QED BY OutboundPathInvariant, <1>1, PTL

(* A mail goes to Sent only when everybody it was queued for has it or had *)
(* it taken back (sender.rs:155).                                          *)
THEOREM SentMailsAreSettled == Spec => []SentMeansSettled
<1>1. OutInv => SentMeansSettled
  BY DEF OutInv, TrailInv
<1> QED BY OutboundPathInvariant, <1>1, PTL

(* The sender never sends a mail again whose row it has itself removed     *)
(* (process_queue).                                                        *)
THEOREM SendsAreQueued == Spec => []SendingWhatIsQueued
<1>1. OutInv => SendingWhatIsQueued
  BY DEF OutInv, SndInv
<1> QED BY OutboundPathInvariant, <1>1, PTL

-----------------------------------------------------------------------------
(* A mail to oneself.                                                      *)

(* Only the local delivery stores a mail of the node's own; the network is *)
(* for the others.                                                         *)
SelfDest ==
  /\ snd.pc \in {"gate", "send"} => snd.dest # Self
  /\ snd.pc = "local" => snd.dest = Self

DeliveredIsStored == \A m \in Msgs : <<m, Self>> \in delivered <=> arrivals[m] # <<>>

(* The sender may yet store the mail with this id in the inbox: its row is *)
(* in the queue or in the snapshot, and not about to be removed.           *)
StillToCome(id) ==
  \/ QRow(Self, id) \in queue /\ ~ (snd.pc = "dequeue" /\ snd.dest = Self /\ snd.id = id)
  \/ snd.dest = Self /\ id \in snd.pending \ {snd.id}

(* A copy of a mail that may be stored again was followed by a crash or an *)
(* error.                                                                  *)
CopiesCounted ==
  /\ \A m \in Msgs : Len(arrivals[m]) <= 1 + faults
  /\ \A r \in mails : r.mailbox = "Outbox" /\ StillToCome(r.id) => Len(arrivals[r.msg]) <= faults
  /\ snd.pc = "local" => Len(arrivals[snd.msg]) <= faults

SelfInv == SeenInv /\ SelfDest /\ DeliveredIsStored /\ CopiesCounted

LEMMA SelfKept ==
  ASSUME OutInv, SelfInv, SeenInv', SelfDest', arrivals' = arrivals,
         faults' \in Nat, faults' >= faults,
         \A m \in Msgs : <<m, Self>> \in delivered' <=> <<m, Self>> \in delivered,
         \A x \in mails' : x.mailbox = "Outbox" /\ StillToCome(x.id)' => Len(arrivals[x.msg]) <= faults',
         snd'.pc = "local" => Len(arrivals[snd'.msg]) <= faults'
  PROVE  SelfInv'
<1>1. \A m \in Msgs : Len(arrivals[m]) \in Nat
  BY DEF SelfInv, SeenInv, SeenTypeOK
<1>2. faults \in Nat
  BY DEF OutInv, OutTypeOK
<1>3. DeliveredIsStored'
  BY DEF SelfInv, DeliveredIsStored
<1>4. \A m \in Msgs : Len(arrivals'[m]) <= 1 + faults'
  BY <1>1, <1>2 DEF SelfInv, CopiesCounted
<1>5. CopiesCounted'
  BY <1>4 DEF CopiesCounted
<1> QED BY <1>3, <1>5 DEF SelfInv

(* A crash or an error pays for the copy that may follow it.               *)
LEMMA SelfFault ==
  ASSUME OutInv, OutInv', SelfInv, SeenInv', SelfDest', arrivals' = arrivals, Fault
  PROVE  SelfInv'
<1>1. /\ faults' = faults + 1 /\ faults \in Nat /\ delivered' = delivered
      /\ \A x \in mails' : x.msg \in Msgs
      /\ snd'.msg \in Msgs
  BY RowTypes DEF Fault, OutInv, OutTypeOK, SndType
<1>2. \A m \in Msgs : Len(arrivals[m]) <= faults'
  BY <1>1 DEF SelfInv, CopiesCounted
<1> QED BY <1>1, <1>2, SelfKept

(* The others take rows away, and the clock goes on.                       *)
LEMMA SelfOthers ==
  ASSUME OutInv, SelfInv, SeenInv', UNCHANGED <<snd, arrivals, delivered, faults>>,
         OldRows, queue' \subseteq queue
  PROVE  SelfInv'
<1>1. SelfDest'
  BY DEF SelfInv, SelfDest
<1>2. \A x \in mails' : x.mailbox = "Outbox" /\ StillToCome(x.id)' => Len(arrivals[x.msg]) <= faults
  <2> SUFFICES ASSUME NEW x \in mails', x.mailbox = "Outbox", StillToCome(x.id)'
               PROVE  Len(arrivals[x.msg]) <= faults
    OBVIOUS
  <2>1. PICK r \in mails : r.mailbox = "Outbox" /\ r.id = x.id /\ r.msg = x.msg
    BY DEF OldRows
  <2>2. StillToCome(r.id)
    BY <2>1 DEF StillToCome, QRow
  <2> QED BY <2>1, <2>2 DEF SelfInv, CopiesCounted
<1>3. faults \in Nat
  BY DEF OutInv, OutTypeOK
<1> QED BY <1>1, <1>2, <1>3, SelfKept DEF SelfInv, CopiesCounted

(* The sender goes on, and nothing is to come that was not before.         *)
LEMMA SelfGoesOn ==
  ASSUME OutInv, SelfInv, SeenInv', SelfDest', UNCHANGED <<arrivals, faults>>,
         \A m \in Msgs : <<m, Self>> \in delivered' <=> <<m, Self>> \in delivered,
         \A x \in mails' : x.mailbox = "Outbox" => x \in mails /\ (StillToCome(x.id)' => StillToCome(x.id)),
         snd'.pc # "local"
  PROVE  SelfInv'
<1>1. faults \in Nat
  BY DEF OutInv, OutTypeOK
<1> QED BY <1>1, SelfKept DEF SelfInv, CopiesCounted

LEMMA SelfNextMail ==
  ASSUME OutInv, SelfInv, SeenInv', NextMail, snd.pc # "dequeue", UNCHANGED <<arrivals, faults>>,
         \A m \in Msgs : <<m, Self>> \in delivered' <=> <<m, Self>> \in delivered,
         \A x \in mails' : x.mailbox = "Outbox" => x \in mails,
         \A id : QRow(Self, id) \in queue' => QRow(Self, id) \in queue
  PROVE  SelfInv'
<1>1. /\ snd'.pc = "mail" /\ snd'.pending = snd.pending \ {snd.id} /\ snd'.id = snd.id
      /\ snd'.dest = snd.dest
  BY NextMailTyped DEF OutInv
<1>2. SelfDest'
  BY <1>1 DEF SelfDest
<1>3. \A id : StillToCome(id)' => StillToCome(id)
  BY <1>1 DEF StillToCome, QRow
<1> QED BY <1>1, <1>2, <1>3, SelfGoesOn

LEMMA SelfGoto ==
  ASSUME OutInv, SelfInv, SeenInv', NEW pc \in Carrying \ {"local"}, SndGoto(pc), UNCHANGED <<arrivals, faults>>,
         \A m \in Msgs : <<m, Self>> \in delivered' <=> <<m, Self>> \in delivered,
         \A x \in mails' : x.mailbox = "Outbox" => x \in mails,
         pc \in {"gate", "send"} => snd.pc \in {"gate", "send"},
         queue' \subseteq queue,
         snd.pc = "dequeue" => QRow(snd.dest, snd.id) \notin queue'
  PROVE  SelfInv'
<1>1. /\ snd'.pc = pc /\ snd'.dest = snd.dest /\ snd'.pending = snd.pending
      /\ snd'.id = snd.id
  BY GotoTyped DEF OutInv
<1>2. SelfDest'
  BY <1>1 DEF SelfInv, SelfDest
<1>3. \A id : StillToCome(id)' => StillToCome(id)
  BY <1>1 DEF StillToCome, QRow
<1> QED BY <1>1, <1>2, <1>3, SelfGoesOn

LEMMA SelfRests ==
  ASSUME OutInv, SelfInv, SeenInv', snd.pc # "dequeue", UNCHANGED <<mails, queue, arrivals, faults, delivered>>,
         \E D \in SUBSET Dests, pc \in {"sleep", "dest"} : snd' = Between(pc, D)
  PROVE  SelfInv'
<1>1. SndRests' /\ snd'.pc \in {"sleep", "dest"}
  BY RestTyped
<1>2. SelfDest'
  BY <1>1 DEF SelfDest
<1>3. \A id : StillToCome(id)' => StillToCome(id)
  BY <1>1 DEF StillToCome, QRow, SndRests
<1> QED BY <1>1, <1>2, <1>3, SelfGoesOn

LEMMA SelfNextDest ==
  ASSUME OutInv, SelfInv, SeenInv', NextDest
  PROVE  SelfInv'
<1> USE DEF OutInv
<1>1. /\ UNCHANGED <<mails, queue, arrivals, faults, delivered>> /\ snd.pc = "dest"
  BY DEF NextDest, storeVars, envVars
<1>2. /\ snd'.pc = "mail" /\ snd'.pending = QueuedIds(snd'.dest)
  BY NextDestTyped
<1>3. SelfDest'
  BY <1>2 DEF SelfDest
<1>4. ASSUME NEW x \in mails', x.mailbox = "Outbox", StillToCome(x.id)' PROVE StillToCome(x.id)
  <2>1. CASE QRow(Self, x.id) \in queue
    BY <1>1, <2>1 DEF StillToCome
  <2>2. CASE snd'.dest = Self /\ x.id \in QueuedIds(Self)
    <3>1. PICK q \in queue : q.id = x.id /\ q.dest = Self
      BY <2>2 DEF QueuedIds
    <3>2. x \in InOutbox(q.id)
      BY <1>1, <1>4, <3>1 DEF InOutbox
    <3>3. q = QRow(Self, x.id)
      BY <3>1, <3>2, RowOfQueue DEF TrailInv
    <3> QED BY <2>1, <3>3
  <2> QED BY <1>1, <1>2, <1>4, <2>1, <2>2 DEF StillToCome, QRow
<1> QED BY <1>1, <1>2, <1>3, <1>4, SelfGoesOn

LEMMA SelfGetMail ==
  ASSUME OutInv, SelfInv, SeenInv', GetMail
  PROVE  SelfInv'
<1> USE DEF OutInv
<1> DEFINE id == snd'.id
           r == Mail("Outbox", id)
<1>1. /\ UNCHANGED <<mails, queue, arrivals, faults, delivered>> /\ snd.pc = "mail" /\ faults \in Nat
  BY DEF GetMail, storeVars, envVars, OutTypeOK
<1>2. /\ id \in snd.pending /\ snd'.dest = snd.dest /\ snd'.pending = snd.pending
      /\ \/ ~ HasMail("Outbox", id) /\ snd'.pc = "drop" /\ snd'.msg = snd.msg
         \/ /\ HasMail("Outbox", id) /\ snd'.msg = r.msg
            /\ snd'.pc = IF snd.dest = Self THEN "local" ELSE "gate"
  BY GetMailTyped
<1>3. snd.id \notin snd.pending
  BY <1>1 DEF SndInv, SenderKnows
<1>4. SelfDest'
  BY <1>2 DEF SelfDest
<1>5. \A i : StillToCome(i)' => StillToCome(i)
  BY <1>1, <1>2, <1>3 DEF StillToCome, QRow
<1>6. \A x \in mails' : x.mailbox = "Outbox" /\ StillToCome(x.id)' => Len(arrivals[x.msg]) <= faults'
  BY <1>1, <1>5 DEF SelfInv, CopiesCounted
<1>7. snd'.pc = "local" => Len(arrivals[snd'.msg]) <= faults'
  <2> SUFFICES ASSUME snd'.pc = "local" PROVE Len(arrivals[snd'.msg]) <= faults
    BY <1>1
  <2>1. HasMail("Outbox", id) /\ snd'.msg = r.msg /\ snd.dest = Self
    BY <1>2
  <2>2. r \in mails /\ r.mailbox = "Outbox" /\ r.id = id
    BY <2>1, MailFound
  <2>3. StillToCome(id)
    BY <1>2, <1>3, <2>1 DEF StillToCome
  <2> HIDE DEF r, id
  <2> QED BY <2>1, <2>2, <2>3 DEF SelfInv, CopiesCounted
<1> HIDE DEF r, id
<1> QED BY <1>1, <1>4, <1>6, <1>7, SelfKept

(* The local delivery: a copy is stored now, or was before.                *)
LEMMA SelfStoresLocally ==
  ASSUME OutInv, SelfInv, SeenInv', StoreLocally
  PROVE  SelfInv'
<1> USE DEF OutInv
<1>1. /\ snd.pc = "local" /\ snd.dest = Self /\ Deliver /\ SndGoto("dequeue")
      /\ DeliverNew(snd.msg) \/ (IsDuplicate(snd.msg) /\ UNCHANGED storeVars)
      /\ faults' = faults /\ faults \in Nat /\ snd.msg \in Msgs
  BY DEF StoreLocally, SelfInv, SelfDest, OutTypeOK, SndType
<1>2. delivered' = delivered \cup {<<snd.msg, Self>>}
  BY <1>1 DEF Deliver
<1>3. /\ snd'.pc = "dequeue" /\ snd'.dest = Self /\ snd'.pending = snd.pending /\ snd'.id = snd.id
  BY <1>1, GotoTyped DEF Carrying
<1>4. SelfDest'
  BY <1>3 DEF SelfDest
<1>5. \A r \in mails : r.mailbox = "Outbox" => (r.id = snd.id <=> r.msg = snd.msg)
  BY <1>1 DEF SndInv, SenderKnows, Carrying
<1>6. Len(arrivals[snd.msg]) <= faults /\ \A m \in Msgs : Len(arrivals[m]) \in Nat
  BY <1>1 DEF SelfInv, CopiesCounted, SeenInv, SeenTypeOK
<1>7. CASE IsDuplicate(snd.msg) /\ UNCHANGED storeVars
  <2>1. UNCHANGED <<mails, queue, arrivals>>
    BY <1>7 DEF storeVars
  <2>2. arrivals[snd.msg] # <<>>
    BY <1>7 DEF IsDuplicate, Fresh, SelfInv, SeenInv, SeenMeansStored
  <2>3. \A m \in Msgs : <<m, Self>> \in delivered' <=> <<m, Self>> \in delivered
    BY <1>1, <1>2, <2>2 DEF SelfInv, DeliveredIsStored
  <2>4. \A id : StillToCome(id)' => StillToCome(id)
    BY <1>1, <1>3, <2>1 DEF StillToCome, QRow
  <2> QED BY <1>1, <1>3, <1>4, <2>1, <2>3, <2>4, SelfGoesOn
<1>8. CASE DeliverNew(snd.msg)
  <2> DEFINE b == InboundMailbox(snd.msg)
             n == NewRow(b, snd.msg)
  <2>1. mails' = mails \cup {n} /\ queue' = queue /\ n.mailbox # "Outbox"
    BY <1>1, <1>8, OutboxMailboxesApart DEF DeliverNew, NewRow
  <2> HIDE DEF n
  <2>2. /\ arrivals' \in [Msgs -> Seq(Nat)]
        /\ \A m \in Msgs \ {snd.msg} : arrivals'[m] = arrivals[m]
        /\ arrivals'[snd.msg] # <<>>
        /\ Len(arrivals'[snd.msg]) = Len(arrivals[snd.msg]) + 1
    BY <1>1, <1>8, ArrivalsAppended DEF DeliverNew, SelfInv, SeenInv
  <2>3. DeliveredIsStored'
    BY <1>1, <1>2, <2>2 DEF SelfInv, DeliveredIsStored
  <2>4. \A m \in Msgs : Len(arrivals'[m]) <= 1 + faults'
    <3>1. Len(arrivals'[snd.msg]) <= 1 + faults
      BY <1>1, <1>6, <2>2
    <3>2. \A m \in Msgs \ {snd.msg} : Len(arrivals'[m]) <= 1 + faults
      BY <2>2 DEF SelfInv, CopiesCounted
    <3> QED BY <1>1, <3>1, <3>2
  <2>5. ASSUME NEW x \in mails', x.mailbox = "Outbox", StillToCome(x.id)'
        PROVE  Len(arrivals'[x.msg]) <= faults'
    <3>1. x \in mails /\ x.msg \in Msgs
      BY <2>1, <2>5, RowTypes
    <3>2. x.id # snd.id /\ StillToCome(x.id)
      BY <1>1, <1>3, <2>1, <2>5 DEF StillToCome, QRow
    <3>3. x.msg # snd.msg
      BY <1>5, <2>5, <3>1, <3>2
    <3> QED BY <1>1, <2>2, <2>5, <3>1, <3>2, <3>3 DEF SelfInv, CopiesCounted
  <2>6. CopiesCounted'
    BY <1>3, <2>4, <2>5 DEF CopiesCounted
  <2> QED BY <1>4, <2>3, <2>6 DEF SelfInv
<1> QED BY <1>1, <1>7, <1>8

LEMMA SelfSender ==
  ASSUME OutInv, SelfInv, SeenInv', Sender
  PROVE  SelfInv'
<1> USE DEF OutInv
<1>0. snd.dests \in SUBSET Dests /\ QueueDests \in SUBSET Dests /\ {} \in SUBSET Dests
  BY DEF OutTypeOK, SndType, QueueDests, StoreInv, StoreTypeOK, QueueRow
<1>1. CASE Wake \/ CycleDone \/ DestDone \/ GateDefers
  <2>1. snd.pc # "dequeue" /\ UNCHANGED <<mails, queue, arrivals, faults, delivered>>
    BY <1>1 DEF Wake, CycleDone, DestDone, GateDefers, storeVars, envVars
  <2>2. \E D \in SUBSET Dests, pc \in {"sleep", "dest"} : snd' = Between(pc, D)
    BY <1>0, <1>1 DEF Wake, CycleDone, DestDone, GateDefers, CycleFails, CycleEnds
  <2> QED BY <2>1, <2>2, SelfRests
<1>2. CASE NextDest \/ GetMail
  BY <1>2, SelfNextDest, SelfGetMail
<1>3. CASE StoreLocally
  BY <1>3, SelfStoresLocally
<1>4. CASE DropOrphan
  <2>1. queue' \subseteq queue /\ UNCHANGED <<mails, arrivals, faults, delivered>> /\ snd.pc = "drop" /\ NextMail
    BY <1>4 DEF DropOrphan, QueueDelete, envVars
  <2> QED BY <2>1, SelfNextMail
<1>5. CASE GateOpens
  <2>1. UNCHANGED <<mails, queue, arrivals, faults, delivered>> /\ snd.pc = "gate" /\ SndGoto("send")
    BY <1>5 DEF GateOpens, storeVars, envVars
  <2> QED BY <2>1, SelfGoto DEF Carrying
<1>6. CASE SendOk \/ SendUnconfirmed
  <2>1. /\ UNCHANGED <<mails, queue, arrivals, faults>> /\ snd.pc = "send" /\ Deliver
        /\ SndGoto("dequeue") \/ NextMail
    BY <1>6 DEF SendOk, SendUnconfirmed, storeVars
  <2>2. \A m \in Msgs : <<m, Self>> \in delivered' <=> <<m, Self>> \in delivered
    BY <2>1 DEF Deliver, SelfInv, SelfDest
  <2> QED BY <2>1, <2>2, SelfGoto, SelfNextMail DEF Carrying
<1>7. CASE SendLost
  <2>1. UNCHANGED <<mails, queue, arrivals, faults, delivered>> /\ snd.pc = "send" /\ NextMail
    BY <1>7 DEF SendLost, storeVars, envVars
  <2> QED BY <2>1, SelfNextMail
<1>8. CASE Dequeue
  <2>1. queue' = queue \ {QRow(snd.dest, snd.id)} /\ UNCHANGED <<mails, arrivals, faults, delivered>>
        /\ SndGoto("count")
    BY <1>8 DEF Dequeue, QueueDelete, QRow, envVars
  <2> QED BY <2>1, SelfGoto DEF Carrying
<1>9. CASE CountLeft
  <2>1. /\ UNCHANGED <<mails, queue, arrivals, faults, delivered>> /\ snd.pc = "count"
        /\ SndGoto("move") \/ NextMail
    BY <1>9 DEF CountLeft, storeVars
  <2> QED BY <2>1, SelfGoto, SelfNextMail DEF Carrying
<1>10. CASE MoveToSent
  <2>1. UNCHANGED <<arrivals, faults, delivered>> /\ snd.pc = "move" /\ NextMail
        /\ MailMove("Outbox", "Sent", snd.id)
    BY <1>10 DEF MoveToSent, MailMove, storeVars, envVars
  <2>2. CASE UNCHANGED storeVars
    BY <2>1, <2>2, SelfNextMail DEF storeVars
  <2>3. CASE ~ UNCHANGED storeVars
    <3> DEFINE row == Mail("Outbox", snd.id)
               n   == [row EXCEPT !.mailbox = "Sent"]
               tr(q) == IF q.mailbox = "Outbox" /\ q.id = snd.id THEN [q EXCEPT !.mailbox = "Sent"] ELSE q
    <3>1. /\ HasMail("Outbox", snd.id)
          /\ mails' = (mails \ {row}) \cup {n} /\ queue' = {tr(q) : q \in queue}
      BY <2>1, <2>3 DEF MailMove
    <3>2. row \in MailRow
      BY <3>1, MailFound DEF StoreInv, StoreTypeOK
    <3>3. n.mailbox = "Sent"
      BY <3>2 DEF MailRow
    <3>4. \A q \in queue : tr(q) = q \/ tr(q).mailbox = "Sent"
      BY RowTypes DEF QueueRow
    <3> HIDE DEF row, n, tr
    <3>5. \A x \in mails' : x.mailbox = "Outbox" => x \in mails
      BY <3>1, <3>3
    <3>6. \A id : QRow(Self, id) \in queue' => QRow(Self, id) \in queue
      BY <3>1, <3>4 DEF QRow
    <3> QED BY <2>1, <3>5, <3>6, SelfNextMail
  <2> QED BY <2>2, <2>3
<1> QED BY <1>1, <1>2, <1>3, <1>4, <1>5, <1>6, <1>7, <1>8, <1>9, <1>10 DEF Sender

(* A recipient is entered who has not got the mail.                        *)
LEMMA SelfEnqueue ==
  ASSUME OutInv, SelfInv, SeenInv', NEW m \in Msgs, Enqueue(m)
  PROVE  SelfInv'
<1> USE DEF OutInv
<1>1. PICK d \in tx[m].todo : QueueInsert(d, "Outbox", tx[m].id)
  BY DEF Enqueue
<1>2. /\ queue' = queue \cup {QRow(d, tx[m].id)} /\ UNCHANGED <<mails, arrivals, delivered, faults, snd>>
      /\ faults \in Nat /\ tx[m].pc = "enqueue"
  BY <1>1 DEF QueueInsert, QRow, Enqueue, envVars, OutTypeOK
<1>3. SelfDest'
  BY <1>2 DEF SelfInv, SelfDest
<1>4. ASSUME NEW x \in mails', x.mailbox = "Outbox", StillToCome(x.id)' PROVE Len(arrivals[x.msg]) <= faults
  <2>1. CASE StillToCome(x.id)
    BY <1>2, <1>4, <2>1 DEF SelfInv, CopiesCounted
  <2>2. CASE QRow(Self, x.id) = QRow(d, tx[m].id)
    <3>1. x.id = tx[m].id /\ d = Self
      BY <2>2 DEF QRow
    <3>2. x.msg = m
      BY <1>2, <1>4, <3>1 DEF TrailInv, SessionRow, InOutbox
    <3>3. Self \notin Entered(m)
      BY <1>1, <3>1 DEF Entered
    <3>4. <<m, Self>> \notin delivered
      BY <3>3, OutboundAssumption DEF TrailInv, Untouched
    <3>5. arrivals[m] = <<>>
      BY <3>4 DEF SelfInv, DeliveredIsStored
    <3> QED BY <1>2, <3>2, <3>5
  <2> QED BY <1>2, <1>4, <2>1, <2>2 DEF StillToCome, QRow
<1>5. snd'.pc = "local" => Len(arrivals[snd'.msg]) <= faults'
  BY <1>2 DEF SelfInv, CopiesCounted
<1> QED BY <1>2, <1>3, <1>4, <1>5, SelfKept

(* A new mail has a new id, which neither the queue nor the sender knows.  *)
LEMMA SelfSubmit ==
  ASSUME OutInv, SelfInv, SeenInv', NEW m \in Msgs, Submit(m)
  PROVE  SelfInv'
<1> USE DEF OutInv
<1> DEFINE id == NextUid("Outbox")
           n  == NewRow("Outbox", m)
<1>1. /\ MailInsert("Outbox", m) /\ ~ InsertCollides("Outbox")
      /\ UNCHANGED <<snd, delivered, faults>> /\ faults \in Nat
  BY DEF Submit, envVars, OutTypeOK
<1>2. mails' = mails \cup {n} /\ UNCHANGED <<queue, arrivals>> /\ n.id = id
  BY <1>1 DEF MailInsert, NewRow
<1>3. id = uidNext["Outbox"] /\ id \in Uid
  BY OutboxCounter DEF NextUid, EnsureBox
<1>4. /\ \A q \in queue : q.id # id
      /\ \A i \in snd.pending \cup {snd.id} : i # id
  <2>1. \A q \in queue : q.id \in Nat /\ q.id < id
    BY <1>3, RowTypes DEF TrailInv, IdsAreOld, Uid
  <2>2. \A i \in snd.pending \cup {snd.id} : i \in Nat /\ i < id
    BY <1>3 DEF TrailInv, IdsAreOld, OutTypeOK, SndType
  <2> QED BY <1>3, <2>1, <2>2 DEF Uid
<1> HIDE DEF id, n
<1>5. SelfDest'
  BY <1>1 DEF SelfInv, SelfDest
<1>6. ASSUME NEW x \in mails', x.mailbox = "Outbox", StillToCome(x.id)' PROVE Len(arrivals[x.msg]) <= faults
  <2>1. StillToCome(x.id)
    BY <1>1, <1>2, <1>6 DEF StillToCome, QRow
  <2>2. x # n
    BY <1>2, <1>4, <2>1 DEF StillToCome, QRow
  <2> QED BY <1>2, <1>6, <2>1, <2>2 DEF SelfInv, CopiesCounted
<1>7. snd'.pc = "local" => Len(arrivals[snd'.msg]) <= faults'
  BY <1>1 DEF SelfInv, CopiesCounted
<1> QED BY <1>1, <1>2, <1>5, <1>6, <1>7, SelfKept

LEMMA SelfSmtp ==
  ASSUME OutInv, OutInv', SelfInv, SeenInv', NEW m \in Msgs, Smtp(m)
  PROVE  SelfInv'
<1> USE DEF OutInv
<1>1. CASE Submit(m) \/ Enqueue(m)
  BY <1>1, SelfSubmit, SelfEnqueue
<1>2. CASE Fault /\ (SubmitFails(m) \/ EnqueueFails(m) \/ RollbackDelete(m) \/ RollbackExpunge(m))
  <2>1. UNCHANGED <<arrivals, snd>>
    BY <1>2 DEF SubmitFails, MailInsertFails, EnqueueFails, EnqueueRefused, RollbackDelete, MailDelete,
                SetDeleted, RollbackExpunge, MailExpunge, storeVars
  <2>2. SelfDest'
    BY <2>1 DEF SelfInv, SelfDest
  <2> QED BY <1>2, <2>1, <2>2, SelfFault
<1>3. CASE ~ Fault /\ (EnqueueFails(m) \/ RollbackDelete(m) \/ RollbackExpunge(m) \/ Accept(m))
  <2>1. UNCHANGED <<arrivals, snd, delivered, cancelled, faults>>
    BY <1>3 DEF EnqueueFails, EnqueueRefused, RollbackDelete, MailDelete,
                SetDeleted, RollbackExpunge, MailExpunge, Accept, storeVars, envVars
  <2>2. \/ UNCHANGED <<mails, queue>> \/ SetDeleted("Outbox", tx[m].id, TRUE) \/ MailExpunge("Outbox")
    BY <1>3 DEF EnqueueFails, EnqueueRefused, RollbackDelete, MailDelete, RollbackExpunge, Accept, storeVars
  <2>3. OldRows /\ queue' \subseteq queue
    BY <2>1, <2>2, Marked, Expunged DEF OldRows
  <2> QED BY <2>1, <2>3, SelfOthers
<1>4. SubmitFails(m) => Fault
  BY DEF SubmitFails
<1>5. Accept(m) => ~ Fault
  BY DEF Accept, Fault, envVars, OutTypeOK
<1> QED BY <1>1, <1>2, <1>3, <1>4, <1>5 DEF Smtp

LEMMA SelfStepInv == OutInv /\ OutInv' /\ SelfInv /\ [Next]_vars => SelfInv'
<1> SUFFICES ASSUME OutInv, OutInv', SelfInv, [Next]_vars PROVE SelfInv'
  OBVIOUS
<1> USE DEF OutInv
<1>1. SeenInv'
  BY OutStepStores, SeenStepInv DEF SelfInv
<1>2. CASE \E m \in Msgs : Smtp(m)
  BY <1>1, <1>2, SelfSmtp
<1>3. CASE Sender
  BY <1>1, <1>3, SelfSender
<1>4. CASE Trouble
  <2>1. Fault /\ UNCHANGED arrivals
    BY <1>4 DEF Trouble, StorageErrorEndsCycle, StorageErrorIgnored, Crash, Reopen, CrashInInsert, OpenOn,
                storeVars
  <2>2. snd'.pc \in {"sleep", "mail"}
    <3>1. snd' = Between("sleep", {}) \/ NextMail
      BY <1>4 DEF Trouble, StorageErrorEndsCycle, StorageErrorIgnored, Crash, CycleFails, CycleEnds
    <3>2. Between("sleep", {}).pc = "sleep"
      BY DEF Between
    <3> QED BY <3>1, <3>2, NextMailTyped
  <2>3. SelfDest'
    BY <2>2 DEF SelfDest
  <2> QED BY <1>1, <2>1, <2>3, SelfFault
<1>5. CASE LinkUp \/ LinkDown \/ TimePasses \/ UNCHANGED vars
  <2>1. UNCHANGED <<mails, queue, arrivals, snd, delivered, faults>>
    BY <1>5 DEF LinkUp, LinkDown, TimePasses, Tick, vars, storeVars, envVars
  <2>2. OldRows
    BY <2>1 DEF OldRows
  <2> QED BY <1>1, <2>1, <2>2, SelfOthers
<1>6. CASE ClearQueued \/ ClientDeletes \/ ClientExpunges
  <2>1. UNCHANGED <<arrivals, snd, delivered, faults>> /\ cancelled \subseteq cancelled'
    BY <1>6 DEF ClearQueued, ClientDeletes, ClientExpunges, QueueDelete, SetDeleted, MailExpunge, envVars
  <2>2. \/ mails' = mails /\ queue' \subseteq queue
        \/ \E r \in mails : SetDeleted("Outbox", r.id, TRUE)
        \/ MailExpunge("Outbox")
    BY <1>6 DEF ClearQueued, ClientDeletes, ClientExpunges, QueueDelete
  <2>3. OldRows /\ queue' \subseteq queue
    BY <2>1, <2>2, Marked, Expunged DEF OldRows
  <2> QED BY <1>1, <2>1, <2>3, SelfOthers
<1> QED BY <1>2, <1>3, <1>4, <1>5, <1>6 DEF Next, NodeActs

LEMMA SelfInitInv == Init => SelfInv
<1> SUFFICES ASSUME Init PROVE SelfInv
  OBVIOUS
<1>1. /\ inboxSeen = {} /\ clock = 0 /\ arrivals = [m \in Msgs |-> <<>>] /\ delivered = {}
      /\ snd.pc = "sleep" /\ snd.pending = {} /\ faults = 0
  BY DEF Init, Between
<1>2. \A m \in Msgs : arrivals[m] = <<>> /\ Len(arrivals[m]) = 0
  BY <1>1
<1>3. \A r \in mails : r.msg \in Msgs
  BY OutInitStore, RowTypes
<1>4. SeenInv
  BY <1>1, <1>2 DEF SeenInv, SeenTypeOK, SeenMeansStored, LastIsSeen, NoRepeatInWindow
<1>5. SelfDest
  BY <1>1 DEF SelfDest
<1>6. DeliveredIsStored
  BY <1>1, <1>2 DEF DeliveredIsStored
<1>7. CopiesCounted
  BY <1>1, <1>2, <1>3 DEF CopiesCounted
<1> QED BY <1>4, <1>5, <1>6, <1>7 DEF SelfInv

(* A mail to oneself that counts as delivered is in the inbox; each second *)
(* copy was preceded by a crash or an error of its own, and came when the  *)
(* dedup window was over (deliver_to_self): however the clock, the crashes *)
(* and the retries fall.                                                   *)
THEOREM SelfCopiesRepeatLate == Spec => []SelfCopyRepeatsLate
<1>1. OutInv /\ OutInv' /\ SelfInv /\ [Next]_vars => SelfInv'
  BY SelfStepInv
<1>2. SelfInv => SelfCopyRepeatsLate
  BY DEF SelfInv, SeenInv, NoRepeatInWindow, DeliveredIsStored, CopiesCounted, SelfCopyRepeatsLate
<1> QED BY OutboundPathInvariant, SelfInitInv, <1>1, <1>2, PTL DEF Spec

=============================================================================
