--------------------------- MODULE MailStoreProofs ---------------------------
(***************************************************************************)
(* Proofs about the storage: the tables stay consistent and UIDs stay      *)
(* below their counters, for any set of messages, recipients and mailboxes *)
(* and through any sequence of calls, torn inserts and reopenings.         *)
(*                                                                         *)
(* The inductive invariant StoreInv joins what the properties say with the *)
(* finiteness of the table of mails: SqliteStorage::open lifts a counter   *)
(* above the greatest id of its mailbox, which only a finite set has.      *)
(***************************************************************************)
EXTENDS MailStore, FiniteSetTheorems, WellFoundedInduction, TLAPS

StoreInv ==
  /\ StoreTypeOK
  /\ IsFiniteSet(mails)
  /\ Integrity
  /\ UidBelowNext

-----------------------------------------------------------------------------
(* A finite set of integers that is not empty has a greatest element.      *)
LEMMA GreatestExists ==
  ASSUME NEW S, S \subseteq Int, IsFiniteSet(S), S # {}
  PROVE  \E x \in S : \A y \in S : x >= y
<1> DEFINE above(x) == {y \in S : y > x}
           T == {above(x) : x \in S}
<1>1. T \subseteq FiniteSubsetsOf(S)
  <2> SUFFICES ASSUME NEW x \in S PROVE above(x) \in FiniteSubsetsOf(S)
    OBVIOUS
  <2>1. above(x) \in SUBSET S
    OBVIOUS
  <2>2. IsFiniteSet(above(x))
    BY <2>1, FS_Subset
  <2> QED BY <2>1, <2>2 DEF FiniteSubsetsOf
<1>2. T # {}
  OBVIOUS
<1>3. PICK t \in T : \A u \in T : ~ (<<u, t>> \in StrictSubsetOrdering(S))
  <2>1. IsWellFoundedOn(StrictSubsetOrdering(S), FiniteSubsetsOf(S))
    BY FS_StrictSubsetOrderingWellFounded
  <2> HIDE DEF T
  <2> QED BY <1>1, <1>2, <2>1, WFMin
<1>4. PICK x \in S : t = above(x)
  OBVIOUS
<1>5. ASSUME NEW y \in S, y > x PROVE FALSE
  <2>1. above(y) \in T /\ above(x) \in SUBSET S /\ above(y) \in SUBSET S
    OBVIOUS
  <2>2. above(y) \subseteq above(x) /\ above(y) # above(x)
    <3>1. y \in above(x) /\ y \notin above(y)
      BY <1>5
    <3>2. \A z \in above(y) : z \in above(x)
      BY <1>5
    <3> QED BY <3>1, <3>2
  <2>3. <<above(y), t>> \in StrictSubsetOrdering(S)
    BY <1>4, <2>1, <2>2 DEF StrictSubsetOrdering
  <2> QED BY <1>3, <2>1, <2>3
<1>6. \A y \in S : x >= y
  BY <1>5
<1> QED BY <1>6

(* A mail that is there is what the lookup returns.                        *)
LEMMA MailFound ==
  ASSUME NEW b, NEW id, HasMail(b, id)
  PROVE  Mail(b, id) \in mails /\ Mail(b, id).mailbox = b /\ Mail(b, id).id = id
BY DEF HasMail, Mail

(* The image of a finite set under a function is finite.                  *)
LEMMA ImageFinite ==
  ASSUME NEW S, IsFiniteSet(S), NEW f, DOMAIN f = S, f = [x \in S |-> f[x]]
  PROVE  IsFiniteSet({f[x] : x \in S})
<1> DEFINE T == {f[x] : x \in S}
<1>1. f \in [S -> T]
  OBVIOUS
<1>2. f \in Surjection(S, T)
  BY <1>1 DEF Surjection
<1> QED BY <1>2, FS_Surjection

(* The ids of a mailbox are finitely many UIDs.                            *)
LEMMA IdsFinite ==
  ASSUME NEW b, mails \subseteq MailRow, IsFiniteSet(mails)
  PROVE  Ids(b) \subseteq Uid /\ IsFiniteSet(Ids(b))
<1> DEFINE R == {x \in mails : x.mailbox = b}
           f == [r \in R |-> r.id]
<1>1. IsFiniteSet(R)
  BY FS_Subset
<1>2. IsFiniteSet({f[r] : r \in R})
  <2> f = [r \in R |-> f[r]] /\ DOMAIN f = R
    OBVIOUS
  <2> HIDE DEF f, R
  <2> QED BY <1>1, ImageFinite
<1>3. Ids(b) = {f[r] : r \in R}
  BY DEF Ids
<1>4. Ids(b) \subseteq Uid
  BY DEF Ids, MailRow
<1> QED BY <1>2, <1>3, <1>4

-----------------------------------------------------------------------------
(* One lemma per call of the storage.                                      *)

LEMMA StoreInitInv == StoreInit => StoreInv
<1> SUFFICES ASSUME StoreInit PROVE StoreInv
  OBVIOUS
<1> USE DEF StoreInit
<1>1. StoreTypeOK
  BY DEF StoreTypeOK, Boxes, Uid, MailRow, QueueRow, SeenRow
<1>2. IsFiniteSet(mails)
  BY FS_EmptySet
<1>3. Integrity
  BY DEF Integrity, UniqueKeys, MailsInBoxes, QueueHasMail, ProtectedStay
<1>4. UidBelowNext
  BY DEF UidBelowNext
<1> QED BY <1>1, <1>2, <1>3, <1>4 DEF StoreInv

(* The counters an insert leaves: one mailbox more, no counter lower.      *)
LEMMA EnsuredCounters ==
  ASSUME StoreTypeOK, NEW b \in Boxes
  PROVE  /\ DOMAIN EnsureBox(uidNext, b) = DOMAIN uidNext \cup {b}
         /\ DOMAIN Bumped(b) = DOMAIN uidNext \cup {b}
         /\ \A x \in DOMAIN uidNext \cup {b} :
               EnsureBox(uidNext, b)[x] \in Uid /\ Bumped(b)[x] \in Uid
         /\ \A x \in DOMAIN uidNext :
               uidNext[x] = EnsureBox(uidNext, b)[x] /\ uidNext[x] <= Bumped(b)[x]
         /\ NextUid(b) \in Uid
         /\ Bumped(b)[b] = NextUid(b) + 1
BY DEF EnsureBox, Bumped, NextUid, StoreTypeOK, Uid

(* What any change of the counters and mails must keep.                    *)
LEMMA CountersKeepInv ==
  ASSUME StoreInv,
         UNCHANGED <<mails, queue, inboxSeen, clock, arrivals>>,
         uidNext' = [x \in DOMAIN uidNext' |-> uidNext'[x]],
         DOMAIN uidNext \subseteq DOMAIN uidNext', DOMAIN uidNext' \subseteq Boxes,
         \A x \in DOMAIN uidNext' : uidNext'[x] \in Uid,
         \A x \in DOMAIN uidNext : uidNext[x] <= uidNext'[x]
  PROVE  StoreInv'
<1> USE DEF StoreInv
<1>1. StoreTypeOK'
  BY DEF StoreTypeOK
<1>2. Integrity'
  BY DEF Integrity, UniqueKeys, MailsInBoxes, QueueHasMail, ProtectedStay, HasMail
<1>3. UidBelowNext'
  BY DEF UidBelowNext, Integrity, MailsInBoxes, StoreTypeOK, MailRow, Uid
<1> QED BY <1>1, <1>2, <1>3

LEMMA MailInsertInv ==
  ASSUME StoreInv, NEW b \in Boxes, NEW m \in Msgs, uidNext' = Bumped(b),
         mails' = mails \/ (mails' = mails \cup {NewRow(b, m)} /\ ~ InsertCollides(b)),
         UNCHANGED queue, inboxSeen' \subseteq SeenRow, clock' \in Nat,
         arrivals' \in [Msgs -> Seq(Nat)]
  PROVE  StoreInv'
<1> USE DEF StoreInv
<1>1. /\ DOMAIN Bumped(b) = DOMAIN uidNext \cup {b}
      /\ \A x \in DOMAIN uidNext \cup {b} : Bumped(b)[x] \in Uid
      /\ \A x \in DOMAIN uidNext : uidNext[x] <= Bumped(b)[x]
      /\ NextUid(b) \in Uid
      /\ Bumped(b)[b] = NextUid(b) + 1
  BY EnsuredCounters
<1>2. NewRow(b, m) \in MailRow /\ NewRow(b, m).mailbox = b /\ NewRow(b, m).id = NextUid(b)
  BY <1>1 DEF NewRow, MailRow
<1>3. StoreTypeOK'
  <2>1. uidNext' \in [DOMAIN uidNext' -> Uid] /\ DOMAIN uidNext' \subseteq Boxes
    <3>1. Bumped(b) = [x \in DOMAIN Bumped(b) |-> Bumped(b)[x]]
      BY DEF Bumped, EnsureBox
    <3> QED BY <1>1, <3>1 DEF StoreTypeOK
  <2>2. mails' \subseteq MailRow
    BY <1>2 DEF StoreTypeOK
  <2> QED BY <2>1, <2>2 DEF StoreTypeOK
<1>4. IsFiniteSet(mails')
  BY FS_AddElement
<1>5. Integrity'
  <2>1. UniqueKeys'
    BY <1>2 DEF Integrity, UniqueKeys, InsertCollides, HasMail
  <2>2. MailsInBoxes' /\ ProtectedStay'
    BY <1>1, <1>2 DEF Integrity, MailsInBoxes, ProtectedStay
  <2>3. QueueHasMail'
    BY DEF Integrity, QueueHasMail, HasMail
  <2> QED BY <2>1, <2>2, <2>3 DEF Integrity
<1>6. UidBelowNext'
  <2> SUFFICES ASSUME NEW r \in mails', r.mailbox # "Sent"
               PROVE  r.id < uidNext'[r.mailbox]
    BY DEF UidBelowNext
  <2>1. CASE r \in mails
    <3>1. r.mailbox \in DOMAIN uidNext /\ r.id < uidNext[r.mailbox] /\ r.id \in Uid
      BY <2>1 DEF UidBelowNext, Integrity, MailsInBoxes, StoreTypeOK, MailRow
    <3>2. uidNext[r.mailbox] \in Uid /\ uidNext'[r.mailbox] \in Uid
      BY <1>1, <3>1 DEF StoreTypeOK
    <3> QED BY <1>1, <3>1, <3>2 DEF Uid
  <2>2. CASE r = NewRow(b, m)
    BY <1>1, <1>2, <2>2 DEF Uid
  <2> QED BY <2>1, <2>2
<1> QED BY <1>3, <1>4, <1>5, <1>6

LEMMA MailInsertFailsInv ==
  ASSUME StoreInv, NEW b \in Boxes, MailInsertFails(b)
  PROVE  StoreInv'
<1>1. StoreTypeOK
  BY DEF StoreInv
<1>2. UNCHANGED <<mails, queue, inboxSeen, clock, arrivals>>
  BY DEF MailInsertFails
<1>3. uidNext' \in {uidNext, EnsureBox(uidNext, b), Bumped(b)}
  BY DEF MailInsertFails, PartOfInsert
<1>4. uidNext' = [x \in DOMAIN uidNext' |-> uidNext'[x]]
  BY <1>1, <1>3 DEF StoreTypeOK, EnsureBox, Bumped
<1>5. /\ DOMAIN uidNext \subseteq DOMAIN uidNext'
      /\ DOMAIN uidNext' \subseteq DOMAIN uidNext \cup {b}
      /\ \A x \in DOMAIN uidNext' : uidNext'[x] \in Uid
      /\ \A x \in DOMAIN uidNext : uidNext[x] <= uidNext'[x]
  <2>1. CASE uidNext' = uidNext
    BY <1>1, <2>1 DEF StoreTypeOK, Uid
  <2>2. CASE uidNext' = EnsureBox(uidNext, b)
    <3>1. /\ DOMAIN EnsureBox(uidNext, b) = DOMAIN uidNext \cup {b}
          /\ \A x \in DOMAIN uidNext \cup {b} : EnsureBox(uidNext, b)[x] \in Uid
          /\ \A x \in DOMAIN uidNext : uidNext[x] = EnsureBox(uidNext, b)[x]
      BY <1>1, EnsuredCounters
    <3> QED BY <2>2, <3>1 DEF Uid
  <2>3. CASE uidNext' = Bumped(b)
    BY <1>1, <2>3, EnsuredCounters
  <2> QED BY <1>3, <2>1, <2>2, <2>3
<1> QED BY <1>1, <1>2, <1>4, <1>5, CountersKeepInv DEF StoreTypeOK

LEMMA FreshSeen ==
  ASSUME StoreTypeOK, NEW m \in Msgs
  PROVE  Fresh \cup {[msg |-> m, at |-> clock]} \subseteq SeenRow
BY DEF StoreTypeOK, Fresh, SeenRow

LEMMA InboxIsBox ==
  ASSUME NEW m \in Msgs
  PROVE  InboundMailbox(m) \in Boxes
BY StoreAssumption DEF InboundMailbox, Boxes, Protected

LEMMA DeliverNewInv ==
  ASSUME StoreInv, NEW m \in Msgs, DeliverNew(m)
  PROVE  StoreInv'
<1> DEFINE b == InboundMailbox(m)
<1>1. b \in Boxes
  BY InboxIsBox
<1>2. /\ uidNext' = Bumped(b)
      /\ mails' = mails \cup {NewRow(b, m)}
      /\ ~ InsertCollides(b)
      /\ UNCHANGED <<queue, clock>>
      /\ inboxSeen' = Fresh \cup {[msg |-> m, at |-> clock]}
      /\ arrivals' = [arrivals EXCEPT ![m] = Append(@, clock)]
  BY DEF DeliverNew
<1>3. inboxSeen' \subseteq SeenRow /\ clock' \in Nat
  BY <1>2, FreshSeen DEF StoreInv, StoreTypeOK
<1>4. arrivals' \in [Msgs -> Seq(Nat)]
  BY <1>2 DEF StoreInv, StoreTypeOK
<1> HIDE DEF b
<1> QED BY <1>1, <1>2, <1>3, <1>4, MailInsertInv

(* A change of the rows of mails and queue that keeps every key.           *)
LEMMA RowsKeepInv ==
  ASSUME StoreInv, UNCHANGED <<uidNext, inboxSeen, clock, arrivals>>,
         mails' \subseteq MailRow, queue' \subseteq QueueRow, IsFiniteSet(mails'),
         UniqueKeys', MailsInBoxes', QueueHasMail', UidBelowNext'
  PROVE  StoreInv'
BY DEF StoreInv, StoreTypeOK, Integrity, ProtectedStay

LEMMA MailMoveInv ==
  ASSUME StoreInv, NEW id, MailMove("Outbox", "Sent", id)
  PROVE  StoreInv'
<1>1. CASE UNCHANGED storeVars
  BY <1>1 DEF storeVars, StoreInv, StoreTypeOK, Integrity, UniqueKeys, MailsInBoxes,
              QueueHasMail, HasMail, ProtectedStay, UidBelowNext
<1>2. CASE HasMail("Outbox", id) /\ ~ HasMail("Sent", id)
  <2> DEFINE row == Mail("Outbox", id)
             moved == [row EXCEPT !.mailbox = "Sent"]
             tr(q) == IF q.mailbox = "Outbox" /\ q.id = id
                      THEN [q EXCEPT !.mailbox = "Sent"] ELSE q
  <2>1. /\ mails' = (mails \ {row}) \cup {moved}
        /\ queue' = {tr(q) : q \in queue}
        /\ UNCHANGED <<uidNext, inboxSeen, clock, arrivals>>
    BY <1>2 DEF MailMove
  <2>2. row \in mails /\ row \in MailRow /\ row.mailbox = "Outbox" /\ row.id = id
    BY <1>2, MailFound DEF StoreInv, StoreTypeOK
  <2>3. moved \in MailRow /\ moved.mailbox = "Sent" /\ moved.id = id
    BY <2>2 DEF MailRow, Boxes, Protected
  <2> HIDE DEF row, moved
  <2>4. mails' \subseteq MailRow /\ IsFiniteSet(mails')
    BY <2>1, <2>3, FS_AddElement, FS_RemoveElement DEF StoreInv, StoreTypeOK
  <2>5. queue' \subseteq QueueRow
    <3> SUFFICES ASSUME NEW q \in queue PROVE tr(q) \in QueueRow
      BY <2>1
    <3>1. q \in QueueRow
      BY DEF StoreInv, StoreTypeOK
    <3> QED BY <3>1 DEF QueueRow, Boxes, Protected
  <2>6. UniqueKeys'
    BY <1>2, <2>1, <2>3 DEF StoreInv, Integrity, UniqueKeys, HasMail
  <2>7. MailsInBoxes'
    BY <2>1, <2>3 DEF StoreInv, Integrity, MailsInBoxes, ProtectedStay, Protected
  <2>8. QueueHasMail'
    <3> SUFFICES ASSUME NEW q \in queue PROVE HasMail(tr(q).mailbox, tr(q).id)'
      BY <2>1 DEF QueueHasMail
    <3>1. q \in QueueRow /\ HasMail(q.mailbox, q.id)
      BY DEF StoreInv, StoreTypeOK, Integrity, QueueHasMail
    <3>2. CASE q.mailbox = "Outbox" /\ q.id = id
      BY <2>1, <2>3, <3>1, <3>2 DEF HasMail, QueueRow
    <3>3. CASE ~ (q.mailbox = "Outbox" /\ q.id = id)
      BY <2>1, <2>2, <3>1, <3>3 DEF HasMail
    <3> QED BY <3>2, <3>3
  <2>9. UidBelowNext'
    BY <2>1, <2>3 DEF StoreInv, UidBelowNext
  <2> QED BY <2>1, <2>4, <2>5, <2>6, <2>7, <2>8, <2>9, RowsKeepInv
<1> QED BY <1>1, <1>2 DEF MailMove

LEMMA SetDeletedInv ==
  ASSUME StoreInv, NEW b, NEW id, NEW flag \in BOOLEAN, SetDeleted(b, id, flag)
  PROVE  StoreInv'
<1> DEFINE f == [r \in mails |-> IF r.mailbox = b /\ r.id = id
                                 THEN [r EXCEPT !.deleted = flag] ELSE r]
<1>1. mails' = {f[r] : r \in mails} /\ UNCHANGED <<uidNext, queue, inboxSeen, clock, arrivals>>
  BY DEF SetDeleted
<1>2. \A r \in mails : /\ r \in MailRow /\ f[r] \in MailRow
                       /\ f[r].mailbox = r.mailbox /\ f[r].id = r.id
  BY DEF StoreInv, StoreTypeOK, MailRow
<1>3. f = [r \in mails |-> f[r]] /\ DOMAIN f = mails
  OBVIOUS
<1> HIDE DEF f
<1>4. IsFiniteSet(mails')
  BY <1>1, <1>3, ImageFinite DEF StoreInv
<1>5. mails' \subseteq MailRow /\ MailsInBoxes' /\ UidBelowNext'
  BY <1>1, <1>2 DEF StoreInv, Integrity, MailsInBoxes, UidBelowNext
<1>6. UniqueKeys'
  BY <1>1, <1>2 DEF StoreInv, Integrity, UniqueKeys
<1>7. QueueHasMail'
  BY <1>1, <1>2 DEF StoreInv, Integrity, QueueHasMail, HasMail
<1> QED BY <1>1, <1>4, <1>5, <1>6, <1>7, RowsKeepInv DEF StoreInv, StoreTypeOK

LEMMA MailExpungeInv ==
  ASSUME StoreInv, NEW b, MailExpunge(b)
  PROVE  StoreInv'
<1> DEFINE gone == {r \in mails : r.mailbox = b /\ r.deleted}
<1>1. /\ mails' = mails \ gone
      /\ queue' = CascadeDelete(gone)
      /\ UNCHANGED <<uidNext, inboxSeen, clock, arrivals>>
  BY DEF MailExpunge
<1>2. mails' \subseteq mails /\ queue' \subseteq queue
  BY <1>1 DEF CascadeDelete
<1>3. IsFiniteSet(mails')
  BY <1>2, FS_Subset DEF StoreInv
<1>4. UniqueKeys' /\ MailsInBoxes' /\ UidBelowNext'
  BY <1>1, <1>2 DEF StoreInv, Integrity, UniqueKeys, MailsInBoxes, UidBelowNext
<1> HIDE DEF gone
<1>5. QueueHasMail'
  BY <1>1 DEF StoreInv, Integrity, QueueHasMail, HasMail, CascadeDelete
<1> QED BY <1>1, <1>2, <1>3, <1>4, <1>5, RowsKeepInv DEF StoreInv, StoreTypeOK

LEMMA CreateMailboxInv ==
  ASSUME StoreInv, NEW b \in Boxes, CreateMailbox(b)
  PROVE  StoreInv'
<1>1. StoreTypeOK
  BY DEF StoreInv
<1>2. uidNext' = EnsureBox(uidNext, b) /\ UNCHANGED <<mails, queue, inboxSeen, clock, arrivals>>
  BY DEF CreateMailbox
<1>3. uidNext' = [x \in DOMAIN uidNext' |-> uidNext'[x]]
  BY <1>2 DEF EnsureBox
<1>4. /\ DOMAIN uidNext' = DOMAIN uidNext \cup {b}
      /\ \A x \in DOMAIN uidNext' : uidNext'[x] \in Uid
      /\ \A x \in DOMAIN uidNext : uidNext[x] = uidNext'[x]
  BY <1>1, <1>2, EnsuredCounters
<1> QED BY <1>1, <1>2, <1>3, <1>4, CountersKeepInv DEF StoreTypeOK, Uid

LEMMA DeleteMailboxInv ==
  ASSUME StoreInv, NEW b \in UserBoxes, DeleteMailbox(b)
  PROVE  StoreInv'
<1> DEFINE gone == {r \in mails : r.mailbox = b}
<1>1. /\ uidNext' = [x \in DOMAIN uidNext \ {b} |-> uidNext[x]]
      /\ mails' = mails \ gone
      /\ queue' = CascadeDelete(gone)
      /\ UNCHANGED <<inboxSeen, clock, arrivals>>
  BY DEF DeleteMailbox
<1>2. mails' \subseteq mails /\ queue' \subseteq queue /\ \A r \in mails' : r.mailbox # b
  BY <1>1 DEF CascadeDelete
<1>3. StoreTypeOK'
  BY <1>1, <1>2 DEF StoreInv, StoreTypeOK
<1>4. IsFiniteSet(mails')
  BY <1>2, FS_Subset DEF StoreInv
<1>5. UniqueKeys' /\ MailsInBoxes' /\ UidBelowNext'
  BY <1>1, <1>2 DEF StoreInv, Integrity, UniqueKeys, MailsInBoxes, UidBelowNext
<1>6. ProtectedStay'
  BY <1>1, StoreAssumption DEF StoreInv, Integrity, ProtectedStay
<1> HIDE DEF gone
<1>7. QueueHasMail'
  BY <1>1 DEF StoreInv, Integrity, QueueHasMail, HasMail, CascadeDelete
<1> QED BY <1>3, <1>4, <1>5, <1>6, <1>7 DEF StoreInv, Integrity

LEMMA RenameMailboxInv ==
  ASSUME StoreInv, NEW b \in UserBoxes, NEW c \in Boxes, RenameMailbox(b, c)
  PROVE  StoreInv'
<1> DEFINE f == [r \in mails |-> IF r.mailbox = b THEN [r EXCEPT !.mailbox = c] ELSE r]
           tr(q) == IF q.mailbox = b THEN [q EXCEPT !.mailbox = c] ELSE q
<1>1. /\ b \in DOMAIN uidNext /\ c \notin DOMAIN uidNext
      /\ uidNext' = [x \in (DOMAIN uidNext \ {b}) \cup {c} |->
                       IF x = c THEN uidNext[b] ELSE uidNext[x]]
      /\ mails' = {f[r] : r \in mails}
      /\ queue' = {tr(q) : q \in queue}
      /\ UNCHANGED <<inboxSeen, clock, arrivals>>
  BY DEF RenameMailbox
<1>2. b \notin Protected /\ c \notin Protected
  BY <1>1, StoreAssumption DEF StoreInv, Integrity, ProtectedStay
<1>3. \A r \in mails : /\ r \in MailRow /\ f[r] \in MailRow /\ f[r].id = r.id
                       /\ f[r].mailbox = IF r.mailbox = b THEN c ELSE r.mailbox
                       /\ r.mailbox # c /\ r.mailbox \in DOMAIN uidNext
                       /\ r.mailbox # b => f[r] = r
  BY <1>1 DEF StoreInv, StoreTypeOK, MailRow, Integrity, MailsInBoxes
<1>4. \A q \in queue : /\ q \in QueueRow /\ tr(q) \in QueueRow /\ tr(q).id = q.id
                       /\ tr(q).mailbox = IF q.mailbox = b THEN c ELSE q.mailbox
                       /\ HasMail(q.mailbox, q.id)
  BY <1>1 DEF StoreInv, StoreTypeOK, QueueRow, Integrity, QueueHasMail
<1>5. f = [r \in mails |-> f[r]] /\ DOMAIN f = mails
  OBVIOUS
<1> HIDE DEF f, tr
<1>6. IsFiniteSet(mails')
  BY <1>1, <1>5, ImageFinite DEF StoreInv
<1>7. StoreTypeOK'
  <2>1. uidNext' \in [DOMAIN uidNext' -> Uid] /\ DOMAIN uidNext' \subseteq Boxes
    BY <1>1 DEF StoreInv, StoreTypeOK
  <2>2. mails' \subseteq MailRow /\ queue' \subseteq QueueRow
    BY <1>1, <1>3, <1>4
  <2> QED BY <1>1, <2>1, <2>2 DEF StoreInv, StoreTypeOK
<1>8. UniqueKeys'
  <2> SUFFICES ASSUME NEW r \in mails, NEW s \in mails,
                      f[r].mailbox = f[s].mailbox, f[r].id = f[s].id
               PROVE  f[r] = f[s]
    BY <1>1 DEF UniqueKeys
  <2>1. r.mailbox = s.mailbox /\ r.id = s.id
    BY <1>3
  <2> QED BY <2>1 DEF StoreInv, Integrity, UniqueKeys
<1>9. MailsInBoxes' /\ ProtectedStay'
  BY <1>1, <1>2, <1>3 DEF StoreInv, Integrity, MailsInBoxes, ProtectedStay
<1>10. QueueHasMail'
  <2> SUFFICES ASSUME NEW q \in queue PROVE HasMail(tr(q).mailbox, tr(q).id)'
    BY <1>1 DEF QueueHasMail
  <2>1. PICK r \in mails : r.mailbox = q.mailbox /\ r.id = q.id
    BY <1>4 DEF HasMail
  <2>2. f[r] \in mails' /\ f[r].mailbox = tr(q).mailbox /\ f[r].id = tr(q).id
    BY <1>1, <1>3, <1>4, <2>1
  <2> QED BY <2>2 DEF HasMail
<1>11. UidBelowNext'
  <2> SUFFICES ASSUME NEW r \in mails, f[r].mailbox # "Sent"
               PROVE  f[r].id < uidNext'[f[r].mailbox]
    BY <1>1 DEF UidBelowNext
  <2>1. r.mailbox # "Sent"
    BY <1>2, <1>3 DEF Protected
  <2>2. r.id < uidNext[r.mailbox]
    BY <2>1 DEF StoreInv, UidBelowNext
  <2>3. uidNext'[f[r].mailbox] = uidNext[r.mailbox]
    BY <1>1, <1>3
  <2> QED BY <1>3, <2>2, <2>3
<1> QED BY <1>6, <1>7, <1>8, <1>9, <1>10, <1>11 DEF StoreInv, Integrity

LEMMA QueueInsertInv ==
  ASSUME StoreInv, NEW d \in Dests, NEW id \in Ids("Outbox"), QueueInsert(d, "Outbox", id)
  PROVE  StoreInv'
<1>1. [dest |-> d, mailbox |-> "Outbox", id |-> id] \in QueueRow
  BY DEF StoreInv, StoreTypeOK, Ids, MailRow, QueueRow, Boxes, Protected
<1>2. QueueHasMail'
  BY DEF QueueInsert, QueueAccepts, StoreInv, Integrity, QueueHasMail, HasMail
<1> QED BY <1>1, <1>2, RowsKeepInv DEF QueueInsert, StoreInv, StoreTypeOK, Integrity,
             UniqueKeys, MailsInBoxes, UidBelowNext

LEMMA QueueDeleteInv ==
  ASSUME StoreInv, NEW d, NEW id, QueueDelete(d, "Outbox", id)
  PROVE  StoreInv'
<1>1. QueueHasMail'
  BY DEF QueueDelete, StoreInv, Integrity, QueueHasMail, HasMail
<1> QED BY <1>1, RowsKeepInv DEF QueueDelete, StoreInv, StoreTypeOK, Integrity,
             UniqueKeys, MailsInBoxes, UidBelowNext

(* What open makes of one counter: it is a UID, not lower than the counter *)
(* found, and above every id of the mailbox.                               *)
LEMMA LiftedCounter ==
  ASSUME mails \subseteq MailRow, IsFiniteSet(mails), NEW u,
         \A x \in DOMAIN u : u[x] \in Uid, NEW b \in DOMAIN u \cup Protected
  PROVE  /\ Lifted(u)[b] \in Uid
         /\ b \in DOMAIN u => Lifted(u)[b] >= u[b]
         /\ \A i \in Ids(b) : Lifted(u)[b] > i
<1> DEFINE c == IF b \in DOMAIN u THEN u[b] ELSE 1
           f == [i \in Ids(b) |-> i + 1]
           above == {f[i] : i \in Ids(b)}
           S == {c} \cup {i + 1 : i \in Ids(b)}
           Lift(n) == n >= c /\ \A i \in Ids(b) : n > i
<1>1. c \in Uid
  BY DEF Uid
<1>2. Ids(b) \subseteq Uid /\ IsFiniteSet(Ids(b))
  BY IdsFinite
<1>3. S \subseteq Uid
  BY <1>1, <1>2 DEF Uid
<1>4. IsFiniteSet(above)
  <2> f = [i \in Ids(b) |-> f[i]] /\ DOMAIN f = Ids(b)
    OBVIOUS
  <2> HIDE DEF f
  <2> QED BY <1>2, ImageFinite
<1>5. IsFiniteSet(S)
  <2>1. S = above \cup {c}
    OBVIOUS
  <2> HIDE DEF S, above, c
  <2> QED BY <1>4, <2>1, FS_AddElement
<1>6. PICK x \in S : \A y \in S : x >= y
  <2>1. S \subseteq Int /\ S # {}
    BY <1>3 DEF Uid
  <2> HIDE DEF S
  <2> QED BY <1>5, <2>1, GreatestExists
<1>7. Lift(x)
  <2>1. x >= c
    BY <1>6
  <2>2. ASSUME NEW i \in Ids(b) PROVE x > i
    BY <1>2, <1>3, <1>6 DEF Uid
  <2> QED BY <2>1, <2>2
<1>8. Lifted(u)[b] = CHOOSE n \in S : Lift(n)
  BY DEF Lifted
<1> HIDE DEF S, Lift
<1>9. Lifted(u)[b] \in S /\ Lift(Lifted(u)[b])
  BY <1>6, <1>7, <1>8
<1> QED BY <1>3, <1>9 DEF Lift

LEMMA OpenInv ==
  ASSUME StoreInv, NEW u, OpenOn(u),
         DOMAIN uidNext \subseteq DOMAIN u, DOMAIN u \subseteq Boxes,
         \A x \in DOMAIN u : u[x] \in Uid
  PROVE  StoreInv'
<1>1. /\ uidNext' = Lifted(u)
      /\ queue' = {q \in queue : q.mailbox = "Outbox"}
      /\ UNCHANGED <<mails, inboxSeen, clock, arrivals>>
  BY DEF OpenOn
<1>2. DOMAIN uidNext' = DOMAIN u \cup Protected
  BY <1>1 DEF Lifted
<1>3. \A b \in DOMAIN uidNext' : uidNext'[b] \in Uid /\ \A i \in Ids(b) : uidNext'[b] > i
  BY <1>1, <1>2, LiftedCounter DEF StoreInv, StoreTypeOK
<1>4. StoreTypeOK'
  <2>1. uidNext' \in [DOMAIN uidNext' -> Uid] /\ DOMAIN uidNext' \subseteq Boxes
    <3>1. uidNext' = [b \in DOMAIN uidNext' |-> uidNext'[b]]
      <4> DEFINE lift(b) == LET c == IF b \in DOMAIN u THEN u[b] ELSE 1 IN
                            CHOOSE n \in {c} \cup {i + 1 : i \in Ids(b)} :
                               n >= c /\ \A i \in Ids(b) : n > i
      <4>1. uidNext' = [b \in DOMAIN u \cup Protected |-> lift(b)]
        BY <1>1 DEF Lifted
      <4> HIDE DEF lift
      <4> QED BY <4>1
    <3> QED BY <1>2, <1>3, <3>1 DEF Boxes
  <2> QED BY <1>1, <2>1 DEF StoreInv, StoreTypeOK
<1>5. Integrity'
  BY <1>1, <1>2 DEF StoreInv, Integrity, UniqueKeys, MailsInBoxes, QueueHasMail, HasMail,
                    ProtectedStay
<1>6. UidBelowNext'
  <2> SUFFICES ASSUME NEW r \in mails PROVE r.id < uidNext'[r.mailbox]
    BY <1>1 DEF UidBelowNext
  <2>1. r.mailbox \in DOMAIN uidNext' /\ r.id \in Ids(r.mailbox) /\ r.id \in Uid
    BY <1>2 DEF StoreInv, StoreTypeOK, Integrity, MailsInBoxes, Ids, MailRow
  <2> QED BY <1>3, <2>1 DEF Uid
<1> QED BY <1>1, <1>4, <1>5, <1>6 DEF StoreInv

LEMMA ReopenInv ==
  ASSUME StoreInv, Reopen
  PROVE  StoreInv'
BY OpenInv DEF Reopen, StoreInv, StoreTypeOK

LEMMA CrashInInsertInv ==
  ASSUME StoreInv, NEW b \in Boxes, CrashInInsert(b)
  PROVE  StoreInv'
<1>1. PICK u \in {uidNext, EnsureBox(uidNext, b), Bumped(b)} : OpenOn(u)
  BY DEF CrashInInsert, PartOfInsert
<1>2. /\ DOMAIN uidNext \subseteq DOMAIN u /\ DOMAIN u \subseteq Boxes
      /\ \A x \in DOMAIN u : u[x] \in Uid
  <2>1. CASE u = uidNext
    BY <2>1 DEF StoreInv, StoreTypeOK
  <2>2. CASE u = EnsureBox(uidNext, b)
    <3>1. /\ DOMAIN EnsureBox(uidNext, b) = DOMAIN uidNext \cup {b}
          /\ \A x \in DOMAIN uidNext \cup {b} : EnsureBox(uidNext, b)[x] \in Uid
      BY EnsuredCounters DEF StoreInv
    <3> QED BY <2>2, <3>1 DEF StoreInv, StoreTypeOK
  <2>3. CASE u = Bumped(b)
    <3>1. /\ DOMAIN Bumped(b) = DOMAIN uidNext \cup {b}
          /\ \A x \in DOMAIN uidNext \cup {b} : Bumped(b)[x] \in Uid
      BY EnsuredCounters DEF StoreInv
    <3> QED BY <2>3, <3>1 DEF StoreInv, StoreTypeOK
  <2> QED BY <2>1, <2>2, <2>3
<1> QED BY <1>1, <1>2, OpenInv

LEMMA TickInv ==
  ASSUME StoreInv, Tick
  PROVE  StoreInv'
BY DEF Tick, StoreInv, StoreTypeOK, Integrity, UniqueKeys, MailsInBoxes, QueueHasMail,
       HasMail, ProtectedStay, UidBelowNext

LEMMA StutterInv ==
  ASSUME StoreInv, UNCHANGED storeVars
  PROVE  StoreInv'
BY DEF storeVars, StoreInv, StoreTypeOK, Integrity, UniqueKeys, MailsInBoxes, QueueHasMail,
       HasMail, ProtectedStay, UidBelowNext

-----------------------------------------------------------------------------
(* The storage keeps its invariant.                                        *)

LEMMA StoreStepInv == StoreInv /\ [StoreNext]_storeVars => StoreInv'
<1> SUFFICES ASSUME StoreInv, StoreNext \/ UNCHANGED storeVars
             PROVE  StoreInv'
  OBVIOUS
<1>1. CASE \E b \in Boxes, m \in Msgs : MailInsert(b, m)
  <2>1. PICK b \in Boxes, m \in Msgs : MailInsert(b, m)
    BY <1>1
  <2>2. /\ uidNext' = Bumped(b)
        /\ mails' = IF InsertCollides(b) THEN mails ELSE mails \cup {NewRow(b, m)}
        /\ UNCHANGED <<queue, inboxSeen, clock, arrivals>>
    BY <2>1 DEF MailInsert
  <2> QED BY <2>2, MailInsertInv DEF StoreInv, StoreTypeOK
<1>2. CASE \E b \in Boxes : MailInsertFails(b)
  BY <1>2, MailInsertFailsInv
<1>3. CASE \E m \in Msgs : DeliverNew(m)
  BY <1>3, DeliverNewInv
<1>4. CASE \E id \in Ids("Outbox") : MailMove("Outbox", "Sent", id)
  BY <1>4, MailMoveInv
<1>5. CASE \E r \in mails, f \in BOOLEAN : SetDeleted(r.mailbox, r.id, f)
  BY <1>5, SetDeletedInv
<1>6. CASE \E b \in Boxes : MailExpunge(b)
  BY <1>6, MailExpungeInv
<1>7. CASE \E b \in Boxes : CreateMailbox(b)
  BY <1>7, CreateMailboxInv
<1>8. CASE \E b \in UserBoxes : DeleteMailbox(b)
  BY <1>8, DeleteMailboxInv
<1>9. CASE \E b \in UserBoxes, c \in Boxes : RenameMailbox(b, c)
  BY <1>9, RenameMailboxInv
<1>10. CASE \E d \in Dests, id \in Ids("Outbox") : QueueInsert(d, "Outbox", id)
  BY <1>10, QueueInsertInv
<1>11. CASE \E q \in queue : QueueDelete(q.dest, "Outbox", q.id)
  BY <1>11, QueueDeleteInv
<1>12. CASE \E b \in Boxes : CrashInInsert(b)
  BY <1>12, CrashInInsertInv
<1>13. CASE Reopen
  BY <1>13, ReopenInv
<1>14. CASE Tick
  BY <1>14, TickInv
<1>15. CASE UNCHANGED storeVars
  BY <1>15, StutterInv
<1> QED BY <1>1, <1>2, <1>3, <1>4, <1>5, <1>6, <1>7, <1>8, <1>9, <1>10, <1>11, <1>12,
           <1>13, <1>14, <1>15 DEF StoreNext

THEOREM StoreInvariant == StoreSpec => []StoreInv
BY StoreInitInv, StoreStepInv, PTL DEF StoreSpec

(* Every table holds rows of its type, whatever the calls and crashes.     *)
THEOREM StoreTypeCorrect == StoreSpec => []StoreTypeOK
<1>1. StoreInv => StoreTypeOK
  BY DEF StoreInv
<1> QED BY <1>1, StoreInvariant, PTL

(* The tables stay consistent: keys are unique, a mail lies in a mailbox   *)
(* that exists, a queue row names a mail that exists, and the protected    *)
(* mailboxes stay (the schema of mails.rs and queue.rs, and the calls).    *)
THEOREM IntegrityHolds == StoreSpec => []Integrity
<1>1. StoreInv => Integrity
  BY DEF StoreInv
<1> QED BY <1>1, StoreInvariant, PTL

(* UIDNEXT stays above every UID in use outside Sent, through torn inserts *)
(* and the lift in SqliteStorage::open.                                    *)
THEOREM UidsBelowNext == StoreSpec => []UidBelowNext
<1>1. StoreInv => UidBelowNext
  BY DEF StoreInv
<1> QED BY <1>1, StoreInvariant, PTL

LEMMA CountersRise ==
  ASSUME StoreInv, StoreNext \/ UNCHANGED storeVars, NEW b \in DOMAIN uidNext, b \in DOMAIN uidNext'
  PROVE  uidNext'[b] >= uidNext[b]
<1>1. b \in Boxes /\ uidNext[b] \in Uid
  BY DEF StoreInv, StoreTypeOK
<1>2. CASE UNCHANGED uidNext
  BY <1>1, <1>2 DEF Uid
<1>3. ASSUME NEW c \in Boxes, NEW u \in PartOfInsert(c)
      PROVE  u[b] \in Uid /\ u[b] >= uidNext[b] /\ b \in DOMAIN u
             /\ \A x \in DOMAIN u : u[x] \in Uid
  <2>1. CASE u = uidNext
    BY <1>1, <2>1 DEF StoreInv, StoreTypeOK, Uid
  <2>2. CASE u \in {EnsureBox(uidNext, c), Bumped(c)}
    <3>1. /\ DOMAIN EnsureBox(uidNext, c) = DOMAIN uidNext \cup {c}
          /\ DOMAIN Bumped(c) = DOMAIN uidNext \cup {c}
          /\ \A x \in DOMAIN uidNext \cup {c} :
                EnsureBox(uidNext, c)[x] \in Uid /\ Bumped(c)[x] \in Uid
          /\ \A x \in DOMAIN uidNext :
                uidNext[x] = EnsureBox(uidNext, c)[x] /\ uidNext[x] <= Bumped(c)[x]
      BY EnsuredCounters DEF StoreInv
    <3> QED BY <1>1, <2>2, <3>1 DEF Uid
  <2> QED BY <2>1, <2>2 DEF PartOfInsert
<1>4. ASSUME NEW c \in Boxes, uidNext' \in PartOfInsert(c)
      PROVE  uidNext'[b] >= uidNext[b]
  BY <1>3, <1>4
<1>5. ASSUME NEW u, OpenOn(u), u[b] \in Uid, u[b] >= uidNext[b], b \in DOMAIN u,
             \A x \in DOMAIN u : u[x] \in Uid
      PROVE  uidNext'[b] >= uidNext[b]
  <2>1. uidNext'[b] \in Uid /\ uidNext'[b] >= u[b]
    BY <1>5, LiftedCounter DEF OpenOn, StoreInv, StoreTypeOK
  <2> QED BY <1>1, <1>5, <2>1 DEF Uid
<1>6. CASE \E c \in Boxes, m \in Msgs : MailInsert(c, m)
  BY <1>4, <1>6 DEF MailInsert, PartOfInsert
<1>7. CASE \E c \in Boxes : MailInsertFails(c)
  BY <1>4, <1>7 DEF MailInsertFails
<1>8. CASE \E m \in Msgs : DeliverNew(m)
  BY <1>4, <1>8, InboxIsBox DEF DeliverNew, PartOfInsert
<1>9. CASE \E c \in Boxes : CreateMailbox(c)
  BY <1>4, <1>9 DEF CreateMailbox, PartOfInsert
<1>10. CASE \E c \in UserBoxes : DeleteMailbox(c)
  BY <1>1, <1>10 DEF DeleteMailbox, Uid
<1>11. CASE \E c \in UserBoxes, d \in Boxes : RenameMailbox(c, d)
  BY <1>1, <1>11 DEF RenameMailbox, Uid
<1>12. CASE \E c \in Boxes : CrashInInsert(c)
  BY <1>3, <1>5, <1>12 DEF CrashInInsert
<1>13. CASE Reopen
  <2>1. uidNext \in PartOfInsert(b)
    BY DEF PartOfInsert
  <2> QED BY <1>1, <1>3, <1>5, <1>13, <2>1 DEF Reopen
<1>14. CASE \/ \E id \in Ids("Outbox") : MailMove("Outbox", "Sent", id)
            \/ \E r \in mails, f \in BOOLEAN : SetDeleted(r.mailbox, r.id, f)
            \/ \E c \in Boxes : MailExpunge(c)
            \/ \E d \in Dests, id \in Ids("Outbox") : QueueInsert(d, "Outbox", id)
            \/ \E q \in queue : QueueDelete(q.dest, "Outbox", q.id)
            \/ Tick
            \/ UNCHANGED storeVars
  BY <1>2, <1>14 DEF MailMove, SetDeleted, MailExpunge, QueueInsert, QueueDelete, Tick,
                     storeVars
<1> QED BY <1>6, <1>7, <1>8, <1>9, <1>10, <1>11, <1>12, <1>13, <1>14 DEF StoreNext

(* No step lowers a UID counter: inserts only bump it, open only lifts it, *)
(* and a renamed mailbox keeps it under its new name.                      *)
THEOREM CountersNeverFall == StoreSpec => CounterNeverFalls
<1> DEFINE A == \A b \in DOMAIN uidNext : b \in DOMAIN uidNext' => uidNext'[b] >= uidNext[b]
<1>1. StoreInv /\ [StoreNext]_storeVars => [A]_storeVars
  BY CountersRise
<1> QED BY <1>1, StoreInvariant, PTL DEF StoreSpec, CounterNeverFalls

-----------------------------------------------------------------------------
(* The fingerprints of inbound mail.                                       *)

Last(m) == arrivals[m][Len(arrivals[m])]

SeenTypeOK ==
  /\ inboxSeen \subseteq SeenRow
  /\ clock \in Nat
  /\ arrivals \in [Msgs -> Seq(Nat)]

(* No arrival lies in the future, and the last one of a mail has its       *)
(* fingerprint as long as the window reaches back to it.                   *)
LastIsSeen ==
  \A m \in Msgs : arrivals[m] # <<>> =>
     /\ Last(m) <= clock
     /\ Last(m) >= clock - Window => [msg |-> m, at |-> Last(m)] \in inboxSeen

SeenInv == SeenTypeOK /\ SeenMeansStored /\ LastIsSeen /\ NoRepeatInWindow

LEMMA SeenInitInv == StoreInit => SeenInv
<1> SUFFICES ASSUME StoreInit PROVE SeenInv
  OBVIOUS
<1>1. \A m \in Msgs : arrivals[m] = <<>> /\ Len(arrivals[m]) = 0
  BY DEF StoreInit
<1> QED BY <1>1 DEF StoreInit, SeenInv, SeenTypeOK, SeenMeansStored, LastIsSeen,
                    NoRepeatInWindow

(* What storing the mail m now makes of the arrivals.                      *)
LEMMA ArrivalsAppended ==
  ASSUME SeenTypeOK, NEW m \in Msgs, arrivals' = [arrivals EXCEPT ![m] = Append(@, clock)]
  PROVE  /\ arrivals' \in [Msgs -> Seq(Nat)]
         /\ \A n \in Msgs \ {m} : arrivals'[n] = arrivals[n]
         /\ arrivals'[m] # <<>>
         /\ Len(arrivals'[m]) = Len(arrivals[m]) + 1
         /\ arrivals'[m][Len(arrivals'[m])] = clock
         /\ \A i \in 1 .. Len(arrivals[m]) : arrivals'[m][i] = arrivals[m][i]
         /\ Len(arrivals[m]) \in Nat
         /\ \A i \in 1 .. Len(arrivals[m]) : arrivals[m][i] \in Nat
         /\ arrivals[m] # <<>> => Len(arrivals[m]) >= 1
<1>1. arrivals[m] \in Seq(Nat) /\ clock \in Nat
  BY DEF SeenTypeOK
<1>2. arrivals'[m] = Append(arrivals[m], clock)
  BY DEF SeenTypeOK
<1>3. arrivals' \in [Msgs -> Seq(Nat)] /\ \A n \in Msgs \ {m} : arrivals'[n] = arrivals[n]
  BY DEF SeenTypeOK
<1> QED BY <1>1, <1>2, <1>3

LEMMA DeliverNewSeen ==
  ASSUME SeenInv, NEW m \in Msgs, DeliverNew(m)
  PROVE  SeenInv'
<1> DEFINE a == arrivals[m]
           b == arrivals'[m]
<1>1. /\ ~ IsDuplicate(m)
      /\ inboxSeen' = Fresh \cup {[msg |-> m, at |-> clock]}
      /\ arrivals' = [arrivals EXCEPT ![m] = Append(@, clock)]
      /\ clock' = clock
  BY DEF DeliverNew
<1>2. /\ arrivals' \in [Msgs -> Seq(Nat)]
      /\ \A n \in Msgs \ {m} : arrivals'[n] = arrivals[n]
      /\ b # <<>> /\ Len(b) = Len(a) + 1 /\ b[Len(b)] = clock
      /\ \A i \in 1 .. Len(a) : b[i] = a[i]
      /\ Len(a) \in Nat
      /\ \A i \in 1 .. Len(a) : a[i] \in Nat
      /\ a # <<>> => Len(a) >= 1
  BY <1>1, ArrivalsAppended DEF SeenInv
<1>3. \A s \in Fresh : s \in inboxSeen /\ s.msg # m /\ s.at >= clock - Window /\ s \in SeenRow
  BY <1>1 DEF Fresh, IsDuplicate, SeenInv, SeenTypeOK
<1>4. a # <<>> => a[Len(a)] < clock - Window
  <2> SUFFICES ASSUME a # <<>>, ~ a[Len(a)] < clock - Window PROVE FALSE
    OBVIOUS
  <2>1. a[Len(a)] \in Nat /\ clock \in Nat /\ Window \in Nat
    BY <1>2, StoreAssumption DEF SeenInv, SeenTypeOK
  <2>2. [msg |-> m, at |-> a[Len(a)]] \in inboxSeen
    BY <2>1 DEF SeenInv, LastIsSeen, Last
  <2>3. [msg |-> m, at |-> a[Len(a)]] \in Fresh
    BY <2>1, <2>2 DEF Fresh
  <2> QED BY <1>3, <2>3
<1>5. SeenTypeOK'
  BY <1>1, <1>2, <1>3 DEF SeenInv, SeenTypeOK, SeenRow
<1>6. SeenMeansStored'
  <2> SUFFICES ASSUME NEW s \in inboxSeen'
               PROVE  arrivals'[s.msg] # <<>> /\ s.at = arrivals'[s.msg][Len(arrivals'[s.msg])]
    BY DEF SeenMeansStored
  <2>1. CASE s \in Fresh
    BY <1>2, <1>3, <2>1 DEF SeenInv, SeenMeansStored, SeenRow
  <2>2. CASE s = [msg |-> m, at |-> clock]
    BY <1>2, <2>2
  <2> QED BY <1>1, <2>1, <2>2
<1>7. LastIsSeen'
  <2> SUFFICES ASSUME NEW n \in Msgs, arrivals'[n] # <<>>
               PROVE  /\ Last(n)' <= clock
                      /\ Last(n)' >= clock - Window => [msg |-> n, at |-> Last(n)'] \in inboxSeen'
    BY <1>1 DEF LastIsSeen
  <2>1. CASE n = m
    <3>1. Last(n)' = clock
      BY <1>2, <2>1 DEF Last
    <3> QED BY <1>1, <2>1, <3>1 DEF SeenInv, SeenTypeOK
  <2>2. CASE n # m
    <3>1. arrivals[n] # <<>> /\ Last(n)' = Last(n)
      BY <1>2, <2>2 DEF Last
    <3>2. Last(n) >= clock - Window => [msg |-> n, at |-> Last(n)] \in Fresh
      BY <3>1 DEF SeenInv, LastIsSeen, Fresh
    <3> QED BY <1>1, <3>1, <3>2 DEF SeenInv, LastIsSeen
  <2> QED BY <2>1, <2>2
<1>8. NoRepeatInWindow'
  <2> SUFFICES ASSUME NEW n \in Msgs, NEW i \in 1 .. Len(arrivals'[n]) - 1
               PROVE  arrivals'[n][i + 1] - arrivals'[n][i] > Window
    BY DEF NoRepeatInWindow
  <2>1. CASE n # m
    BY <1>2, <2>1 DEF SeenInv, NoRepeatInWindow
  <2>2. CASE n = m /\ i < Len(a)
    <3>1. i \in 1 .. Len(a) - 1 /\ i \in 1 .. Len(a) /\ i + 1 \in 1 .. Len(a)
      BY <1>2, <2>2
    <3>2. a[i + 1] - a[i] > Window
      BY <3>1 DEF SeenInv, NoRepeatInWindow
    <3> QED BY <1>2, <2>2, <3>1, <3>2
  <2>3. CASE n = m /\ i = Len(a)
    <3>0. i \in 1 .. Len(b) - 1 /\ Len(<<>>) = 0
      BY <2>3
    <3>1. a # <<>> /\ i \in 1 .. Len(a) /\ i + 1 = Len(b) /\ b[i] = a[i]
      <4>1. i >= 1 /\ i \in 1 .. Len(a) /\ i + 1 = Len(b)
        BY <1>2, <2>3, <3>0
      <4>2. a # <<>>
        BY <2>3, <3>0, <4>1
      <4> QED BY <1>2, <4>1, <4>2
    <3>2. a[i] \in Nat /\ clock \in Nat /\ Window \in Nat
      BY <1>2, <3>1, StoreAssumption DEF SeenInv, SeenTypeOK
    <3> QED BY <1>2, <1>4, <2>3, <3>1, <3>2
  <2> QED BY <1>2, <2>1, <2>2, <2>3
<1> QED BY <1>5, <1>6, <1>7, <1>8 DEF SeenInv

LEMMA TickSeen ==
  ASSUME SeenInv, Tick
  PROVE  SeenInv'
<1>1. UNCHANGED <<inboxSeen, arrivals>> /\ clock' = clock + 1 /\ clock \in Nat
  BY DEF Tick, SeenInv, SeenTypeOK
<1>2. LastIsSeen'
  <2> SUFFICES ASSUME NEW m \in Msgs, arrivals'[m] # <<>>
               PROVE  /\ Last(m)' <= clock'
                      /\ Last(m)' >= clock' - Window => [msg |-> m, at |-> Last(m)'] \in inboxSeen'
    BY DEF LastIsSeen
  <2>1. Last(m)' = Last(m) /\ arrivals[m] # <<>>
    BY <1>1 DEF Last
  <2>2. Last(m) \in Nat /\ Window \in Nat
    BY <2>1, StoreAssumption DEF SeenInv, SeenTypeOK, Last
  <2> QED BY <1>1, <2>1, <2>2 DEF SeenInv, LastIsSeen
<1> QED BY <1>1, <1>2 DEF SeenInv, SeenTypeOK, SeenMeansStored, NoRepeatInWindow

LEMMA OthersSeen ==
  ASSUME SeenInv, UNCHANGED <<inboxSeen, clock, arrivals>>
  PROVE  SeenInv'
BY DEF SeenInv, SeenTypeOK, SeenMeansStored, LastIsSeen, Last, NoRepeatInWindow

LEMMA SeenStepInv == SeenInv /\ [StoreNext]_storeVars => SeenInv'
<1> SUFFICES ASSUME SeenInv, StoreNext \/ UNCHANGED storeVars
             PROVE  SeenInv'
  OBVIOUS
<1>1. CASE \E m \in Msgs : DeliverNew(m)
  BY <1>1, DeliverNewSeen
<1>2. CASE Tick
  BY <1>2, TickSeen
<1>3. CASE UNCHANGED <<inboxSeen, clock, arrivals>>
  BY <1>3, OthersSeen
<1>4. StoreNext => \/ \E m \in Msgs : DeliverNew(m)
                   \/ Tick
                   \/ UNCHANGED <<inboxSeen, clock, arrivals>>
  BY DEF StoreNext, MailInsert, MailInsertFails, MailMove, SetDeleted, MailExpunge,
         CreateMailbox, DeleteMailbox, RenameMailbox, QueueInsert, QueueDelete,
         CrashInInsert, Reopen, OpenOn, storeVars
<1> QED BY <1>1, <1>2, <1>3, <1>4 DEF storeVars

THEOREM SeenInvariant == StoreSpec => []SeenInv
BY SeenInitInv, SeenStepInv, PTL DEF StoreSpec

(* A fingerprint always stands for a mail stored at its time: the one      *)
(* transaction of mail_insert_inbox_dedup never leaves it alone.           *)
THEOREM SeenAreStored == StoreSpec => []SeenMeansStored
<1>1. SeenInv => SeenMeansStored
  BY DEF SeenInv
<1> QED BY <1>1, SeenInvariant, PTL

(* Copies of one inbound mail are stored more than the dedup window apart. *)
THEOREM NoRepeats == StoreSpec => []NoRepeatInWindow
<1>1. SeenInv => NoRepeatInWindow
  BY DEF SeenInv
<1> QED BY <1>1, SeenInvariant, PTL

=============================================================================
