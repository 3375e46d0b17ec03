---------------------------- MODULE AtRestProofs ----------------------------
(***************************************************************************)
(* Proofs about the keys and the identity of a database file, for any      *)
(* openers, mails and passwords: openers hold the key that is in the file, *)
(* all that is encrypted is under that key, and the identity stays.        *)
(***************************************************************************)
EXTENDS AtRest, FiniteSetTheorems, TLAPS

OpType == [pc   : Opening \cup Loading \cup {"closed", "running"},
           pw   : Passwords \cup {None},
           salt : Openers \cup {None},
           dk   : Openers \cup {None},
           todo : SUBSET Mails,
           id   : Identities \cup {None}]

(* A salt is stored before anybody goes on with it, and what is about to   *)
(* be stored was drawn.                                                    *)
KeysInHand ==
  \A o \in Openers :
    /\ At(o, "newSalt") => op[o].salt # None
    /\ op[o].pw # None /\ op[o].pc \notin {"closed", "salt", "newSalt"} => salt # None
    /\ At(o, "newKey") => op[o].dk # None

KeyInv == AtRestTypeOK /\ KeysInHand /\ EncryptedIsReadable

(* Until it is excused, the nodes ran under the stored identity; a start   *)
(* that is about to store one has read that identity, or the old program's,*)
(* or made the only new one.                                               *)
RanAsStored == \A i \in told : stored # None /\ i = stored.id

PersistsTheSame ==
  \A o \in Openers : At(o, "persist") =>
    IF legacy # None THEN op[o].id = legacy
    ELSE IF stored # None THEN op[o].id = stored.id
    ELSE \A p \in Openers : At(p, "persist") => p = o

LegacyFirst ==
  legacy # None => /\ stored # None => stored.id = legacy
                   /\ \A o \in Openers : ~ At(o, "stored")

IdInv == ~ excused => RanAsStored /\ PersistsTheSame /\ LegacyFirst

-----------------------------------------------------------------------------
LEMMA KeyInit == Init => KeyInv
<1> SUFFICES ASSUME Init PROVE KeyInv
  OBVIOUS
<1> USE AtRestAssumption DEF Init, Closed
<1>1. op \in [Openers -> [pc : {"closed"}, pw : {None}, salt : {None}, dk : {None},
                         todo : SUBSET Mails, id : {None}]]
  OBVIOUS
<1>2. form \in [Mails -> Forms \cup {None}]
  BY DEF Forms
<1>3. AtRestTypeOK
  <2>1. op \in [Openers -> OpType]
    BY <1>1 DEF OpType
  <2>2. \A o \in Openers : op[o].pc = "closed"
    BY <1>1
  <2>3. ids \in 0 .. MaxIds /\ told \in SUBSET Identities /\ excused \in BOOLEAN
    <3>1. ids \in 0 .. MaxIds
      BY AtRestAssumption
    <3>2. told \in SUBSET Identities /\ excused \in BOOLEAN
      BY Zenon
    <3> QED BY <3>1, <3>2
  <2> QED BY <1>2, <2>1, <2>2, <2>3 DEF AtRestTypeOK, OpType, Opening, Loading
<1>4. KeysInHand
  BY <1>1 DEF KeysInHand, At
<1>5. EncryptedIsReadable
  BY DEF EncryptedIsReadable
<1> QED BY <1>3, <1>4, <1>5 DEF KeyInv

LEMMA KeyStep ==
  ASSUME KeyInv, [Next]_vars
  PROVE  KeyInv'
<1> USE AtRestAssumption
<1> USE DEF KeyInv, AtRestTypeOK, KeysInHand, EncryptedIsReadable, At, Closed, Opening,
            Loading, Forms, Wrapped, Stored, Identities, keyTable, idTables, FormOf
<1>1. ASSUME NEW o \in Openers, NEW pw \in Passwords \cup {None}, Start(o, pw)
     PROVE  KeyInv'
  <2> DEFINE new == [Closed EXCEPT !.pw = pw, !.pc = IF pw = None THEN "legacy" ELSE "salt"]
  <2>1. op' = [op EXCEPT ![o] = new]
    BY <1>1 DEF Start
  <2>5. /\ new.pc = (IF pw = None THEN "legacy" ELSE "salt")
        /\ new.pw = pw /\ new.salt = None /\ new.dk = None
    OBVIOUS
  <2>6. new \in OpType
    BY DEF OpType
  <2>7. op' \in [Openers -> OpType]
    <3> HIDE DEF new
    <3>1. op \in [Openers -> OpType]
      BY DEF OpType
    <3> QED BY <2>1, <2>6, <3>1
  <2> HIDE DEF new
  <2>2. AtRestTypeOK'
    BY <1>1, <2>1, <2>5, <2>7 DEF Start, OpType
  <2>3. KeysInHand'
    BY <1>1, <2>1, <2>5 DEF Start
  <2>4. EncryptedIsReadable'
    BY <1>1 DEF Start
  <2> QED BY <2>2, <2>3, <2>4
<1>2. ASSUME NEW o \in Openers, End(o)
     PROVE  KeyInv'
  BY <1>2 DEF End
<1>3. ASSUME NEW o \in Openers, ReadSalt(o)
     PROVE  KeyInv'
  BY <1>3 DEF ReadSalt
<1>4. ASSUME NEW o \in Openers, InsertSalt(o)
     PROVE  KeyInv'
  BY <1>4 DEF InsertSalt
<1>5. ASSUME NEW o \in Openers, ReadWrapped(o)
     PROVE  KeyInv'
  BY <1>5 DEF ReadWrapped
<1>6. ASSUME NEW o \in Openers, InsertWrapped(o)
     PROVE  KeyInv'
  <2>1. op[o].pw \in Passwords /\ salt \in Openers /\ op[o].salt = salt /\ op[o].dk \in Openers
    BY <1>6 DEF InsertWrapped
  <2>2. wrapped' \in Wrapped /\ wrapped'.salt = salt /\ wrapped' # None
    BY <1>6, <2>1 DEF InsertWrapped
  <2>3. AtRestTypeOK'
    BY <1>6, <2>1, <2>2 DEF InsertWrapped
  <2>4. KeysInHand'
    BY <1>6, <2>1 DEF InsertWrapped
  <2>5. EncryptedIsReadable'
    BY <1>6 DEF InsertWrapped
  <2> QED BY <2>3, <2>4, <2>5
<1>7. ASSUME NEW o \in Openers, Collect(o)
     PROVE  KeyInv'
  <2> DEFINE plain == {m \in Mails : form[m] = Plain}
             new   == [op[o] EXCEPT !.todo = plain, !.pc = "migrate"]
  <2>1. op[o] \in OpType /\ op \in [Openers -> OpType] /\ plain \in SUBSET Mails
    BY DEF OpType
  <2>5. op' = [op EXCEPT ![o] = new]
    BY <1>7 DEF Collect
  <2> HIDE DEF plain
  <2>6. /\ new.pc = "migrate" /\ new.pw = op[o].pw /\ new.id = op[o].id
        /\ new.salt = op[o].salt /\ new.dk = op[o].dk /\ new \in OpType
    BY <2>1 DEF OpType
  <2> HIDE DEF new
  <2>7. op' \in [Openers -> OpType]
    BY <2>1, <2>5, <2>6
  <2>2. AtRestTypeOK'
    <3>1. \A p \in Openers : op'[p] = IF p = o THEN new ELSE op[p]
      BY <2>1, <2>5
    <3>2. At(o, "collect") /\ UNCHANGED <<keyTable, form, idTables>>
      BY <1>7 DEF Collect
    <3> QED BY <2>6, <2>7, <3>1, <3>2 DEF OpType
  <2>3. KeysInHand'
    BY <1>7, <2>5, <2>6 DEF Collect
  <2>4. EncryptedIsReadable'
    BY <1>7 DEF Collect
  <2> QED BY <2>2, <2>3, <2>4
<1>8. ASSUME NEW o \in Openers, NEW m \in Mails, MigrateRow(o, m)
     PROVE  KeyInv'
  BY <1>8 DEF MigrateRow
<1>9. ASSUME NEW o \in Openers, Opened(o)
     PROVE  KeyInv'
  BY <1>9 DEF Opened
<1>10. ASSUME NEW o \in Openers, ReadLegacy(o)
     PROVE  KeyInv'
  <2>1. CASE op' = [op EXCEPT ![o].id = legacy, ![o].pc = "persist"] /\ legacy # None
    BY <1>10, <2>1 DEF ReadLegacy
  <2>2. CASE /\ op' = [op EXCEPT ![o].pc = "stored"]
             /\ excused' = (excused \/ legacy # None)
    BY <1>10, <2>2 DEF ReadLegacy
  <2> QED BY <1>10, <2>1, <2>2 DEF ReadLegacy
<1>11. ASSUME NEW o \in Openers, ReadStored(o)
     PROVE  KeyInv'
  <2>1. CASE Readable(o, stored.form)
    <3>1. op' = [op EXCEPT ![o] = [op[o] EXCEPT !.id = stored.id, !.pc = "persist"]]
      BY <1>11, <2>1 DEF ReadStored
    <3>2. stored \in Stored /\ stored.id \in Identities /\ stored.id # None
      BY <1>11 DEF ReadStored
    <3>3. AtRestTypeOK'
      <4> DEFINE new == [op[o] EXCEPT !.id = stored.id, !.pc = "persist"]
      <4>1. op[o] \in OpType /\ op \in [Openers -> OpType]
        BY DEF OpType
      <4>2. new \in OpType
        BY <3>2, <4>1 DEF OpType
      <4>3. /\ new.id = stored.id /\ new.pc = "persist" /\ new.pw = op[o].pw
            /\ new.salt = op[o].salt /\ new.dk = op[o].dk
        BY <4>1 DEF OpType
      <4> HIDE DEF new
      <4>4. op' = [op EXCEPT ![o] = new] /\ op' \in [Openers -> OpType]
        BY <3>1, <4>1, <4>2 DEF new
      <4> QED BY <1>11, <3>2, <4>3, <4>4 DEF ReadStored, OpType
    <3>4. KeysInHand'
      BY <1>11, <3>1 DEF ReadStored
    <3>5. EncryptedIsReadable'
      BY <1>11 DEF ReadStored
    <3> QED BY <3>3, <3>4, <3>5
  <2>2. CASE ~ Readable(o, stored.form)
    <3>1. op' = [op EXCEPT ![o] = Closed]
      BY <1>11, <2>2 DEF ReadStored
    <3> QED BY <1>11, <3>1 DEF ReadStored
  <2> QED BY <2>1, <2>2
<1>12. ASSUME NEW o \in Openers, Mint(o)
     PROVE  KeyInv'
  BY <1>12 DEF Mint
<1>13. ASSUME NEW o \in Openers, Persist(o)
     PROVE  KeyInv'
  BY <1>13 DEF Persist
<1>14. ASSUME NEW o \in Openers, Regenerate(o)
     PROVE  KeyInv'
  BY <1>14 DEF Regenerate
<1>15. ASSUME NEW o \in Openers, NEW pw \in Passwords, SetPassword(o, pw)
     PROVE  KeyInv'
  <2>1. op[o].pw # None /\ salt \in Openers /\ op[o].dk \in Openers /\ op[o].dk = wrapped.dk
    BY <1>15 DEF SetPassword
  <2>2. wrapped' \in Wrapped /\ wrapped'.salt = salt /\ wrapped' # None
    BY <1>15, <2>1 DEF SetPassword
  <2>3. wrapped # None /\ wrapped'.dk = wrapped.dk
    BY <1>15, <2>1 DEF SetPassword
  <2> QED BY <1>15, <2>1, <2>2, <2>3 DEF SetPassword
<1>16. ASSUME NEW o \in Openers, NEW m \in Mails, InsertMail(o, m)
     PROVE  KeyInv'
  BY <1>16 DEF InsertMail
<1>17. ASSUME NEW o \in Openers, NEW m \in Mails, MoveMail(o, m)
     PROVE  KeyInv'
  BY <1>17 DEF MoveMail
<1>18. ASSUME NEW o \in Openers, NEW m \in Mails, DeleteMail(o, m)
     PROVE  KeyInv'
  BY <1>18 DEF DeleteMail
<1>19. CASE UNCHANGED vars
  BY <1>19 DEF vars
<1> QED BY <1>1, <1>2, <1>3, <1>4, <1>5, <1>6, <1>7, <1>8, <1>9, <1>10, <1>11, <1>12, <1>13, <1>14, <1>15, <1>16, <1>17, <1>18, <1>19 DEF Next

-----------------------------------------------------------------------------
LEMMA IdInit == Init => IdInv
BY AtRestAssumption
DEF Init, Closed, IdInv, RanAsStored, PersistsTheSame, LegacyFirst, At

LEMMA IdStep ==
  ASSUME KeyInv, IdInv, [Next]_vars
  PROVE  IdInv'
<1> USE AtRestAssumption
<1> USE DEF IdInv, RanAsStored, PersistsTheSame, LegacyFirst, At, Closed, keyTable, idTables
<1>0. /\ op \in [Openers -> OpType] /\ stored \in Stored \cup {None}
      /\ legacy \in {None, Legacy} /\ ids \in Nat /\ excused \in BOOLEAN
  BY DEF KeyInv, AtRestTypeOK, OpType
<1>1. ASSUME NEW o \in Openers, NEW pw \in Passwords \cup {None}, Start(o, pw)
     PROVE  IdInv'
  BY <1>0, <1>1 DEF Start, OpType
<1>2. ASSUME NEW o \in Openers, End(o)
     PROVE  IdInv'
  BY <1>0, <1>2 DEF End, OpType
<1>3. ASSUME NEW o \in Openers, ReadSalt(o)
     PROVE  IdInv'
  BY <1>0, <1>3 DEF ReadSalt, OpType
<1>4. ASSUME NEW o \in Openers, InsertSalt(o)
     PROVE  IdInv'
  BY <1>0, <1>4 DEF InsertSalt, OpType
<1>5. ASSUME NEW o \in Openers, ReadWrapped(o)
     PROVE  IdInv'
  BY <1>0, <1>5 DEF ReadWrapped, OpType
<1>6. ASSUME NEW o \in Openers, InsertWrapped(o)
     PROVE  IdInv'
  BY <1>0, <1>6 DEF InsertWrapped, OpType
<1>7. ASSUME NEW o \in Openers, Collect(o)
     PROVE  IdInv'
  BY <1>0, <1>7 DEF Collect, OpType
<1>8. ASSUME NEW o \in Openers, NEW m \in Mails, MigrateRow(o, m)
     PROVE  IdInv'
  BY <1>0, <1>8 DEF MigrateRow, OpType
<1>9. ASSUME NEW o \in Openers, Opened(o)
     PROVE  IdInv'
  BY <1>0, <1>9 DEF Opened, OpType
<1>10. ASSUME NEW o \in Openers, ReadLegacy(o)
     PROVE  IdInv'
  <2>1. CASE op' = [op EXCEPT ![o].id = legacy, ![o].pc = "persist"] /\ legacy # None
    BY <1>0, <1>10, <2>1 DEF ReadLegacy, OpType
  <2>2. CASE op' = [op EXCEPT ![o].pc = "stored"] /\ excused' = (excused \/ legacy # None)
    <3> SUFFICES ASSUME ~ excused' PROVE IdInv'
      OBVIOUS
    <3>1. ~ excused /\ legacy = None
      BY <2>2, Zenon
    <3> QED BY <1>0, <1>10, <2>2, <3>1 DEF ReadLegacy, OpType
  <2> QED BY <1>10, <2>1, <2>2 DEF ReadLegacy
<1>11. ASSUME NEW o \in Openers, ReadStored(o)
     PROVE  IdInv'
  BY <1>0, <1>11 DEF ReadStored, OpType
<1>12. ASSUME NEW o \in Openers, Mint(o)
     PROVE  IdInv'
  BY <1>0, <1>12 DEF Mint, OpType
<1>13. ASSUME NEW o \in Openers, Persist(o)
     PROVE  IdInv'
  <2> SUFFICES ASSUME ~ excused PROVE IdInv'
    BY <1>13 DEF Persist
  <2>1. op[o].id \in Identities /\ FormOf(o) \in Forms
    BY <1>0, <1>13 DEF Persist, OpType, FormOf, Forms, KeyInv, AtRestTypeOK, Identities
  <2>2. stored' \in Stored /\ stored' # None /\ stored'.id = op[o].id
    BY <1>13, <2>1 DEF Persist, Stored
  <2>3. \A p \in Openers : op'[p].pc = "persist" => op[p].pc = "persist" /\ op'[p].id = op[p].id
    BY <1>0, <1>13 DEF Persist, OpType
  <2>4. RanAsStored'
    BY <1>13, <2>2 DEF Persist
  <2>5. PersistsTheSame'
    BY <1>13, <2>2, <2>3 DEF Persist
  <2>6. LegacyFirst'
    BY <1>0, <1>13, <2>2 DEF Persist, OpType
  <2> QED BY <2>4, <2>5, <2>6
<1>14. ASSUME NEW o \in Openers, Regenerate(o)
     PROVE  IdInv'
  <2> SUFFICES ASSUME ~ excused' PROVE IdInv'
    OBVIOUS
  <2>1. PICK deleted \in BOOLEAN :
          /\ legacy' = IF deleted THEN None ELSE legacy
          /\ excused' = (\/ excused
                         \/ ~ deleted /\ legacy # None
                         \/ \E p \in Openers : At(p, "persist"))
    BY <1>14, Zenon DEF Regenerate
  <2>2. legacy' = None /\ \A p \in Openers : ~ At(p, "persist")
    BY <2>1, Zenon
  <2>3. FormOf(o) \in Forms /\ ids + 1 \in Identities
    BY <1>0 DEF OpType, FormOf, Forms, Identities
  <2>4. stored' \in Stored /\ stored' # None /\ stored'.id = ids + 1
    BY <1>14, <2>3 DEF Regenerate, Stored
  <2> QED BY <1>14, <2>2, <2>4 DEF Regenerate
<1>15. ASSUME NEW o \in Openers, NEW pw \in Passwords, SetPassword(o, pw)
     PROVE  IdInv'
  BY <1>0, <1>15 DEF SetPassword, OpType
<1>16. ASSUME NEW o \in Openers, NEW m \in Mails, InsertMail(o, m)
     PROVE  IdInv'
  BY <1>0, <1>16 DEF InsertMail, OpType
<1>17. ASSUME NEW o \in Openers, NEW m \in Mails, MoveMail(o, m)
     PROVE  IdInv'
  BY <1>0, <1>17 DEF MoveMail, OpType
<1>18. ASSUME NEW o \in Openers, NEW m \in Mails, DeleteMail(o, m)
     PROVE  IdInv'
  BY <1>0, <1>18 DEF DeleteMail, OpType
<1>19. CASE UNCHANGED vars
  BY <1>19 DEF vars
<1> QED BY <1>1, <1>2, <1>3, <1>4, <1>5, <1>6, <1>7, <1>8, <1>9, <1>10, <1>11, <1>12, <1>13, <1>14, <1>15, <1>16, <1>17, <1>18, <1>19 DEF Next

-----------------------------------------------------------------------------
(* The theorems.                                                           *)

(* Every reachable state satisfies the invariants of keys and identity.    *)
THEOREM AtRestInvariant == Spec => [](KeyInv /\ IdInv)
<1>1. Init => KeyInv /\ IdInv
  BY KeyInit, IdInit
<1>2. KeyInv /\ IdInv /\ [Next]_vars => (KeyInv /\ IdInv)'
  BY KeyStep, IdStep
<1> QED BY <1>1, <1>2, PTL DEF Spec

(* Past its setup, an opener holds the salt and the data key of the file   *)
(* (SqliteStorage::open, set_password), with any number of openers.        *)
THEOREM AtRestTypeCorrect == Spec => []AtRestTypeOK
<1>1. KeyInv /\ IdInv => AtRestTypeOK
  BY DEF KeyInv
<1> QED BY AtRestInvariant, <1>1, PTL

(* All that is encrypted in the file is under its one data key.            *)
THEOREM AllIsReadable == Spec => []EncryptedIsReadable
<1>1. KeyInv /\ IdInv => EncryptedIsReadable
  BY DEF KeyInv
<1> QED BY AtRestInvariant, <1>1, PTL

(* The nodes on one file keep one identity until it is regenerated, but    *)
(* for what IdentityKept excuses (load_or_migrate_identity).               *)
THEOREM IdentityIsKept == Spec => []IdentityKept
<1>1. IdInv => IdentityKept
  <2> SUFFICES ASSUME IdInv, ~ excused PROVE Cardinality(told) <= 1
    BY DEF IdentityKept
  <2>1. told = {} \/ told = {stored.id}
    BY DEF IdInv, RanAsStored
  <2>2. Cardinality({}) = 0
    BY FS_EmptySet
  <2>3. Cardinality({stored.id}) = 1
    BY FS_Singleton
  <2> QED BY <2>1, <2>2, <2>3
<1> QED BY AtRestInvariant, <1>1, PTL
=============================================================================
