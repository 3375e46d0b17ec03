------------------------------- MODULE AtRest -------------------------------
(***************************************************************************)
(* The keys of one database file: SqliteStorage::open with its at-rest key *)
(* setup and the migration of plaintext rows (storage/mod.rs), the         *)
(* encryption of mail bodies (storage/crypt.rs, storage/mails.rs), the     *)
(* node's identity (identity.rs), and start, stop and set_password of the  *)
(* mobile API (yggmail-mobile/src/lib.rs) that drive them.                 *)
(*                                                                         *)
(* An opener is a call of start() and then the node it made.  Each has a   *)
(* connection of its own, and no lock but SQLite's is between them: every  *)
(* statement is a step, and a start may fail or the process end after any. *)
(* A salt and a data key are random and are named for the opener that drew *)
(* them: a key that was stored stays, so that nobody draws a second one    *)
(* after it.                                                               *)
(***************************************************************************)
EXTENDS Integers, FiniteSets

CONSTANTS
  Openers,
  Mails,       \* rows of the table mails
  Passwords,   \* hashes of passwords
  None,        \* no password, no salt, no key, no row
  Plain,       \* the form of what is not encrypted
  Legacy,      \* the identity a 1.8 database may have in its table config
  MaxIds       \* bound: identities ever generated

Identities == Nat \cup {Legacy}
Forms      == Openers \cup {Plain}
Wrapped    == [pw : Passwords, salt : Openers, dk : Openers]
Stored     == [id : Identities, form : Forms]

ASSUME AtRestAssumption ==
  /\ None \notin Openers \cup Passwords \cup Wrapped \cup Stored
  /\ Plain \notin Openers \cup {None}
  /\ None # Legacy /\ Legacy \notin Nat /\ None \notin Nat
  /\ MaxIds \in Nat

VARIABLES
  salt,     \* at_rest, row `salt'
  wrapped,  \* at_rest, row `wrapped_dk': the data key under a password and salt
  form,     \* mails.mail: None (no row), Plain, or the key it is encrypted with
  legacy,   \* config.private_key of the old program
  stored,   \* mobile_config.private_key
  op,       \* the openers
  ids,      \* identities generated so far
  told,     \* history: identities nodes ran under since the last regenerate
  excused   \* history: what IdentityKept does not promise has happened

keyTable == <<salt, wrapped>>
idTables == <<legacy, stored, ids, told, excused>>
vars     == <<keyTable, form, idTables, op>>

Closed == [pc |-> "closed", pw |-> None, salt |-> None, dk |-> None,
           todo |-> {}, id |-> None]

Opening  == {"salt", "newSalt", "key", "newKey", "collect", "migrate"}
Loading  == {"legacy", "stored", "persist"}
At(o, p) == op[o].pc = p

(* aead_encrypt under the opener's data key, when it has one.              *)
FormOf(o) == IF op[o].dk = None THEN Plain ELSE op[o].dk

(* aead_decrypt and the passthrough of plaintext: what an opener can read. *)
Readable(o, f) == f = Plain \/ (f = op[o].dk /\ op[o].dk # None)

(* The key-encryption key of a password and a salt opens the wrapped key.  *)
Unwraps(o) == wrapped.pw = op[o].pw /\ wrapped.salt = op[o].salt

Init ==
  /\ salt = None /\ wrapped = None
  /\ form \in [Mails -> {None, Plain}]
  /\ legacy \in {None, Legacy}
  /\ stored = None
  /\ op = [o \in Openers |-> Closed]
  /\ ids = 0 /\ told = {} /\ excused = FALSE

-----------------------------------------------------------------------------
(* open.  Without a password there is no data key and nothing to migrate.  *)
Start(o, pw) ==
  /\ At(o, "closed")
  /\ op' = [op EXCEPT ![o] = [Closed EXCEPT
              !.pw = pw, !.pc = IF pw = None THEN "legacy" ELSE "salt"]]
  /\ UNCHANGED <<keyTable, form, idTables>>

(* An error of any statement, a stop of the node, the end of the process.  *)
End(o) ==
  /\ ~At(o, "closed")
  /\ op' = [op EXCEPT ![o] = Closed]
  /\ UNCHANGED <<keyTable, form, idTables>>

ReadSalt(o) ==
  /\ At(o, "salt")
  /\ op' = [op EXCEPT ![o].salt = IF salt = None THEN o ELSE salt,
                      ![o].pc   = IF salt = None THEN "newSalt" ELSE "key"]
  /\ UNCHANGED <<keyTable, form, idTables>>

(* A plain INSERT: when another opener was faster, the primary key refuses *)
(* the row and the start fails (End).                                      *)
InsertSalt(o) ==
  /\ At(o, "newSalt") /\ salt = None
  /\ salt' = op[o].salt
  /\ op' = [op EXCEPT ![o].pc = "key"]
  /\ UNCHANGED <<wrapped, form, idTables>>

(* A wrapped key that does not open fails the start, and never makes a new *)
(* key.                                                                    *)
ReadWrapped(o) ==
  /\ At(o, "key")
  /\ \/ /\ wrapped # None /\ Unwraps(o)
        /\ op' = [op EXCEPT ![o].dk = wrapped.dk, ![o].pc = "collect"]
     \/ /\ wrapped # None /\ ~Unwraps(o)
        /\ op' = [op EXCEPT ![o] = Closed]
     \/ /\ wrapped = None
        /\ op' = [op EXCEPT ![o].dk = o, ![o].pc = "newKey"]
  /\ UNCHANGED <<keyTable, form, idTables>>

InsertWrappedOver(o) ==
  /\ At(o, "newKey")
  /\ wrapped' = [pw |-> op[o].pw, salt |-> op[o].salt, dk |-> op[o].dk]
  /\ op' = [op EXCEPT ![o].pc = "collect"]
  /\ UNCHANGED <<salt, form, idTables>>

InsertWrapped(o) ==
  /\ At(o, "newKey") /\ wrapped = None
  /\ wrapped' = [pw |-> op[o].pw, salt |-> op[o].salt, dk |-> op[o].dk]
  /\ op' = [op EXCEPT ![o].pc = "collect"]
  /\ UNCHANGED <<salt, form, idTables>>

(* migrate_plaintext_mails: collect all plaintext rows under the lock,     *)
(* then one UPDATE per row, each under the lock again.                     *)
Collect(o) ==
  /\ At(o, "collect")
  /\ op' = [op EXCEPT ![o].todo = {m \in Mails : form[m] = Plain},
                      ![o].pc   = "migrate"]
  /\ UNCHANGED <<keyTable, form, idTables>>

MigrateRow(o, m) ==
  /\ At(o, "migrate") /\ m \in op[o].todo
  /\ form' = IF form[m] = None THEN form ELSE [form EXCEPT ![m] = op[o].dk]
  /\ op' = [op EXCEPT ![o].todo = @ \ {m}]
  /\ UNCHANGED <<keyTable, idTables>>

Opened(o) ==
  /\ At(o, "migrate") /\ op[o].todo = {}
  /\ op' = [op EXCEPT ![o].pc = "legacy"]
  /\ UNCHANGED <<keyTable, form, idTables>>

-----------------------------------------------------------------------------
(* load_or_migrate_identity.  The old program's key comes first.  The read *)
(* ends in .ok(): an error counts as "no such row".                        *)
ReadLegacy(o) ==
  /\ At(o, "legacy")
  /\ \/ /\ legacy # None
        /\ op' = [op EXCEPT ![o].id = legacy, ![o].pc = "persist"]
        /\ excused' = excused
     \/ /\ op' = [op EXCEPT ![o].pc = "stored"]
        /\ excused' = (excused \/ legacy # None)
  /\ UNCHANGED <<keyTable, form, legacy, stored, ids, told>>

(* The stored identity, decrypted; what cannot be decrypted is an error    *)
(* and fails the start.                                                    *)
ReadStoredOrMint(o) ==
  /\ At(o, "stored") /\ stored # None /\ ids < MaxIds
  /\ ids' = IF Readable(o, stored.form) THEN ids ELSE ids + 1
  /\ op' = [op EXCEPT ![o].pc = "persist",
                      ![o].id = IF Readable(o, stored.form) THEN stored.id ELSE ids + 1]
  /\ UNCHANGED <<keyTable, form, legacy, stored, told, excused>>

ReadStored(o) ==
  /\ At(o, "stored") /\ stored # None
  /\ op' = [op EXCEPT ![o] = IF Readable(o, stored.form)
                               THEN [@ EXCEPT !.id = stored.id, !.pc = "persist"]
                               ELSE Closed]
  /\ UNCHANGED <<keyTable, form, idTables>>

(* Nothing stored, or the read failed and .ok() hid it: a new identity.    *)
(* Two starts that both find nothing stored each make one.                 *)
Mint(o) ==
  /\ At(o, "stored") /\ ids < MaxIds
  /\ ids' = ids + 1
  /\ op' = [op EXCEPT ![o].id = ids + 1, ![o].pc = "persist"]
  /\ excused' = (excused \/ stored # None \/ \E p \in Openers : At(p, "persist"))
  /\ UNCHANGED <<keyTable, form, legacy, stored, told>>

(* persist_identity, and start returns: the node runs under the identity.  *)
Persist(o) ==
  /\ At(o, "persist")
  /\ stored' = [id |-> op[o].id, form |-> FormOf(o)]
  /\ told' = told \cup {op[o].id}
  /\ op' = [op EXCEPT ![o].pc = "running"]
  /\ UNCHANGED <<keyTable, form, legacy, ids, excused>>

(* regenerate_identity: delete the old program's key and store a new one,  *)
(* in one transaction.  An error of the DELETE is ignored.  A start that   *)
(* has read the former identity will still store it.                       *)
Regenerate(o) ==
  /\ At(o, "running") /\ ids < MaxIds
  /\ ids' = ids + 1
  /\ stored' = [id |-> ids + 1, form |-> FormOf(o)]
  /\ told' = {ids + 1}
  /\ \E deleted \in BOOLEAN :
       /\ legacy' = IF deleted THEN None ELSE legacy
       /\ excused' = (\/ excused
                      \/ ~deleted /\ legacy # None
                      \/ \E p \in Openers : At(p, "persist"))
  /\ UNCHANGED <<keyTable, form, op>>

-----------------------------------------------------------------------------
(* set_password: wrap the same data key under the new password.  In        *)
(* plaintext mode this is a no-op.  An error is only logged, and is the    *)
(* step that changes nothing.                                              *)
SetPasswordResalted(o, pw) ==
  /\ At(o, "running") /\ op[o].dk # None
  /\ salt' = o
  /\ wrapped' = [pw |-> pw, salt |-> o, dk |-> op[o].dk]
  /\ UNCHANGED <<form, idTables, op>>

SetPassword(o, pw) ==
  /\ At(o, "running") /\ op[o].dk # None
  /\ wrapped' = [pw |-> pw, salt |-> salt, dk |-> op[o].dk]
  /\ UNCHANGED <<salt, form, idTables, op>>

(* mails::insert_with through the storage of a running node.               *)
InsertMail(o, m) ==
  /\ At(o, "running") /\ form[m] = None
  /\ form' = [form EXCEPT ![m] = FormOf(o)]
  /\ UNCHANGED <<keyTable, idTables, op>>

(* A row under another key: the UPDATE of a migration that has collected   *)
(* it under the old one finds nothing.                                     *)
MoveMail(o, m) ==
  /\ At(o, "running") /\ form[m] # None
  /\ op' = [p \in Openers |-> [op[p] EXCEPT !.todo = @ \ {m}]]
  /\ UNCHANGED <<keyTable, form, idTables>>

DeleteMail(o, m) ==
  /\ At(o, "running") /\ form[m] # None
  /\ form' = [form EXCEPT ![m] = None]
  /\ op' = [p \in Openers |-> [op[p] EXCEPT !.todo = @ \ {m}]]
  /\ UNCHANGED <<keyTable, idTables>>

Next ==
  \E o \in Openers :
    \/ \E pw \in Passwords \cup {None} : Start(o, pw)
    \/ End(o)
    \/ ReadSalt(o) \/ InsertSalt(o) \/ ReadWrapped(o) \/ InsertWrapped(o)
    \/ Collect(o) \/ Opened(o)
    \/ ReadLegacy(o) \/ ReadStored(o) \/ Mint(o) \/ Persist(o) \/ Regenerate(o)
    \/ \E pw \in Passwords : SetPassword(o, pw)
    \/ \E m \in Mails : \/ MigrateRow(o, m) \/ InsertMail(o, m)
                        \/ MoveMail(o, m) \/ DeleteMail(o, m)

Spec == Init /\ [][Next]_vars

-----------------------------------------------------------------------------
(* Type and shape: what an opener holds goes with where it is.  Past the   *)
(* setup, a salt and a data key in hand are the ones in the file, so that  *)
(* two nodes on one file, and a node after a change of password by         *)
(* another, work with one key.                                             *)
AtRestTypeOK ==
  /\ salt \in Openers \cup {None}
  /\ wrapped \in Wrapped \cup {None}
  /\ wrapped # None => wrapped.salt = salt
  /\ form \in [Mails -> Forms \cup {None}]
  /\ legacy \in {None, Legacy}
  /\ stored \in Stored \cup {None}
  /\ ids \in 0 .. MaxIds
  /\ told \in SUBSET Identities
  /\ excused \in BOOLEAN
  /\ op \in [Openers -> [pc   : Opening \cup Loading \cup {"closed", "running"},
                         pw   : Passwords \cup {None},
                         salt : Openers \cup {None},
                         dk   : Openers \cup {None},
                         todo : SUBSET Mails,
                         id   : Identities \cup {None}]]
  /\ \A o \in Openers :
       /\ op[o].pc \in Opening => op[o].pw # None
       /\ op[o].pc \in {"persist", "running"} => op[o].id # None
       /\ op[o].pc \notin {"closed", "salt", "newSalt"} =>
            op[o].salt = IF op[o].pw = None THEN None ELSE salt
       /\ op[o].pc \in {"collect", "migrate", "running"} \cup Loading =>
            IF op[o].pw = None THEN op[o].dk = None
            ELSE wrapped # None /\ op[o].dk = wrapped.dk

(* Whoever opens the file with the password the data key is wrapped under  *)
(* can read everything in it: all that is encrypted, mail bodies and the   *)
(* stored identity, is encrypted with that one data key, whichever starts, *)
(* migrations, changes of password and ends of the process came before     *)
(* (SqliteStorage::open: "a new DK is never generated (that would orphan   *)
(* all data)").                                                            *)
EncryptedIsReadable ==
  LET Good(f) == f \in Openers => wrapped # None /\ f = wrapped.dk
  IN /\ \A m \in Mails : Good(form[m])
     /\ stored # None => Good(stored.form)

(* The node keeps its address: all nodes that ran since the identity was   *)
(* last regenerated ran under the same one, over starts with and without a *)
(* password, failed starts, and a first start that ended before it stored  *)
(* anything (start: "identity MUST be stable across restarts").  Excused   *)
(* are two first starts at once, a regenerate while a start has the old    *)
(* identity in hand, and database errors that the code ignores.            *)
IdentityKept == ~excused => Cardinality(told) <= 1
=============================================================================
