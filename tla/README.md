# Yggmail-ng in TLA+

Yggmail-ng is a mail node for the Yggdrasil mesh. A mail client submits to it
over SMTP and reads from it over IMAP, both on localhost; nodes exchange mail
directly over the mesh, each named by its Ed25519 key. This directory holds
TLA+ models of the node's components, TLC configurations that check them, and
proofs checked by TLAPS.

Paths below are relative to `src/crates/yggmail/src/` unless they say otherwise.

## The system

| component | state | operations | who talks to it |
|---|---|---|---|
| mail store (`storage/`) | tables `mailboxes` (name, `uid_next`), `mails`, `queue`, `inbox_seen`, `at_rest`; one SQLite connection behind one mutex | insert, insert with dedup, get, list, flags, delete, expunge, move, mailbox create/delete/rename, queue insert/list/delete/count, open (with its migrations) | everyone |
| SMTP server (`smtp/`) | one `Session` per connection: protocol state, sender, recipients, the text so far | command loop, AUTH, DATA, `accept_mail` | mail client; store |
| sender (`peer/sender.rs`) | one task: interval, position in the queue | `process_queue`, `deliver_to_self`, readiness gate | store; QUIC transport; mesh links |
| receiver (`peer/receiver.rs`) | one task | take a mail from the transport, store it, acknowledge | transports; store; IMAP (wakes IDLE) |
| QUIC transport (`quic/transport.rs`) | cached connections by key, active peers, the bounded channel of inbound mails | `send` (dial or reuse, dialog, budget), accept loop, `serve_one_stream`, `recv` | sender; receiver; the peer's transport |
| SMTP overlay (`quic/smtp_overlay.rs`) | none between dialogs | client and server side of the dialog in a stream, dot-stuffing | QUIC transport |
| QUIC endpoint (`quic/mod.rs`, `udp_adapter.rs`, `addr_table.rs`) | key/address table, inbound datagram queue | connect, accept, datagrams in and out | quinn; demultiplexer |
| demultiplexer (`core_conn.rs`) | two unbounded queues | one pump reads the mesh and splits packets between YMP and QUIC | Yggdrasil core |
| YMP (`ymp/`) | `next_id`, pending handshakes and sends, reassembly buffers, active peers | `send` (SYN, DATA, retries), reader loop | (older transport, receive side) |
| IMAP server (`imap/`) | one session per connection: selected mailbox | SELECT, FETCH, STORE, SEARCH, COPY, EXPUNGE, APPEND, IDLE, mailbox commands | mail client; store |
| identity and at-rest keys (`identity.rs`, `storage/crypt.rs`, `storage/mod.rs`) | tables `at_rest` (salt, wrapped data key) and `mobile_config` (identity), the form of each mail | open, migrate, load or make an identity, regenerate it, change password | start-up; the mobile API |
| mobile node (`src/crates/yggmail-mobile/src/lib.rs`) | one optional running node, its servers and tasks | start, stop, servers, update peers, clear queue, send a mail, change password | the app, from any thread |
| peer picker (`src/crates/yggmail-mobile/src/picker.rs`) | the cancel flag, the probe links of a pick | pick peers, cancel | the mobile node |

The way of a mail: `accept_mail` stores it in Outbox and inserts one queue row
for each recipient; the sender reads the queue, sends the mail through the
QUIC transport and removes the row when the peer says `250`; after the last
row it moves the mail to Sent. At the peer a task per stream reads the dialog,
puts the mail and a one-shot acknowledgement into a bounded channel and waits;
the receiver task stores the mail in one transaction with its fingerprint and
acknowledges; only then the stream answers `250`.

What is hard in it:

- **No transactions across calls.** Each storage call locks the mutex and
  commits by itself, `mails::insert` even four times. Sessions, sender,
  receiver and IMAP interleave between any two calls, and a crash can fall
  between any two.
- **Two ends, either may give up.** The sender's budget, the peer's inbound
  budget and its durability budget end a dialog at any point; a mail can sit
  in the channel with nobody left to acknowledge to.
- **Retries against a bounded dedup window.** The sender retries for ever, the
  peer remembers a fingerprint for 600 seconds.
- **Referential actions.** Moves, renames and deletions cascade to the queue.
- **One task drains everything.** An error or a deferral ends a whole cycle.
- **Lives that end through each other.** A stopped node's tasks end in a chain, each
  because what it waits for has ended; the app starts and stops from any thread, and
  sessions of mail clients are in nobody's hands.
- **Starts that may end anywhere.** Opening a database is a dozen statements that
  commit one by one, and a second start may run between them.

What makes each component correct:

- store: keys unique, rows refer to rows that exist, UID counters stay above
  the UIDs in use and never fall, a fingerprint stands for a stored mail;
- submission: `250` means that every recipient gets the mail, `451` that
  what was stored of it is withdrawn;
- sender: no mail leaves the queue before it is stored by the peer, none is
  sent after, all are delivered in the end;
- transport: `250` only for what is durable, an acknowledgement reaches only
  its own mail, failures never lose a mail;
- IMAP: a UID a client knows keeps naming one mail, and nothing is expunged that
  nobody marked;
- YMP: a message is delivered whole or not at all, and a sender is told of
  success only for what is delivered;
- endpoint: the mapping between keys and addresses is injective;
- both SMTP dialogs: a text arrives line by line as it was written, no part of one
  mail reaches another, and no session is in a state its fields do not fit;
- identity, at-rest: whatever start ended where, all that is encrypted is under the
  one key the file's password opens, and a node keeps its address;
- node: a running node keeps its tasks, a stopped one lets go of its core and of its
  ports, no client is let in by a server that nobody can stop;
- picker: no probe link stays behind, no pick takes a peer from the app, and picks
  do not go back and forth.

## Modules

| module | models |
|---|---|
| `MailStore` | the database: one action per storage call, torn inserts, reopening |
| `Outbound` (extends `MailStore`) | `accept_mail` sessions and the sender task over one database |
| `SenderLoop` | where the sender task waits: for mail, for timers, for a link, for its stop |
| `MailDelivery` | what a transfer between two nodes promises (abstract) |
| `Delivery` (extends `MailStore`) | one sender, the peer's streams, channel and receiver over the peer's database; instantiates `MailDelivery` |
| `Ymp` | the older transport: `send` with its handshake and retries, both readers, reassembly, over a lossy mesh |
| `QuicConns` | the connections of the QUIC transport: the shared cache, dials, time-outs, the accept loop, the address table |
| `ImapSession` (extends `MailStore`) | sessions of mail clients over the database, beside the receiver |
| `MailText` | lines of a text, dot-stuffing and its inverse |
| `MailPath` (extends `MailText`) | sessions of the SMTP server with their clients, and the overlay dialog, as far as the text of a mail goes |
| `AtRest` | one database file opened by several starts: salt, wrapped key, migration, identity, changes of password |
| `Node` | starts, stops and servers of the mobile library, and when every task of a node ends |
| `Picker` | picks of public peers beside `update_peers`; the ranking and the decision to switch |
| `MailStoreProofs`, `DeliveryProofs`, `YmpProofs`, `QuicProofs` (of `QuicConns` and `SenderLoop`), `MailPathProofs`, `AtRestProofs`, `MobileProofs` (of `Node` and `Picker`), `MailboxProofs` (of `Outbound` and `ImapSession`) | theorems |
| `MCMailStore`, `MCOutbound`, `MCSenderLoop`, `MCDelivery`, `MCYmp`, `MCQuicConns`, `MCImap`, `MCMailPath`, `MCAtRest`, `MCNode`, `MCPicker` | roots for TLC, instantiated by the `.cfg` files |

`MailStore` is what `Outbound`, `Delivery` and `ImapSession` have in common: each adds its
own actors to the same database. `Outbound` takes a send as one step with an outcome;
`Delivery` is the inside of that step, and `QuicConns` the connection it goes over.
`MailPath` has the dialogs that `Outbound` (at the client's side) and `Delivery` (between
the nodes) reduce to their outcomes.

### MailStore

Tables are sets of rows; `mailboxes` is the function `uidNext` from the names
that exist to their counters. One storage call is one action, because it runs
under the mutex. The exception is `mails::insert`: its four statements commit
one by one when it does not run inside a transaction, so that `MailInsertFails`
and `CrashInInsert` leave any prefix of them (`PartOfInsert`).
`mail_insert_inbox_dedup` is a transaction and so is one step, `DeliverNew`.
`Reopen` is `SqliteStorage::open`: the protected mailboxes, the lift of the
counters (`Lifted`) and the removal of queue rows that do not name Outbox.
Operators with a primary key in their way (`MailMove`, `RenameMailbox`, ...)
change nothing then, as the statement fails.

`arrivals` is a history variable: the times at which each inbound message was
stored. `clock` is the wall clock in seconds and never runs backward in the
model. A message value stands for the sender's key with the raw bytes; that two
different mails have one 64-bit fingerprint is left out. Flags other than
`\Deleted`, subscriptions, dates and the encryption of blobs are left out.

### Outbound

`tx[m]` is the session that carries message `m`; its `pc` follows
`accept_mail`: `Submit` (parse, deduplicate and `mail_insert`), one `Enqueue`
per recipient, `Accept` (250), or `EnqueueFails` (451) with `RollbackDelete` and
`RollbackExpunge`. Either call of the rollback may fail and is then only logged.
`todo` are the recipients without a row, also after the session is over, so that
`Entered` tells who was queued before a failure.
`snd` is the sender task: `Wake` takes the list of destinations, `NextDest`
the rows of one, `GetMail` the mail, then the gate, the send, `Dequeue`,
`CountLeft` and `MoveToSent`, one step per storage call. Mail to oneself goes
through `StoreLocally` instead of gate and send. The code has these last three
calls twice (in `process_queue` and in `deliver_to_self`), the model once.
Destinations are visited in the order of their keys, the order of the index
that `SELECT DISTINCT` walks; mails newest first.

The network is the flag `up`, and a send that succeeds (`SendOk`), fails
(`SendLost`) or fails after the peer stored the mail (`SendUnconfirmed`).
`Crash` ends the process at any point, also within an insert. `ClearQueued` is
one removal of the mobile API's `clear_outbound_queue`; `ClientDeletes` and
`ClientExpunges` are a mail client that marks mail in Outbox as `\Deleted` and
expunges it, which takes the queue rows along. `cancelled` remembers what the
user took back in these ways. `Preloaded` are mails an earlier process queued for
all of `PreDests`. The sender sleeps for 30 s or, after an error, for 10 s; the model
leaves the lengths of sleeps out and lets it wake whenever it sleeps.

`TimePasses` moves the clock that `deliver_to_self` reads when it stores a mail with its
fingerprint: a retry after a crash may come within the dedup window or long after it.

`overtaken` is history too: the mails of which the sender counted no rows left
(`Overtakes`) while their session still had recipients to queue. That is the one way an
accepted mail gets lost, `outbound_group` shows it, and the properties of the run `outbound` are
about all other mails. It excuses a mail only at the count; a sender that is quicker than the
session but finds another row, or comes back after the next insert, excuses nothing.

### SenderLoop

`Outbound` takes each wait of the sender task as one step and says what a cycle does to the
database. This module is the other half: a queue row is a destination and a number, and what
is followed is who wakes whom. `task.pc` is where the task is: before its first cycle
(`start`), in `process_queue` (`list`, `rows`, `mail`, `send`), in `wait_for_up_peer`
(`first`, `subscribe`, `second`, `wait`, `look`) or asleep between two cycles (`sleep`).
`QueueInsert` and `NotifyOne` are the two halves of `queue_insert`; `permit` is the one permit of
its `Notify`, and `Sleep` takes it or the timer. `task.soon` is the interval that was
chosen, 10 s after an error or a deferral (`CycleFails`, `Defer`). `HearStop` is the arm
`stop.recv()` of both selects; it drops whatever await of a cycle the task was in.
`unseen` is history: rows no cycle has listed since they were inserted.

In the gate `FirstLook`, `Subscribe` and `SecondLook` are three steps, and the mesh acts between
them. `bus` is what the gate's subscription has not read. The channel never waits for a slow
reader, it drops its oldest event: `lagged` remembers that a Connected was dropped. Of the
core, which is external, the module assumes that a link is among `get_peers()` before its
Connected is published, and that an event is published for every link that comes up or goes
down. A destination that is no key (which nothing inserts) and a closed channel of events
are left out.

### Delivery

The sending node is its queue rows for one peer (`queued`) and the send in
progress (`attempt`). The receiving node is its streams, the channel, the
receiver task and the tables of `MailStore`. `stream[s].pc` follows
`serve_one_stream`; `said250`, `said451` and `reset` are answers on their way.
A channel item names the stream to acknowledge to, and `NoStream` once that
stream's `ack_rx` is dropped (`Detach`). A stream the sender has given up goes
on by itself: its mail may still be read, offered and stored. `GiveUp`,
`SenderCrash`, `ServeFails`, `DurabilityTimeout`, `StoreFails` and
`ReceiverCrash` are the failures. The sender makes one attempt at a time
because one task calls `send` and waits; streams beyond that are ones it gave up.
A stream number may be used again, which stands for the fresh stream the code
opens; `AckFitsStream` is what makes this sound and worth checking.

`MailDelivery` is the contract: a mail stays pending until it is settled, and
is settled only when the peer has a copy. `ImplementsMailDelivery` is the
refinement with `pending <- queued` and `copies[m] <- Len(arrivals[m])`.

### Ymp

`net` is the set of all packets ever written: a reader may take any of them,
in any order, again and again, or never, which is loss, delay, reordering and
repetition at once. Because it only grows, a retry that writes the same packet
changes nothing in it; what a retry changes is the caller's state. `send[m]` is
the call of `send()` for message `m`: `Start` takes the id, registers the
handshake and writes the first SYN; `HearSynAck` or `SynTimeout`; `WriteSegment`
for each segment of a burst; `Wake` and `Check` for the two awaits under the
retry timer; `DataTimeout`. `permit` is the one permit of the call's `Notify`
(`syn_notify` in the handshake, `notify` after it). The time-out can fall
between the wake-up and the lock, when the permit is already gone, and the model
keeps that. `TakeSynAck` and `TakeAck` are the sending node's reader.

The receiver's reader is three steps for a DATA packet, as other tasks run
between them: `TakeData` checks it and writes the ACK, `Insert` makes room, opens
the buffer, keeps the first copy of the segment and takes a complete message
out, `HandUp` puts it into `recv_tx`. `buffers` is the map in the order of
creation, so that the eviction of the oldest is `Tail`. A segment whose number is
beyond the buffer it meets makes the reader index out of bounds and ends the
task (`reader.pc = "dead"`); this needs a restart of the sender. A segment's
payload is the pair of its message and number. `Expire` is the cleanup task, with
the age of a buffer left to chance. `SenderRestart` and `ReceiverRestart` lose
everything; the ids begin at 0 again. `handed` and `dropped` are history. Late copies
of all segments of a finished message are put together and handed up once more:
`handed` is a set, and the receiver task refuses the repeat by its fingerprint.
`close()`, the path warmer's `active_peers` and the throttle of path lookups are left out.

One sender and one receiver: the key of a buffer has the sender's key in it, so
that senders meet only in the cap on buffers, which `Expire` and eviction by
concurrent messages of one sender cover.

### QuicConns

`call[s]` is the call of `send()` of a task. The code never holds the lock on
`conns` over an await, so that what lies under one lock is one action: `Lookup`
is the first look at the cache, `Dialled` or `DialFails` the dial without the
lock, `Insert` the second look, `DialogTimeout` the close that needs no lock,
`Evict` the removal that does. Between `Lookup` and `Insert` another call may have
dialled the same peer; between `DialogTimeout` and `Evict` another may have cached
a new connection under that key. `Delivery` models what a dialog says, this
module only that it opens, ends or runs out. A connection is a value of `Conns`
with the key of its certificate; a value that nobody refers to is used again for
a new connection (`Unused`).

`byKey`, `byAddr` and `next` are the table of artificial addresses; the counter
wraps at `AddrSpace`. Dials and the pump of received datagrams fill it. An
incoming connection is `Arrives` (its first datagram gives it the address of the
mesh key it comes from), `Accept` (certificate against that key) and `Leaves`. The
certificate may be any key: the verifier of the TLS layer accepts all, and the
comparison in the accept loop is the authentication. Today one task calls `send()`;
the cache is written for several, and so is the model.

### ImapSession

A command of a client is several storage calls, each under the mutex by itself.
`Begin` lists the selected mailbox and picks the UIDs a set names, by UID or by
position; then one `Get` for each, lowest UID first as the rows were listed, and `Write`
(STORE) or `Copy`; `Done` answers. `todo` is the set of what is left. A
mail that is gone when its turn comes is passed over. STORE writes all flags as it
has read and changed them, so that a STORE of `\Seen` (`op = "other"`) also writes the
`\Deleted` it read. `Expunge` takes no notice of the set of UID EXPUNGE and answers
with no numbers, as in the code. `AppendMail` sets its flags in a second call,
`Flag`. `Node` is the receiver storing a mail, and a restart, which ends sessions.

`known` is what clients were told of UIDs, `marked` the mails they have named in a
STORE of `\Deleted`; both are history. They leave `Sent` out, where `mail_move` breaks the
order of UIDs (see Disagreements), and the mailboxes a client may delete.

### MailText and MailPath

A line is its leading dots, what follows them and whether a newline ends it: nothing else
of a text matters to dot-stuffing, to the end of the text and to its size, which counts
lines here. `session` is `Session` with `data_buf`, one action per verb (`Helo`, `MailFrom`,
`RcptTo`, `Data`, `Rset`, `AuthLogin`, `Username`, `Password`, `Other` for what changes
nothing). `DataLine` is the framing loop of `handle_conn`; `AcceptMail` the end of a text
with every reply of `accept_mail`. The client says a verb and waits for one reply, writes a
text only after 354, and reads nothing while it writes; `replies` are the codes it has not
read. When a text is refused half way, the session is back at commands while the client
still writes: what it writes is answered with 500 (`TextAsCommand`). A client that then
reads one reply for each verb is out of step (`inStep` is FALSE), may say a verb into a
text (`SaidIntoText`) and is promised nothing of its text.

`dialog` is one overlay dialog: `up` and `down` are the two directions of the stream,
`server` and `dialer` how far the two ends are. `DialerGoesOn` is `overlay_send_stream` with its
`expect_code`, `ServeCommand` and `ReadData` are `overlay_serve_stream` and `read_data`; the verb
`stranger` is a MAIL from an address that is not the peer's, `nobody` a RCPT to one that is
not the node's. `OtherDials` is another program at the dialer's end, which may say anything in
any order. `Break` ends the dialog at any point. `SendMail` is `send_mail` of the mobile API,
whose last line has no newline.

### AtRest

`op[o]` is a call of start and then the node it made; each has its own connection, so that
the only lock between two of them is SQLite's and every statement is a step. `ReadSalt` to
`InsertWrapped` are the setup of the keys in `SqliteStorage::open`, `Collect` and `MigrateRow` the migration of plaintext
mail, `ReadLegacy`, `ReadStored`, `Mint` and `Persist` are `load_or_migrate_identity`. A plain
INSERT that finds the row there fails, and so does the start: `End`, which may come
after every step and is also a stop and the end of the process. `SetPassword`,
`Regenerate`, `InsertMail`, `MoveMail` and `DeleteMail` go through the storage of a running node.
`form` says for each mail whether it is encrypted and with which key. Keys and salts
are named for the opener that drew them, the identities are numbered.

### Node

Every call of start is a generation with its own core and tasks. `tasks[g]` are the tasks
that run, `Ended` when each can end: the demultiplexer's pump when the core is closed or
both its views are gone, the adapter's pumps, quinn's driver, the accept loop and the
served connections, YMP's reader, the loops. What keeps a part alive is written down as
`TransportHeld`, `EndpointHeld`, `SocketHeld`, the two `...ViewHeld` and `CoreHolders`, from who
owns an `Arc` of it. `start` takes the lock only to install the node, so that `Start`,
`MakeTransport` (or `TransportFails`) and `Install` interleave with other calls. `server` are
the tasks spawned by `start_smtp` (IMAP is the same), `handle` the one the node can abort;
`abort` takes effect later (`leaving`), and until then the port is taken. It ends the accept
loop alone: `serve` spawns a task for every client it lets in (`smtp/mod.rs:377`; the IMAP library
does the same) and keeps no handle of it. `sessions` are the servers with such a task. It begins
while its server listens or is about to go (`SessionBegins`) and ends when its client leaves
(`SessionEnds`), no matter what becomes of the node: it holds the storage, not the core. So a stopped
node does serve clients from its storage, those that were connected; `NoStrayServer` says that
it lets in no new ones. The two servers
count as one kind, as do sender and path-warmer, which end for the same reason.

### Picker

`pick[p]` is a call of `pick_peers`: stage A returns any set of candidates up to `A_TOP`,
`AddProbe` adds their links one by one, `Judge` measures and decides, `Release` and `Report` end it.
`CancelStageB` is the guard that sees the cancel flag, with the add it drops half done or not.
The flag is shared by all picks. `UpdatePeers`, `UpdateAdds` and `UpdateRemoves` are `update_peers`,
which holds the lock over its awaits where `pick_peers` does not. `Verdicts` is `rank` with
`network_root` and `decide`: the root most links lead to, latency times depth, hysteresis.

## Runs

| run | configuration | outcome |
|---|---|---|
| `mailstore` | `MCMailStore.cfg` | `Integrity`, `UidBelowNext`, `SeenMeansStored`, `NoRepeatInWindow`, `CounterNeverFalls` hold |
| `outbound` | `MCOutbound.cfg` | `AcceptedMailIsKept`, `RefusedMailIsWithdrawn`, `SentMeansSettled`, `SendingWhatIsQueued`, `SelfCopyRepeatsLate`, `AcceptedMailIsDelivered` hold |
| `outbound_group` | `MCOutboundGroup.cfg` | `EveryRecipientIsKept` violated |
| `senderloop` | `MCSenderLoop.cfg` | `NoWakeIsLost`, `NoLinkIsMissed` hold |
| `delivery` | `MCDelivery.cfg` | `NoMailLost`, `OkMeansStored`, `AckFitsStream`, `ImplementsMailDelivery`, `EveryMailSettles` hold |
| `ymp` | `MCYmp.cfg` | `WholeUntilRestart`, `OkMeansTaken`, `EverySendEnds` hold |
| `quicconns` | `MCQuicConns.cfg` | `QuicTypeOK`, `PeersAreVerified`, `LiveIsCachedOrEvicted`, `CorpseNotInherited`, `EverySendReturns` hold |
| `imap` | `MCImap.cfg` | `UidMeansOneMail`, `ExpungedWasMarked`, `NumbersStay` hold |
| `mailpath` | `MCMailPath.cfg` | `SessionOK`, `BodyIsWhole` hold |
| `atrest` | `MCAtRest.cfg` | `AtRestTypeOK`, `EncryptedIsReadable`, `IdentityKept` hold |
| `node` | `MCNode.cfg` | `NodeOK`, `NoStrayServer`, `ClosedCoreIsReleased` hold |
| `picker` | `MCPicker.cfg` | `ProbesAreReleased`, `NoFlapping`, `WantedStaysConfigured` hold |

**mailstore.** One chat message, two mailboxes a client may delete and rename
(`TyrChat`, which inbound chat mail re-creates, and `Work`), two mails, UIDs up
to 2, a window of 1 second on a clock up to 2. Two mails are enough for any
collision of keys, and the clock passes the window with both its edges. No
deadlock.

**outbound.** A mail queued by an earlier process for a peer (key 1), a second mail submitted
during the run to the peer, to the node (key 2) or to both, one crash or
storage error, links up and down, one clearing of a queue row or one deletion
of a mail at any time, a window of 1 second on a clock up to 2, which passes it. Two recipients
are what a rollback needs that finds an earlier recipient's row in the sender's hands, what a count
needs to find a row left, and what the group race needs; the mail of the earlier process stands before
the new one at the same destination. `AcceptedMailIsKept`,
`SentMeansSettled` and `AcceptedMailIsDelivered` leave out the mails the sender overtook (`overtaken`); so the
run shows that the group race is the only way an accepted mail gets lost within these bounds.
`RefusedMailIsWithdrawn`: the peer that was queued first may well get a mail of which the client is told
451; nobody who was not queued does, and what is left of the mail is taken out of Outbox.
`SelfCopyRepeatsLate`: a crash or an error between the store and the removal of the row lets the mail come
a second time, but only after the window, and not without one. The clock is read when a mail
to oneself is stored and nowhere else, so that a tick commutes with every other step; `MCOutbound` lets it
move only when the sender is about to store one (`MCNext`), which reaches the same states up to the time of
ticks nobody saw. `MaxUid` and `MaxMails` leave room for every submission.

**outbound_group.** One mail to two recipients, no failures. The shortest
counterexample: the mail is inserted, the row of one recipient is inserted, the
sender delivers to it and counts no rows left; the row of the second recipient
is inserted, the client is told 250, and the move to Sent takes the new row with
it. Nothing sends a row that names Sent, and the next `open` drops it. In
another interleaving the second insert fails its foreign key and the client is
told 451 for a mail one recipient has. The comment at `smtp/mod.rs:228` names
the cure: one transaction for the mail and its rows.

**senderloop.** Two destinations, the node itself and a peer, with one mail number each, two
links, a channel of two events. One row of a peer and one of the node are what a cycle needs to
be past one and not the other when an insert notifies; two links bring a Connected, a
Disconnected and one more event than the channel keeps. Rows come and go without a bound.
`NoWakeIsLost` speaks of the long interval; after a failed cycle the task is back in 10 s anyway.
No deadlock.

**delivery.** Two mails, two streams, a channel of two, three failures, a window
of 1 second on a clock up to 2. Two streams are needed for a retry beside an
abandoned stream, two mails for an acknowledgement that could reach the wrong
one, and the third failure for a crash after a time-out after a lost reply.
`CHECK_DEADLOCK FALSE`: when everything is delivered and the bounded clock has
run out the model stops, where the program waits for more mail.

**ymp.** Two messages, one of one segment and one of two with a short last
segment, two attempts each at the handshake and the data, room for one buffer,
one restart of the sender and any number of the receiver. One buffer for two
messages forces evictions; two segments are what a cumulative or a wrongly
counted acknowledgement needs; the restart checks that calls still end. No
deadlock.

**quicconns.** Two calls at a time, two peers, one incoming connection, and two
outgoing ones, which is what two calls can hold between them; a table of three addresses,
exactly as many as keys, so that the counter wraps. `LiveIsCachedOrEvicted` has an exception: `Evict`
removes whatever is cached under the peer's key, which may be a newer connection
that is open and in use; a third call then dials once more, and two connections to
one peer are open, which the second look (`quic/transport.rs:394`) is there to prevent. `CorpseNotInherited` is about
beginning a dialog. A call already in a dialog on a connection when another call
times out on it has the connection closed under it; it gets an error and the mail
is tried again. No deadlock.

**imap.** Two clients on INBOX, two messages, UIDs up to 2, one time unit (the
dedup window is the store's business), every op on every set of UIDs or positions. Two
UIDs are enough for a position to shift under a client and for a UID to be handed out
after an expunge. `ExpungedWasMarked` says that what leaves INBOX was named by some client,
and not more: a client that takes `\Deleted` back may have it written again by the
STORE of another flag in another session that read before. `NumbersStay` is about sequence
numbers: as long as no mail leaves a mailbox, no mail in it gets another number, so that mail that
comes in comes last. An expunge by another session moves the numbers, and the client is not told
(see Disagreements). No deadlock.

**mailpath.** Lines that begin with no dot, one dot and two dots, texts of up to three lines
of which two fit, one recipient that parses and one that does not, one mail in Outbox
at a time, two unread replies. A dot alone is the line that could end a text too early; the
third line makes a text too large while it is written, and the second unread reply puts
a client out of step. `BodyIsWhole` does not hold for clients out of step. No deadlock.

**atrest.** Two openers, two mails, two passwords and three identities, each start with any
password or none. Two openers are needed for every race of two first starts, two
mails for a migration that ends half way, the third identity for a regeneration after
two first starts. No deadlock: a node that cannot open may be started again.

**node.** Two starts and two servers: a start over a running node, two at once, a start
after a stop, a server started twice. One server at a time has a client, who may stay through
a stop, the next start and the next server. `CHECK_DEADLOCK FALSE`: when all starts and servers are
used up and everything has ended, the model stops.

**picker.** Two picks at a time over two peers, two updates. Two picks are what overlapping
needs; each may switch to either peer or keep. The measurements lie at the edges of the hysteresis: either
node may be the root of the other, 34 is exactly 85 per cent of 40 (20 ms at depth 1), 39 is within 15 per
cent of 34, a link may be down and an ancestry may not have come. Every second measurement within the hysteresis is
judged. For larger trees and other latencies `NoFlapping` rests on its proof (`SwitchesLast`). No deadlock.

Every property of a passing run has a mutant of the code, listed in
`PROJECT.json`, that breaks it: a rollback that is skipped, a count that is
ignored, a time-out taken for a confirmation, a fingerprint that commits without
its mail, an off-by-one at the edge of the window, and so on.

### Bounds

`MaxUid`, `MaxMails`, `MaxClock` bound the store; `Window` is its 600 seconds; `MaxRcpts` the recipients of a
submission; `MaxFaults` crashes and errors; `MaxCancels` what the user cancels (no cancel
begins with so many pairs cancelled); `Streams` the streams at one time;
`Depth` is the code's `RECV_QUEUE_DEPTH` (64), made small so that the channel
fills. `MaxRestarts` bounds the
restarts of a YMP sender. `FragmentSize`, `MaxMessageSize`, `MaxSynRetries` (5),
`MaxRetries` (12) and `MaxBuffers` (256) are the code's constants, small in `ymp`.
In `SenderLoop` `Depth` is what the
core's channel of events keeps, and `Numbers` and `Links` bound what is there at one time.
`AddrSpace` is 2^32 in the code; `Conns`, `Callers` and `Incoming` bound what is open at one time, not
how often. `ClientBoxes` are the mailboxes clients work with. `MaxRcpts` (50) and `MaxData` (the
size limits) of `MailPath` are the code's, made small; `MaxTyped`, `MaxOutbox` and `MaxUnread` bound
its texts, its queue and what a client leaves unread. `MaxIds` bounds the identities ever made,
`MaxStarts` and `MaxServers` the calls of start and of start_smtp, `MaxSessions` the servers that have
clients at one time, `NumPeers`, `MaxUpdates` and the
set `Measurements` what the picker meets; `Infinity` is the score of a peer that has none, above any score there is; `ATop` is the code's `A_TOP` (8).
All other actions are unbounded.

### Fairness

`Outbound`: weak fairness of the sender task as a whole, because the runtime
runs it; it is never blocked, since the gate ends at its deadline. Strong
fairness of a successful send of one mail to one key: of the sends repeated
for ever over links that are up, one succeeds. Nothing makes links come up
(`AcceptedMailIsDelivered` assumes one stays up), no fairness is assumed of
clients. `Delivery`: weak fairness of the sender, of each stream's task and of
the receiver; failures are finite by `MaxFaults`, so that liveness speaks of what
happens once they stop. `Ymp`: weak fairness of each call of `send()` with its timers;
nothing of the mesh or of the peer, so that `EverySendEnds` does not rest on answers. `QuicConns`: weak fairness of what each call does by
itself or by its timers (`Timers`: the second look, the end of the dial's and the dialog's
time, the error of a closed connection, the eviction), nothing of peers. `Node`: weak fairness of the end of
each task that can end, because the runtime polls it; none of any call of the app and none
of a peer that holds a connection open, as `ClosedCoreIsReleased` must not need them. The safety
properties of the others assume no fairness at all.

## Proofs

The theorems hold for every value of the constants that meets the named
assumptions (`StoreAssumption`, `SenderLoopAssumption`, `DeliveryAssumption`, `YmpAssumption`, `QuicAssumption`,
`MailTextAssumption`, `MailPathAssumption`, `AtRestAssumption`, `NodeAssumption`, `PickerAssumption`,
`ImapAssumption`, `OutboundAssumption`): any finite or infinite
set of messages, mailboxes and keys, any window, any number of streams and
failures, any depth of the channel, any sizes of messages and segments, caps
and retries, any lines and limits of a text, any openers of a file, any starts, servers, peers and picks.

`MailStoreProofs` proves `StoreSpec => []StoreInv`, where

    StoreInv == StoreTypeOK /\ IsFiniteSet(mails) /\ Integrity /\ UidBelowNext

Finiteness is what the lift in `open` needs: `Lifted` chooses a bound above the
ids of a mailbox, which exists only for finitely many (lemma `GreatestExists`, by
well-founded order of strict subsets). `Integrity` alone would be inductive but for
`UidBelowNext`, which needs the mailbox of a row to exist, and typing. The action
property `CounterNeverFalls` follows from the invariant step by step. The
fingerprints have their own invariant

    SeenInv == SeenTypeOK /\ SeenMeansStored /\ LastIsSeen /\ NoRepeatInWindow

`LastIsSeen` is the strengthening: an arrival young enough to be repeated still
has its fingerprint, so that a second arrival within the window is refused.

`DeliveryProofs` proves `Spec => []DeliveryInv`, which joins the two invariants
above with `Storing` (what is being acknowledged, acked, said 250 or confirmed
is stored), `Routing` (an item that names a stream is that stream's, and no two
items name one) and `Tracking` (what travels was submitted; what was submitted is
queued or stored). From it follow `NoMailLost`, `OkMeansStored`, `AckFitsStream`,
the dedup window for mail that arrives by streams, and the refinement: the initial
state maps to `MailDelivery`'s, each action to `Submit`, `Store`, `Settle` or a
stutter.

`YmpProofs` has three invariants, each on top of the one before. `TypeInv` types the
packets, calls and buffers, with one buffer per id and at most `MaxBuffers`.

    WholeInv == TypeInv /\ (restarts = 0 => Traced)
    Traced   == IdsDistinct /\ AtSegment /\ SegmentsFit /\ InsertFits /\ BuffersFit /\ HandedFit

`WholeUntilRestart` looks only at what is handed up. To be inductive it must follow
segments back through the reader, the buffer and the mesh to the call that wrote
them: ids are of one call each, every packet with an id is a segment of that call's
message, and a buffer has such segments at their places and counts the places that
are filled. The counter then equals the number of places only if each is filled
(`Cardinality`, from `FiniteSetTheorems`), so that what is put together is the
message. It ends at a restart of the sender, where `IdsDistinct` does.

    OkInv == WholeInv /\ (restarts = 0 => AcksTrue /\ AckedTrue /\ OkTrue /\ Incomplete)

An acknowledgement in the mesh, one counted by a call and an Ok each stand for
segments that were `Taken`: handed up, dropped, in the reader's hands or in a buffer.
A buffer of a message all of whose segments are taken would be complete, but
complete buffers do not stay (`Incomplete`), and `OkMeansTaken` follows.

`QuicProofs` proves `Spec => []QuicInv`:

    QuicInv == TableInv /\ InboundInv /\ CallInv
    CallInv == CallType /\ RightPeer /\ OwnDial /\ CorpsesClosed /\ LiveIsCachedOrEvicted

The table is injective because its counter is the number of keys in it and there are
no more keys than addresses (`QuicAssumption`); with that, an incoming connection's address
still names the key it came from when its certificate is compared. `OwnDial` is what the second look
needs: a connection that is dialled and not yet cached is known to its caller
alone, so that closing it, or caching it in the place of a closed one, disturbs no other call.
`CorpseNotInherited` follows, as a connection on which a dialog timed out is closed for good and both ways
into a dialog take an open connection or the caller's own.

The same module has the proof of `SenderLoop`, whose names do not meet those of `QuicConns`:

    LoopInv == LoopTypes /\ UnseenIsAhead /\ NoLinkIsMissed

`NoWakeIsLost` looks only at a task that sleeps. `UnseenIsAhead` follows the rows into a cycle: a row that
no cycle has listed is in the hands of a `queue_insert` that has yet to notify, or has left its permit, or is of a
destination the cycle has still to list, or the cycle has not begun. An error may skip the rest of a cycle,
but then the interval is the short one. `NoLinkIsMissed` is inductive by itself: the second
look comes after the subscription, so that a link that is not up then has its event still to come, and an
event that is read is followed by a look.

`MailPathProofs` begins with the lines: `StuffedLine` (unstuffing undoes stuffing, and a stuffed
line never ends a text) and `WireLines`, the same for a whole text with its last newline. Then two
invariants that share no state but Outbox:

    SubmissionInv == SubmissionTypes /\ Coherent(session) /\ MailsAreMeant
                     /\ (client.inStep => InStep(session, client, replies))
    DialogInv     == dialog # NoDialog => dialog \in DialogType /\ Talk(dialog)

`BodyIsWhole` says nothing of a text still on its way. `InStep` follows the client: it has no
reply outstanding when it speaks, one when it waits, and the session has exactly the lines it
has typed, or has refused them. `Talk` follows the dialog: one verb or one reply is on its
way, a text only after 354, and then what has been read is the beginning of the text and what is
on the wire is the rest (`Sending`).

`AtRestProofs` has

    KeyInv == AtRestTypeOK /\ KeysInHand /\ EncryptedIsReadable
    IdInv  == ~excused => RanAsStored /\ PersistsTheSame /\ LegacyFirst

Everything is under one key because whoever holds a data key past the setup holds the one
that is wrapped in the file (part of `AtRestTypeOK`), and the row is never replaced by another key.
`IdentityKept` counts; `IdInv` says why the count stays at one: nodes ran under the stored identity,
and a start about to store one has read that one, or the old program's, or is the only one
with a new one.

`MobileProofs` is one module for the two small state machines of the mobile library, whose
names do not meet (`PickerInit`, `PickerSpec`). It proves `NodeOK /\ StartingHasTasks`: what the
installed node has when it is installed was there since its start, because every task a start waits for
is held by the start (`HeldTasksRun`). With it goes `LiveIsOurs`: until something is started over a running one,
a server that binds or listens is the one whose handle the installed node has, which gives `NoStrayServer`. Of the picker it proves that somebody answers for every configured peer
(`Accounted`: the app, a pick with its probes, an update with what it has yet to compare, a
winner not yet applied), and that a pick no update has met probes no peer the app wants. `SwitchesLast` is the
hysteresis for any measurements and any shape of the tree: once a pick has switched from `v` to `u`, the score of
`u` is at most 0.85 of that of `v`; a later pick that finds every latency within 15 per cent of before would
switch back only to a `v` below 0.85 * 1.15 * 0.85 of what it was, and it is not below 0.85.
`StoppedNodeWindsDown` goes along the chain in which a stopped node ends: pump, then the adapter's
receiving pump and the reader, driver, accept loop, connections, sending pump, each able to end once those before it
have (`NoCircle`), and no step starts any of them again but a connection whose handshake was under way
(`ClosedStaysClosed`). What is left to TLC of `ClosedCoreIsReleased` is that the runtime polls what can end.

`MailboxProofs` joins `ImapSession` and `Outbound`, as both rest on the same facts of the database. It
has, for the first,

    ImapInv == StoreInv /\ SessionsOK /\ DeletedIsNamed /\ KnownIsOld /\ UidMeansOneMail

What a client knows of a UID can only be contradicted by a mail with a new UID, and a new one is above
the counter, while all that is known is below (`KnownIsOld`; `OldOrFresh` says what any storage
call makes of the mails). `ExpungedWasMarked` is an action property: it needs that every row with
`\Deleted` was named by a client, and as a STORE writes back flags it has read before, that the
row in a session's hands was named too (`MarksOnPurpose`). `NumbersStay` follows from the counter as
well: every step either takes no mail or adds only mails with UIDs above all that are there
(`ImapCallsAreFresh`), and the number of a mail counts the UIDs up to its own.

For the second it first shows that each step of `Outbound` is a step of the database or leaves
it alone (`OutboundUsesStore`, and `ImapUsesStore` likewise), so that what `MailStoreProofs` says of the
database holds under its users. Then

    OutInv   == StoreInv /\ OutTypeOK /\ SessionSteps /\ TrailInv /\ SndInv /\ FlagInv
    TrailInv == IdsAreOld /\ OneRow /\ NewIsNowhere /\ SessionRow /\ QueueForRcpts
                /\ Untouched /\ RowsCovered /\ KeptUnlessRefused /\ SentMeansSettled
    SndInv   == SenderKnows /\ PendingIsWaiting /\ SendingWhatIsQueued
    FlagInv  == DeletedIsCancelled /\ RolledBack

`AcceptedMailIsKept` speaks of mails the client was told 250 for, and so of whole submissions. Inductively
it needs the mails whose session is still running, and there it can only speak of the recipients whose
row is in the queue (`Entered`): nobody else gets the mail (`Untouched`), and each of them is
queued, has the mail, or was taken back by the user, as long as the mail is in Outbox (`RowsCovered`) or
until it is refused (`KeptUnlessRefused`). At 250 all recipients are entered. The sender works from snapshots:
the destinations, the rows of one, the mail. `SenderKnows` and `PendingIsWaiting` say what of them is still
true when they are used: the id it holds is still that of the mail it has read, though the row may be gone.
The move to Sent is where this is needed: it follows a count of zero rows, and between count and move
another row must not appear. In a mail the sender overtook it does appear, and `overtaken` takes that mail out of
`KeptUnlessRefused`, `SentMeansSettled` and the last part of `SenderKnows` from the count on; all else that
is said of its rows and of the sender's snapshots holds for it like for any other. None of these theorems has a bound on the
recipients of a mail.

`RolledBack` is what `RefusedMailIsWithdrawn` needs: a refused mail that is still in Outbox has its rollback
before it, or is marked and about to be expunged, or a second error has come (`faults < 2` fails). A 451 whose
cause was no error leaves nothing to roll back, as the foreign key only refuses a row whose mail is gone.
`SelfCopiesRepeatLate` has an invariant of its own on top of `OutInv`, `SelfInv`. It takes from the invariant of
the fingerprints (`SeenInv` of `MailStoreProofs`) that copies are more than a window apart however the clock
goes, and counts them: a mail that may yet be stored (`StillToCome`) has one copy fewer than
its faults allow, as only a crash or an error leads from the store back to the queue.

Only model-checked: the liveness properties (`AcceptedMailIsDelivered`,
`EveryMailSettles`, `EverySendEnds`, `EverySendReturns`, `ClosedCoreIsReleased`), as ENABLED and
fairness are beyond the prover. Every invariant and every action property that a passing run checks is
the subject of a theorem. The type invariants of the store, of `Delivery` and of `Ymp` and `NoTaskWaitsInCircle`
are left to their theorems (`StoreTypeCorrect`, `DeliveryTypeCorrect`, `YmpTypeCorrect`, `StoppedNodeWindsDown`)
and belong to no run. The proof modules hold no recursion.

## Disagreements

Where the code and what is said of it part, or where it does less than one would think. The first is
kept as a run; the others were met while modelling and shape the exceptions the
properties make.

- Group mail and the sender race (`outbound_group`).
- A group mail whose insert into the queue fails half way is refused with 451 and rolled back, but recipients
  that were queued before may have it by then (`smtp/mod.rs:218`), and get it again when the client repeats it.
- A sender's gate that defers a mail returns from `process_queue`, so that mail to the node itself,
  later in the order of keys, waits for a link too (`peer/sender.rs:142`; `:215` says that it does not
  depend on peers).
- `mail_move` brings a row to Sent with its Outbox id and leaves Sent's counter alone
  (`storage/mails.rs:232`); after an expunge of Sent the id can be handed out again, until the next
  `open` lifts the counter, and if the row is gone by then, the lift does not help.
- EXPUNGE answers with no sequence numbers (`imap/mod.rs:395`), and other sessions are not told of it: what a
  client names by number afterwards may be another mail than it saw. In Sent a mail that is moved there may also
  come before others, as it keeps its Outbox id.
- The gate passes over the news that events were dropped (`peer/sender.rs:200`) and does not look again: when a
  Connected was among them, it may wait to its deadline beside a link that is up.
- A retry that comes later than the window of 600 s is stored twice (`storage/mod.rs:297`, `:302`), a
  peer's as well as the node's own of a mail to itself (`peer/sender.rs:231`).
- A `ClearQueued` or an expunge in Outbox also takes rows of a mail that is being sent.
- YMP ids begin at 0 after a restart (`ymp/mod.rs:150`) while the receiver keeps a buffer up to 600 s:
  segments of two messages can be put together and handed up. `ymp/types.rs:51` calls the id monotonic.
- `ymp/mod.rs:8` says that `send()` waits for cumulative ACKs and `ymp/mod.rs:48` of the vector `acked` "if N is acked,
  0..N are too". The reader counts each segment by itself (`ymp/mod.rs:630`, with the reason), and so
  `acked` may have N and not what comes before. `OkMeansTaken` holds of the code; under the semantics of
  those two comments it does not, and its mutant (`AckedCumulative`) is just that.
- YMP's `send()` accepts messages longer than 512 segments of 65520 bytes, up to 32 MiB
  (`ymp/mod.rs:561`); the receiver drops each of their segments and the call ends with `MaxRetriesExceeded`.
- `set_password` adopts the new hash though the rewrap failed or had nothing to wrap; the next start
  with it cannot open the file, or encrypts it for the first time.
- An error of the database while the identity is read counts as no identity (`.ok()`), and a new one is
  made; `regenerate` ignores an error of its DELETE, and the next start finds the old program's key. Two
  first starts at once each make an identity.
- A row that is moved while a migration runs stays plaintext until the next open.
- A text that is too large is answered 552 while the client writes; the rest of it is read as
  commands, and the replies to them get out of step with the client's verbs.
- The Received header is added after the limit was checked (`smtp/mod.rs:190`, `:443`), and the peer has the same limit
  (`quic/smtp_overlay.rs:14`): a mail
  of the largest size that is accepted is refused by every peer, for ever.
- A line of exactly two dots or more loses one; a single dot followed by text, which RFC 5321 would
  unstuff too, is kept.
- A `start` over a running node drops it without closing its core; a `start` that fails in
  `QuicMailTransport::new` leaves an open core and two pumps behind. `ClosedCoreIsReleased` speaks of stopped ones.
- A second `start_smtp` replaces the handle of the first, which nobody can stop any more; `start_smtp` soon
  after `stop_smtp` may find the port taken, as the abort takes effect later. `NoStrayServer` excuses the first.
- `stop`, `stop_smtp` and `stop_imap` abort the accept loop (`src/crates/yggmail-mobile/src/lib.rs:349`, `:350`, `:523`, `:532`) and
  not the tasks of its clients. A client that is connected goes on with the
  storage of the stopped node as long as it likes: it reads its mail, and what it submits is queued, notifies a
  sender that is gone, and waits for the next start on the same file.
- RSET puts a session in the state after HELO whether it has said HELO or authenticated or not
  (`smtp/mod.rs:130`). The model has it so; `SessionOK` relates states to fields and says nothing of
  authentication.
- The cleanup task of YMP never ends; `lib.rs:342` speaks of all background tasks.
- `update_peers` during a pick may find a wanted peer configured as a probe, not add it, and lose it when
  the probe is released. A second pick clears the cancel of the first, and the winner of the first may be
  released by the second.
- A switch happens at exactly 85 per cent of the current score; the comment says "more than" 15.

## Not modelled

- TLS, QUIC and the mesh itself are libraries; what the code relies on is in the
  environment actions.
- `address.rs` and `config.rs` parse strings and keep no state; that an address parses or not is
  a choice in `MailPath`. `main.rs` wires the rest.
- The split of packets between YMP and QUIC is a test of one bit over unbounded queues; only when the
  pump ends is modelled.
- Flags other than `\Deleted`, subscriptions, IDLE and the live count of a mailbox; contacts, settings and
  the readers of the mobile API, which touch no other component; battery hints.
- Stage A of a pick (probes through the ISP, the catalog) returns any candidates; `remove_peer` is
  assumed not to fail.
- YMP's `close()`, its path-warmer list and the throttle of lookups; the receiver's YMP branch.

## Plan

In order of what it adds:

1. The composition of `Outbound` with `Delivery`, the send of the one refined by the other.
2. The safety halves of the other liveness properties, as `StoppedNodeWindsDown` is of
   `ClosedCoreIsReleased`: that a call of YMP's `send()` and a call of QUIC's always has a step of its own
   left, and that each such step brings it nearer to its end.
3. The receiver's second branch, mail that comes in by YMP, beside the first.
