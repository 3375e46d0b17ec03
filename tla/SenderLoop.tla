------------------------------ MODULE SenderLoop ------------------------------
(***************************************************************************)
(* How the sender task waits (peer/sender.rs): for the next cycle, woken   *)
(* by the Notify that queue_insert fires (storage/mod.rs) or by a timer;   *)
(* within a cycle for a link, in the readiness gate, which subscribes to   *)
(* the events of the mesh; and for the signal to stop at all times it      *)
(* waits at all.  Outbound has what a cycle does to the database and takes *)
(* each of these waits as one step; here a queue row is a destination and  *)
(* a number, and what becomes of a mail is left out.                       *)
(*                                                                         *)
(* The order in which rows are visited decides nothing here and is left    *)
(* open.                                                                   *)
(***************************************************************************)
EXTENDS Naturals, Sequences

CONSTANTS
  Destinations, \* keys that mail is queued for
  LocalKey,     \* core.public_key()
  Numbers,      \* mail numbers
  Links,        \* the peer links of the core
  Depth         \* events the channel of the core keeps for a slow reader

ASSUME SenderLoopAssumption ==
  /\ LocalKey \in Destinations
  /\ Depth \in Nat \ {0}

Rows == [dest : Destinations, id : Numbers]

VARIABLES
  rows,      \* the queue
  inserting, \* rows inserted by a queue_insert that has yet to notify
  permit,    \* queue_notify holds a permit
  task,      \* the sender task
  link,      \* per link: "down", "up" in get_peers(), or "announced" as well
  bus,       \* events the gate's subscription has not read
  lagged,    \* a Connected was dropped from a full bus
  stop,      \* the stop signal was sent
  unseen     \* history: rows no cycle has listed yet

wakeVars == <<rows, inserting, permit, unseen>>
linkVars == <<link, bus, lagged>>
loopVars == <<wakeVars, task, linkVars, stop>>

(* task.pc is "start", "list", "rows" (a destination is next), "mail" (a   *)
(* row of task.pending is), "first", "subscribe", "second", "wait" or      *)
(* "look" in the gate, "send", "sleep" or "over"; dests are the            *)
(* destinations still to come, soon that the interval is the short one.    *)
Task(pc, soon) == [pc |-> pc, dests |-> {}, pending |-> {}, soon |-> soon]

LoopInit ==
  /\ rows \in SUBSET Rows /\ unseen = rows
  /\ inserting = {} /\ permit = FALSE
  /\ task = Task("start", FALSE)
  /\ link = [k \in Links |-> "down"] /\ bus = <<>> /\ lagged = FALSE
  /\ stop = FALSE

HasUpPeer  == \E k \in Links : link[k] # "down"
Subscribed == task.pc \in {"second", "wait", "look"}
Goto(pc)   == task' = [task EXCEPT !.pc = pc]
Of(d)      == {r \in rows : r.dest = d}

-----------------------------------------------------------------------------
(* queue_insert: the row, then the permit, of which there is one at most.  *)
QueueInsert(r) ==
  /\ r \notin rows /\ r \notin inserting
  /\ rows' = rows \cup {r} /\ unseen' = unseen \cup {r}
  /\ inserting' = inserting \cup {r}
  /\ UNCHANGED <<permit, task, linkVars, stop>>

NotifyWaiters(r) ==
  /\ r \in inserting
  /\ inserting' = inserting \ {r}
  /\ permit' = (permit \/ task.pc = "sleep")
  /\ UNCHANGED <<rows, unseen, task, linkVars, stop>>

NotifyOne(r) ==
  /\ r \in inserting
  /\ inserting' = inserting \ {r}
  /\ permit' = TRUE
  /\ UNCHANGED <<rows, unseen, task, linkVars, stop>>

(* A row that is gone: cleared by the user, or with its mail.              *)
Gone(r) == rows' = rows \ {r} /\ unseen' = unseen \ {r}

Removed(r) ==
  /\ r \in rows
  /\ Gone(r)
  /\ UNCHANGED <<inserting, permit, task, linkVars, stop>>

-----------------------------------------------------------------------------
(* spawn: two seconds, then one cycle after the other.                     *)
Started ==
  /\ task.pc = "start" /\ Goto("list")
  /\ UNCHANGED <<wakeVars, linkVars, stop>>

(* process_queue begins with the destinations that have rows.              *)
ListDestinations ==
  /\ task.pc = "list"
  /\ task' = [task EXCEPT !.pc = "rows", !.dests = {r.dest : r \in rows}]
  /\ UNCHANGED <<wakeVars, linkVars, stop>>

NextDestination(d) ==
  /\ task.pc = "rows" /\ d \in task.dests
  /\ task' = [task EXCEPT !.pc = "mail", !.dests = @ \ {d}, !.pending = Of(d)]
  /\ unseen' = unseen \ Of(d)
  /\ UNCHANGED <<rows, inserting, permit, linkVars, stop>>

DestinationDone ==
  /\ task.pc = "mail" /\ task.pending = {} /\ Goto("rows")
  /\ UNCHANGED <<wakeVars, linkVars, stop>>

(* All destinations were visited: the base interval.                       *)
CycleDone ==
  /\ task.pc = "rows" /\ task.dests = {}
  /\ task' = Task("sleep", FALSE)
  /\ UNCHANGED <<wakeVars, linkVars, stop>>

(* A storage call fails, and with it the cycle: the short interval.        *)
CycleFails ==
  /\ task.pc \in {"list", "rows", "mail", "send"}
  /\ task' = Task("sleep", TRUE)
  /\ UNCHANGED <<wakeVars, linkVars, stop>>

(* The next mail of the snapshot: an orphan is dropped, mail to the node   *)
(* itself is stored and dequeued without gate and send.                    *)
DropOrphan(r) ==
  /\ task.pc = "mail" /\ r \in task.pending /\ r \notin rows
  /\ task' = [task EXCEPT !.pending = @ \ {r}]
  /\ UNCHANGED <<wakeVars, linkVars, stop>>

DeliverToSelf(r) ==
  /\ task.pc = "mail" /\ r \in task.pending \cap rows /\ r.dest = LocalKey
  /\ task' = [task EXCEPT !.pending = @ \ {r}]
  /\ Gone(r)
  /\ UNCHANGED <<inserting, permit, linkVars, stop>>

EnterGate(r) ==
  /\ task.pc = "mail" /\ r \in task.pending \cap rows /\ r.dest # LocalKey
  /\ Goto("first")
  /\ UNCHANGED <<wakeVars, linkVars, stop>>

(* quic.send: dequeued if it is Ok, to be tried again otherwise.           *)
Send(r) ==
  /\ task.pc = "send" /\ r \in task.pending
  /\ task' = [task EXCEPT !.pc = "mail", !.pending = @ \ {r}]
  /\ Gone(r) \/ UNCHANGED <<rows, unseen>>
  /\ UNCHANGED <<inserting, permit, linkVars, stop>>

(* The timer, or the permit, which is used up.                             *)
Sleep ==
  /\ task.pc = "sleep"
  /\ Goto("list")
  /\ permit' \in {permit, FALSE}
  /\ UNCHANGED <<rows, inserting, unseen, linkVars, stop>>

-----------------------------------------------------------------------------
(* wait_for_up_peer.  The answer of has_up_peer is of the moment the core  *)
(* looks at its links; what is done with it comes later.                   *)
LeaveGate(pc) == Goto(pc) /\ bus' = <<>> /\ lagged' = FALSE

FirstLook ==
  /\ task.pc = "first"
  /\ Goto(IF HasUpPeer THEN "send" ELSE "subscribe")
  /\ UNCHANGED <<wakeVars, linkVars, stop>>

Subscribe ==
  /\ task.pc = "subscribe" /\ Goto("second")
  /\ UNCHANGED <<wakeVars, linkVars, stop>>

WaitAtOnce ==
  /\ task.pc = "second" /\ Goto("wait")
  /\ UNCHANGED <<wakeVars, linkVars, stop>>

SecondLook ==
  /\ task.pc = "second"
  /\ \/ HasUpPeer /\ LeaveGate("send")
     \/ ~ HasUpPeer /\ Goto("wait") /\ UNCHANGED <<bus, lagged>>
  /\ UNCHANGED <<wakeVars, link, stop>>

(* rx.recv(): after Connected the links are looked at; anything else, also *)
(* the news that events were dropped, is passed over.                      *)
Receive ==
  /\ task.pc = "wait" /\ bus # <<>>
  /\ bus' = Tail(bus)
  /\ Goto(IF Head(bus) = "Connected" THEN "look" ELSE "wait")
  /\ UNCHANGED <<wakeVars, link, lagged, stop>>

LookAgain ==
  /\ task.pc = "look"
  /\ \/ HasUpPeer /\ LeaveGate("send")
     \/ ~ HasUpPeer /\ Goto("wait") /\ UNCHANGED <<bus, lagged>>
  /\ UNCHANGED <<wakeVars, link, stop>>

(* The deadline: the mail is deferred, which ends the cycle with an error. *)
Defer ==
  /\ task.pc = "wait"
  /\ task' = Task("sleep", TRUE)
  /\ bus' = <<>> /\ lagged' = FALSE
  /\ UNCHANGED <<wakeVars, link, stop>>

-----------------------------------------------------------------------------
(* The mesh, external: a link is in get_peers() before it is announced.    *)
(* The core never waits for a reader: a full channel drops its oldest.     *)
Publish(event) ==
  LET full == Len(bus) = Depth IN
  /\ bus' = IF ~ Subscribed THEN bus ELSE Append(IF full THEN Tail(bus) ELSE bus, event)
  /\ lagged' = (lagged \/ (Subscribed /\ full /\ Head(bus) = "Connected"))

LinkComesUp(k) ==
  /\ link[k] = "down"
  /\ link' = [link EXCEPT ![k] = "up"]
  /\ UNCHANGED <<wakeVars, task, bus, lagged, stop>>

LinkAnnounced(k) ==
  /\ link[k] = "up"
  /\ link' = [link EXCEPT ![k] = "announced"]
  /\ Publish("Connected")
  /\ UNCHANGED <<wakeVars, task, stop>>

LinkGoesDown(k) ==
  /\ link[k] = "announced"
  /\ link' = [link EXCEPT ![k] = "down"]
  /\ Publish("Disconnected")
  /\ UNCHANGED <<wakeVars, task, stop>>

(* stop.recv() is looked at whenever the task waits or begins a cycle; what *)
(* it was in is dropped.                                                   *)
SendStop ==
  /\ ~ stop /\ stop' = TRUE
  /\ UNCHANGED <<wakeVars, task, linkVars>>

HearStop ==
  /\ stop /\ task.pc \in {"list", "first", "second", "wait", "look", "send", "sleep"}
  /\ task' = Task("over", FALSE)
  /\ bus' = <<>> /\ lagged' = FALSE
  /\ UNCHANGED <<wakeVars, link, stop>>

Cycle ==
  \/ Started \/ ListDestinations \/ DestinationDone \/ CycleDone \/ CycleFails \/ Sleep
  \/ \E d \in Destinations : NextDestination(d)
  \/ \E r \in Rows : DropOrphan(r) \/ DeliverToSelf(r) \/ EnterGate(r) \/ Send(r)

Gate == FirstLook \/ Subscribe \/ SecondLook \/ Receive \/ LookAgain \/ Defer

Mesh == \E k \in Links : LinkComesUp(k) \/ LinkAnnounced(k) \/ LinkGoesDown(k)

LoopNext ==
  \/ Cycle \/ Gate \/ Mesh \/ SendStop \/ HearStop
  \/ \E r \in Rows : QueueInsert(r) \/ NotifyOne(r) \/ Removed(r)

LoopSpec == LoopInit /\ [][LoopNext]_loopVars

-----------------------------------------------------------------------------
(* No wake is lost: when the task sleeps for the base interval, every row  *)
(* that no cycle has listed has left a permit, or its queue_insert is just *)
(* about to ("Notify stores a permit if the enqueue happened while we were *)
(* mid-process, so no wake is lost", sender.rs:71).  After a cycle that    *)
(* failed, the interval is the short one.                                  *)
NoWakeIsLost ==
  task.pc = "sleep" /\ ~ task.soon => permit \/ unseen \subseteq inserting

(* No link is missed: while the gate waits and a link is up, the news of   *)
(* one is on the way, unless more events came than the channel keeps       *)
(* ("close the TOCTOU window: a Connected event may have fired between the *)
(* check above and subscribe()", sender.rs:189).                           *)
NoLinkIsMissed ==
  task.pc = "wait" /\ ~ lagged /\ HasUpPeer =>
    \/ \E k \in Links : link[k] = "up"
    \/ \E i \in 1 .. Len(bus) : bus[i] = "Connected"
=============================================================================
