-------------------------------- MODULE Node --------------------------------
(***************************************************************************)
(* The life of a node in the mobile library (yggmail-mobile/src/lib.rs):   *)
(* start builds the mesh core and the tasks that work for it, stop takes   *)
(* them down, servers come and go in between, and the app may call any of  *)
(* it from any thread.  Each successful or failed start is a generation    *)
(* with its own core and its own tasks; the tasks end when what they wait  *)
(* for ends: the demultiplexer's pump (core_conn.rs), both pumps of the    *)
(* socket adapter (quic/udp_adapter.rs), quinn's driver, the accept loop   *)
(* (quic/transport.rs), the reader of YMP (ymp/mod.rs), receiver, sender   *)
(* and path-warmer.                                                        *)
(*                                                                         *)
(* The references between them are modelled by who holds what, so that a   *)
(* task that ends gives up its share.  The SMTP and the IMAP server start  *)
(* and stop alike and are one server here; so are the sender and the path- *)
(* warmer, which hold the same things and end for the same reason.  A      *)
(* server spawns a task for each client it lets in; these sessions hold    *)
(* the storage, not the core, and nobody keeps a handle of them.  The      *)
(* cleanup task of YMP, which holds nothing of these, and pick_peers, which *)
(* holds the core until the pick ends by its own deadlines, are left out.  *)
(***************************************************************************)
EXTENDS Integers, FiniteSets

CONSTANTS
  MaxStarts,   \* bound: calls of start
  MaxServers,  \* bound: calls of start_smtp
  MaxSessions  \* bound: servers that have clients at one time

ASSUME NodeAssumption ==
  MaxStarts \in Nat /\ MaxServers \in Nat /\ MaxSessions \in Nat

Gens    == 1 .. MaxStarts
Servers == 1 .. MaxServers
None    == 0

VARIABLES
  life,    \* per generation: how far its start or its node has come
  core,    \* per generation: the Core
  tasks,   \* per generation: its tasks that run
  node,    \* state: the installed generation
  server,  \* per call of start_smtp: the spawned serve task
  sessions,\* the servers that have a client's session
  handle,  \* state: smtp_handle of the installed node, the server it can abort
  again    \* history: something was started over a running one

vars == <<life, core, tasks, node, server, sessions, handle, again>>

Lives      == {"none", "started", "ready", "installed", "ended"}
Tasks      == {"pump", "ympReader", "sendPump", "recvPump", "driver", "accept",
               "inbound", "receiver", "sender"}
CoreTasks  == Tasks \ {"driver", "accept", "inbound"}
LoopTasks  == {"receiver", "sender"}

Runs(g, t) == t \in tasks[g]

(* Who keeps the parts of a generation alive: the transport is in NodeState*)
(* and in the loops; the socket in quinn, which endpoint and connections   *)
(* keep; the two views of the demultiplexer in their readers and writers.  *)
NodeHeld(g)      == life[g] \in {"ready", "installed"}
TransportHeld(g) == NodeHeld(g) \/ LoopTasks \cap tasks[g] # {}
EndpointHeld(g)  == TransportHeld(g) \/ Runs(g, "accept") \/ Runs(g, "inbound")
SocketHeld(g)    == EndpointHeld(g) \/ Runs(g, "driver")
QuicViewHeld(g)  == Runs(g, "sendPump") \/ Runs(g, "recvPump")
YmpViewHeld(g)   == Runs(g, "ympReader") \/ NodeHeld(g) \/ Runs(g, "receiver")
                    \/ life[g] = "started"

(* stop() was called on it, or its NodeState and with it stop_tx dropped.  *)
Told(g) == life[g] = "ended"

CoreHolders(g) == CoreTasks \cap tasks[g]

Init ==
  /\ life = [g \in Gens |-> "none"]
  /\ core = [g \in Gens |-> "none"]
  /\ tasks = [g \in Gens |-> {}]
  /\ node = None
  /\ server = [s \in Servers |-> "none"]
  /\ sessions = {}
  /\ handle = None
  /\ again = FALSE

serverVars == <<server, sessions, handle>>

-----------------------------------------------------------------------------
(* start, which takes the lock of the state only to install the node, so   *)
(* that calls overlap.  Core, demux and YmpSession::new.                   *)
Start(g) ==
  /\ life[g] = "none" /\ \A f \in 1 .. g - 1 : life[f] # "none"
  /\ life' = [life EXCEPT ![g] = "started"]
  /\ core' = [core EXCEPT ![g] = "open"]
  /\ tasks' = [tasks EXCEPT ![g] = {"pump", "ympReader"}]
  /\ UNCHANGED <<node, serverVars, again>>

(* QuicMailTransport::new: the socket with its pumps, the endpoint with    *)
(* quinn's driver, the accept loop.                                        *)
MakeTransport(g) ==
  /\ life[g] = "started"
  /\ life' = [life EXCEPT ![g] = "ready"]
  /\ tasks' = [tasks EXCEPT ![g] = @ \cup {"sendPump", "recvPump", "driver", "accept"}]
  /\ UNCHANGED <<core, node, serverVars, again>>

(* It fails after the pumps were spawned; start returns, nobody closes the *)
(* core.                                                                   *)
TransportFails(g) ==
  /\ life[g] = "started"
  /\ life' = [life EXCEPT ![g] = "ended"]
  /\ tasks' = [tasks EXCEPT ![g] = @ \cup {"sendPump", "recvPump"}]
  /\ UNCHANGED <<core, node, serverVars, again>>

(* The loops are spawned and the state replaced.  A node that was there is *)
(* dropped: its loops learn it from stop_tx, its core stays open and its   *)
(* server is not aborted.                                                  *)
InstallBeside(g) ==
  /\ life[g] = "ready"
  /\ life' = [life EXCEPT ![g] = "installed"]
  /\ tasks' = [tasks EXCEPT ![g] = @ \cup LoopTasks]
  /\ node' = g /\ handle' = None
  /\ again' = (again \/ node # None)
  /\ UNCHANGED <<core, server, sessions>>

Install(g) ==
  /\ life[g] = "ready"
  /\ life' = [f \in Gens |-> IF f = g THEN "installed"
                             ELSE IF f = node THEN "ended" ELSE life[f]]
  /\ tasks' = [tasks EXCEPT ![g] = @ \cup LoopTasks]
  /\ node' = g /\ handle' = None
  /\ again' = (again \/ node # None)
  /\ UNCHANGED <<core, server, sessions>>

(* AbortHandle::abort, of the accept loop alone: it goes at its next await *)
(* and until then its port may be taken; the sessions it spawned go on.    *)
Live == {"binding", "listening"}
AbortedNone == server

Aborted ==
  [s \in Servers |-> IF s = handle /\ server[s] \in Live THEN "leaving" ELSE server[s]]

(* stop: abort, signal, close the core, drop the state.                    *)
Stop ==
  /\ node # None
  /\ server' = Aborted /\ handle' = None
  /\ core' = [core EXCEPT ![node] = "closed"]
  /\ life' = [life EXCEPT ![node] = "ended"]
  /\ node' = None
  /\ UNCHANGED <<tasks, sessions, again>>

-----------------------------------------------------------------------------
(* start_smtp and start_imap: spawn serve and keep its handle, in place of *)
(* one that may be there.                                                  *)
StartServer(s) ==
  /\ node # None
  /\ server[s] = "none" /\ \A r \in 1 .. s - 1 : server[r] # "none"
  /\ server' = [server EXCEPT ![s] = "binding"]
  /\ handle' = s
  /\ again' = (again \/ \E r \in Servers : r = handle /\ server[r] \in Live)
  /\ UNCHANGED <<life, core, tasks, node, sessions>>

(* serve: the port is free, or the task ends with a line in the log.       *)
Bind(s) ==
  /\ server[s] = "binding"
  /\ server' = [server EXCEPT ![s] =
                  IF \E r \in Servers : server[r] = "listening" THEN "over" ELSE "listening"]
  /\ UNCHANGED <<life, core, tasks, node, sessions, handle, again>>

(* A task on its way out that still has the port: the bind fails.          *)
BindFails(s) ==
  /\ server[s] = "binding" /\ \E r \in Servers : server[r] = "leaving"
  /\ server' = [server EXCEPT ![s] = "over"]
  /\ UNCHANGED <<life, core, tasks, node, sessions, handle, again>>

StopServer ==
  /\ node # None /\ handle # None
  /\ server' = Aborted /\ handle' = None
  /\ UNCHANGED <<life, core, tasks, node, sessions, again>>

(* The runtime drops an aborted task, and with it the port.                *)
ServerEnds(s) ==
  /\ server[s] = "leaving"
  /\ server' = [server EXCEPT ![s] = "over"]
  /\ UNCHANGED <<life, core, tasks, node, sessions, handle, again>>

(* accept: a session of its own task, with the storage of the node that    *)
(* started the server.  A loop that is told to end in the middle of a poll *)
(* may let in one more.                                                    *)
SessionBegins(s) ==
  /\ server[s] \in {"listening", "leaving"}
  /\ s \notin sessions /\ Cardinality(sessions) < MaxSessions
  /\ sessions' = sessions \cup {s}
  /\ UNCHANGED <<life, core, tasks, node, server, handle, again>>

(* Its client leaves, at a time of its own, with QUIT or without.          *)
SessionEnds(s) ==
  /\ s \in sessions
  /\ sessions' = sessions \ {s}
  /\ UNCHANGED <<life, core, tasks, node, server, handle, again>>

-----------------------------------------------------------------------------
(* A peer's connection: a task waits for its streams.  The handshake may   *)
(* have ended before the core was closed.                                  *)
InboundBegins(g) ==
  /\ Runs(g, "accept") /\ TransportHeld(g)
  /\ tasks' = [tasks EXCEPT ![g] = @ \cup {"inbound"}]
  /\ UNCHANGED <<life, core, node, serverVars, again>>

(* The peer closes its last connection, at a time of its own.              *)
InboundCloses(g) ==
  /\ Runs(g, "inbound")
  /\ tasks' = [tasks EXCEPT ![g] = @ \ {"inbound"}]
  /\ UNCHANGED <<life, core, node, serverVars, again>>

-----------------------------------------------------------------------------
(* When each task ends.  The pump of the demultiplexer: the core is closed,*)
(* or both of its consumers are gone.                                      *)
PumpEndsUnused(g) == ~(YmpViewHeld(g) \/ QuicViewHeld(g))

PumpEnds(g) == core[g] = "closed" \/ ~(YmpViewHeld(g) \/ QuicViewHeld(g))

(* reader_loop: its view has an error once the pump is gone.               *)
ReaderEnds(g) == ~Runs(g, "pump")

(* The socket's pumps: recv_tx.closed() or an error of read_from, and the  *)
(* end of the channel the socket writes to.                                *)
RecvPumpEnds(g) == ~Runs(g, "pump") \/ ~SocketHeld(g)
SendPumpEnds(g) == ~SocketHeld(g)

(* quinn's driver: poll_recv fails once the pump is gone.                  *)
DriverEnds(g) == ~Runs(g, "recvPump") \/ ~EndpointHeld(g)

(* accept() says None, or the receiver of recv_tx is gone with the         *)
(* transport; a connection fails when the driver is gone.                  *)
AcceptEnds(g)  == ~Runs(g, "driver") \/ ~TransportHeld(g)
InboundEnds(g) == ~Runs(g, "driver")

(* The loops of start: the receiver of stop_tx has a message or an error.  *)
LoopEnds(g) == Told(g)

Ended(g, t) ==
  \/ t = "pump"      /\ PumpEnds(g)
  \/ t = "ympReader" /\ ReaderEnds(g)
  \/ t = "recvPump"  /\ RecvPumpEnds(g)
  \/ t = "sendPump"  /\ SendPumpEnds(g)
  \/ t = "driver"    /\ DriverEnds(g)
  \/ t = "accept"    /\ AcceptEnds(g)
  \/ t = "inbound"   /\ InboundEnds(g)
  \/ t \in LoopTasks /\ LoopEnds(g)

TaskEnds(g, t) ==
  /\ Runs(g, t) /\ Ended(g, t)
  /\ tasks' = [tasks EXCEPT ![g] = @ \ {t}]
  /\ UNCHANGED <<life, core, node, serverVars, again>>

Next ==
  \/ \E g \in Gens :
       \/ Start(g) \/ MakeTransport(g) \/ TransportFails(g) \/ Install(g)
       \/ InboundBegins(g) \/ InboundCloses(g)
       \/ \E t \in Tasks : TaskEnds(g, t)
  \/ Stop \/ StopServer
  \/ \E s \in Servers :
       \/ StartServer(s) \/ Bind(s) \/ BindFails(s) \/ ServerEnds(s)
       \/ SessionBegins(s) \/ SessionEnds(s)

(* The runtime polls every task that can go on; the app need call nothing. *)
Fairness == \A g \in Gens, t \in Tasks : WF_vars(TaskEnds(g, t))

Spec == Init /\ [][Next]_vars /\ Fairness

-----------------------------------------------------------------------------
(* Type and shape: one node is installed and only its core may be closed   *)
(* by stop; a generation that has loops has the rest; the transport's      *)
(* tasks of an installed node run as long as its core is open, so that a   *)
(* running node never goes deaf by itself.                                 *)
NodeOK ==
  /\ life \in [Gens -> Lives]
  /\ core \in [Gens -> {"none", "open", "closed"}]
  /\ tasks \in [Gens -> SUBSET Tasks]
  /\ node \in Gens \cup {None}
  /\ server \in [Servers -> {"none", "binding", "listening", "leaving", "over"}]
  /\ sessions \subseteq Servers
  /\ handle \in Servers \cup {None} /\ (node = None => handle = None)
  /\ again \in BOOLEAN
  /\ \A g \in Gens :
       /\ (life[g] = "installed") = (node = g)
       /\ (life[g] = "none") = (core[g] = "none")
       /\ core[g] = "closed" => life[g] = "ended"
       /\ life[g] = "installed" =>
            {"pump", "ympReader", "sendPump", "recvPump", "driver", "accept"}
              \cup LoopTasks \subseteq tasks[g]

(* After stop() nothing keeps the stopped core for ever: all tasks that    *)
(* hold it end by themselves, through the chain from the closed core to    *)
(* the dropped socket (stop: "without this they park forever holding       *)
(* Arc<Core> [...] stacking a second Core on top of the first").           *)
ClosedCoreIsReleased ==
  \A g \in Gens : core[g] = "closed" ~> CoreHolders(g) = {}

(* No circle of tasks that wait for each other is left of a stopped node:  *)
(* as long as any of its tasks runs, one of them can end by itself, though *)
(* each is kept by what others hold ("making it strong would make the      *)
(* transport unkillable", quic/transport.rs:156, of the accept loop).      *)
NoTaskWaitsInCircle ==
  \A g \in Gens : core[g] = "closed" /\ tasks[g] # {} => \E t \in tasks[g] : Ended(g, t)

(* A client is let in only by the server of the installed node, which can  *)
(* stop it, or by one that is on its way out, unless a server or a node    *)
(* was started over a running one.  So stop() and stop_smtp() take in      *)
(* nobody new; the sessions they find open go on with the storage of the   *)
(* stopped node until their clients leave.                                 *)
NoStrayServer ==
  [][\A s \in Servers : SessionBegins(s) =>
        again \/ server[s] = "leaving" \/ (node # None /\ handle = s)]_vars
=============================================================================
