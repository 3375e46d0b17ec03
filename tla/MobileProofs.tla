---------------------------- MODULE MobileProofs ----------------------------
(***************************************************************************)
(* Proofs about the mobile library: the life of a node (Node), for any     *)
(* number of starts and servers, and the peer picker (Picker), for any     *)
(* number of peers, of picks at the same time and of updates among them.   *)
(* The two modules share nothing.                                          *)
(***************************************************************************)
EXTENDS Node, Picker, FiniteSetTheorems, WellFoundedInduction, TLAPS

-----------------------------------------------------------------------------
(* The life of a node: an installed node keeps all its tasks until it is   *)
(* stopped, and a server that listens can be stopped.                      *)

(* What a generation has on its way to being installed: the view of YMP    *)
(* and later the transport are held by the start that made them.           *)
StartingHasTasks ==
  \A g \in Gens :
    /\ life[g] = "started" => {"pump", "ympReader"} \subseteq tasks[g]
    /\ life[g] = "ready" =>
         {"pump", "ympReader", "sendPump", "recvPump", "driver", "accept"} \subseteq tasks[g]

NodeInv == NodeOK /\ StartingHasTasks

(* A server that listens, or is about to, is the one the node can stop.    *)
LiveIsOurs ==
  ~again => \A s \in Servers : server[s] \in Live => node # None /\ handle = s

-----------------------------------------------------------------------------
LEMMA NodeInit == Init => NodeInv /\ LiveIsOurs
<1> SUFFICES ASSUME Init PROVE NodeInv /\ LiveIsOurs
  OBVIOUS
<1> USE NodeAssumption DEF Init
<1>1. again \in BOOLEAN /\ tasks \in [Gens -> SUBSET Tasks]
  BY Zenon
<1>2. life \in [Gens -> Lives] /\ core \in [Gens -> {"none", "open", "closed"}]
  BY DEF Lives
<1>3. server \in [Servers -> {"none", "binding", "listening", "leaving", "over"}]
  OBVIOUS
<1>4. \A g \in Gens : g # node /\ life[g] = "none" /\ core[g] = "none"
  BY DEF Gens, None
<1>5. NodeOK
  BY <1>1, <1>2, <1>3, <1>4 DEF NodeOK
<1>6. StartingHasTasks
  BY <1>4 DEF StartingHasTasks
<1>7. LiveIsOurs
  BY DEF LiveIsOurs, Live
<1> QED BY <1>5, <1>6, <1>7 DEF NodeInv

(* No task of a generation whose core is open ends while its start, or the *)
(* node, holds what it waits for.                                          *)
LEMMA HeldTasksRun ==
  ASSUME NodeInv, NEW g \in Gens, NEW t \in Tasks, Ended(g, t), Runs(g, t)
  PROVE  /\ life[g] \in {"ready", "installed"} => t = "inbound"
         /\ life[g] = "started" => t \notin {"pump", "ympReader"}
<1> USE DEF NodeInv, NodeOK, StartingHasTasks, Runs
<1>1. CASE life[g] \in {"ready", "installed"}
  <2>1. NodeHeld(g) /\ core[g] # "closed" /\ ~ Told(g)
    BY <1>1 DEF NodeHeld, Told
  <2>2. {"pump", "recvPump", "driver"} \subseteq tasks[g]
    BY <1>1
  <2>3. /\ ~ PumpEnds(g) /\ ~ ReaderEnds(g) /\ ~ RecvPumpEnds(g) /\ ~ SendPumpEnds(g)
        /\ ~ DriverEnds(g) /\ ~ AcceptEnds(g) /\ ~ LoopEnds(g)
    BY <2>1, <2>2 DEF PumpEnds, ReaderEnds, RecvPumpEnds, SendPumpEnds, DriverEnds,
       AcceptEnds, LoopEnds, TransportHeld, EndpointHeld, SocketHeld, YmpViewHeld
  <2> QED BY <1>1, <2>3 DEF Ended
<1>2. CASE life[g] = "started"
  <2>1. ~ PumpEnds(g) /\ ~ ReaderEnds(g)
    BY <1>2 DEF PumpEnds, ReaderEnds, YmpViewHeld
  <2> QED BY <1>2, <2>1 DEF Ended, LoopTasks
<1> QED BY <1>1, <1>2

LEMMA NodeStep ==
  ASSUME NodeInv, LiveIsOurs, [Next]_vars
  PROVE  NodeInv' /\ LiveIsOurs'
<1> USE NodeAssumption
<1> USE DEF NodeInv, NodeOK, StartingHasTasks, LiveIsOurs, Gens, Servers, None, Lives,
            serverVars, Runs, Live
<1>1. ASSUME NEW g \in Gens, Start(g)
      PROVE  NodeInv' /\ LiveIsOurs'
  BY <1>1 DEF Start, Tasks, LoopTasks
<1>2. ASSUME NEW g \in Gens, MakeTransport(g)
      PROVE  NodeInv' /\ LiveIsOurs'
  BY <1>2 DEF MakeTransport, Tasks, LoopTasks
<1>3. ASSUME NEW g \in Gens, TransportFails(g)
      PROVE  NodeInv' /\ LiveIsOurs'
  BY <1>3 DEF TransportFails, Tasks, LoopTasks
<1>4. ASSUME NEW g \in Gens, Install(g)
      PROVE  NodeInv' /\ LiveIsOurs'
  <2>1. \A f \in Gens : life'[f] = IF f = g THEN "installed" ELSE IF f = node THEN "ended" ELSE life[f]
    BY <1>4 DEF Install
  <2>2. \A f \in Gens : tasks'[f] = IF f = g THEN tasks[f] \cup LoopTasks ELSE tasks[f]
    BY <1>4 DEF Install
  <2>3. /\ life' \in [Gens -> Lives] /\ tasks' \in [Gens -> SUBSET Tasks]
        /\ UNCHANGED <<core, server, sessions>> /\ node' = g /\ handle' = None
    BY <1>4 DEF Install, LoopTasks, Tasks
  <2>4. again' \in BOOLEAN
    BY <1>4, Zenon DEF Install
  <2>5. NodeOK'
    BY <1>4, <2>1, <2>2, <2>3, <2>4 DEF Install
  <2>6. StartingHasTasks'
    <3> SUFFICES ASSUME NEW f \in Gens
                 PROVE  /\ life'[f] = "started" => {"pump", "ympReader"} \subseteq tasks'[f]
                        /\ life'[f] = "ready" =>
                             {"pump", "ympReader", "sendPump", "recvPump", "driver", "accept"}
                               \subseteq tasks'[f]
      BY DEF StartingHasTasks
    <3> QED BY <2>1, <2>2, <2>3
  <2>7. LiveIsOurs'
    BY <1>4 DEF Install
  <2> QED BY <2>5, <2>6, <2>7
<1>5. ASSUME NEW g \in Gens, InboundBegins(g)
      PROVE  NodeInv' /\ LiveIsOurs'
  BY <1>5 DEF InboundBegins, Tasks, LoopTasks
<1>6. ASSUME NEW g \in Gens, InboundCloses(g)
      PROVE  NodeInv' /\ LiveIsOurs'
  BY <1>6 DEF InboundCloses, Tasks, LoopTasks
<1>7. ASSUME NEW g \in Gens, NEW t \in Tasks, TaskEnds(g, t)
      PROVE  NodeInv' /\ LiveIsOurs'
  <2>1. /\ life[g] \in {"ready", "installed"} => t = "inbound"
        /\ life[g] = "started" => t \notin {"pump", "ympReader"}
    BY <1>7, HeldTasksRun DEF TaskEnds
  <2>2. NodeInv'
    BY <1>7, <2>1 DEF TaskEnds, Tasks, LoopTasks
  <2>3. UNCHANGED <<again, server, node, handle>>
    BY <1>7, Zenon DEF TaskEnds
  <2>4. LiveIsOurs'
    BY <2>3
  <2> QED BY <2>2, <2>4
<1>8. CASE Stop
  BY <1>8 DEF Stop, Aborted
<1>9. CASE StopServer
  BY <1>9 DEF StopServer, Aborted
<1>10. ASSUME NEW s \in Servers, StartServer(s)
       PROVE  NodeInv' /\ LiveIsOurs'
  <2>1. NodeInv'
    BY <1>10 DEF StartServer
  <2>2. LiveIsOurs'
    BY <1>10 DEF StartServer
  <2> QED BY <2>1, <2>2
<1>11. ASSUME NEW s \in Servers, Bind(s)
       PROVE  NodeInv' /\ LiveIsOurs'
  BY <1>11 DEF Bind
<1>12. ASSUME NEW s \in Servers, BindFails(s)
       PROVE  NodeInv' /\ LiveIsOurs'
  BY <1>12 DEF BindFails
<1>13. ASSUME NEW s \in Servers, ServerEnds(s)
       PROVE  NodeInv' /\ LiveIsOurs'
  BY <1>13 DEF ServerEnds
<1>14. ASSUME NEW s \in Servers, SessionBegins(s) \/ SessionEnds(s)
       PROVE  NodeInv' /\ LiveIsOurs'
  <2>1. sessions' \subseteq Servers /\ UNCHANGED <<life, core, tasks, node, server, handle, again>>
    BY <1>14 DEF SessionBegins, SessionEnds
  <2> QED BY <2>1
<1>15. CASE UNCHANGED vars
  BY <1>15 DEF vars
<1> QED BY <1>1, <1>2, <1>3, <1>4, <1>5, <1>6, <1>7, <1>8, <1>9, <1>10, <1>11, <1>12,
           <1>13, <1>14, <1>15 DEF Next

-----------------------------------------------------------------------------
THEOREM NodeInvariant == Spec => [](NodeInv /\ LiveIsOurs)
<1>1. Init => NodeInv /\ LiveIsOurs
  BY NodeInit
<1>2. NodeInv /\ LiveIsOurs /\ [Next]_vars => (NodeInv /\ LiveIsOurs)'
  BY NodeStep
<1> QED BY <1>1, <1>2, PTL DEF Spec

(* A node that is installed has all its tasks, and only a stopped one its  *)
(* core closed (start, stop, and the ends of the tasks).                   *)
THEOREM RunningNodeKeepsTasks == Spec => []NodeOK
<1>1. NodeInv => NodeOK
  BY DEF NodeInv
<1> QED BY NodeInvariant, <1>1, PTL

(* A client is let in only by a server that its node can stop, or that is  *)
(* on its way out, unless something was started over a running one         *)
(* (start_smtp, start_imap, stop_smtp, stop_imap, stop).                   *)
THEOREM ServersCanBeStopped == Spec => NoStrayServer
<1>1. LiveIsOurs /\ [Next]_vars =>
        [\A s \in Servers : SessionBegins(s) =>
            again \/ server[s] = "leaving" \/ (node # None /\ handle = s)]_vars
  BY DEF LiveIsOurs, SessionBegins, Live
<1> QED BY NodeInvariant, <1>1, PTL DEF Spec, NoStrayServer

(* What is left of liveness once the runtime polls what can end: a task of *)
(* a stopped node always can, and none comes back.  Only connections still *)
(* begin, until the accept loop has ended, and stop() is final.            *)
ClosedStaysClosed ==
  \A g \in Gens : core[g] = "closed" =>
    /\ core'[g] = "closed"
    /\ tasks'[g] \ {"inbound"} \subseteq tasks[g]
    /\ ~ Runs(g, "accept") => tasks'[g] \subseteq tasks[g]

LEMMA NoCircle == NodeInv => NoTaskWaitsInCircle
<1> SUFFICES ASSUME NodeInv, NEW g \in Gens, core[g] = "closed", tasks[g] # {}
             PROVE  \E t \in tasks[g] : Ended(g, t)
  BY DEF NoTaskWaitsInCircle
<1>1. life[g] = "ended" /\ tasks[g] \subseteq Tasks
  BY DEF NodeInv, NodeOK
<1>2. CASE LoopTasks \cap tasks[g] # {}
  BY <1>1, <1>2 DEF Ended, LoopEnds, Told
<1>3. CASE "pump" \in tasks[g]
  BY <1>3 DEF Ended, PumpEnds
<1>4. CASE "pump" \notin tasks[g] /\ {"ympReader", "recvPump"} \cap tasks[g] # {}
  BY <1>4 DEF Ended, ReaderEnds, RecvPumpEnds, Runs
<1>5. CASE "recvPump" \notin tasks[g] /\ "driver" \in tasks[g]
  BY <1>5 DEF Ended, DriverEnds, Runs
<1>6. CASE "driver" \notin tasks[g] /\ {"accept", "inbound"} \cap tasks[g] # {}
  BY <1>6 DEF Ended, AcceptEnds, InboundEnds, Runs
<1>7. CASE tasks[g] = {"sendPump"}
  <2>1. ~ SocketHeld(g)
    BY <1>1, <1>7 DEF SocketHeld, EndpointHeld, TransportHeld, NodeHeld, LoopTasks, Runs
  <2> QED BY <1>7, <2>1 DEF Ended, SendPumpEnds
<1> QED BY <1>1, <1>2, <1>3, <1>4, <1>5, <1>6, <1>7 DEF Tasks, LoopTasks

LEMMA ClosedStepsDown ==
  ASSUME NodeInv, [Next]_vars
  PROVE  ClosedStaysClosed
<1> USE NodeAssumption DEF NodeInv, NodeOK, ClosedStaysClosed, Gens
<1>1. ASSUME NEW g \in Gens, Start(g) \/ MakeTransport(g) \/ TransportFails(g)
      PROVE  ClosedStaysClosed
  BY <1>1 DEF Start, MakeTransport, TransportFails
<1>2. ASSUME NEW g \in Gens, Install(g)
      PROVE  ClosedStaysClosed
  BY <1>2 DEF Install
<1>3. ASSUME NEW g \in Gens, InboundBegins(g) \/ InboundCloses(g)
      PROVE  ClosedStaysClosed
  BY <1>3 DEF InboundBegins, InboundCloses
<1>4. ASSUME NEW g \in Gens, NEW t \in Tasks, TaskEnds(g, t)
      PROVE  ClosedStaysClosed
  BY <1>4 DEF TaskEnds
<1>5. CASE Stop
  BY <1>5 DEF Stop, None
<1>6. CASE UNCHANGED <<core, tasks>>
  BY <1>6
<1> QED BY <1>1, <1>2, <1>3, <1>4, <1>5, <1>6
        DEF Next, StopServer, StartServer, Bind, BindFails, ServerEnds, SessionBegins,
            SessionEnds, vars

(* After stop() the tasks of the node end one after the other and nothing  *)
(* holds the next one up: each step either ends a task or leaves one that  *)
(* can end.  With a runtime that polls it, the closed core is released     *)
(* (start, stop, the loops, the pumps and the accept loop).                *)
THEOREM StoppedNodeWindsDown == Spec => []NoTaskWaitsInCircle /\ [][ClosedStaysClosed]_vars
<1>1. NodeInv /\ [Next]_vars => [ClosedStaysClosed]_vars
  BY ClosedStepsDown
<1> QED BY NodeInvariant, NoCircle, <1>1, PTL DEF Spec

-----------------------------------------------------------------------------
(* The peer picker: who is responsible for a configured peer, why a pick   *)
(* takes none away from the app, and why picks do not go back and forth.   *)

PickType ==
  [pc : {"idle", "provider", "adding", "releasing"}, enabled : SUBSET Peers,
   top : SUBSET Peers, todo : SUBSET Peers, winner : Peers \cup {NoPeer}]

PickerTypes ==
  /\ configured \subseteq Peers /\ wanted \subseteq Peers /\ winners \subseteq Peers
  /\ pick \in [Picks -> PickType]
  /\ update \in [pc : {"idle", "adding", "removing"}, current : SUBSET Peers,
                 todo : SUBSET Peers]

(* What a pick still has to judge or release is among its probes.          *)
TodoIsProbed ==
  \A p \in Picks : pick[p].pc \in {"adding", "releasing"} => pick[p].todo \subseteq pick[p].top

(* The peers a pick answers for: all its probes until it has judged, then  *)
(* those it has yet to release, and its winner.                            *)
Held(p) ==
  {k \in Peers :
     \/ pick[p].pc = "adding" /\ k \in pick[p].top
     \/ pick[p].pc = "releasing" /\ k \in pick[p].todo \cup {pick[p].winner}}

(* Those update_peers has yet to compare, or to remove.                    *)
Doubtful ==
  {k \in Peers :
     \/ update.pc = "adding" /\ k \in update.current
     \/ update.pc = "removing" /\ k \in update.todo}

(* Somebody answers for every configured peer.                             *)
Accounted ==
  \A k \in configured : k \in wanted \cup winners \cup Doubtful \/ \E p \in Picks : k \in Held(p)

UpdateKeepsWanted ==
  /\ update.pc = "adding" => update.todo \subseteq wanted
  /\ update.pc = "removing" => update.todo \cap wanted = {}

(* A pick that no update_peers has met probes no peer the app wants.       *)
ProbesAreForeign ==
  ~mixed => \A p \in Picks :
    /\ pick[p].pc = "provider" => pick[p].enabled = wanted
    /\ pick[p].pc \in {"adding", "releasing"} => pick[p].top \cap wanted = {}

PickerInv == PickerTypes /\ TodoIsProbed /\ Accounted /\ UpdateKeepsWanted /\ ProbesAreForeign

-----------------------------------------------------------------------------
(* What a pick switches to is one of its probes.                           *)
LEMMA VerdictIsProbe ==
  ASSUME NEW m, NEW probed, NEW enabled, NEW top,
         NEW w \in Verdicts(m, probed, enabled, top)
  PROVE  w \in top \cup {NoPeer}
BY DEF Verdicts

(* A step that changes one pick and adds at most probes it answers for.    *)
LEMMA OnePickMoves ==
  ASSUME PickerInv, NEW p \in Picks, NEW r \in PickType,
         pick' = [pick EXCEPT ![p] = r],
         UNCHANGED <<wanted, update, mixed>>,
         winners \subseteq winners', winners' \subseteq Peers, configured' \subseteq Peers,
         r.pc \in {"adding", "releasing"} => r.todo \subseteq r.top,
         ~mixed /\ r.pc = "provider" => r.enabled = wanted,
         ~mixed /\ r.pc \in {"adding", "releasing"} => r.top \cap wanted = {},
         \A k \in configured' :
           \/ k \in configured /\ k \notin Held(p)
           \/ k \in winners' \cup wanted \cup Doubtful
           \/ r.pc = "adding" /\ k \in r.top
           \/ r.pc = "releasing" /\ k \in r.todo \cup {r.winner}
  PROVE  PickerInv'
<1> USE DEF PickerInv
<1>1. \A q \in Picks : pick'[q] = IF q = p THEN r ELSE pick[q]
  BY DEF PickerTypes
<1>2. PickerTypes'
  BY DEF PickerTypes
<1>3. TodoIsProbed'
  BY <1>1 DEF TodoIsProbed
<1>4. Accounted'
  <2> SUFFICES ASSUME NEW k \in configured',
                      k \notin winners' \cup wanted \cup Doubtful
               PROVE  \E q \in Picks : k \in Held(q)'
    BY DEF Accounted, Doubtful
  <2>1. k \in Peers
    OBVIOUS
  <2>2. CASE k \in configured /\ k \notin Held(p)
    <3>1. PICK q \in Picks : k \in Held(q)
      BY <2>2 DEF Accounted
    <3>2. q # p
      BY <2>2, <3>1
    <3> QED BY <1>1, <3>1, <3>2 DEF Held
  <2>3. CASE ~ (k \in configured /\ k \notin Held(p))
    <3>1. \/ r.pc = "adding" /\ k \in r.top
          \/ r.pc = "releasing" /\ k \in r.todo \cup {r.winner}
      BY <2>3
    <3>2. k \in Held(p)'
      BY <1>1, <2>1, <3>1 DEF Held
    <3> QED BY <3>2
  <2> QED BY <2>2, <2>3
<1>5. UpdateKeepsWanted'
  BY DEF UpdateKeepsWanted
<1>6. ProbesAreForeign'
  BY <1>1 DEF ProbesAreForeign
<1> QED BY <1>2, <1>3, <1>4, <1>5, <1>6

(* A step of update_peers, which leaves the picks alone.                   *)
LEMMA UpdateMoves ==
  /\ PickerInv /\ UNCHANGED <<pick, wanted, winners, mixed>>
  /\ UpdateKeepsWanted' /\ PickerTypes'
  /\ \A k \in configured' :
       k \in wanted \/ k \in Doubtful' \/ (k \in configured /\ k \notin Doubtful)
  => PickerInv'
<1> SUFFICES ASSUME PickerInv, UNCHANGED <<pick, wanted, winners, mixed>>,
                    UpdateKeepsWanted', PickerTypes',
                    \A k \in configured' :
                      k \in wanted \/ k \in Doubtful' \/ (k \in configured /\ k \notin Doubtful)
             PROVE  PickerInv'
  OBVIOUS
<1> USE DEF PickerInv
<1>1. \A p \in Picks : Held(p)' = Held(p)
  BY DEF Held
<1>2. Accounted'
  BY <1>1 DEF Accounted
<1> QED BY <1>2 DEF TodoIsProbed, ProbesAreForeign

LEMMA PickerInitInv == PickerInit => PickerInv
BY DEF PickerInit, Idle, Applied, PickerInv, PickerTypes, PickType, TodoIsProbed, Accounted,
       UpdateKeepsWanted, ProbesAreForeign, NoPeer

LEMMA PickerStepInv == PickerInv /\ [PickerNext]_pickerVars => PickerInv'
<1> SUFFICES ASSUME PickerInv, [PickerNext]_pickerVars PROVE PickerInv'
  OBVIOUS
<1> USE DEF PickerInv, updateVars
<1>1. ASSUME NEW p \in Picks, PickPeers(p) PROVE PickerInv'
  <2> DEFINE r == [Idle EXCEPT !.pc = "provider", !.enabled = wanted]
  <2>1. /\ r \in PickType /\ r.pc = "provider" /\ r.enabled = wanted
    BY DEF Idle, PickType, PickerTypes
  <2>2. pick' = [pick EXCEPT ![p] = r] /\ Held(p) = {}
    BY <1>1 DEF PickPeers, Held
  <2>3. UNCHANGED <<configured, wanted, update, mixed, winners>>
    BY <1>1 DEF PickPeers
  <2> HIDE DEF r
  <2> QED BY <2>1, <2>2, <2>3, OnePickMoves DEF PickerTypes
<1>2. ASSUME NEW p \in Picks, StageA(p) PROVE PickerInv'
  <2>1. /\ UNCHANGED <<configured, wanted, update, mixed, winners>>
        /\ Held(p) = {} /\ pick[p].pc = "provider"
    BY <1>2 DEF StageA, Held
  <2>2. CASE pick' = [pick EXCEPT ![p] = Idle]
    <3>1. Idle \in PickType /\ Idle.pc = "idle"
      BY DEF Idle, PickType
    <3> QED BY <2>1, <2>2, <3>1, OnePickMoves DEF PickerTypes
  <2>3. ASSUME NEW top \in SUBSET Candidates(pick[p].enabled),
               pick' = [pick EXCEPT ![p].pc = "adding", ![p].top = top, ![p].todo = top]
        PROVE  PickerInv'
    <3> DEFINE r == [pick[p] EXCEPT !.pc = "adding", !.top = top, !.todo = top]
    <3>1. r \in PickType /\ r.pc = "adding" /\ r.top = top /\ r.todo = top
      BY DEF PickerTypes, PickType, Candidates
    <3>2. pick' = [pick EXCEPT ![p] = r]
      BY <2>3 DEF PickerTypes, PickType
    <3>3. ~mixed => top \cap wanted = {}
      BY <2>1 DEF ProbesAreForeign, Candidates
    <3> HIDE DEF r
    <3> QED BY <2>1, <3>1, <3>2, <3>3, OnePickMoves DEF PickerTypes
  <2> QED BY <1>2, <2>2, <2>3 DEF StageA
<1>3. ASSUME NEW p \in Picks, AddProbe(p) PROVE PickerInv'
  <2>1. PICK k \in pick[p].todo :
          /\ pick' = [pick EXCEPT ![p].todo = @ \ {k}]
          /\ configured' \in {configured, configured \cup {k}}
    BY <1>3 DEF AddProbe
  <2>2. UNCHANGED <<wanted, update, mixed, winners>> /\ pick[p].pc = "adding"
    BY <1>3 DEF AddProbe
  <2> DEFINE r == [pick[p] EXCEPT !.todo = @ \ {k}]
  <2>3. /\ r \in PickType /\ r.pc = "adding" /\ r.top = pick[p].top
        /\ r.todo = pick[p].todo \ {k}
    BY <2>2 DEF PickerTypes, PickType
  <2>4. pick' = [pick EXCEPT ![p] = r]
    BY <2>1 DEF PickerTypes, PickType
  <2>5. k \in pick[p].top /\ k \in Peers /\ pick[p].todo \subseteq pick[p].top
    BY <2>2 DEF TodoIsProbed, PickerTypes, PickType
  <2>6. ~mixed => r.top \cap wanted = {}
    BY <2>2, <2>3 DEF ProbesAreForeign
  <2>7. \A j \in Held(p) : j \in r.top
    BY <2>2, <2>3 DEF Held
  <2>8. configured' \subseteq Peers
    BY <2>1, <2>5 DEF PickerTypes
  <2>9. \A j \in configured' : (j \in configured /\ j \notin Held(p)) \/ j \in r.top
    BY <2>1, <2>3, <2>5, <2>7
  <2>10. r.todo \subseteq r.top
    BY <2>3, <2>5
  <2>11. winners' \subseteq Peers /\ winners \subseteq winners'
    BY <2>2 DEF PickerTypes
  <2> HIDE DEF r, PickerInv
  <2> QED BY <2>2, <2>3, <2>4, <2>6, <2>8, <2>9, <2>10, <2>11, OnePickMoves
<1>4. ASSUME NEW p \in Picks, Judge(p) PROVE PickerInv'
  <2>1. PICK winner \in pick[p].top \cup {NoPeer} :
          pick' = [pick EXCEPT ![p].pc = "releasing", ![p].winner = winner,
                               ![p].todo = pick[p].top \ {winner}]
    BY <1>4, VerdictIsProbe DEF Judge
  <2>2. /\ UNCHANGED <<configured, wanted, update, mixed, winners>>
        /\ pick[p].pc = "adding"
    BY <1>4 DEF Judge
  <2> DEFINE r == [pick[p] EXCEPT !.pc = "releasing", !.winner = winner,
                                  !.todo = pick[p].top \ {winner}]
  <2>3. /\ r \in PickType /\ r.pc = "releasing" /\ r.top = pick[p].top
        /\ r.todo = pick[p].top \ {winner} /\ r.winner = winner
    BY <2>2 DEF PickerTypes, PickType
  <2>4. pick' = [pick EXCEPT ![p] = r]
    BY <2>1 DEF PickerTypes, PickType
  <2>5. ~mixed => r.top \cap wanted = {}
    BY <2>2, <2>3 DEF ProbesAreForeign
  <2>6. \A j \in Held(p) : j \in r.todo \cup {r.winner}
    BY <2>2, <2>3 DEF Held
  <2> HIDE DEF r
  <2> QED BY <2>2, <2>3, <2>4, <2>5, <2>6, OnePickMoves DEF PickerTypes
<1>5. ASSUME NEW p \in Picks, CancelStageB(p) PROVE PickerInv'
  <2>1. /\ UNCHANGED <<wanted, update, mixed, winners>> /\ pick[p].pc = "adding"
        /\ configured' \in {configured} \cup {configured \cup {k} : k \in pick[p].todo}
    BY <1>5 DEF CancelStageB
  <2> DEFINE r == [pick[p] EXCEPT !.pc = "releasing", !.todo = pick[p].top]
  <2>2. /\ r \in PickType /\ r.pc = "releasing" /\ r.top = pick[p].top
        /\ r.todo = pick[p].top
    BY <2>1 DEF PickerTypes, PickType
  <2>3. pick' = [pick EXCEPT ![p] = r]
    BY <1>5 DEF CancelStageB, PickerTypes, PickType
  <2>4. pick[p].todo \subseteq pick[p].top /\ pick[p].top \subseteq Peers
    BY <2>1 DEF TodoIsProbed, PickerTypes, PickType
  <2>5. ~mixed => r.top \cap wanted = {}
    BY <2>1, <2>2 DEF ProbesAreForeign
  <2>6. \A j \in Held(p) : j \in r.todo
    BY <2>1, <2>2 DEF Held
  <2>7. configured' \subseteq configured \cup pick[p].top
    BY <2>1, <2>4
  <2>8. configured' \subseteq Peers
    BY <2>4, <2>7 DEF PickerTypes
  <2> HIDE DEF r
  <2> QED BY <2>1, <2>2, <2>3, <2>5, <2>6, <2>7, <2>8, OnePickMoves DEF PickerTypes
<1>6. ASSUME NEW p \in Picks, Release(p) PROVE PickerInv'
  <2>1. PICK k \in pick[p].todo :
          /\ configured' = configured \ {k}
          /\ pick' = [pick EXCEPT ![p].todo = @ \ {k}]
    BY <1>6 DEF Release
  <2>2. UNCHANGED <<wanted, update, mixed, winners>> /\ pick[p].pc = "releasing"
    BY <1>6 DEF Release
  <2> DEFINE r == [pick[p] EXCEPT !.todo = @ \ {k}]
  <2>3. /\ r \in PickType /\ r.pc = "releasing" /\ r.top = pick[p].top
        /\ r.todo = pick[p].todo \ {k} /\ r.winner = pick[p].winner
    BY <2>2 DEF PickerTypes, PickType
  <2>4. pick' = [pick EXCEPT ![p] = r]
    BY <2>1 DEF PickerTypes, PickType
  <2>5. pick[p].todo \subseteq pick[p].top
    BY <2>2 DEF TodoIsProbed
  <2>6. ~mixed => r.top \cap wanted = {}
    BY <2>2, <2>3 DEF ProbesAreForeign
  <2>7. \A j \in Held(p) : j = k \/ j \in r.todo \cup {r.winner}
    BY <2>2, <2>3 DEF Held
  <2> HIDE DEF r
  <2> QED BY <2>1, <2>2, <2>3, <2>4, <2>5, <2>6, <2>7, OnePickMoves DEF PickerTypes
<1>7. ASSUME NEW p \in Picks, Report(p) PROVE PickerInv'
  <2>1. /\ UNCHANGED <<configured, wanted, update, mixed>>
        /\ pick[p].pc = "releasing" /\ pick[p].todo = {}
        /\ winners' = winners \cup ({pick[p].winner} \ {NoPeer})
        /\ pick' = [pick EXCEPT ![p] = Idle]
    BY <1>7 DEF Report
  <2>2. Idle \in PickType /\ Idle.pc = "idle"
    BY DEF Idle, PickType
  <2>3. \A j \in Held(p) : j \in winners'
    BY <2>1 DEF Held, Peers, NoPeer
  <2>4. winners' \subseteq Peers
    BY <2>1 DEF PickerTypes, PickType
  <2> QED BY <2>1, <2>2, <2>3, <2>4, OnePickMoves DEF PickerTypes
<1>8. CASE CancelPick
  <2>1. UNCHANGED <<configured, wanted, update, mixed, winners, pick>>
    BY <1>8 DEF CancelPick
  <2>2. UpdateKeepsWanted' /\ PickerTypes' /\ Doubtful' = Doubtful
    BY <2>1 DEF UpdateKeepsWanted, PickerTypes, Doubtful
  <2> HIDE DEF PickerInv
  <2> QED BY <2>1, <2>2, UpdateMoves
<1>9. ASSUME NEW desired \in SUBSET Peers, UpdatePeers(desired) PROVE PickerInv'
  <2>1. /\ update' = [pc |-> "adding", current |-> configured, todo |-> desired \ configured]
        /\ wanted' = desired /\ winners' = {} /\ mixed' = (mixed \/ Picking)
        /\ UNCHANGED <<configured, pick>>
    BY <1>9 DEF UpdatePeers
  <2>2. PickerTypes'
    BY <2>1 DEF PickerTypes
  <2>3. TodoIsProbed' /\ UpdateKeepsWanted'
    BY <2>1 DEF TodoIsProbed, UpdateKeepsWanted
  <2>4. \A k \in configured : k \in Doubtful'
    BY <2>1 DEF Doubtful, PickerTypes
  <2>5. Accounted'
    BY <2>1, <2>4 DEF Accounted
  <2>6. ProbesAreForeign'
    BY <2>1 DEF ProbesAreForeign, Picking
  <2> QED BY <2>2, <2>3, <2>5, <2>6
<1>10. CASE UpdateAdds
  <2>1. UNCHANGED <<wanted, mixed, winners, pick>> /\ update.pc = "adding"
    BY <1>10 DEF UpdateAdds
  <2>2. ASSUME NEW k \in update.todo,
               configured' \in {configured, configured \cup {k}},
               update' = [update EXCEPT !.todo = @ \ {k}]
        PROVE  PickerInv'
    <3>1. /\ update'.pc = "adding" /\ update'.todo = update.todo \ {k}
          /\ update'.current = update.current /\ k \in wanted
      BY <2>1, <2>2 DEF PickerTypes, UpdateKeepsWanted
    <3>2. PickerTypes' /\ UpdateKeepsWanted'
      BY <2>1, <2>2, <3>1 DEF PickerTypes, UpdateKeepsWanted
    <3>3. Doubtful' = Doubtful
      BY <2>1, <3>1 DEF Doubtful
    <3> HIDE DEF PickerInv
    <3> QED BY <2>1, <2>2, <3>1, <3>2, <3>3, UpdateMoves
  <2>3. ASSUME update' = [update EXCEPT !.pc = "removing", !.todo = update.current \ wanted],
               UNCHANGED configured
        PROVE  PickerInv'
    <3>1. /\ update'.pc = "removing" /\ update'.todo = update.current \ wanted
      BY <2>3 DEF PickerTypes
    <3>2. PickerTypes' /\ UpdateKeepsWanted'
      BY <2>1, <2>3, <3>1 DEF PickerTypes, UpdateKeepsWanted
    <3>3. \A k \in Doubtful : k \in wanted \cup Doubtful'
      BY <2>1, <3>1 DEF Doubtful
    <3> HIDE DEF PickerInv
    <3> QED BY <2>1, <2>3, <3>2, <3>3, UpdateMoves
  <2> QED BY <1>10, <2>2, <2>3 DEF UpdateAdds
<1>11. CASE UpdateRemoves
  <2>1. UNCHANGED <<wanted, mixed, winners, pick>> /\ update.pc = "removing"
    BY <1>11 DEF UpdateRemoves
  <2>2. ASSUME NEW k \in update.todo, configured' = configured \ {k},
               update' = [update EXCEPT !.todo = @ \ {k}]
        PROVE  PickerInv'
    <3>1. update'.pc = "removing" /\ update'.todo = update.todo \ {k}
      BY <2>1, <2>2 DEF PickerTypes
    <3>2. PickerTypes' /\ UpdateKeepsWanted'
      BY <2>1, <2>2, <3>1 DEF PickerTypes, UpdateKeepsWanted
    <3>3. \A j \in Doubtful : j = k \/ j \in Doubtful'
      BY <2>1, <3>1 DEF Doubtful
    <3> HIDE DEF PickerInv
    <3> QED BY <2>1, <2>2, <3>2, <3>3, UpdateMoves
  <2>3. ASSUME update.todo = {}, update' = Applied, UNCHANGED configured
        PROVE  PickerInv'
    <3>1. PickerTypes' /\ UpdateKeepsWanted'
      BY <2>1, <2>3 DEF PickerTypes, UpdateKeepsWanted, Applied
    <3>2. Doubtful = {}
      BY <2>1, <2>3 DEF Doubtful
    <3> QED BY <2>1, <2>3, <3>1, <3>2, UpdateMoves
  <2> QED BY <1>11, <2>2, <2>3 DEF UpdateRemoves
<1>12. CASE UNCHANGED pickerVars
  <2>1. UNCHANGED <<configured, wanted, update, mixed, winners, pick>>
    BY <1>12 DEF pickerVars
  <2>2. UpdateKeepsWanted' /\ PickerTypes' /\ Doubtful' = Doubtful
    BY <2>1 DEF UpdateKeepsWanted, PickerTypes, Doubtful
  <2> HIDE DEF PickerInv
  <2> QED BY <2>1, <2>2, UpdateMoves
<1> QED BY <1>1, <1>2, <1>3, <1>4, <1>5, <1>6, <1>7, <1>8, <1>9, <1>10, <1>11, <1>12 DEF PickerNext

-----------------------------------------------------------------------------
(* The ranking.  First what Min returns, of finitely many integers.        *)

(* A finite set of integers that is not empty has a greatest element.      *)
LEMMA SomeGreatest ==
  ASSUME NEW S, S \subseteq Int, IsFiniteSet(S), S # {}
  PROVE  \E x \in S : \A y \in S : y <= x
<1> DEFINE above(x) == {y \in S : y > x}
           T == {above(x) : x \in S}
<1>1. T \subseteq FiniteSubsetsOf(S) /\ T # {}
  <2> SUFFICES ASSUME NEW x \in S PROVE above(x) \in FiniteSubsetsOf(S)
    OBVIOUS
  <2>1. above(x) \in SUBSET S
    OBVIOUS
  <2> QED BY <2>1, FS_Subset DEF FiniteSubsetsOf
<1>2. PICK t \in T : \A u \in T : ~ (<<u, t>> \in StrictSubsetOrdering(S))
  <2>1. IsWellFoundedOn(StrictSubsetOrdering(S), FiniteSubsetsOf(S))
    BY FS_StrictSubsetOrderingWellFounded
  <2> HIDE DEF T
  <2> QED BY <1>1, <2>1, WFMin
<1>3. PICK x \in S : t = above(x)
  OBVIOUS
<1>4. ASSUME NEW y \in S, y > x PROVE FALSE
  <2>1. above(y) \in T /\ above(x) \in SUBSET S /\ above(y) \in SUBSET S
    OBVIOUS
  <2>2. y \in above(x) /\ y \notin above(y) /\ \A z \in above(y) : z \in above(x)
    BY <1>4
  <2>3. <<above(y), t>> \in StrictSubsetOrdering(S)
    BY <1>3, <2>1, <2>2 DEF StrictSubsetOrdering
  <2> QED BY <1>2, <2>1, <2>3
<1> QED BY <1>4

LEMMA ImageIsFinite ==
  ASSUME NEW S, IsFiniteSet(S), NEW f, DOMAIN f = S, f = [x \in S |-> f[x]]
  PROVE  IsFiniteSet({f[x] : x \in S})
<1>1. f \in Surjection(S, {f[x] : x \in S})
  BY DEF Surjection
<1> QED BY <1>1, FS_Surjection

LEMMA MinIsLeast ==
  ASSUME NEW S, S \subseteq Int, IsFiniteSet(S), S # {}
  PROVE  Min(S) \in S /\ \A x \in S : Min(S) <= x
<1> DEFINE f == [x \in S |-> -x]
           T == {f[x] : x \in S}
<1>1. IsFiniteSet(T)
  <2>1. DOMAIN f = S /\ f = [x \in S |-> f[x]]
    OBVIOUS
  <2> HIDE DEF f
  <2> QED BY <2>1, ImageIsFinite
<1>2. T \subseteq Int /\ T # {}
  OBVIOUS
<1>3. PICK t \in T : \A u \in T : u <= t
  <2> HIDE DEF T
  <2> QED BY <1>1, <1>2, SomeGreatest
<1>4. PICK x \in S : t = -x
  OBVIOUS
<1>5. \A y \in S : x <= y
  <2> SUFFICES ASSUME NEW y \in S PROVE x <= y
    OBVIOUS
  <2>1. -y \in T
    OBVIOUS
  <2>2. -y <= -x /\ x \in Int /\ y \in Int
    BY <1>3, <1>4, <2>1
  <2> QED BY <2>2
<1> QED BY <1>5 DEF Min

(* The least element of a set is its Min, finite or not.                   *)
LEMMA LeastIsMin ==
  ASSUME NEW S, S \subseteq Int, NEW x \in S, \A y \in S : x <= y
  PROVE  Min(S) = x
<1>1. Min(S) \in S /\ \A y \in S : Min(S) <= y
  BY DEF Min
<1>2. Min(S) \in Int /\ x \in Int /\ Min(S) <= x /\ x <= Min(S)
  BY <1>1
<1> HIDE DEF Min
<1> QED BY <1>2

LEMMA PeersFinite ==
  ASSUME NEW S \in SUBSET Peers
  PROVE  S \subseteq Int /\ IsFiniteSet(S)
<1>1. NumPeers \in Int /\ 1 \in Int
  BY PickerAssumption
<1>2. IsFiniteSet(1 .. NumPeers)
  BY <1>1, FS_Interval
<1>3. IsFiniteSet(Peers) /\ S \subseteq Int
  BY <1>2 DEF Peers
<1>4. IsFiniteSet(S)
  BY <1>3, FS_Subset
<1> QED BY <1>3, <1>4

(* A peer with a tree has a root, which is a peer, at some depth.          *)
LEMMA TreeHasRoot ==
  ASSUME NEW parent, NEW k, HasTree(parent, k)
  PROVE  Depth(parent, k) \in 0 .. NumPeers /\ RootOf(parent, k) \in Peers
<1> DEFINE D == RootDepths(parent, k)
<1>1. D \subseteq 0 .. NumPeers /\ D # {}
  BY DEF HasTree, RootDepths
<1>2. D \subseteq Int /\ IsFiniteSet(D)
  <2>1. NumPeers \in Int /\ 0 \in Int
    BY PickerAssumption
  <2>2. IsFiniteSet(0 .. NumPeers)
    BY <2>1, FS_Interval
  <2>3. D \subseteq Int /\ D \in SUBSET (0 .. NumPeers)
    BY <1>1
  <2> HIDE DEF D
  <2>4. IsFiniteSet(D)
    BY <2>2, <2>3, FS_Subset
  <2> QED BY <2>3, <2>4
<1>3. Min(D) \in D
  <2> HIDE DEF D
  <2> QED BY <1>1, <1>2, MinIsLeast
<1>4. Depth(parent, k) \in D
  BY <1>3 DEF Depth
<1> QED BY <1>1, <1>4 DEF RootDepths, RootOf

LEMMA ScoreType ==
  ASSUME NEW m \in Measurements, NEW root, NEW k \in Peers
  PROVE  /\ Score(m, root, k) \in Int
         /\ Score(m, root, k) <= Infinity
         /\ Score(m, root, k) # Infinity =>
              /\ Score(m, root, k) < Infinity /\ HasTree(m.parent, k) /\ m.ms[k] > 0
              /\ RootOf(m.parent, k) = root
              /\ Score(m, root, k) = m.ms[k] * (Depth(m.parent, k) + 1)
         /\ HasTree(m.parent, k) /\ m.ms[k] > 0 /\ RootOf(m.parent, k) = root =>
              Score(m, root, k) # Infinity
<1>1. m.ms[k] \in Int /\ Infinity \in Int
  BY PickerAssumption
<1>2. CASE HasTree(m.parent, k) /\ RootOf(m.parent, k) = root /\ m.ms[k] > 0
  <2>1. Depth(m.parent, k) \in 0 .. NumPeers
    BY <1>2, TreeHasRoot
  <2>2. Score(m, root, k) = m.ms[k] * (Depth(m.parent, k) + 1)
    BY <1>2 DEF Score
  <2>3. m.ms[k] * (Depth(m.parent, k) + 1) < Infinity
    BY <2>1, PickerAssumption
  <2>4. Depth(m.parent, k) + 1 \in Int
    BY <2>1
  <2>5. m.ms[k] * (Depth(m.parent, k) + 1) \in Int
    BY <1>1, <2>4
  <2> QED BY <1>1, <1>2, <2>2, <2>3, <2>5
<1>3. CASE ~ (HasTree(m.parent, k) /\ RootOf(m.parent, k) = root /\ m.ms[k] > 0)
  BY <1>1, <1>3 DEF Score
<1> QED BY <1>2, <1>3

(* With the same tree, the root that a peer to be switched to is on stays  *)
(* the network's when that peer is the only current one: it breaks ties.   *)
LEMMA RootStays ==
  ASSUME NEW parent, NEW probed \in SUBSET Peers, NEW enabled \in SUBSET Peers,
         NEW u \in probed, HasTree(parent, u),
         RootOf(parent, u) = NetworkRoot(parent, probed, enabled)
  PROVE  NetworkRoot(parent, probed, {u}) = NetworkRoot(parent, probed, enabled)
<1> DEFINE rooted == {k \in probed : HasTree(parent, k)}
           roots  == {RootOf(parent, k) : k \in rooted}
           votes  == [r \in roots |-> Cardinality({k \in rooted : RootOf(parent, k) = r})]
           most   == {r \in roots : \A q \in roots : votes[q] <= votes[r]}
           current(e) == {RootOf(parent, Min(rooted \cap e)) : k \in rooted \cap e}
           among(e)   == IF most \cap current(e) # {} THEN most \cap current(e) ELSE most
<1>1. \A e : NetworkRoot(parent, probed, e) = IF roots = {} THEN NoPeer ELSE Min(among(e))
  BY DEF NetworkRoot
<1>2. RootOf(parent, u) \in roots /\ u \in rooted
  OBVIOUS
<1>3. roots \in SUBSET Peers
  BY TreeHasRoot
<1>4. roots \subseteq Int /\ IsFiniteSet(roots)
  BY <1>3, PeersFinite
<1>5. most # {}
  <2>1. \A r \in roots : votes[r] \in Int
    <3> SUFFICES ASSUME NEW r \in roots PROVE votes[r] \in Int
      OBVIOUS
    <3>1. IsFiniteSet({k \in rooted : RootOf(parent, k) = r})
      BY PeersFinite
    <3> QED BY <3>1, FS_CardinalityType
  <2> DEFINE V == {votes[r] : r \in roots}
  <2>2. IsFiniteSet(V)
    <3>1. DOMAIN votes = roots /\ votes = [r \in roots |-> votes[r]]
      OBVIOUS
    <3> HIDE DEF votes, roots
    <3> QED BY <1>4, <3>1, ImageIsFinite
  <2>3. V \subseteq Int /\ V # {}
    BY <1>2, <2>1
  <2>4. PICK v \in V : \A w \in V : w <= v
    <3> HIDE DEF V
    <3> QED BY <2>2, <2>3, SomeGreatest
  <2> HIDE DEF roots, votes
  <2> QED BY <2>4
<1> HIDE DEF votes, roots
<1>6. among(enabled) # {} /\ among(enabled) \subseteq roots /\ among(enabled) \subseteq most
  BY <1>5
<1>7. Min(among(enabled)) \in among(enabled)
  <2>1. IsFiniteSet(among(enabled)) /\ among(enabled) \subseteq Int
    BY <1>4, <1>6, FS_Subset
  <2> HIDE DEF among
  <2> QED BY <1>6, <2>1, MinIsLeast
<1>8. RootOf(parent, u) \in most
  BY <1>1, <1>2, <1>6, <1>7
<1>9. Min(rooted \cap {u}) = u
  <2>1. rooted \cap {u} = {u} /\ u \in Int
    BY <1>2, PeersFinite
  <2> QED BY <2>1, LeastIsMin
<1>10. current({u}) = {RootOf(parent, u)}
  BY <1>2, <1>9
<1>11. among({u}) = {RootOf(parent, u)}
  BY <1>8, <1>10
<1>12. Min(among({u})) = RootOf(parent, u)
  <2>1. RootOf(parent, u) \in Int
    BY <1>2, <1>4
  <2>2. Min({RootOf(parent, u)}) = RootOf(parent, u)
    BY <2>1, LeastIsMin
  <2> QED BY <1>11, <2>2
<1> QED BY <1>1, <1>2, <1>12

(* A latency within 15 per cent makes a score within 15 per cent.          *)
LEMMA ScoreScales ==
  ASSUME NEW a \in Int, NEW b \in Int, NEW c \in Nat, a > 0,
         100 * (b - a) \in -15 * a .. 15 * a
  PROVE  b > 0 /\ 85 * (a * c) <= 100 * (b * c) /\ 100 * (b * c) <= 115 * (a * c)
<1>1. 100 * b - 85 * a >= 0 /\ 115 * a - 100 * b >= 0
  OBVIOUS
<1>2. ASSUME NEW x \in Int, x >= 0 PROVE x * c >= 0
  BY <1>2
<1>3. (100 * b - 85 * a) * c >= 0 /\ (115 * a - 100 * b) * c >= 0
  BY <1>1, <1>2
<1>4. /\ (100 * b - 85 * a) * c = 100 * (b * c) - 85 * (a * c)
      /\ (115 * a - 100 * b) * c = 115 * (a * c) - 100 * (b * c)
  OBVIOUS
<1>5. a * c \in Int /\ b * c \in Int
  OBVIOUS
<1> QED BY <1>1, <1>3, <1>4, <1>5

(* What a pick switches to is scored, and beats every enabled peer that is *)
(* scored by the hysteresis.                                               *)
LEMMA WinnerBeats ==
  ASSUME NEW m \in Measurements, NEW probed \in SUBSET Peers, NEW enabled \in SUBSET Peers,
         NEW top \in SUBSET Peers, NEW u \in Verdicts(m, probed, enabled, top), u # NoPeer
  PROVE  LET root == NetworkRoot(m.parent, probed, enabled)
             s(k) == Score(m, root, k)
         IN /\ u \in probed \cap top /\ s(u) # Infinity
            /\ \A k \in enabled \cap probed : s(k) # Infinity => 100 * s(u) <= 85 * s(k)
<1> DEFINE root    == NetworkRoot(m.parent, probed, enabled)
           s(k)    == Score(m, root, k)
           score   == [k \in top \cup enabled |-> IF k \in probed THEN s(k) ELSE Infinity]
           mine    == {score[k] : k \in enabled} \cup {Infinity}
           current == Min(mine)
           best    == Min({score[k] : k \in top})
<1>1. /\ u \in top /\ \A j \in top : score[u] <= score[j]
      /\ ShouldSwitch(current, best)
  BY DEF Verdicts
<1>2. \A k \in top \cup enabled : score[k] \in Int /\ Infinity \in Int
  BY ScoreType, PickerAssumption
<1>3. \A k \in enabled \cap probed : score[k] = s(k)
  OBVIOUS
<1>4. score[u] = IF u \in probed THEN s(u) ELSE Infinity
  BY <1>1
<1>5. mine \subseteq Int /\ mine # {} /\ IsFiniteSet(mine)
  <2> DEFINE f == [k \in enabled |-> score[k]]
  <2>1. IsFiniteSet(enabled)
    BY PeersFinite
  <2>2. DOMAIN f = enabled /\ f = [k \in enabled |-> f[k]]
    OBVIOUS
  <2>3. {score[k] : k \in enabled} = {f[k] : k \in enabled}
    OBVIOUS
  <2> HIDE DEF f, score
  <2>4. IsFiniteSet({f[k] : k \in enabled})
    BY <2>1, <2>2, ImageIsFinite
  <2>5. IsFiniteSet(mine)
    BY <2>3, <2>4, FS_AddElement
  <2>6. mine \subseteq Int
    BY <1>2, PickerAssumption
  <2> QED BY <2>5, <2>6
<1> HIDE DEF score, s
<1>6. best = score[u]
  <2> DEFINE T == {score[k] : k \in top}
  <2>1. T \subseteq Int /\ score[u] \in T /\ \A x \in T : score[u] <= x
    BY <1>1, <1>2
  <2> HIDE DEF T
  <2>2. Min(T) = score[u]
    BY <2>1, LeastIsMin
  <2> QED BY <2>2 DEF T
<1>7. current \in Int /\ current \in mine /\ \A k \in enabled : current <= score[k]
  <2>1. current \in mine /\ \A x \in mine : current <= x
    <3> HIDE DEF mine
    <3> QED BY <1>5, MinIsLeast
  <2> HIDE DEF current
  <2> QED BY <1>5, <2>1
<1> HIDE DEF mine, current, best
<1>8. score[u] # Infinity /\ (current = Infinity \/ 100 * score[u] <= 85 * current)
  BY <1>1, <1>6 DEF ShouldSwitch
<1>9. u \in probed /\ s(u) # Infinity /\ s(u) = score[u]
  BY <1>4, <1>8
<1>10. ASSUME NEW k \in enabled \cap probed, s(k) # Infinity
       PROVE  100 * s(u) <= 85 * s(k)
  <2>1. s(k) \in Int /\ s(k) < Infinity
    BY <1>10, ScoreType DEF s
  <2>2. current <= s(k)
    BY <1>3, <1>7
  <2>3. current # Infinity
    BY <1>2, <1>7, <2>1, <2>2, PickerAssumption
  <2>4. 100 * s(u) <= 85 * current /\ s(u) \in Int
    BY <1>1, <1>2, <1>8, <1>9, <2>3
  <2> QED BY <1>7, <2>1, <2>2, <2>4
<1> QED BY <1>1, <1>9, <1>10 DEF s

(* Measured again within 15 per cent, no peer the pick left beats its      *)
(* winner by the hysteresis.                                               *)
LEMMA NoSwitchBack ==
  ASSUME NEW m \in Measurements, NEW n \in Remeasured(m), NEW probed \in SUBSET Peers,
         NEW enabled \in SUBSET Peers, NEW top \in SUBSET Peers,
         NEW u \in Verdicts(m, probed, enabled, top), u # NoPeer
  PROVE  Verdicts(n, probed, {u}, probed \ {u}) \cap enabled = {}
<1> DEFINE root == NetworkRoot(m.parent, probed, enabled)
           s(k) == Score(m, root, k)
           z(k) == Score(n, root, k)
<1>1. /\ u \in probed \cap top /\ s(u) # Infinity
      /\ \A k \in enabled \cap probed : s(k) # Infinity => 100 * s(u) <= 85 * s(k)
  BY WinnerBeats
<1>2. n \in Measurements /\ n.parent = m.parent
  BY DEF Remeasured
<1>3. \A k \in Peers :
        \/ n.ms[k] = m.ms[k]
        \/ m.ms[k] > 0 /\ 100 * (n.ms[k] - m.ms[k]) \in -15 * m.ms[k] .. 15 * m.ms[k]
  BY DEF Remeasured
<1>4. HasTree(m.parent, u) /\ RootOf(m.parent, u) = root
  BY <1>1, ScoreType
<1>5. NetworkRoot(n.parent, probed, {u}) = root
  BY <1>1, <1>2, <1>4, RootStays
<1>6. \A k \in Peers : m.ms[k] \in Int /\ n.ms[k] \in Int
  BY <1>2, PickerAssumption
<1>7. ASSUME NEW k \in Peers, z(k) # Infinity \/ s(k) # Infinity
      PROVE  /\ z(k) \in Int /\ s(k) \in Int /\ z(k) # Infinity /\ s(k) # Infinity /\ s(k) > 0
             /\ 85 * s(k) <= 100 * z(k) /\ 100 * z(k) <= 115 * s(k)
  <2> DEFINE c == Depth(m.parent, k) + 1
  <2>1. HasTree(m.parent, k) /\ RootOf(m.parent, k) = root /\ (n.ms[k] > 0 \/ m.ms[k] > 0)
    BY <1>2, <1>7, ScoreType
  <2>2. c \in Nat /\ c > 0
    BY <2>1, TreeHasRoot
  <2>3. m.ms[k] > 0 /\ 100 * (n.ms[k] - m.ms[k]) \in -15 * m.ms[k] .. 15 * m.ms[k]
    BY <1>3, <1>6, <2>1
  <2> HIDE DEF c
  <2>4. /\ n.ms[k] > 0
        /\ 85 * (m.ms[k] * c) <= 100 * (n.ms[k] * c)
        /\ 100 * (n.ms[k] * c) <= 115 * (m.ms[k] * c)
    BY <1>6, <2>2, <2>3, ScoreScales
  <2>5. s(k) # Infinity /\ z(k) # Infinity
    BY <1>2, <2>1, <2>3, <2>4, ScoreType
  <2>6. s(k) = m.ms[k] * c /\ z(k) = n.ms[k] * c /\ s(k) \in Int /\ z(k) \in Int
    BY <1>2, <2>5, ScoreType DEF c
  <2>7. s(k) > 0
    BY <1>6, <2>2, <2>3, <2>6
  <2> QED BY <2>4, <2>5, <2>6, <2>7
<1> SUFFICES ASSUME NEW w \in Verdicts(n, probed, {u}, probed \ {u}), w \in enabled
             PROVE  FALSE
  OBVIOUS
<1>8. w # NoPeer
  BY DEF Peers, NoPeer
<1>9. /\ w \in probed /\ z(w) # Infinity
      /\ z(u) # Infinity => 100 * z(w) <= 85 * z(u)
  BY <1>1, <1>2, <1>5, <1>8, WinnerBeats
<1> HIDE DEF s, z
<1>10. /\ z(u) # Infinity /\ z(u) \in Int /\ s(u) \in Int /\ s(u) > 0
       /\ 100 * z(u) <= 115 * s(u)
  BY <1>1, <1>7
<1>11. /\ z(w) \in Int /\ s(w) \in Int /\ s(w) # Infinity /\ 85 * s(w) <= 100 * z(w)
  BY <1>7, <1>9
<1>12. 100 * s(u) <= 85 * s(w)
  BY <1>1, <1>9, <1>11
<1> QED BY <1>9, <1>10, <1>11, <1>12

-----------------------------------------------------------------------------
THEOREM PickerInvariant == PickerSpec => []PickerInv
BY PickerInitInv, PickerStepInv, PTL DEF PickerSpec

(* Outside picks and updates, every configured peer is one the app wants   *)
(* or a winner it has not applied yet (run, pick_peers, update_peers).     *)
THEOREM NoProbeIsLeft == PickerSpec => []ProbesAreReleased
<1>1. PickerInv => ProbesAreReleased
  BY DEF PickerInv, Accounted, ProbesAreReleased, Quiet, Picking, Held, Doubtful
<1> QED BY <1>1, PickerInvariant, PTL

(* No step of a pick, or of an update_peers outside one, removes a peer    *)
(* the app wants (stage_b, the release of the probes, update_peers).       *)
THEOREM WantedIsKept == PickerSpec => WantedStaysConfigured
<1>1. PickerInv /\ [PickerNext]_pickerVars => [~mixed => wanted \cap configured \subseteq configured']_pickerVars
  <2> SUFFICES ASSUME PickerInv, PickerNext, ~mixed
               PROVE  wanted \cap configured \subseteq configured'
    BY DEF pickerVars
  <2> USE DEF PickerInv
  <2>1. ASSUME NEW p \in Picks, Release(p) PROVE wanted \cap configured \subseteq configured'
    <3>1. pick[p].todo \cap wanted = {}
      BY <2>1 DEF Release, TodoIsProbed, ProbesAreForeign
    <3> QED BY <2>1, <3>1 DEF Release
  <2>2. CASE UpdateRemoves
    BY <2>2 DEF UpdateRemoves, UpdateKeepsWanted
  <2>3. CASE \E p \in Picks : AddProbe(p) \/ CancelStageB(p)
    BY <2>3 DEF AddProbe, CancelStageB
  <2>4. CASE UpdateAdds
    BY <2>4 DEF UpdateAdds
  <2>5. CASE UNCHANGED configured
    BY <2>5
  <2> QED BY <2>1, <2>2, <2>3, <2>4, <2>5
       DEF PickerNext, PickPeers, StageA, Judge, Report, CancelPick, UpdatePeers
<1> QED BY <1>1, PickerInvariant, PTL DEF PickerSpec, WantedStaysConfigured

(* A pick that follows a switch, with the winner as its current peer and   *)
(* every latency within 15 per cent of before, does not switch back to a   *)
(* peer the first one left (rank, network_root, decide).                   *)
THEOREM SwitchesLast == PickerSpec => []NoFlapping
<1>1. PickerInit => NoFlapping
  BY DEF PickerInit, NoFlapping
<1>2. PickerInv /\ NoFlapping /\ [PickerNext]_pickerVars => NoFlapping'
  <2> SUFFICES ASSUME PickerInv, NoFlapping, [PickerNext]_pickerVars PROVE NoFlapping'
    OBVIOUS
  <2>1. ASSUME NEW p \in Picks, Judge(p) PROVE NoFlapping'
    <3>1. PICK m \in Measurements :
            LET probed == {k \in (pick[p].top \cup pick[p].enabled) \cap configured : m.ms[k] # Down}
            IN \E winner \in Verdicts(m, probed, pick[p].enabled, pick[p].top) :
                 /\ pick' = [pick EXCEPT ![p].pc = "releasing", ![p].winner = winner,
                                         ![p].todo = pick[p].top \ {winner}]
                 /\ judged' = IF winner = NoPeer THEN {}
                              ELSE {[by |-> p, measured |-> m, probed |-> probed]}
      BY <2>1 DEF Judge
    <3> DEFINE enabled == pick[p].enabled
               probed  == {k \in (pick[p].top \cup enabled) \cap configured : m.ms[k] # Down}
    <3>2. PICK winner \in Verdicts(m, probed, enabled, pick[p].top) :
            /\ pick' = [pick EXCEPT ![p].pc = "releasing", ![p].winner = winner,
                                    ![p].todo = pick[p].top \ {winner}]
            /\ judged' = IF winner = NoPeer THEN {}
                         ELSE {[by |-> p, measured |-> m, probed |-> probed]}
      BY <3>1
    <3>3. /\ enabled \in SUBSET Peers /\ pick[p].top \in SUBSET Peers /\ probed \in SUBSET Peers
          /\ pick'[p].winner = winner /\ pick'[p].enabled = enabled
      BY <3>2 DEF PickerInv, PickerTypes, PickType
    <3> HIDE DEF enabled, probed
    <3>4. CASE winner = NoPeer
      BY <3>2, <3>4 DEF NoFlapping
    <3>5. CASE winner # NoPeer
      <4>1. \A n \in Remeasured(m) :
              Verdicts(n, probed, {winner}, probed \ {winner}) \cap enabled = {}
        BY <3>2, <3>3, <3>5, NoSwitchBack
      <4>2. judged' = {[by |-> p, measured |-> m, probed |-> probed]}
        BY <3>2, <3>5
      <4> SUFFICES ASSUME NEW j \in judged', NEW n \in Remeasured(j.measured)
                   PROVE  Verdicts(n, j.probed, {pick'[j.by].winner},
                                   j.probed \ {pick'[j.by].winner}) \cap pick'[j.by].enabled = {}
        BY DEF NoFlapping
      <4>3. j.by = p /\ j.measured = m /\ j.probed = probed
        BY <4>2
      <4> QED BY <3>3, <4>1, <4>3
    <3> QED BY <3>4, <3>5
  <2>2. CASE judged' = {}
    BY <2>2 DEF NoFlapping
  <2>3. CASE UNCHANGED pickerVars
    BY <2>3 DEF pickerVars, NoFlapping
  <2> QED BY <2>1, <2>2, <2>3 DEF PickerNext, PickPeers, StageA, AddProbe, CancelStageB, Release,
       Report, CancelPick, UpdatePeers, UpdateAdds, UpdateRemoves
<1> QED BY <1>1, <1>2, PickerInvariant, PTL DEF PickerSpec
=============================================================================
