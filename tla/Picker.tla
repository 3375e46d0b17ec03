------------------------------- MODULE Picker -------------------------------
(***************************************************************************)
(* The public-peer picker of the mobile library (yggmail-mobile/src/       *)
(* picker.rs) and the calls around it in lib.rs: pick_peers, which drops   *)
(* the lock of the node for the minute a pick takes, cancel_pick, and      *)
(* update_peers, which the app may call meanwhile.  All of them change the *)
(* peers configured on one core, one await at a time.                      *)
(*                                                                         *)
(* A peer is its number, which is also its key in the spanning tree; the   *)
(* lists of the app are in the order of the numbers.  The catalog has all  *)
(* peers; what stage A measures through the ISP decides nothing but which  *)
(* of them come to stage B, so stage A returns any of them.                *)
(***************************************************************************)
EXTENDS Integers, FiniteSets, FiniteSetsExt

CONSTANTS
  NumPeers,     \* bound: peers of the catalog
  Picks,        \* the threads that call pick_peers
  ATop,         \* A_TOP
  Measurements, \* what stage B may find: [ms : link RTTs, parent : the tree]
  MaxUpdates,   \* bound: calls of update_peers
  Infinity      \* f64::INFINITY: the score of a peer that has none

Peers == 1 .. NumPeers
Down    == -1   \* ms of a peer whose link is not up
Missing == 0    \* parent of a node whose ancestry has not come
NoPeer    == 0

ASSUME PickerAssumption ==
  /\ NumPeers \in Nat /\ ATop \in Nat /\ MaxUpdates \in Nat
  /\ Measurements \subseteq
       [ms : [Peers -> Int], parent : [Peers -> Peers \cup {Missing}]]
  /\ Infinity \in Int
  /\ \A m \in Measurements, k \in Peers, d \in 0 .. NumPeers : m.ms[k] * (d + 1) < Infinity

VARIABLES
  configured, \* the core's configured peers
  wanted,     \* the peers the app enabled: config.peers, then what update_peers was given
  cancel,     \* pick_cancel
  pick,       \* per thread: its pick
  update,     \* update_peers in progress
  updates,    \* update_peers so far
  winners,    \* history: Switch winners since the last update_peers
  mixed,      \* history: an update_peers ran during a pick
  judged      \* history: what the last step, if a pick's Judge, switched on

pickerVars == <<configured, wanted, cancel, pick, update, updates, winners, mixed, judged>>

Idle    == [pc |-> "idle", enabled |-> {}, top |-> {}, todo |-> {}, winner |-> NoPeer]
Applied == [pc |-> "idle", current |-> {}, todo |-> {}]

PickerInit ==
  /\ wanted \in SUBSET Peers /\ configured = wanted
  /\ cancel = FALSE
  /\ pick = [p \in Picks |-> Idle]
  /\ update = Applied /\ updates = 0
  /\ winners = {} /\ mixed = FALSE /\ judged = {}

updateVars == <<wanted, update, updates, mixed>>

Picking == \E p \in Picks : pick[p].pc # "idle"
Quiet   == ~Picking /\ update.pc = "idle"

-----------------------------------------------------------------------------
(* The ranking.  A measurement is a record of Measurements, restricted to  *)
(* the peers that were probed.                                             *)

(* tree_info: the parents from key on, at most as many as there are nodes. *)
Ancestors(parent, key) ==
  LET up[d \in 0 .. NumPeers] ==
        IF d = 0 THEN key ELSE IF up[d - 1] = Missing THEN Missing ELSE parent[up[d - 1]]
  IN up

RootDepths(parent, key) ==
  LET up == Ancestors(parent, key)
  IN {d \in 0 .. NumPeers : up[d] \in Peers /\ parent[up[d]] = up[d]}

HasTree(parent, key) == RootDepths(parent, key) # {}
Depth(parent, key)   == Min(RootDepths(parent, key))
RootOf(parent, key)  == Ancestors(parent, key)[Depth(parent, key)]

(* network_root: the root of most links, of the current peer's on a tie,   *)
(* then the smallest.  NoPeer when no link has a tree.                       *)
NetworkRoot(parent, probed, enabled) ==
  LET rooted  == {k \in probed : HasTree(parent, k)}
      roots   == {RootOf(parent, k) : k \in rooted}
      votes   == [r \in roots |-> Cardinality({k \in rooted : RootOf(parent, k) = r})]
      most    == {r \in roots : \A q \in roots : votes[q] <= votes[r]}
      current == {RootOf(parent, Min(rooted \cap enabled)) : k \in rooted \cap enabled}
  IN IF roots = {} THEN NoPeer
     ELSE Min(IF most \cap current # {} THEN most \cap current ELSE most)

(* rank's judge: latency x (depth + 1), for a peer on the network's root.  *)
Score(m, root, key) ==
  IF HasTree(m.parent, key) /\ RootOf(m.parent, key) = root /\ m.ms[key] > 0
  THEN m.ms[key] * (Depth(m.parent, key) + 1)
  ELSE Infinity

(* decide, HYSTERESIS being 15 per cent.                                   *)
ShouldSwitchAtOnce(current, best) ==
  best # Infinity /\ (current = Infinity \/ best < current)

ShouldSwitch(current, best) ==
  /\ best # Infinity
  /\ current = Infinity \/ (best < current /\ 100 * best <= 85 * current)

(* What a pick may answer: a winner, or NoPeer for Keep.  Rows of the same   *)
(* score are in the order stage A gave them, which may be any.             *)
Verdicts(m, probed, enabled, top) ==
  LET root    == NetworkRoot(m.parent, probed, enabled)
      score   == [k \in top \cup enabled |->
                    IF k \in probed THEN Score(m, root, k) ELSE Infinity]
      current == Min({score[k] : k \in enabled} \cup {Infinity})
      bests   == {k \in top : \A j \in top : score[k] <= score[j]}
  IN IF top # {} /\ ShouldSwitch(current, Min({score[k] : k \in top}))
     THEN bests ELSE {NoPeer}

-----------------------------------------------------------------------------
(* pick_peers: takes the lock to clone the core, so not during update_peers*)
(* which keeps it; the app hands in the peers it enabled.                  *)
PickPeers(p) ==
  /\ pick[p].pc = "idle" /\ update.pc = "idle"
  /\ cancel' = FALSE
  /\ pick' = [pick EXCEPT ![p] = [Idle EXCEPT !.pc = "provider", !.enabled = wanted]]
  /\ judged' = {}
  /\ UNCHANGED <<configured, updateVars, winners>>

CancelPick ==
  /\ Picking /\ ~cancel /\ cancel' = TRUE
  /\ judged' = {}
  /\ UNCHANGED <<configured, pick, updateVars, winners>>

CandidatesAll(enabled) == Peers

Candidates(enabled) == Peers \ enabled

(* stage_a: cancelled before anything is linked, or the best A_TOP of the  *)
(* candidates that answered.                                               *)
StageA(p) ==
  /\ pick[p].pc = "provider"
  /\ \/ cancel /\ pick' = [pick EXCEPT ![p] = Idle]
     \/ \E top \in SUBSET Candidates(pick[p].enabled) :
          /\ Cardinality(top) <= ATop
          /\ pick' = [pick EXCEPT ![p].pc = "adding", ![p].top = top, ![p].todo = top]
  /\ judged' = {}
  /\ UNCHANGED <<configured, cancel, updateVars, winners>>

(* Add one probe; add_peer may fail, which is only logged.                 *)
AddProbe(p) ==
  /\ pick[p].pc = "adding"
  /\ \E k \in pick[p].todo :
       /\ pick' = [pick EXCEPT ![p].todo = @ \ {k}]
       /\ configured' \in {configured, configured \cup {k}}
  /\ judged' = {}
  /\ UNCHANGED <<cancel, updateVars, winners>>

(* All added: wait for links and ancestries, until all are there or the    *)
(* deadlines have passed, and judge what there is.                         *)
Judge(p) ==
  /\ pick[p].pc = "adding" /\ pick[p].todo = {}
  /\ LET enabled == pick[p].enabled
         top     == pick[p].top
     IN \E m \in Measurements :
          LET probed == {k \in (top \cup enabled) \cap configured : m.ms[k] # Down}
          IN \E winner \in Verdicts(m, probed, enabled, top) :
               /\ pick' = [pick EXCEPT ![p].pc = "releasing", ![p].winner = winner,
                                       ![p].todo = top \ {winner}]
               /\ judged' = IF winner = NoPeer THEN {}
                            ELSE {[by |-> p, measured |-> m, probed |-> probed]}
  /\ UNCHANGED <<configured, cancel, updateVars, winners>>

(* guard sees the flag before the stage is over: no winner.  The add_peer  *)
(* it drops may have had its effect.                                       *)
CancelStageBLeaks(p) ==
  /\ pick[p].pc = "adding" /\ cancel
  /\ configured' \in {configured} \cup {configured \cup {k} : k \in pick[p].todo}
  /\ pick' = [pick EXCEPT ![p] = Idle]
  /\ judged' = {}
  /\ UNCHANGED <<cancel, updateVars, winners>>

CancelStageB(p) ==
  /\ pick[p].pc = "adding" /\ cancel
  /\ configured' \in {configured} \cup {configured \cup {k} : k \in pick[p].todo}
  /\ pick' = [pick EXCEPT ![p].pc = "releasing", ![p].todo = pick[p].top]
  /\ judged' = {}
  /\ UNCHANGED <<cancel, updateVars, winners>>

(* run: remove the probe links, one by one, all but the winner's.          *)
Release(p) ==
  /\ pick[p].pc = "releasing"
  /\ \E k \in pick[p].todo :
       /\ configured' = configured \ {k}
       /\ pick' = [pick EXCEPT ![p].todo = @ \ {k}]
  /\ judged' = {}
  /\ UNCHANGED <<cancel, updateVars, winners>>

Report(p) ==
  /\ pick[p].pc = "releasing" /\ pick[p].todo = {}
  /\ pick' = [pick EXCEPT ![p] = Idle]
  /\ winners' = winners \cup ({pick[p].winner} \ {NoPeer})
  /\ judged' = {}
  /\ UNCHANGED <<configured, cancel, updateVars>>

-----------------------------------------------------------------------------
(* update_peers, under the lock: what is configured is read once ...       *)
UpdatePeers(desired) ==
  /\ update.pc = "idle" /\ updates < MaxUpdates
  /\ update' = [pc |-> "adding", current |-> configured, todo |-> desired \ configured]
  /\ wanted' = desired
  /\ updates' = updates + 1
  /\ winners' = {}
  /\ mixed' = (mixed \/ Picking)
  /\ judged' = {}
  /\ UNCHANGED <<configured, cancel, pick>>

(* ... what is not there is added, an error ignored ...                    *)
UpdateAdds ==
  /\ update.pc = "adding"
  /\ \/ \E k \in update.todo :
          /\ configured' \in {configured, configured \cup {k}}
          /\ update' = [update EXCEPT !.todo = @ \ {k}]
     \/ /\ update.todo = {}
        /\ update' = [update EXCEPT !.pc = "removing", !.todo = update.current \ wanted]
        /\ UNCHANGED configured
  /\ judged' = {}
  /\ UNCHANGED <<wanted, cancel, pick, updates, winners, mixed>>

(* ... and what is not desired is removed.                                 *)
UpdateRemoves ==
  /\ update.pc = "removing"
  /\ \/ \E k \in update.todo :
          /\ configured' = configured \ {k}
          /\ update' = [update EXCEPT !.todo = @ \ {k}]
     \/ /\ update.todo = {} /\ update' = Applied
        /\ UNCHANGED configured
  /\ judged' = {}
  /\ UNCHANGED <<wanted, cancel, pick, updates, winners, mixed>>

PickerNext ==
  \/ \E p \in Picks :
       \/ PickPeers(p) \/ StageA(p) \/ AddProbe(p) \/ Judge(p) \/ CancelStageB(p)
       \/ Release(p) \/ Report(p)
  \/ CancelPick
  \/ \E desired \in SUBSET Peers : UpdatePeers(desired)
  \/ UpdateAdds \/ UpdateRemoves

PickerSpec == PickerInit /\ [][PickerNext]_pickerVars

-----------------------------------------------------------------------------
(* Once no pick and no update is going on, every configured peer is one    *)
(* the app wants, or a Switch winner the app has not applied yet: however  *)
(* picks are cancelled, fail to add or overlap with each other and with    *)
(* update_peers, no probe link is left behind ("Probe links are removed on *)
(* every exit except a Switch winner").                                    *)
ProbesAreReleased == Quiet => configured \subseteq wanted \cup winners

(* A pick never removes a peer the app wants, two picks at a time included;*)
(* only an update_peers during a pick may find a probe among the           *)
(* configured peers, not add it, and lose it when the probe is released.   *)
WantedStaysConfigured == [][~mixed => wanted \cap configured \subseteq configured']_pickerVars

(* Latencies within 15 per cent of those of m.                             *)
Remeasured(m) ==
  {n \in Measurements :
     /\ n.parent = m.parent
     /\ \A k \in Peers :
          \/ n.ms[k] = m.ms[k]
          \/ m.ms[k] > 0 /\ 100 * (n.ms[k] - m.ms[k]) \in -15 * m.ms[k] .. 15 * m.ms[k]}

(* After a Switch, a second pick that has the winner as its current peer   *)
(* and measures every latency again within 15 per cent, on the same tree,  *)
(* does not switch back to a peer the first one left ("A switch needs the  *)
(* best score to beat the current one by more than this").                 *)
NoFlapping ==
  \A j \in judged :
    LET u == pick[j.by].winner
    IN \A n \in Remeasured(j.measured) :
         Verdicts(n, j.probed, {u}, j.probed \ {u}) \cap pick[j.by].enabled = {}
=============================================================================
