---------------------------- MODULE MailDelivery ----------------------------
(***************************************************************************)
(* What the transfer between two nodes promises, whatever carries it: a    *)
(* mail handed over stays with its sender until the recipient holds a      *)
(* copy, and the recipient may hold more than one.                         *)
(***************************************************************************)
EXTENDS Naturals

CONSTANT Msgs

VARIABLES
  pending,      \* mails the sender still answers for
  copies        \* per mail: how many copies the recipient has stored

vars == <<pending, copies>>

Init == pending = {} /\ copies = [m \in Msgs |-> 0]

Submit(m) ==
  /\ m \notin pending /\ copies[m] = 0
  /\ pending' = pending \cup {m}
  /\ UNCHANGED copies

Store(m) ==
  /\ m \in pending \/ copies[m] > 0
  /\ copies' = [copies EXCEPT ![m] = @ + 1]
  /\ UNCHANGED pending

Settle(m) ==
  /\ m \in pending
  /\ copies[m] > 0
  /\ pending' = pending \ {m}
  /\ UNCHANGED copies

Next == \E m \in Msgs : Submit(m) \/ Store(m) \/ Settle(m)

Spec == Init /\ [][Next]_vars

(* Every mail handed over is settled in the end.                           *)
EventuallySettled == \A m \in Msgs : m \in pending ~> m \notin pending
=============================================================================
