----------------------------- MODULE MCOutbound -----------------------------
(***************************************************************************)
(* Time passes at any time, but the clock is read in one place: the store  *)
(* of a mail to oneself.  A tick that comes elsewhere commutes with all    *)
(* steps up to the next store, so only those right before a store are      *)
(* explored.                                                               *)
(***************************************************************************)
EXTENDS Outbound

MCNext == NodeActs \/ (snd.pc = "local" /\ TimePasses)

MCSpec == Init /\ [][MCNext]_vars /\ Fairness
=============================================================================
