------------------------------ MODULE MCPicker ------------------------------
EXTENDS Picker, TLC

(* Two nodes, either the root of the other: a score of 34 is 85 per cent    *)
(* of 40, and 39 is within 15 per cent of 34, as 17 is of 20.  A link that *)
(* is down, an ancestry that has not come.                                 *)
Measured ==
  [ms : {<<34, 20>>, <<34, 17>>, <<39, 17>>}, parent : {<<1, 1>>, <<2, 2>>}]
    \cup {[ms |-> <<34, Down>>, parent |-> <<1, 1>>], [ms |-> <<34, 17>>, parent |-> <<0, 2>>]}

AnyPick == Permutations(Picks)
=============================================================================
