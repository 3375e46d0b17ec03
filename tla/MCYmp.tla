------------------------------- MODULE MCYmp -------------------------------
EXTENDS Ymp

CONSTANTS m1, m2

(* One segment and two segments of 2 bytes; the last segment is short.     *)
ShortLengths == m1 :> 1 @@ m2 :> 3
=============================================================================
