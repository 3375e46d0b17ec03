----------------------------- MODULE MCMailPath -----------------------------
EXTENDS MailPath

(* The lines `x', `.' and `..x'.                                           *)
DotLines == {[dots |-> 0, rest |-> "x", nl |-> TRUE],
             [dots |-> 1, rest |-> "", nl |-> TRUE],
             [dots |-> 2, rest |-> "x", nl |-> TRUE]}

=============================================================================
