------------------------------ MODULE MailText ------------------------------
(***************************************************************************)
(* The text of a mail on its way through two SMTP dialogs, as far as       *)
(* dot-stuffing, the end of the text and its size can tell lines apart: a  *)
(* line is its leading dots, what follows them, and whether a newline ends *)
(* it, which only the last line of a text may lack.  Sizes count lines.    *)
(***************************************************************************)
EXTENDS Integers, Sequences

CONSTANTS
  Rests,     \* what can follow the leading dots of a line
  Nothing    \* the one that is empty

ASSUME MailTextAssumption == Nothing \in Rests

Line == [dots : Nat, rest : Rests, nl : BOOLEAN]

(* The line that ends a text: a dot and a newline, nothing else.           *)
Terminator == [dots |-> 1, rest |-> Nothing, nl |-> TRUE]

(* One more dot before a leading dot.                                      *)
Stuffed(l) == IF l.dots > 0 THEN [l EXCEPT !.dots = @ + 1] ELSE l

(* Only a line that starts with two dots loses one.                        *)
Unstuffed(l) == IF l.dots >= 2 THEN [l EXCEPT !.dots = @ - 1] ELSE l

(* write_dot_stuffed: every line stuffed, and a newline after a last line  *)
(* that has none.                                                          *)
WireOf(text) == [i \in 1 .. Len(text) |-> [Stuffed(text[i]) EXCEPT !.nl = TRUE]]

(* The text with its last newline.                                         *)
Completed(text) == [i \in 1 .. Len(text) |-> [text[i] EXCEPT !.nl = TRUE]]
=============================================================================
