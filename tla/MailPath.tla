------------------------------ MODULE MailPath ------------------------------
(***************************************************************************)
(* The way of a mail's text: from a mail client through a session of the   *)
(* SMTP server (smtp/mod.rs), or from send_mail of the mobile API, into    *)
(* Outbox, and from there through the overlay dialog of two nodes          *)
(* (quic/smtp_overlay.rs) to the peer's caller, who stores it.             *)
(*                                                                         *)
(* The server takes the client's lines one by one in order and its answers *)
(* queue up until the client reads them, so that a line is sent and taken  *)
(* in one step.  Between the nodes a connection may break at any point.    *)
(* Which rows Outbox gets is the business of Outbound; here a mail is its  *)
(* text.  No line of a mail is an SMTP verb by chance.                     *)
(***************************************************************************)
EXTENDS MailText

CONSTANTS
  Lines,        \* the lines clients and other programs write in a mail
  Verb, Header, \* what follows no dot in a command and in a header line
  Rcpts,        \* recipient addresses that parse
  BadRcpts,     \* recipient addresses that do not
  MaxRcpts,     \* 50 in reply_code
  MaxData,      \* MAX_DATA_BYTES of both modules
  MaxTyped,     \* bound: lines of a text
  MaxOutbox,    \* bound: mails in Outbox at a time
  MaxUnread     \* bound: replies a client leaves unread

ASSUME MailPathAssumption ==
  /\ {Verb, Header} \subseteq Rests \ {Nothing}
  /\ Lines \subseteq {l \in Line : l.nl}
  /\ \A n \in {MaxRcpts, MaxData, MaxTyped, MaxOutbox, MaxUnread} : n \in Nat

VARIABLES
  session,  \* Session and data_buf of handle_conn
  client,   \* the mail client at the other end
  replies,  \* reply codes the client has not read
  outbox,   \* texts in Outbox; `meant' and `inStep' are history: what the
            \* writer wrote, and whether it knew which replies it read
  dialog    \* the overlay dialog in progress

submission == <<session, client, replies>>
vars       == <<submission, outbox, dialog>>

Received    == [dots |-> 0, rest |-> Header, nl |-> TRUE]
CommandLine == [dots |-> 0, rest |-> Verb,   nl |-> TRUE]

States == {"helo", "auth", "mail", "rcpt", "data"}

(* Session::new; a server without a password authenticates everyone.       *)
Fresh(authenticated) ==
  [state |-> "helo", from |-> FALSE, rcpts |-> <<>>, buf |-> <<>>,
   auth  |-> authenticated, sasl |-> "no"]

Gone     == [pc |-> "gone", said |-> "", typed |-> <<>>, inStep |-> TRUE]
NoDialog == [dialer |-> "none"]

Init ==
  /\ session = Fresh(TRUE) /\ client = Gone /\ replies = <<>>
  /\ outbox = <<>> /\ dialog = NoDialog

-----------------------------------------------------------------------------
(* The mail client.  It says a verb and waits for one reply, writes a text *)
(* only after 354, and reads nothing while it writes.                      *)
Refused == client.said = "." /\ Head(replies) # 250

Connect ==
  /\ client.pc = "gone"
  /\ \E authenticated \in BOOLEAN : session' = Fresh(authenticated)
  /\ client' = [Gone EXCEPT !.pc = "ready"]
  /\ replies' = <<>>
  /\ UNCHANGED <<outbox, dialog>>

(* Either end closes the connection, or a read or write fails.             *)
Disconnect ==
  /\ client.pc # "gone"
  /\ client' = Gone /\ replies' = <<>> /\ session' = Fresh(TRUE)
  /\ UNCHANGED <<outbox, dialog>>

ReadReply ==
  /\ client.pc = "wait" /\ replies # <<>> /\ ~Refused
  /\ replies' = Tail(replies)
  /\ client' = IF client.said = "DATA" /\ Head(replies) = 354
                 THEN [client EXCEPT !.pc = "body", !.typed = <<>>]
                 ELSE [client EXCEPT !.pc = "ready", !.said = "", !.typed = <<>>]
  /\ UNCHANGED <<session, outbox, dialog>>

(* The text was refused.  The client leaves, or goes on: after reading all *)
(* that has arrived, or with the next reply, which may answer a line of    *)
(* the text and not the client's next verb.                                *)
ReadRefusal ==
  /\ client.pc = "wait" /\ replies # <<>> /\ Refused
  /\ \/ client' = [Gone EXCEPT !.pc = "leaving"] /\ replies' = <<>>
     \/ /\ client' = [Gone EXCEPT !.pc = "ready", !.inStep = client.inStep]
        /\ replies' = <<>>
     \/ /\ client' = [Gone EXCEPT !.pc = "ready",
                         !.inStep = client.inStep /\ Tail(replies) = <<>>]
        /\ replies' = Tail(replies)
  /\ UNCHANGED <<session, outbox, dialog>>

Waits(said) ==
  /\ Len(replies) < MaxUnread
  /\ client' = [client EXCEPT !.pc = "wait", !.said = said]
Reply(code) == replies' = Append(replies, code)

-----------------------------------------------------------------------------
(* accept_mail, and data_buf.clear() after it.  Every way out ends the     *)
(* transaction.  A storage error rolls back and answers 451.               *)
EndedKeepsText(s) == [s EXCEPT !.state = "mail", !.from = FALSE, !.rcpts = <<>>]

Ended(s) == [s EXCEPT !.state = "mail", !.from = FALSE, !.rcpts = <<>>, !.buf = <<>>]

AcceptMail ==
  /\ session' = Ended(session)
  /\ \/ /\ \E i \in DOMAIN session.rcpts : session.rcpts[i] \in BadRcpts
        /\ Reply(550) /\ UNCHANGED outbox
     \/ Reply(451) /\ UNCHANGED outbox
     \/ /\ \A i \in DOMAIN session.rcpts : session.rcpts[i] \notin BadRcpts
        /\ outbox' = Append(outbox, [text   |-> <<Received>> \o session.buf,
                                     meant  |-> <<Received>> \o client.typed,
                                     inStep |-> client.inStep])
        /\ Reply(250)

(* A line while the session receives a text: the end of it, too much of    *)
(* it, or one more line.  After 552 the session is back at commands,       *)
(* although the client still writes its text.                              *)
DataLine(w) ==
  IF w = Terminator THEN AcceptMail
  ELSE /\ UNCHANGED outbox
       /\ IF Len(session.buf) + 1 > MaxData
            THEN session' = Ended(session) /\ Reply(552)
            ELSE /\ session' = [session EXCEPT !.buf = Append(@, Unstuffed(w))]
                 /\ UNCHANGED replies

(* A line of a text that arrives where a command is expected.              *)
TextAsCommand == Reply(500) /\ UNCHANGED <<session, outbox>>

TakeLine(w) == IF session.state = "data" THEN DataLine(w) ELSE TextAsCommand

WriteLine(l) ==
  /\ client.pc = "body" /\ Len(client.typed) < MaxTyped
  /\ client' = [client EXCEPT !.typed = Append(@, l)]
  /\ TakeLine(Stuffed(l))
  /\ UNCHANGED dialog

WriteDot ==
  /\ client.pc = "body" /\ Len(outbox) < MaxOutbox
  /\ Waits(".")
  /\ TakeLine(Terminator)
  /\ UNCHANGED dialog

(* A verb said to a session that receives a text is a line of that text.   *)
SaidIntoText(said) ==
  /\ client.pc = "ready" /\ session.state = "data" /\ Len(session.buf) < MaxTyped
  /\ Waits(said)
  /\ DataLine(CommandLine)
  /\ UNCHANGED dialog

-----------------------------------------------------------------------------
(* reply_code, one action per verb.                                        *)
Says(said) ==
  /\ client.pc = "ready" /\ session.state # "data" /\ session.sasl = "no"
  /\ Waits(said)
  /\ UNCHANGED <<outbox, dialog>>

(* HELO and EHLO reset the transaction at any point.                       *)
HeloKeepsSender ==
  /\ Says("HELO")
  /\ session' = [session EXCEPT !.state = IF session.auth THEN "mail" ELSE "auth"]
  /\ Reply(250)

Helo ==
  /\ Says("HELO")
  /\ session' = [Ended(session) EXCEPT !.state = IF session.auth THEN "mail" ELSE "auth"]
  /\ Reply(250)

(* An empty address is 501; one that parses must be the node's own; one    *)
(* that does not parse is taken.                                           *)
MailFrom ==
  /\ Says("MAIL")
  /\ \/ /\ session.state = "mail"
        /\ session' = [session EXCEPT !.from = TRUE, !.rcpts = <<>>, !.state = "rcpt"]
        /\ Reply(250)
     \/ /\ session.state = "mail"
        /\ \E code \in {501, 550} : Reply(code)
        /\ UNCHANGED session
     \/ session.state # "mail" /\ Reply(503) /\ UNCHANGED session

RcptTo ==
  /\ Says("RCPT")
  /\ \/ /\ session.state = "rcpt" /\ Len(session.rcpts) < MaxRcpts
        /\ \E r \in Rcpts \cup BadRcpts :
             session' = [session EXCEPT !.rcpts = Append(@, r)]
        /\ Reply(250)
     \/ /\ session.state = "rcpt"
        /\ Reply(IF Len(session.rcpts) < MaxRcpts THEN 501 ELSE 552)
        /\ UNCHANGED session
     \/ session.state # "rcpt" /\ Reply(503) /\ UNCHANGED session

Data ==
  /\ Says("DATA")
  /\ IF session.state = "rcpt" /\ session.rcpts # <<>>
       THEN session' = [session EXCEPT !.state = "data"] /\ Reply(354)
       ELSE Reply(503) /\ UNCHANGED session

Rset == Says("RSET") /\ session' = Ended(session) /\ Reply(250)

(* NOOP, a verb nobody knows, and AUTH LOGIN where it is not expected.     *)
Other ==
  /\ Says("NOOP")
  /\ \E code \in {250, 500, 503} : Reply(code)
  /\ UNCHANGED session

(* AUTH LOGIN: two challenges and what the client answers to them.         *)
AuthLogin ==
  /\ Says("AUTH") /\ session.state = "auth"
  /\ session' = [session EXCEPT !.sasl = "user"]
  /\ Reply(334)

Username ==
  /\ client.pc = "ready" /\ session.sasl = "user"
  /\ session' = [session EXCEPT !.sasl = "pass"]
  /\ Waits("user") /\ Reply(334)
  /\ UNCHANGED <<outbox, dialog>>

Password ==
  /\ client.pc = "ready" /\ session.sasl = "pass"
  /\ \/ /\ session' = [session EXCEPT !.sasl = "no", !.auth = TRUE, !.state = "mail"]
        /\ Reply(235)
     \/ session' = [session EXCEPT !.sasl = "no"] /\ Reply(535)
  /\ Waits("pass")
  /\ UNCHANGED <<outbox, dialog>>

(* send_mail of the mobile API: headers and a body on one line, without a  *)
(* newline at its end.                                                     *)
SendMail(l) ==
  /\ Len(outbox) < MaxOutbox
  /\ LET text == <<Received, [l EXCEPT !.nl = FALSE]>>
     IN outbox' = Append(outbox, [text |-> text, meant |-> text, inStep |-> TRUE])
  /\ UNCHANGED <<submission, dialog>>

-----------------------------------------------------------------------------
(* The overlay dialog: overlay_send_stream at the dialer, and              *)
(* overlay_serve_stream at the peer, which greets first.                   *)
Dialog(dialer, text) ==
  [dialer |-> dialer, text |-> text, up |-> <<>>, down |-> <<220>>,
   server |-> "command", from |-> FALSE, rcpt |-> FALSE, out |-> <<>>]

Dial ==
  /\ dialog = NoDialog /\ outbox # <<>>
  /\ dialog' = Dialog("greeting", Head(outbox).text)
  /\ UNCHANGED <<submission, outbox>>

(* Another program at the dialer's end, such as version 1.8.               *)
OtherDials ==
  /\ dialog = NoDialog
  /\ dialog' = Dialog("other", <<>>)
  /\ UNCHANGED <<submission, outbox>>

(* The connection breaks, the dialog exceeds its budget, either end fails. *)
(* The mail stays in Outbox.                                               *)
Break ==
  /\ dialog # NoDialog
  /\ dialog' = NoDialog
  /\ UNCHANGED <<submission, outbox>>

Following == [greeting |-> "EHLO", EHLO |-> "MAIL", MAIL |-> "RCPT",
              RCPT |-> "DATA", DATA |-> "text"]

Expected(dialer) == IF dialer = "DATA" THEN 354 ELSE IF dialer = "greeting" THEN 220 ELSE 250

(* expect_code and the next thing to write: a verb, or the whole text with *)
(* the dot that ends it.                                                   *)
DialerGoesOn ==
  /\ dialog.dialer \in DOMAIN Following
  /\ dialog.down # <<>> /\ Head(dialog.down) = Expected(dialog.dialer)
  /\ LET next == Following[dialog.dialer]
     IN dialog' = [dialog EXCEPT
          !.dialer = next, !.down = Tail(@),
          !.up = IF next = "text" THEN Append(WireOf(dialog.text), Terminator)
                                  ELSE <<next>>]
  /\ UNCHANGED <<submission, outbox>>

(* 250 for the text: the mail leaves Outbox.                               *)
DialerDone ==
  /\ dialog.dialer = "text" /\ dialog.down # <<>> /\ Head(dialog.down) = 250
  /\ dialog' = NoDialog
  /\ outbox' = Tail(outbox)
  /\ UNCHANGED submission

(* Any other reply is an error.                                            *)
DialerFails ==
  /\ dialog.dialer \in DOMAIN Following \cup {"text"}
  /\ dialog.down # <<>> /\ Head(dialog.down) # Expected(dialog.dialer)
  /\ dialog' = NoDialog
  /\ UNCHANGED <<submission, outbox>>

(* The other program: any verb after any reply, a text after 354.          *)
OtherGoesOn ==
  /\ dialog.dialer = "other" /\ dialog.up = <<>> /\ dialog.down # <<>>
  /\ \/ /\ Head(dialog.down) = 354
        /\ \E l, k \in Lines : \E text \in {<<>>, <<l>>, <<l, k>>} :
             dialog' = [dialog EXCEPT !.down = <<>>, !.text = text,
                          !.up = Append(WireOf(text), Terminator)]
     \/ /\ Head(dialog.down) # 354
        /\ \E verb \in {"EHLO", "MAIL", "stranger", "RCPT", "nobody", "DATA", "NOOP", "QUIT"} :
             dialog' = [dialog EXCEPT !.down = <<>>, !.up = <<verb>>]
  /\ UNCHANGED <<submission, outbox>>

(* The server's end of the loop: a reply and how it goes on.               *)
Answer(d, code) == [d EXCEPT !.up = Tail(@), !.down = Append(@, code)]
Leave(d)        == [d EXCEPT !.server = "ended"]

ServeCommand ==
  /\ dialog # NoDialog /\ dialog.server = "command" /\ dialog.up # <<>>
  /\ LET verb == Head(dialog.up)
         d    == dialog
     IN dialog' =
          CASE verb = "MAIL"     -> Answer([d EXCEPT !.from = TRUE], 250)
            [] verb = "stranger" -> Leave(Answer(d, 550))
            [] verb = "RCPT"     -> Answer([d EXCEPT !.rcpt = TRUE], 250)
            [] verb = "nobody"   -> Answer(d, 550)
            [] verb = "DATA"     -> IF d.from /\ d.rcpt
                                      THEN Answer([d EXCEPT !.server = "data"], 354)
                                      ELSE Leave(Answer(d, 503))
            [] verb = "QUIT"     -> Leave(Answer(d, 221))
            [] OTHER             -> Answer(d, 250)
  /\ UNCHANGED <<submission, outbox>>

(* read_data, one line of it.                                              *)
ReadData ==
  /\ dialog # NoDialog /\ dialog.server = "data" /\ dialog.up # <<>>
  /\ LET w == Head(dialog.up)
     IN dialog' =
          IF w = Terminator
            THEN [dialog EXCEPT !.server = "handed", !.up = Tail(@)]
          ELSE IF Len(dialog.out) + 1 > MaxData THEN Leave(Answer(dialog, 552))
          ELSE [dialog EXCEPT !.out = Append(@, Unstuffed(w)), !.up = Tail(@)]
  /\ UNCHANGED <<submission, outbox>>

(* write_data_reply: whether the caller stored the mail.                   *)
WriteDataReply ==
  /\ dialog # NoDialog /\ dialog.server = "handed"
  /\ \E durable \in BOOLEAN :
       dialog' = Leave([dialog EXCEPT !.down = Append(@, IF durable THEN 250 ELSE 451)])
  /\ UNCHANGED <<submission, outbox>>

-----------------------------------------------------------------------------
Submission ==
  \/ Connect \/ Disconnect \/ ReadReply \/ ReadRefusal
  \/ \E l \in Lines : WriteLine(l)
  \/ WriteDot
  \/ \E said \in {"MAIL", "RCPT", "DATA", "RSET"} : SaidIntoText(said)
  \/ Helo \/ MailFrom \/ RcptTo \/ Data \/ Rset \/ Other
  \/ AuthLogin \/ Username \/ Password

Overlay ==
  \/ Dial \/ OtherDials \/ Break
  \/ DialerGoesOn \/ DialerDone \/ DialerFails \/ OtherGoesOn
  \/ ServeCommand \/ ReadData \/ WriteDataReply

Next == Submission \/ Overlay \/ \E l \in Lines : SendMail(l)

Spec == Init /\ [][Next]_vars

-----------------------------------------------------------------------------
(* A session holds a sender and recipients exactly as its state says, and  *)
(* text only while it receives one, so that accept_mail always has a       *)
(* sender (its 503 is never sent) and no text reaches a later mail; the    *)
(* peer takes a text only after a sender and a recipient.                  *)
SessionOK ==
  /\ session.state \in States
  /\ session.from = (session.state \in {"rcpt", "data"})
  /\ session.rcpts # <<>> => session.from
  /\ session.state = "data" => session.rcpts # <<>>
  /\ session.buf # <<>> => session.state = "data"
  /\ session.sasl # "no" => session.state = "auth"
  /\ dialog # NoDialog =>
       /\ dialog.server \in {"command", "data", "handed", "ended"}
       /\ dialog.server \in {"data", "handed"} => dialog.from /\ dialog.rcpt
       /\ Len(dialog.out) <= MaxData

(* A mail arrives as it was written: Outbox has the client's lines of this *)
(* transaction and no others, whatever dots they begin with, under the     *)
(* Received header; and what the peer hands to its caller is the text that *)
(* was sent, with a newline after its last line.  It is promised to a      *)
(* client that has read the reply to everything it said before.            *)
BodyIsWhole ==
  /\ \A i \in DOMAIN outbox : outbox[i].inStep => outbox[i].text = outbox[i].meant
  /\ dialog # NoDialog /\ dialog.server = "handed" =>
       dialog.out = Completed(dialog.text)
=============================================================================
