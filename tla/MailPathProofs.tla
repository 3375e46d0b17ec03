--------------------------- MODULE MailPathProofs ---------------------------
(***************************************************************************)
(* Proofs about the way of a mail's text, for any lines, recipients and    *)
(* limits: dot-stuffing undoes itself, a session never mixes two mails,    *)
(* and a text arrives whole.                                               *)
(***************************************************************************)
EXTENDS MailPath, SequenceTheorems, TLAPS

-----------------------------------------------------------------------------
(* A stuffed line is a line, is never taken for the end of the text, and   *)
(* gives the line back.                                                    *)
LEMMA StuffedLine ==
  ASSUME NEW l \in Line
  PROVE  /\ Stuffed(l) \in Line /\ Unstuffed(l) \in Line
         /\ Stuffed(l) # Terminator
         /\ Unstuffed(Stuffed(l)) = l
<1>1. Stuffed(l) \in Line /\ Unstuffed(l) \in Line
  BY DEF Stuffed, Unstuffed, Line
<1>2. Stuffed(l) # Terminator
  <2>1. Terminator.dots = 1
    BY DEF Terminator
  <2>2. Stuffed(l).dots # 1
    BY DEF Stuffed, Line
  <2> QED BY <2>1, <2>2
<1>3. Unstuffed(Stuffed(l)) = l
  <2>1. CASE l.dots = 0
    BY <2>1 DEF Stuffed, Unstuffed
  <2>2. CASE l.dots > 0
    <3>1. /\ Stuffed(l).dots = l.dots + 1 /\ Stuffed(l).dots >= 2
          /\ Stuffed(l).rest = l.rest /\ Stuffed(l).nl = l.nl
      BY <2>2 DEF Stuffed, Line
    <3> DEFINE s == Stuffed(l)
               u == Unstuffed(s)
    <3>2. s \in Line
      BY <1>1
    <3>3. u.dots = s.dots - 1 /\ u.rest = s.rest /\ u.nl = s.nl /\ u \in Line
      <4> HIDE DEF s
      <4>1. s.dots >= 2
        BY <3>1 DEF s
      <4>2. u = [s EXCEPT !.dots = @ - 1]
        BY <4>1 DEF Unstuffed
      <4>3. u \in Line
        BY <3>2, <4>1 DEF Unstuffed, Line
      <4> QED BY <3>2, <4>2, <4>3 DEF Line
    <3>4. u.dots = l.dots /\ u.rest = l.rest /\ u.nl = l.nl
      <4> HIDE DEF u
      <4> QED BY <3>1, <3>3 DEF Line
    <3> HIDE DEF u
    <3>5. u = [dots |-> l.dots, rest |-> l.rest, nl |-> l.nl]
      BY <3>3, <3>4 DEF Line
    <3>6. l = [dots |-> l.dots, rest |-> l.rest, nl |-> l.nl]
      BY DEF Line
    <3>7. u = l
      BY <3>5, <3>6
    <3> QED BY <3>7 DEF u
  <2> QED BY <2>1, <2>2 DEF Line
<1> QED BY <1>1, <1>2, <1>3

LEMMA TerminatorIsLine == Terminator \in Line
BY MailTextAssumption DEF Terminator, Line

(* The lines of a text on the wire, and what the reader makes of them.     *)
LEMMA WireLines ==
  ASSUME NEW text \in Seq(Line)
  PROVE  /\ WireOf(text) \in Seq(Line) /\ Len(WireOf(text)) = Len(text)
         /\ Completed(text) \in Seq(Line) /\ Len(Completed(text)) = Len(text)
         /\ \A i \in 1 .. Len(text) :
              WireOf(text)[i] # Terminator /\ Unstuffed(WireOf(text)[i]) = Completed(text)[i]
<1> DEFINE finished(l) == [l EXCEPT !.nl = TRUE]
<1>1. ASSUME NEW l \in Line
      PROVE  /\ finished(l) \in Line
             /\ finished(Stuffed(l)) = Stuffed(finished(l))
  BY DEF Line, Stuffed
<1>2. ASSUME NEW i \in 1 .. Len(text)
      PROVE  /\ WireOf(text)[i] \in Line /\ Completed(text)[i] \in Line
             /\ WireOf(text)[i] # Terminator
             /\ Unstuffed(WireOf(text)[i]) = Completed(text)[i]
  <2>1. text[i] \in Line
    OBVIOUS
  <2>2. finished(text[i]) \in Line
    BY <1>1, <2>1
  <2>3. WireOf(text)[i] = Stuffed(finished(text[i])) /\ Completed(text)[i] = finished(text[i])
    BY <1>1, <2>1 DEF WireOf, Completed
  <2> HIDE DEF finished
  <2> QED BY <2>2, <2>3, StuffedLine
<1>3. WireOf(text) \in [1 .. Len(text) -> Line] /\ Completed(text) \in [1 .. Len(text) -> Line]
  BY <1>2 DEF WireOf, Completed
<1>4. Len(text) \in Nat
  OBVIOUS
<1>5. WireOf(text) \in Seq(Line) /\ Completed(text) \in Seq(Line)
  BY <1>3, <1>4, SeqDef
<1>6. Len(WireOf(text)) = Len(text) /\ Len(Completed(text)) = Len(text)
  BY <1>3, <1>4, <1>5, LenProperties
<1> QED BY <1>2, <1>5, <1>6

-----------------------------------------------------------------------------
(* The session and its client.                                             *)
SessionType ==
  [state : States, from : BOOLEAN, rcpts : Seq(Rcpts \cup BadRcpts), buf : Seq(Line),
   auth : BOOLEAN, sasl : {"no", "user", "pass"}]

Sayings ==
  {"", ".", "HELO", "MAIL", "RCPT", "DATA", "RSET", "NOOP", "AUTH", "user", "pass"}

ClientType ==
  [pc : {"gone", "ready", "wait", "body", "leaving"}, said : Sayings, typed : Seq(Line),
   inStep : BOOLEAN]

MailType == [text : Seq(Line), meant : Seq(Line), inStep : BOOLEAN]

SubmissionTypes ==
  /\ session \in SessionType /\ client \in ClientType
  /\ replies \in Seq(Int) /\ outbox \in Seq(MailType)

(* What a session holds goes with its state.                               *)
Coherent(s) ==
  /\ s.from <=> s.state \in {"rcpt", "data"}
  /\ s.rcpts # <<>> => s.state \in {"rcpt", "data"}
  /\ s.state = "data" => s.rcpts # <<>>
  /\ s.buf # <<>> => s.state = "data"
  /\ s.sasl # "no" => s.state = "auth"

(* A client that knows which replies it reads has none outstanding before  *)
(* it speaks and one after it spoke; the session receives a text exactly   *)
(* while the client writes it, until it refuses it.                        *)
InStep(s, c, r) ==
  /\ c.pc = "ready" => r = <<>> /\ s.state # "data"
  /\ c.pc = "wait" /\ c.said # "." =>
       /\ r = <<Head(r)>> /\ s.buf = <<>>
       /\ s.state = "data" <=> c.said = "DATA" /\ Head(r) = 354
  /\ c.pc = "wait" /\ c.said = "." =>
       /\ r # <<>> /\ s.state # "data"
       /\ Head(r) = 250 => Tail(r) = <<>>
  /\ c.pc = "body" =>
       \/ s.state = "data" /\ r = <<>> /\ s.buf = c.typed
       \/ s.state # "data" /\ r # <<>> /\ Head(r) # 250

MailsAreMeant == \A i \in DOMAIN outbox : outbox[i].inStep => outbox[i].text = outbox[i].meant

SubmissionInv ==
  /\ SubmissionTypes /\ Coherent(session) /\ MailsAreMeant
  /\ client.inStep => InStep(session, client, replies)

LEMMA EndedSession ==
  ASSUME NEW s \in SessionType
  PROVE  /\ Ended(s) \in SessionType
         /\ Ended(s).state = "mail" /\ Ended(s).from = FALSE
         /\ Ended(s).rcpts = <<>> /\ Ended(s).buf = <<>>
         /\ Ended(s).auth = s.auth /\ Ended(s).sasl = s.sasl
<1>1. Ended(s) \in SessionType
  BY EmptySeq DEF Ended, SessionType, States
<1>2. Ended(s).state = "mail" /\ Ended(s).from = FALSE
  BY DEF Ended, SessionType
<1>3. Ended(s).rcpts = <<>> /\ Ended(s).buf = <<>>
  BY DEF Ended, SessionType
<1>4. Ended(s).auth = s.auth /\ Ended(s).sasl = s.sasl
  BY DEF Ended, SessionType
<1> QED BY <1>1, <1>2, <1>3, <1>4

LEMMA FreshSession ==
  ASSUME NEW a \in BOOLEAN
  PROVE  Fresh(a) \in SessionType /\ Coherent(Fresh(a)) /\ Fresh(a).state = "helo"
BY DEF Fresh, SessionType, States, Coherent

(* A session after one of its fields has changed.                          *)
LEMMA SessionFields ==
  ASSUME NEW s \in SessionType
  PROVE  /\ s.state \in States /\ s.from \in BOOLEAN /\ s.auth \in BOOLEAN
         /\ s.rcpts \in Seq(Rcpts \cup BadRcpts) /\ s.buf \in Seq(Line)
         /\ s.sasl \in {"no", "user", "pass"}
BY DEF SessionType

LEMMA GoneClient ==
  /\ Gone \in ClientType /\ Gone.pc = "gone" /\ Gone.inStep = TRUE
  /\ [Gone EXCEPT !.pc = "ready"] \in ClientType
  /\ [Gone EXCEPT !.pc = "leaving"] \in ClientType
  /\ \A b \in BOOLEAN : [Gone EXCEPT !.pc = "ready", !.inStep = b] \in ClientType
<1>1. Gone \in ClientType /\ Gone.pc = "gone" /\ Gone.inStep = TRUE
  BY EmptySeq DEF Gone, ClientType, Sayings
<1>2. [Gone EXCEPT !.pc = "ready"] \in ClientType
  BY EmptySeq DEF Gone, ClientType, Sayings
<1>3. [Gone EXCEPT !.pc = "leaving"] \in ClientType
  BY EmptySeq DEF Gone, ClientType, Sayings
<1>4. ASSUME NEW b \in BOOLEAN
      PROVE  [Gone EXCEPT !.pc = "ready", !.inStep = b] \in ClientType
  BY EmptySeq DEF Gone, ClientType, Sayings
<1> QED BY <1>1, <1>2, <1>3, <1>4

(* The mail that accept_mail, or send_mail, appends.                       *)
LEMMA AppendMail ==
  ASSUME SubmissionTypes, MailsAreMeant, NEW mail \in MailType,
         mail.inStep => mail.text = mail.meant,
         outbox' = Append(outbox, mail)
  PROVE  outbox' \in Seq(MailType) /\ MailsAreMeant'
<1>1. /\ outbox' \in Seq(MailType) /\ Len(outbox') = Len(outbox) + 1
      /\ \A i \in 1 .. Len(outbox) : outbox'[i] = outbox[i]
      /\ outbox'[Len(outbox) + 1] = mail
  BY AppendProperties DEF SubmissionTypes
<1>2. \A i \in DOMAIN outbox' : i \in 1 .. Len(outbox) \/ i = Len(outbox) + 1
  BY <1>1 DEF SubmissionTypes
<1>3. DOMAIN outbox = 1 .. Len(outbox)
  BY DEF SubmissionTypes
<1> QED BY <1>1, <1>2, <1>3 DEF MailsAreMeant

LEMMA SubmissionInit == Init => SubmissionInv
<1> SUFFICES ASSUME Init PROVE SubmissionInv
  OBVIOUS
<1> USE DEF Init
<1>1. session \in SessionType /\ Coherent(session)
  BY FreshSession
<1>4. client \in ClientType
  BY GoneClient
<1>5. SubmissionTypes
  BY <1>1, <1>4, EmptySeq DEF SubmissionTypes
<1>2. MailsAreMeant
  BY DEF MailsAreMeant
<1>3. InStep(session, client, replies)
  BY GoneClient DEF InStep
<1> QED BY <1>1, <1>2, <1>3, <1>5 DEF SubmissionInv


(* The client waits for an answer to what it said.                         *)
LEMMA ClientWaits ==
  ASSUME client \in ClientType, NEW said \in Sayings, Waits(said)
  PROVE  /\ client' \in ClientType /\ client'.pc = "wait" /\ client'.said = said
         /\ client'.typed = client.typed /\ client'.inStep = client.inStep
<1>1. client' = [client EXCEPT !.pc = "wait", !.said = said]
  BY DEF Waits
<1>2. client' \in ClientType
  BY <1>1 DEF ClientType
<1>3. client'.pc = "wait" /\ client'.said = said /\ client'.typed = client.typed
  BY <1>1 DEF ClientType
<1>4. client'.inStep = client.inStep
  BY <1>1 DEF ClientType
<1> QED BY <1>2, <1>3, <1>4

LEMMA OneMoreReply ==
  ASSUME NEW r \in Seq(Int), NEW code \in Int
  PROVE  /\ Append(r, code) \in Seq(Int) /\ Append(r, code) # <<>>
         /\ r = <<>> => /\ Append(r, code) = <<Head(Append(r, code))>>
                        /\ Head(Append(r, code)) = code
                        /\ Tail(Append(r, code)) = <<>>
         /\ r # <<>> => Head(Append(r, code)) = Head(r)
<1>1. Append(r, code) \in Seq(Int) /\ Append(r, code) # <<>>
  <2>1. Append(r, code) \in Seq(Int) /\ Len(Append(r, code)) = Len(r) + 1 /\ Len(r) \in Nat
    BY AppendProperties, LenProperties
  <2> QED BY <2>1, EmptySeq
<1>2. ASSUME r = <<>>
      PROVE  /\ Append(r, code) = <<Head(Append(r, code))>>
             /\ Head(Append(r, code)) = code /\ Tail(Append(r, code)) = <<>>
  BY <1>2
<1>3. ASSUME r # <<>> PROVE Head(Append(r, code)) = Head(r)
  BY <1>3
<1> QED BY <1>1, <1>2, <1>3

(* A verb, or an answer to a challenge, and its reply.                     *)
LEMMA CommandStep ==
  ASSUME SubmissionInv, client.pc = "ready",
         NEW said \in Sayings, said # ".", Waits(said), NEW code \in Int, Reply(code),
         session' \in SessionType, Coherent(session'), session'.buf = <<>>,
         \/ session'.state # "data" /\ code # 354
         \/ session'.state = "data" /\ code = 354 /\ said = "DATA",
         UNCHANGED outbox
  PROVE  SubmissionInv'
<1> USE DEF SubmissionInv, SubmissionTypes
<1>1. /\ client' \in ClientType /\ client'.pc = "wait" /\ client'.said = said
      /\ client'.inStep = client.inStep
  BY ClientWaits
<1>2. replies' = Append(replies, code) /\ replies' \in Seq(Int)
  BY OneMoreReply DEF Reply
<1>3. MailsAreMeant'
  BY DEF MailsAreMeant
<1>4. ASSUME client.inStep PROVE InStep(session', client', replies')
  <2>1. replies = <<>>
    BY <1>4 DEF InStep
  <2>2. replies' = <<Head(replies')>> /\ Head(replies') = code
    BY <1>2, <2>1, OneMoreReply
  <2> QED BY <1>1, <2>2 DEF InStep
<1>5. client'.inStep => InStep(session', client', replies')
  BY <1>1, <1>4
<1> QED BY <1>1, <1>2, <1>3, <1>5

(* A command that does not begin a text.                                   *)
LEMMA PlainStep ==
  ASSUME SubmissionInv, client.pc = "ready", UNCHANGED outbox,
         \E said \in Sayings \ {"."} : Waits(said),
         \E code \in Int \ {354} : Reply(code),
         session' \in SessionType, Coherent(session'), session'.buf = <<>>,
         session'.state # "data"
  PROVE  SubmissionInv'
<1>1. PICK said \in Sayings \ {"."} : Waits(said)
  OBVIOUS
<1>2. PICK code \in Int \ {354} : Reply(code)
  OBVIOUS
<1> QED BY <1>1, <1>2, CommandStep

(* The end of a text: the session is at commands again.                    *)
LEMMA AcceptStep ==
  ASSUME SubmissionInv, session.state = "data", AcceptMail,
         client.inStep => session.buf = client.typed
  PROVE  /\ session' \in SessionType /\ Coherent(session') /\ session'.state # "data"
         /\ outbox' \in Seq(MailType) /\ MailsAreMeant'
         /\ \E code \in Int : Reply(code)
<1> USE DEF SubmissionInv, SubmissionTypes
<1>1. session' = Ended(session) /\ session.sasl = "no"
  BY DEF AcceptMail, Coherent, SessionType
<1>2. session' \in SessionType /\ Coherent(session') /\ session'.state # "data"
  BY <1>1, EndedSession DEF Coherent
<1>3. \E code \in Int : Reply(code)
  BY DEF AcceptMail
<1>4. outbox' \in Seq(MailType) /\ MailsAreMeant'
  <2>1. CASE UNCHANGED outbox
    BY <2>1 DEF MailsAreMeant
  <2>2. CASE outbox' = Append(outbox, [text   |-> <<Received>> \o session.buf,
                                       meant  |-> <<Received>> \o client.typed,
                                       inStep |-> client.inStep])
    <3> DEFINE mail == [text   |-> <<Received>> \o session.buf,
                        meant  |-> <<Received>> \o client.typed,
                        inStep |-> client.inStep]
    <3>1. Received \in Line
      BY MailPathAssumption DEF Received, Line
    <3>2. session.buf \in Seq(Line) /\ client.typed \in Seq(Line) /\ client.inStep \in BOOLEAN
      BY DEF SessionType, ClientType
    <3>3. <<Received>> \o session.buf \in Seq(Line) /\ <<Received>> \o client.typed \in Seq(Line)
      BY <3>1, <3>2
    <3>4. mail \in MailType
      BY <3>2, <3>3 DEF MailType
    <3>5. mail.inStep => mail.text = mail.meant
      BY DEF MailType
    <3> HIDE DEF mail
    <3> QED BY <2>2, <3>4, <3>5, AppendMail DEF mail
  <2> QED BY <2>1, <2>2 DEF AcceptMail
<1> QED BY <1>2, <1>3, <1>4

(* Another line of a text: it is kept without the dot, or is too much.     *)
LEMMA TextLineStep ==
  ASSUME SubmissionInv, session.state = "data",
         NEW w \in Line, w # Terminator, DataLine(w)
  PROVE  /\ session' \in SessionType /\ Coherent(session') /\ UNCHANGED outbox
         /\ \/ session'.state # "data" /\ Reply(552)
            \/ /\ session'.state = "data" /\ UNCHANGED replies
               /\ session'.buf = Append(session.buf, Unstuffed(w))
<1> USE DEF SubmissionInv, SubmissionTypes
<1>1. session.sasl = "no" /\ session.buf \in Seq(Line) /\ session.rcpts # <<>> /\ session.from
  BY DEF Coherent, SessionType
<1>2. CASE session' = Ended(session) /\ Reply(552)
  BY <1>1, <1>2, EndedSession DEF Coherent, DataLine
<1>3. CASE session' = [session EXCEPT !.buf = Append(@, Unstuffed(w))] /\ UNCHANGED replies
  <2>1. Append(session.buf, Unstuffed(w)) \in Seq(Line)
    BY <1>1, StuffedLine
  <2>2. session' \in SessionType
    BY <1>3, <2>1 DEF SessionType
  <2>3. /\ session'.buf = Append(session.buf, Unstuffed(w))
        /\ session'.state = session.state /\ session'.rcpts = session.rcpts
        /\ session'.sasl = session.sasl
    BY <1>3 DEF SessionType
  <2>4. session'.from = session.from
    BY <1>3 DEF SessionType
  <2>5. Coherent(session')
    BY <1>1, <2>3, <2>4 DEF Coherent
  <2> QED BY <1>3, <2>2, <2>3, <2>5 DEF DataLine
<1> QED BY <1>2, <1>3 DEF DataLine

LEMMA WriteLineStep ==
  ASSUME SubmissionInv, NEW l \in Lines, WriteLine(l)
  PROVE  SubmissionInv'
<1> USE DEF SubmissionInv, SubmissionTypes
<1>1. l \in Line /\ Stuffed(l) \in Line /\ Stuffed(l) # Terminator /\ Unstuffed(Stuffed(l)) = l
  BY StuffedLine, MailPathAssumption
<1>2. client.pc = "body" /\ client' = [client EXCEPT !.typed = Append(@, l)]
  BY DEF WriteLine
<1>3. /\ client' \in ClientType /\ client'.pc = "body"
      /\ client'.typed = Append(client.typed, l)
  <2>1. client.typed \in Seq(Line)
    BY DEF ClientType
  <2>2. Append(client.typed, l) \in Seq(Line)
    BY <1>1, <2>1
  <2>3. client' \in ClientType
    BY <1>2, <2>2 DEF ClientType
  <2>4. client'.pc = "body" /\ client'.typed = Append(client.typed, l)
    BY <1>2 DEF ClientType
  <2> QED BY <2>3, <2>4
<1>4. client'.inStep = client.inStep
  BY <1>2 DEF ClientType
<1>5. CASE session.state = "data"
  <2>1. DataLine(Stuffed(l))
    BY <1>5 DEF WriteLine, TakeLine
  <2>2. /\ session' \in SessionType /\ Coherent(session') /\ UNCHANGED outbox
        /\ \/ session'.state # "data" /\ Reply(552)
           \/ /\ session'.state = "data" /\ UNCHANGED replies
              /\ session'.buf = Append(session.buf, l)
    BY <1>1, <1>5, <2>1, TextLineStep
  <2>3. replies' \in Seq(Int)
    <3>1. CASE Reply(552)
      BY <3>1, OneMoreReply DEF Reply
    <3>2. CASE UNCHANGED replies
      BY <3>2
    <3> QED BY <2>2, <3>1, <3>2
  <2>4. ASSUME client.inStep PROVE InStep(session', client', replies')
    <3>1. replies = <<>> /\ session.buf = client.typed
      BY <1>2, <1>5, <2>4 DEF InStep
    <3>2. CASE session'.state # "data" /\ Reply(552)
      <4>1. replies' # <<>> /\ Head(replies') # 250
        BY <3>1, <3>2, OneMoreReply DEF Reply
      <4> QED BY <1>3, <3>2, <4>1 DEF InStep
    <3>3. CASE session'.state = "data"
      <4>1. replies' = <<>> /\ session'.buf = client'.typed
        BY <1>3, <2>2, <3>1, <3>3
      <4> QED BY <1>3, <3>3, <4>1 DEF InStep
    <3> QED BY <2>2, <3>2, <3>3
  <2>5. client'.inStep => InStep(session', client', replies')
    BY <1>4, <2>4
  <2> QED BY <1>3, <2>2, <2>3, <2>5 DEF MailsAreMeant
<1>6. CASE session.state # "data"
  <2>1. Reply(500) /\ UNCHANGED <<session, outbox>>
    BY <1>6 DEF WriteLine, TakeLine, TextAsCommand
  <2>2. replies' \in Seq(Int) /\ replies' # <<>>
    BY <2>1, OneMoreReply DEF Reply
  <2>3. ASSUME client.inStep PROVE InStep(session', client', replies')
    <3>1. replies # <<>> /\ Head(replies) # 250
      BY <1>2, <1>6, <2>3 DEF InStep
    <3>2. Head(replies') # 250
      BY <2>1, <3>1, OneMoreReply DEF Reply
    <3> QED BY <1>3, <1>6, <2>1, <2>2, <3>2 DEF InStep
  <2>4. client'.inStep => InStep(session', client', replies')
    BY <1>4, <2>3
  <2> QED BY <1>3, <2>1, <2>2, <2>4 DEF MailsAreMeant
<1> QED BY <1>5, <1>6

LEMMA WriteDotStep ==
  ASSUME SubmissionInv, WriteDot
  PROVE  SubmissionInv'
<1> USE DEF SubmissionInv, SubmissionTypes
<1>1. /\ client' \in ClientType /\ client'.pc = "wait" /\ client'.said = "."
      /\ client'.inStep = client.inStep
  BY ClientWaits DEF WriteDot, Sayings
<1>2. client.pc = "body"
  BY DEF WriteDot
<1>3. CASE session.state = "data"
  <2>1. AcceptMail
    BY <1>3 DEF WriteDot, TakeLine, DataLine
  <2>2. client.inStep => session.buf = client.typed /\ replies = <<>>
    BY <1>2, <1>3 DEF InStep
  <2>3. /\ session' \in SessionType /\ Coherent(session') /\ session'.state # "data"
        /\ outbox' \in Seq(MailType) /\ MailsAreMeant'
        /\ \E code \in Int : Reply(code)
    BY <1>3, <2>1, <2>2, AcceptStep
  <2>4. replies' \in Seq(Int) /\ replies' # <<>> /\ (replies = <<>> => Tail(replies') = <<>>)
    BY <2>3, OneMoreReply DEF Reply
  <2>5. client.inStep => InStep(session', client', replies')
    BY <1>1, <2>2, <2>3, <2>4 DEF InStep
  <2> QED BY <1>1, <2>3, <2>4, <2>5
<1>4. CASE session.state # "data"
  <2>1. Reply(500) /\ UNCHANGED <<session, outbox>>
    BY <1>4 DEF WriteDot, TakeLine, TextAsCommand
  <2>2. replies' \in Seq(Int) /\ replies' # <<>>
    BY <2>1, OneMoreReply DEF Reply
  <2>3. ASSUME client.inStep PROVE InStep(session', client', replies')
    <3>1. replies # <<>> /\ Head(replies) # 250
      BY <1>2, <1>4, <2>3 DEF InStep
    <3>2. Head(replies') # 250
      BY <2>1, <3>1, OneMoreReply DEF Reply
    <3> QED BY <1>1, <1>4, <2>1, <2>2, <3>2 DEF InStep
  <2>4. client'.inStep => InStep(session', client', replies')
    BY <1>1, <2>3
  <2> QED BY <1>1, <2>1, <2>2, <2>4 DEF MailsAreMeant
<1> QED BY <1>3, <1>4

(* Only a client that is out of step speaks into a text.                   *)
LEMMA SaidIntoTextStep ==
  ASSUME SubmissionInv, NEW said \in {"MAIL", "RCPT", "DATA", "RSET"}, SaidIntoText(said)
  PROVE  SubmissionInv'
<1> USE DEF SubmissionInv, SubmissionTypes
<1>1. /\ client' \in ClientType /\ client'.inStep = client.inStep
  BY ClientWaits DEF SaidIntoText, Sayings
<1>2. ~ client.inStep
  BY DEF SaidIntoText, InStep
<1>3. CommandLine \in Line /\ CommandLine # Terminator
  BY MailPathAssumption DEF CommandLine, Terminator, Line
<1>4. /\ session' \in SessionType /\ Coherent(session') /\ UNCHANGED outbox
      /\ Reply(552) \/ UNCHANGED replies
  BY <1>3, TextLineStep DEF SaidIntoText
<1>5. replies' \in Seq(Int)
  <2>1. CASE Reply(552)
    BY <2>1, OneMoreReply DEF Reply
  <2>2. CASE UNCHANGED replies
    BY <2>2
  <2> QED BY <1>4, <2>1, <2>2
<1> QED BY <1>1, <1>2, <1>4, <1>5 DEF MailsAreMeant

LEMMA ReadReplyStep ==
  ASSUME SubmissionInv, ReadReply
  PROVE  SubmissionInv'
<1> USE DEF SubmissionInv, SubmissionTypes
<1>1. /\ client.pc = "wait" /\ replies # <<>> /\ ~ Refused /\ replies' = Tail(replies)
      /\ UNCHANGED <<session, outbox>>
  BY DEF ReadReply
<1>2. replies' \in Seq(Int) /\ Head(replies) \in Int /\ (replies = <<Head(replies)>> => replies' = <<>>)
  BY <1>1
<1>3. CASE client.said = "DATA" /\ Head(replies) = 354
  <2>1. client' = [client EXCEPT !.pc = "body", !.typed = <<>>]
    BY <1>3 DEF ReadReply
  <2>2. client' \in ClientType /\ client'.pc = "body" /\ client'.typed = <<>>
    BY <2>1, EmptySeq DEF ClientType
  <2>3. client'.inStep = client.inStep
    BY <2>1 DEF ClientType
  <2>4. client.inStep => InStep(session', client', replies')
    BY <1>1, <1>2, <1>3, <2>2 DEF InStep
  <2> QED BY <1>1, <1>2, <2>2, <2>3, <2>4 DEF MailsAreMeant
<1>4. CASE ~ (client.said = "DATA" /\ Head(replies) = 354)
  <2>1. client' = [client EXCEPT !.pc = "ready", !.said = "", !.typed = <<>>]
    BY <1>4 DEF ReadReply
  <2>2. client' \in ClientType /\ client'.pc = "ready"
    BY <2>1, EmptySeq DEF ClientType, Sayings
  <2>3. client'.inStep = client.inStep
    BY <2>1 DEF ClientType
  <2>4. ASSUME client.inStep PROVE replies' = <<>> /\ session.state # "data"
    <3>1. CASE client.said = "."
      BY <1>1, <2>4, <3>1 DEF InStep, Refused
    <3>2. CASE client.said # "."
      BY <1>1, <1>2, <1>4, <2>4, <3>2 DEF InStep
    <3> QED BY <3>1, <3>2
  <2>5. client'.inStep => InStep(session', client', replies')
    BY <1>1, <2>2, <2>3, <2>4 DEF InStep
  <2> QED BY <1>1, <1>2, <2>2, <2>5 DEF MailsAreMeant
<1> QED BY <1>3, <1>4

LEMMA ReadRefusalStep ==
  ASSUME SubmissionInv, ReadRefusal
  PROVE  SubmissionInv'
<1> USE DEF SubmissionInv, SubmissionTypes
<1>1. /\ client.pc = "wait" /\ client.said = "." /\ replies # <<>>
      /\ UNCHANGED <<session, outbox>>
  BY DEF ReadRefusal, Refused
<1>2. client.inStep \in BOOLEAN /\ Tail(replies) \in Seq(Int)
  BY <1>1 DEF ClientType
<1>3. client.inStep => session'.state # "data"
  BY <1>1 DEF InStep
<1>4. CASE client' = [Gone EXCEPT !.pc = "leaving"] /\ replies' = <<>>
  <2>1. client' \in ClientType /\ client'.pc = "leaving"
    BY <1>4, GoneClient DEF Gone
  <2> QED BY <1>1, <1>4, <2>1, EmptySeq DEF InStep, MailsAreMeant
<1>5. CASE client' = [Gone EXCEPT !.pc = "ready", !.inStep = client.inStep] /\ replies' = <<>>
  <2>1. client' \in ClientType /\ client'.pc = "ready"
    BY <1>2, <1>5, GoneClient DEF Gone
  <2>2. client'.inStep => client.inStep
    BY <1>5 DEF Gone
  <2> QED BY <1>1, <1>3, <1>5, <2>1, <2>2, EmptySeq DEF InStep, MailsAreMeant
<1>6. CASE /\ client' = [Gone EXCEPT !.pc = "ready",
                            !.inStep = client.inStep /\ Tail(replies) = <<>>]
           /\ replies' = Tail(replies)
  <2>1. client' \in ClientType /\ client'.pc = "ready"
    BY <1>2, <1>6, GoneClient DEF Gone
  <2>2. client'.inStep => client.inStep /\ Tail(replies) = <<>>
    BY <1>6 DEF Gone
  <2> QED BY <1>1, <1>2, <1>3, <1>6, <2>1, <2>2 DEF InStep, MailsAreMeant
<1> QED BY <1>4, <1>5, <1>6 DEF ReadRefusal

(* What Says, and every answer to a challenge, find.                       *)
LEMMA AtCommands ==
  ASSUME SubmissionInv, session.state # "data"
  PROVE  session.buf = <<>> /\ session.auth \in BOOLEAN /\ session.from \in BOOLEAN
BY DEF SubmissionInv, SubmissionTypes, SessionType, Coherent

LEMMA VerbStep ==
  ASSUME SubmissionInv, Helo \/ MailFrom \/ RcptTo \/ Data \/ Rset \/ Other
  PROVE  SubmissionInv'
<1>1. session \in SessionType /\ Coherent(session)
  BY DEF SubmissionInv, SubmissionTypes
<1>2. CASE Helo
  <2>1. /\ client.pc = "ready" /\ session.state # "data" /\ Waits("HELO") /\ Reply(250)
        /\ UNCHANGED outbox /\ session.sasl = "no"
        /\ session' = [Ended(session) EXCEPT !.state = IF session.auth THEN "mail" ELSE "auth"]
    BY <1>2 DEF Helo, Says
  <2> DEFINE e == Ended(session)
  <2>2. /\ e \in SessionType /\ e.from = FALSE /\ e.rcpts = <<>> /\ e.buf = <<>>
        /\ e.sasl = "no"
    BY <1>1, <2>1, EndedSession
  <2>3. session' = [e EXCEPT !.state = IF session.auth THEN "mail" ELSE "auth"]
    BY <2>1
  <2> HIDE DEF e
  <2>4. session' \in SessionType
    BY <2>2, <2>3 DEF SessionType, States
  <2>5. session'.state \in {"mail", "auth"} /\ session'.rcpts = <<>> /\ session'.buf = <<>>
    BY <2>2, <2>3 DEF SessionType
  <2>6. session'.sasl = "no"
    BY <2>2, <2>3 DEF SessionType
  <2>7. ~ session'.from
    BY <2>2, <2>3 DEF SessionType
  <2>8. Coherent(session')
    BY <2>5, <2>6, <2>7 DEF Coherent
  <2>said. \E said \in Sayings \ {"."} : Waits(said)
    BY <2>1 DEF Sayings
  <2>code. \E c \in Int \ {354} : Reply(c)
    BY <2>1
  <2> QED BY <2>1, <2>4, <2>5, <2>8, <2>said, <2>code, PlainStep
<1>3. CASE MailFrom
  <2>1. /\ client.pc = "ready" /\ session.state # "data" /\ Waits("MAIL")
        /\ UNCHANGED outbox /\ session.sasl = "no" /\ session.buf = <<>>
    BY <1>3, AtCommands DEF MailFrom, Says
  <2>2. CASE /\ session' = [session EXCEPT !.from = TRUE, !.rcpts = <<>>, !.state = "rcpt"]
             /\ Reply(250)
    <3>1. session' \in SessionType
      BY <1>1, <2>2, EmptySeq DEF SessionType, States
    <3>2. session'.state = "rcpt" /\ session'.rcpts = <<>> /\ session'.buf = <<>>
      BY <1>1, <2>1, <2>2 DEF SessionType
    <3>3. session'.sasl = "no"
      BY <1>1, <2>1, <2>2 DEF SessionType
    <3>4. session'.from
      BY <1>1, <2>2 DEF SessionType
    <3>5. Coherent(session')
      BY <3>2, <3>3, <3>4 DEF Coherent
    <3>said. \E said \in Sayings \ {"."} : Waits(said)
      BY <2>1 DEF Sayings
    <3>code. \E c \in Int \ {354} : Reply(c)
      BY <2>2
    <3> QED BY <2>1, <2>2, <3>1, <3>2, <3>5, <3>said, <3>code, PlainStep
  <2>3. ASSUME NEW code \in {501, 503, 550}, Reply(code), UNCHANGED session
        PROVE  SubmissionInv'
    <3>1. session' \in SessionType /\ Coherent(session') /\ session'.buf = <<>>
          /\ session'.state # "data"
      BY <1>1, <2>1, <2>3
    <3>said. \E said \in Sayings \ {"."} : Waits(said)
      BY <2>1 DEF Sayings
    <3>code. \E c \in Int \ {354} : Reply(c)
      BY <2>3
    <3> QED BY <2>1, <2>3, <3>1, <3>said, <3>code, PlainStep
  <2> QED BY <1>3, <2>2, <2>3 DEF MailFrom
<1>4. CASE RcptTo
  <2>1. /\ client.pc = "ready" /\ session.state # "data" /\ Waits("RCPT")
        /\ UNCHANGED outbox /\ session.sasl = "no" /\ session.buf = <<>>
    BY <1>4, AtCommands DEF RcptTo, Says
  <2>2. ASSUME NEW r \in Rcpts \cup BadRcpts, session.state = "rcpt", Reply(250),
               session' = [session EXCEPT !.rcpts = Append(@, r)]
        PROVE  SubmissionInv'
    <3>1. Append(session.rcpts, r) \in Seq(Rcpts \cup BadRcpts)
      BY <1>1, SessionFields, AppendProperties
    <3>2. session' \in SessionType
      BY <1>1, <2>2, <3>1 DEF SessionType
    <3>3. session'.state = "rcpt" /\ session'.buf = <<>> /\ session'.sasl = "no"
      BY <1>1, <2>1, <2>2 DEF SessionType
    <3>4. session'.from
      BY <1>1, <2>2 DEF SessionType, Coherent
    <3>5. Coherent(session')
      BY <3>3, <3>4 DEF Coherent
    <3>said. \E said \in Sayings \ {"."} : Waits(said)
      BY <2>1 DEF Sayings
    <3>code. \E c \in Int \ {354} : Reply(c)
      BY <2>2
    <3> QED BY <2>1, <2>2, <3>2, <3>3, <3>5, <3>said, <3>code, PlainStep
  <2>3. ASSUME NEW code \in {501, 503, 552}, Reply(code), UNCHANGED session
        PROVE  SubmissionInv'
    <3>1. session' \in SessionType /\ Coherent(session') /\ session'.buf = <<>>
          /\ session'.state # "data"
      BY <1>1, <2>1, <2>3
    <3>said. \E said \in Sayings \ {"."} : Waits(said)
      BY <2>1 DEF Sayings
    <3>code. \E c \in Int \ {354} : Reply(c)
      BY <2>3
    <3> QED BY <2>1, <2>3, <3>1, <3>said, <3>code, PlainStep
  <2> QED BY <1>4, <2>2, <2>3 DEF RcptTo
<1>5. CASE Data
  <2>1. /\ client.pc = "ready" /\ session.state # "data" /\ Waits("DATA")
        /\ UNCHANGED outbox /\ session.sasl = "no" /\ session.buf = <<>>
    BY <1>5, AtCommands DEF Data, Says
  <2>2. CASE /\ session.state = "rcpt" /\ session.rcpts # <<>>
             /\ session' = [session EXCEPT !.state = "data"] /\ Reply(354)
    <3>1. session' \in SessionType
      BY <1>1, <2>2 DEF SessionType, States
    <3>2. session'.state = "data" /\ session'.rcpts # <<>> /\ session'.buf = <<>>
      BY <1>1, <2>1, <2>2 DEF SessionType
    <3>3. session'.sasl = "no"
      BY <1>1, <2>1, <2>2 DEF SessionType
    <3>4. session'.from
      BY <1>1, <2>2 DEF SessionType, Coherent
    <3>5. Coherent(session')
      BY <3>2, <3>3, <3>4 DEF Coherent
    <3> QED BY <2>1, <2>2, <3>1, <3>2, <3>5, CommandStep DEF Sayings
  <2>3. CASE Reply(503) /\ UNCHANGED session
    <3>1. session' \in SessionType /\ Coherent(session') /\ session'.buf = <<>>
          /\ session'.state # "data"
      BY <1>1, <2>1, <2>3
    <3>said. \E said \in Sayings \ {"."} : Waits(said)
      BY <2>1 DEF Sayings
    <3>code. \E c \in Int \ {354} : Reply(c)
      BY <2>3
    <3> QED BY <2>1, <2>3, <3>1, <3>said, <3>code, PlainStep
  <2> QED BY <1>5, <2>2, <2>3 DEF Data
<1>6. CASE Rset
  <2>1. /\ client.pc = "ready" /\ session.state # "data" /\ Waits("RSET")
        /\ UNCHANGED outbox /\ session.sasl = "no" /\ Reply(250)
        /\ session' = Ended(session)
    BY <1>6 DEF Rset, Says
  <2>2. /\ session' \in SessionType /\ session'.state = "mail" /\ session'.buf = <<>>
        /\ session'.sasl = "no" /\ session'.rcpts = <<>> /\ session'.from = FALSE
    BY <1>1, <2>1, EndedSession
  <2>3. Coherent(session')
    BY <2>2 DEF Coherent
  <2>said. \E said \in Sayings \ {"."} : Waits(said)
    BY <2>1 DEF Sayings
  <2>code. \E c \in Int \ {354} : Reply(c)
    BY <2>1
  <2> QED BY <2>1, <2>2, <2>3, <2>said, <2>code, PlainStep
<1>7. CASE Other
  <2>1. /\ client.pc = "ready" /\ session.state # "data" /\ Waits("NOOP")
        /\ UNCHANGED <<outbox, session>> /\ session.buf = <<>>
    BY <1>7, AtCommands DEF Other, Says
  <2>2. PICK code \in {250, 500, 503} : Reply(code)
    BY <1>7 DEF Other
  <2>3. session' \in SessionType /\ Coherent(session') /\ session'.buf = <<>>
        /\ session'.state # "data"
    BY <1>1, <2>1
  <2>said. \E said \in Sayings \ {"."} : Waits(said)
    BY <2>1 DEF Sayings
  <2>code. \E c \in Int \ {354} : Reply(c)
    BY <2>2
  <2> QED BY <2>1, <2>2, <2>3, <2>said, <2>code, PlainStep
<1> QED BY <1>2, <1>3, <1>4, <1>5, <1>6, <1>7

LEMMA AuthStep ==
  ASSUME SubmissionInv, AuthLogin \/ Username \/ Password
  PROVE  SubmissionInv'
<1>1. session \in SessionType /\ Coherent(session)
  BY DEF SubmissionInv, SubmissionTypes
<1>2. /\ client.pc = "ready" /\ session.state = "auth" /\ session.buf = <<>> /\ UNCHANGED outbox
      /\ ~ session.from /\ session.rcpts = <<>>
  BY <1>1 DEF AuthLogin, Username, Password, Says, Coherent
<1>3. ASSUME NEW sasl \in {"user", "pass"}, session' = [session EXCEPT !.sasl = sasl]
      PROVE  /\ session' \in SessionType /\ Coherent(session')
             /\ session'.buf = <<>> /\ session'.state # "data"
  <2>1. session' \in SessionType /\ session'.buf = <<>> /\ session'.rcpts = <<>>
    BY <1>1, <1>2, <1>3 DEF SessionType
  <2>2. session'.state = "auth"
    BY <1>1, <1>2, <1>3 DEF SessionType
  <2>3. ~ session'.from
    BY <1>1, <1>2, <1>3 DEF SessionType
  <2> QED BY <2>1, <2>2, <2>3 DEF Coherent
<1>4. CASE AuthLogin
  <2>1. Waits("AUTH") /\ Reply(334) /\ session' = [session EXCEPT !.sasl = "user"]
    BY <1>4 DEF AuthLogin, Says
  <2>said. \E said \in Sayings \ {"."} : Waits(said)
    BY <2>1 DEF Sayings
  <2>code. \E c \in Int \ {354} : Reply(c)
    BY <2>1
  <2> QED BY <1>2, <1>3, <2>1, <2>said, <2>code, PlainStep
<1>5. CASE Username
  <2>1. Waits("user") /\ Reply(334) /\ session' = [session EXCEPT !.sasl = "pass"]
    BY <1>5 DEF Username
  <2>said. \E said \in Sayings \ {"."} : Waits(said)
    BY <2>1 DEF Sayings
  <2>code. \E c \in Int \ {354} : Reply(c)
    BY <2>1
  <2> QED BY <1>2, <1>3, <2>1, <2>said, <2>code, PlainStep
<1>6. CASE Password
  <2>1. Waits("pass")
    BY <1>6 DEF Password
  <2>2. /\ session' \in SessionType /\ session'.buf = <<>> /\ session'.rcpts = <<>>
        /\ session'.sasl = "no"
    BY <1>1, <1>2, <1>6 DEF Password, SessionType, States
  <2>3. session'.state \in {"auth", "mail"}
    BY <1>1, <1>2, <1>6 DEF Password, SessionType
  <2>4. ~ session'.from
    BY <1>1, <1>2, <1>6 DEF Password, SessionType
  <2>5. Coherent(session')
    BY <2>2, <2>3, <2>4 DEF Coherent
  <2>6. PICK code \in {235, 535} : Reply(code)
    BY <1>6 DEF Password
  <2>said. \E said \in Sayings \ {"."} : Waits(said)
    BY <2>1 DEF Sayings
  <2>code. \E c \in Int \ {354} : Reply(c)
    BY <2>6
  <2> QED BY <1>2, <2>1, <2>2, <2>3, <2>5, <2>6, <2>said, <2>code, PlainStep
<1> QED BY <1>4, <1>5, <1>6

LEMMA ConnectionStep ==
  ASSUME SubmissionInv, Connect \/ Disconnect
  PROVE  SubmissionInv'
<1> USE DEF SubmissionInv, SubmissionTypes
<1>1. PICK a \in BOOLEAN : session' = Fresh(a)
  BY DEF Connect, Disconnect
<1>2. session' \in SessionType /\ Coherent(session') /\ session'.state = "helo"
  BY <1>1, FreshSession
<1>3. replies' = <<>> /\ UNCHANGED outbox
  BY DEF Connect, Disconnect
<1>4. CASE Connect
  <2>1. client' \in ClientType /\ client'.pc = "ready"
    BY <1>4, GoneClient DEF Connect, Gone
  <2> QED BY <1>2, <1>3, <2>1, EmptySeq DEF InStep, MailsAreMeant
<1>5. CASE Disconnect
  <2>1. client' \in ClientType /\ client'.pc = "gone"
    BY <1>5, GoneClient DEF Disconnect
  <2> QED BY <1>2, <1>3, <2>1, EmptySeq DEF InStep, MailsAreMeant
<1> QED BY <1>4, <1>5

LEMMA SendMailStep ==
  ASSUME SubmissionInv, NEW l \in Lines, SendMail(l)
  PROVE  SubmissionInv'
<1> DEFINE text == <<Received, [l EXCEPT !.nl = FALSE]>>
           mail == [text |-> text, meant |-> text, inStep |-> TRUE]
<1>1. text \in Seq(Line)
  <2>1. Received \in Line /\ [l EXCEPT !.nl = FALSE] \in Line
    BY MailPathAssumption DEF Received, Line
  <2> QED BY <2>1
<1>2. mail \in MailType /\ mail.text = mail.meant
  <2> HIDE DEF text
  <2> QED BY <1>1 DEF MailType
<1>3. outbox' = Append(outbox, mail) /\ UNCHANGED <<session, client, replies>>
  BY DEF SendMail, submission
<1> HIDE DEF mail
<1> QED BY <1>2, <1>3, AppendMail DEF SubmissionInv, SubmissionTypes

LEMMA SubmissionStep ==
  ASSUME SubmissionInv, Submission \/ \E l \in Lines : SendMail(l)
  PROVE  SubmissionInv'
BY ConnectionStep, ReadReplyStep, ReadRefusalStep, WriteLineStep, WriteDotStep,
   SaidIntoTextStep, VerbStep, AuthStep, SendMailStep DEF Submission

-----------------------------------------------------------------------------
(* The overlay dialog.                                                     *)
Verbs == {"EHLO", "MAIL", "stranger", "RCPT", "nobody", "DATA", "NOOP", "QUIT"}

DialogType ==
  [dialer : {"greeting", "EHLO", "MAIL", "RCPT", "DATA", "text", "other"},
   text : Seq(Line), up : Seq(Line \cup Verbs), down : Seq(Int),
   server : {"command", "data", "handed", "ended"}, from : BOOLEAN, rcpt : BOOLEAN,
   out : Seq(Line)]

(* The server has read the first lines of a text, and the rest is coming.  *)
Sending(d) ==
  /\ d.down = <<>> /\ Len(d.out) <= Len(d.text)
  /\ Len(d.up) = Len(d.text) + 1 - Len(d.out)
  /\ \A i \in 1 .. Len(d.up) : d.up[i] = Append(WireOf(d.text), Terminator)[Len(d.out) + i]
  /\ \A i \in 1 .. Len(d.out) : d.out[i] = Completed(d.text)[i]

(* Who speaks next: one verb or one reply is on its way, and a text only   *)
(* after 354.                                                              *)
AtCommand(d) ==
  /\ d.out = <<>>
  /\ \/ d.up = <<>> /\ \E code \in Int \ {354} : d.down = <<code>>
     \/ d.down = <<>> /\ \E verb \in Verbs : d.up = <<verb>>

AtText(d) ==
  /\ d.from /\ d.rcpt
  /\ \/ d.up = <<>> /\ d.down = <<354>> /\ d.out = <<>>
     \/ Sending(d)

HandedOver(d) ==
  /\ d.from /\ d.rcpt
  /\ d.up = <<>> /\ d.down = <<>> /\ d.out = Completed(d.text)

Talk(d) ==
  /\ d.server = "command" => AtCommand(d)
  /\ d.server = "data" => AtText(d)
  /\ d.server = "handed" => HandedOver(d)
  /\ Len(d.out) <= MaxData

DialogInv == dialog # NoDialog => dialog \in DialogType /\ Talk(dialog)

LEMMA NoDialogFields == NoDialog.dialer = "none"
BY DEF NoDialog

LEMMA FollowingVerbs ==
  ASSUME NEW dialer \in DOMAIN Following
  PROVE  /\ dialer \in {"greeting", "EHLO", "MAIL", "RCPT", "DATA"}
         /\ dialer = "DATA" => Following[dialer] = "text"
         /\ dialer # "DATA" => Following[dialer] \in {"EHLO", "MAIL", "RCPT", "DATA"}
         /\ Expected(dialer) = 354 <=> dialer = "DATA"
BY DEF Following, Expected

LEMMA NewDialog ==
  ASSUME NEW dialer \in {"greeting", "other"}, NEW text \in Seq(Line)
  PROVE  Dialog(dialer, text) \in DialogType /\ Talk(Dialog(dialer, text))
<1> DEFINE d == Dialog(dialer, text)
<1>1. d \in DialogType
  BY EmptySeq DEF Dialog, DialogType
<1>2. d.server = "command" /\ d.up = <<>> /\ d.down = <<220>> /\ d.out = <<>>
  BY DEF Dialog
<1> HIDE DEF d
<1>3. AtCommand(d)
  BY <1>2 DEF AtCommand
<1>4. Len(d.out) <= MaxData
  BY <1>2, MailPathAssumption
<1>5. Talk(d)
  BY <1>2, <1>3, <1>4 DEF Talk
<1> QED BY <1>1, <1>5 DEF d

(* A verb takes the place of the reply it follows.                         *)
LEMMA VerbIsSent ==
  ASSUME NEW d \in DialogType, NEW e \in DialogType, NEW verb \in Verbs,
         Talk(d), d.server # "data", d.server # "handed",
         e.server = d.server, e.out = d.out, e.down = <<>>, e.up = <<verb>>
  PROVE  Talk(e)
BY DEF Talk, AtCommand

(* A text takes the place of 354.                                          *)
LEMMA TextIsSent ==
  ASSUME NEW d \in DialogType, NEW e \in DialogType,
         Talk(d), d.server # "command", d.server # "handed", d.server = "data" => d.out = <<>>,
         e.server = d.server, e.from = d.from, e.rcpt = d.rcpt,
         e.out = d.out, e.down = <<>>, e.up = Append(WireOf(e.text), Terminator)
  PROVE  Talk(e)
<1>1. Len(e.out) <= MaxData
  BY DEF Talk
<1>2. ASSUME d.server = "data" PROVE AtText(e)
  <2>1. e.from /\ e.rcpt
    BY <1>2 DEF Talk, AtText
  <2>2. e.out = <<>> /\ e.text \in Seq(Line) /\ Len(e.text) \in Nat
    BY <1>2 DEF DialogType
  <2>3. Len(e.up) = Len(e.text) + 1
    BY <2>2, WireLines, TerminatorIsLine, AppendProperties
  <2>4. Sending(e)
    BY <2>2, <2>3 DEF Sending
  <2> QED BY <2>1, <2>4 DEF AtText
<1> QED BY <1>1, <1>2 DEF Talk

(* The whole text with the line that ends it.                              *)
LEMMA SentLines ==
  ASSUME NEW text \in Seq(Line)
  PROVE  /\ Append(WireOf(text), Terminator) \in Seq(Line \cup Verbs)
         /\ Append(WireOf(text), Terminator)[Len(text) + 1] = Terminator
         /\ \A i \in 1 .. Len(text) : Append(WireOf(text), Terminator)[i] = WireOf(text)[i]
<1>1. WireOf(text) \in Seq(Line) /\ Len(WireOf(text)) = Len(text) /\ Len(text) \in Nat
  BY WireLines
<1>2. Append(WireOf(text), Terminator) \in Seq(Line)
  BY <1>1, TerminatorIsLine, AppendProperties
<1>3. Append(WireOf(text), Terminator) \in Seq(Line \cup Verbs)
  BY <1>2, SeqMonotonic
<1> QED BY <1>1, <1>3, TerminatorIsLine, AppendProperties

LEMMA OneReply ==
  ASSUME NEW code
  PROVE  Head(<<code>>) = code /\ Tail(<<code>>) = <<>> /\ Append(<<>>, code) = <<code>>
OBVIOUS

(* What the dialer makes of a dialog, and that it leaves the rest alone.   *)
DialerStates == {"greeting", "EHLO", "MAIL", "RCPT", "DATA", "text", "other"}
Upward       == Seq(Line \cup Verbs)
Downward     == Seq(Int)

Turned(d, dialer, down, up) == [d EXCEPT !.dialer = dialer, !.down = down, !.up = up]

LEMMA DialerTurns ==
  ASSUME NEW d \in DialogType, NEW dialer \in DialerStates, NEW down \in Downward, NEW up \in Upward
  PROVE  LET e == Turned(d, dialer, down, up) IN
         /\ e \in DialogType
         /\ e.up = up /\ e.down = down /\ e.text = d.text
         /\ e.server = d.server /\ e.out = d.out /\ e.from = d.from /\ e.rcpt = d.rcpt
BY DEF DialogType, DialerStates, Upward, Downward, Turned

LEMMA DialerGoesOnStep ==
  ASSUME DialogInv, DialerGoesOn
  PROVE  DialogInv'
<1> DEFINE next == Following[dialog.dialer]
<1>1. /\ dialog.dialer \in DOMAIN Following /\ dialog.down # <<>>
      /\ Head(dialog.down) = Expected(dialog.dialer)
  BY DEF DialerGoesOn
<1>2. dialog \in DialogType /\ Talk(dialog)
  BY <1>1, NoDialogFields, FollowingVerbs DEF DialogInv
<1>3. dialog.server # "handed"
  BY <1>1, <1>2 DEF Talk, HandedOver
<1>4. dialog.text \in Seq(Line) /\ Tail(dialog.down) \in Seq(Int)
  BY <1>1, <1>2 DEF DialogType
<1>5. CASE dialog.dialer = "DATA"
  <2> DEFINE up == Append(WireOf(dialog.text), Terminator)
  <2>1. next = "text" /\ Head(dialog.down) = 354
    BY <1>1, <1>5, FollowingVerbs
  <2>2. dialog' = [dialog EXCEPT !.dialer = "text", !.down = Tail(@), !.up = up]
    BY <2>1 DEF DialerGoesOn
  <2>3. up \in Seq(Line \cup Verbs)
    BY <1>4, SentLines
  <2>4. dialog.server # "command"
    BY <1>1, <1>2, <2>1 DEF Talk, AtCommand
  <2>5. dialog.server = "data" => dialog.out = <<>> /\ dialog.down = <<354>>
    BY <1>1, <1>2 DEF Talk, AtText, Sending
  <2> HIDE DEF up
  <2>6. /\ dialog' \in DialogType
        /\ dialog'.server = dialog.server /\ dialog'.out = dialog.out
        /\ dialog'.text = dialog.text /\ dialog'.up = up /\ dialog'.down = Tail(dialog.down)
        /\ dialog'.from = dialog.from /\ dialog'.rcpt = dialog.rcpt
    <3>1. dialog' = Turned(dialog, "text", Tail(dialog.down), up)
      BY <2>2 DEF Turned
    <3>2. dialog \in DialogType /\ Tail(dialog.down) \in Downward /\ up \in Upward
      BY <1>2, <1>4, <2>3 DEF Upward, Downward
    <3>3. "text" \in DialerStates
      BY DEF DialerStates
    <3> QED BY <3>1, <3>2, <3>3, DialerTurns
  <2>7. CASE dialog.server = "data"
    <3>1. dialog'.down = <<>>
      <4>1. dialog.down = <<354>> /\ dialog'.down = Tail(dialog.down)
        BY <2>5, <2>6, <2>7
      <4> QED BY <4>1, OneReply
    <3> QED BY <1>2, <1>3, <2>4, <2>5, <2>6, <3>1, TextIsSent DEF up, DialogInv
  <2>8. CASE dialog.server = "ended"
    <3>1. Talk(dialog')
      BY <1>2, <2>6, <2>8 DEF Talk
    <3> QED BY <2>6, <3>1 DEF DialogInv
  <2> QED BY <1>2, <1>3, <2>4, <2>7, <2>8 DEF DialogType
<1>6. CASE dialog.dialer # "DATA"
  <2>1. next \in {"EHLO", "MAIL", "RCPT", "DATA"} /\ Head(dialog.down) # 354
    BY <1>1, <1>6, FollowingVerbs
  <2> HIDE DEF next
  <2>2. dialog' = [dialog EXCEPT !.dialer = next, !.down = Tail(@), !.up = <<next>>]
    BY <2>1 DEF DialerGoesOn, next
  <2>3. <<next>> \in Seq(Line \cup Verbs) /\ next \in Verbs
    BY <2>1 DEF Verbs
  <2>4. /\ dialog' \in DialogType
        /\ dialog'.server = dialog.server /\ dialog'.out = dialog.out
        /\ dialog'.up = <<next>> /\ dialog'.down = Tail(dialog.down)
        /\ dialog'.from = dialog.from /\ dialog'.rcpt = dialog.rcpt
    <3>1. next \in DialerStates
      BY <2>1 DEF DialerStates
    <3>2. dialog' = Turned(dialog, next, Tail(dialog.down), <<next>>)
      BY <2>2 DEF Turned
    <3>3. dialog \in DialogType /\ Tail(dialog.down) \in Downward /\ <<next>> \in Upward
      BY <1>2, <1>4, <2>3 DEF Upward, Downward
    <3> QED BY <3>1, <3>2, <3>3, DialerTurns
  <2>5. dialog.server # "data"
    <3>1. dialog.server = "data" => dialog.down \in {<<>>, <<354>>}
      BY <1>2 DEF Talk, AtText, Sending
    <3> QED BY <1>1, <2>1, <3>1, OneReply
  <2>6. CASE dialog.server = "command"
    <3>1. PICK code \in Int : dialog.down = <<code>>
      BY <1>1, <1>2, <2>6 DEF Talk, AtCommand
    <3>2. dialog'.down = <<>>
      BY <2>4, <3>1, OneReply
    <3> QED BY <1>2, <1>3, <2>3, <2>4, <2>5, <3>2, VerbIsSent DEF DialogInv
  <2>7. CASE dialog.server = "ended"
    <3>1. Talk(dialog')
      BY <1>2, <2>4, <2>7 DEF Talk
    <3> QED BY <2>4, <3>1 DEF DialogInv
  <2> QED BY <1>2, <1>3, <2>5, <2>6, <2>7 DEF DialogType
<1> QED BY <1>5, <1>6

LEMMA OtherGoesOnStep ==
  ASSUME DialogInv, OtherGoesOn
  PROVE  DialogInv'
<1>1. dialog.dialer = "other" /\ dialog.up = <<>> /\ dialog.down # <<>>
  BY DEF OtherGoesOn
<1>2. dialog \in DialogType /\ Talk(dialog)
  BY <1>1, NoDialogFields DEF DialogInv
<1>3. dialog.server # "handed"
  BY <1>1, <1>2 DEF Talk, HandedOver
<1>4. ASSUME Head(dialog.down) = 354, NEW text \in Seq(Line),
             dialog' = [dialog EXCEPT !.down = <<>>, !.text = text,
                                      !.up = Append(WireOf(text), Terminator)]
      PROVE  DialogInv'
  <2> DEFINE up == Append(WireOf(text), Terminator)
  <2>1. up \in Seq(Line \cup Verbs)
    BY SentLines
  <2>2. dialog' = [dialog EXCEPT !.down = <<>>, !.text = text, !.up = up]
    BY <1>4
  <2>3. dialog.server # "command"
    BY <1>1, <1>2, <1>4 DEF Talk, AtCommand
  <2>4. dialog.server = "data" => dialog.out = <<>>
    BY <1>1, <1>2 DEF Talk, AtText, Sending
  <2> HIDE DEF up
  <2>5. dialog' \in DialogType
    BY <1>2, <2>1, <2>2, EmptySeq DEF DialogType
  <2>6. /\ dialog'.server = dialog.server /\ dialog'.out = dialog.out
        /\ dialog'.text = text /\ dialog'.up = up /\ dialog'.down = <<>>
    BY <1>2, <2>2 DEF DialogType
  <2>7. dialog'.from = dialog.from /\ dialog'.rcpt = dialog.rcpt
    BY <1>2, <2>2 DEF DialogType
  <2> QED BY <1>2, <1>3, <2>3, <2>4, <2>5, <2>6, <2>7, TextIsSent DEF up, DialogInv
<1>5. ASSUME Head(dialog.down) # 354, NEW verb \in Verbs,
             dialog' = [dialog EXCEPT !.down = <<>>, !.up = <<verb>>]
      PROVE  DialogInv'
  <2>1. <<verb>> \in Seq(Line \cup Verbs)
    OBVIOUS
  <2>2. dialog' \in DialogType
    BY <1>2, <1>5, <2>1, EmptySeq DEF DialogType
  <2>3. /\ dialog'.server = dialog.server /\ dialog'.out = dialog.out
        /\ dialog'.up = <<verb>> /\ dialog'.down = <<>>
    BY <1>2, <1>5 DEF DialogType
  <2>4. dialog.server # "data"
    BY <1>1, <1>2, <1>5 DEF Talk, AtText, Sending
  <2> QED BY <1>2, <1>3, <2>2, <2>3, <2>4, VerbIsSent DEF DialogInv
<1>6. ASSUME NEW l \in Lines, NEW k \in Lines
      PROVE  <<>> \in Seq(Line) /\ <<l>> \in Seq(Line) /\ <<l, k>> \in Seq(Line)
  BY MailPathAssumption, EmptySeq
<1>7. CASE Head(dialog.down) = 354
  <2>1. PICK l \in Lines, k \in Lines : \E text \in {<<>>, <<l>>, <<l, k>>} :
          dialog' = [dialog EXCEPT !.down = <<>>, !.text = text,
                                   !.up = Append(WireOf(text), Terminator)]
    BY <1>7 DEF OtherGoesOn
  <2>2. PICK text \in {<<>>, <<l>>, <<l, k>>} :
          dialog' = [dialog EXCEPT !.down = <<>>, !.text = text,
                                   !.up = Append(WireOf(text), Terminator)]
    BY <2>1
  <2>3. text \in Seq(Line)
    BY <1>6, <2>2
  <2> QED BY <1>4, <1>7, <2>2, <2>3
<1>8. CASE Head(dialog.down) # 354
  BY <1>5, <1>8 DEF OtherGoesOn, Verbs
<1> QED BY <1>7, <1>8

(* The server has answered a verb.                                         *)
LEMMA AnswerFields ==
  ASSUME NEW d \in DialogType, d.up # <<>>, NEW code \in Int
  PROVE  /\ Answer(d, code) \in DialogType /\ Leave(Answer(d, code)) \in DialogType
         /\ Answer(d, code).up = Tail(d.up) /\ Answer(d, code).down = Append(d.down, code)
         /\ Answer(d, code).out = d.out /\ Answer(d, code).server = d.server
         /\ Leave(Answer(d, code)).out = d.out /\ Leave(Answer(d, code)).server = "ended"
<1> DEFINE a == Answer(d, code)
<1>1. d.up \in Seq(Line \cup Verbs) /\ d.down \in Seq(Int)
  BY DEF DialogType
<1>2. Tail(d.up) \in Seq(Line \cup Verbs) /\ Append(d.down, code) \in Seq(Int)
  BY <1>1
<1>3. a = [d EXCEPT !.up = Tail(@), !.down = Append(@, code)]
  BY DEF Answer
<1> HIDE DEF a
<1>4. a \in DialogType
  BY <1>2, <1>3 DEF DialogType
<1>5. /\ a.up = Tail(d.up) /\ a.down = Append(d.down, code)
      /\ a.out = d.out /\ a.server = d.server
  BY <1>3 DEF DialogType
<1>6. Leave(a) \in DialogType
  BY <1>4 DEF DialogType, Leave
<1>7. Leave(a).out = a.out /\ Leave(a).server = "ended"
  BY <1>4 DEF DialogType, Leave
<1> QED BY <1>4, <1>5, <1>6, <1>7 DEF a

(* The server leaves the dialog with nothing of a text handed over.        *)
LEMMA EndedTalk ==
  ASSUME NEW d \in DialogType, Talk(d), NEW e, e.out = d.out, e.server = "ended"
  PROVE  Talk(e)
BY DEF Talk

LEMMA ServeCommandStep ==
  ASSUME DialogInv, ServeCommand
  PROVE  DialogInv'
<1> DEFINE verb == Head(dialog.up)
<1>1. dialog \in DialogType /\ Talk(dialog) /\ dialog.server = "command" /\ dialog.up # <<>>
  BY DEF DialogInv, ServeCommand
<1>2. /\ dialog.out = <<>> /\ dialog.down = <<>> /\ dialog.up = <<verb>> /\ verb \in Verbs
      /\ Len(dialog.out) <= MaxData
  BY <1>1, OneReply DEF Talk, AtCommand
<1> HIDE DEF verb
<1>3. Tail(dialog.up) = <<>>
  BY <1>2, OneReply
<1>4. ASSUME NEW d \in DialogType, NEW code \in Int \ {354}, dialog' = Answer(d, code),
             d.up = dialog.up, d.down = dialog.down, d.out = dialog.out, d.server = "command"
      PROVE  DialogInv'
  <2>1. /\ dialog' \in DialogType /\ dialog'.up = <<>> /\ dialog'.down = <<code>>
        /\ dialog'.out = <<>> /\ dialog'.server = "command"
    <3>1. /\ dialog' \in DialogType /\ dialog'.up = Tail(d.up)
          /\ dialog'.down = Append(d.down, code)
          /\ dialog'.out = d.out /\ dialog'.server = d.server
      BY <1>1, <1>4, AnswerFields
    <3> QED BY <1>2, <1>3, <1>4, <3>1, OneReply
  <2>2. AtCommand(dialog')
    BY <2>1 DEF AtCommand
  <2>3. Len(dialog'.out) <= MaxData
    BY <1>2, <2>1
  <2> QED BY <2>1, <2>2, <2>3 DEF Talk, DialogInv
<1>5. ASSUME NEW code \in Int, dialog' = Leave(Answer(dialog, code))
      PROVE  DialogInv'
  <2>1. dialog' \in DialogType /\ dialog'.out = dialog.out /\ dialog'.server = "ended"
    BY <1>1, <1>5, AnswerFields
  <2> QED BY <1>1, <2>1, EndedTalk DEF DialogInv
<1>6. CASE verb = "MAIL"
  <2> DEFINE d == [dialog EXCEPT !.from = TRUE]
  <2>1. d \in DialogType
    BY <1>1 DEF DialogType
  <2>2. d.up = dialog.up /\ d.down = dialog.down /\ d.out = dialog.out /\ d.server = "command"
    BY <1>1 DEF DialogType
  <2>3. dialog' = Answer(d, 250)
    BY <1>6 DEF ServeCommand, verb
  <2> HIDE DEF d
  <2> QED BY <1>4, <2>1, <2>2, <2>3
<1>7. CASE verb = "RCPT"
  <2> DEFINE d == [dialog EXCEPT !.rcpt = TRUE]
  <2>1. d \in DialogType
    BY <1>1 DEF DialogType
  <2>2. d.up = dialog.up /\ d.down = dialog.down /\ d.out = dialog.out /\ d.server = "command"
    BY <1>1 DEF DialogType
  <2>3. dialog' = Answer(d, 250)
    BY <1>7 DEF ServeCommand, verb
  <2> HIDE DEF d
  <2> QED BY <1>4, <2>1, <2>2, <2>3
<1>8. CASE verb = "DATA" /\ dialog.from /\ dialog.rcpt
  <2> DEFINE d == [dialog EXCEPT !.server = "data"]
  <2>1. d \in DialogType
    BY <1>1 DEF DialogType
  <2>2. d.up = dialog.up /\ d.down = dialog.down /\ d.out = dialog.out /\ d.server = "data"
    BY <1>1 DEF DialogType
  <2>3. d.from /\ d.rcpt
    BY <1>1, <1>8 DEF DialogType
  <2>4. dialog' = Answer(d, 354)
    BY <1>8 DEF ServeCommand, verb
  <2> HIDE DEF d
  <2>5. /\ dialog' \in DialogType /\ dialog'.up = <<>> /\ dialog'.down = <<354>>
        /\ dialog'.out = <<>> /\ dialog'.server = "data"
    <3>1. /\ dialog' \in DialogType /\ dialog'.up = Tail(d.up)
          /\ dialog'.down = Append(d.down, 354)
          /\ dialog'.out = d.out /\ dialog'.server = d.server
      BY <1>1, <2>1, <2>2, <2>4, AnswerFields
    <3> QED BY <1>2, <1>3, <2>2, <3>1, OneReply
  <2>6. dialog'.from /\ dialog'.rcpt
    BY <2>1, <2>3, <2>4 DEF Answer, DialogType
  <2>7. AtText(dialog')
    BY <2>5, <2>6 DEF AtText
  <2>8. Len(dialog'.out) <= MaxData
    BY <1>2, <2>5
  <2> QED BY <2>5, <2>7, <2>8 DEF Talk, DialogInv
<1>9. CASE verb \in {"stranger", "QUIT"} \/ (verb = "DATA" /\ ~ (dialog.from /\ dialog.rcpt))
  <2>1. PICK code \in {550, 221, 503} : dialog' = Leave(Answer(dialog, code))
    BY <1>9 DEF ServeCommand, verb
  <2> QED BY <1>5, <2>1
<1>10. CASE verb \in {"nobody", "EHLO", "NOOP"}
  <2>1. PICK code \in {250, 550} : dialog' = Answer(dialog, code)
    BY <1>10 DEF ServeCommand, verb
  <2> QED BY <1>1, <1>4, <2>1
<1> QED BY <1>2, <1>6, <1>7, <1>8, <1>9, <1>10 DEF Verbs

LEMMA ReadDataStep ==
  ASSUME DialogInv, ReadData
  PROVE  DialogInv'
<1> DEFINE w == Head(dialog.up)
           n == Len(dialog.out)
           sent == Append(WireOf(dialog.text), Terminator)
<1>1. /\ dialog \in DialogType /\ Talk(dialog) /\ dialog.server = "data" /\ dialog.up # <<>>
  BY DEF DialogInv, ReadData
<1>2. Sending(dialog) /\ dialog.from /\ dialog.rcpt /\ n <= MaxData
  BY <1>1 DEF Talk, AtText
<1>3. /\ dialog.up \in Seq(Line \cup Verbs) /\ dialog.text \in Seq(Line)
      /\ dialog.out \in Seq(Line) /\ n \in Nat /\ Len(dialog.text) \in Nat
  BY <1>1 DEF DialogType
<1>4. /\ Len(dialog.up) \in Nat \ {0} /\ Len(dialog.up) = Len(dialog.text) + 1 - n
      /\ n <= Len(dialog.text) /\ dialog.down = <<>>
  BY <1>1, <1>2, <1>3, EmptySeq DEF Sending
<1>5. /\ Tail(dialog.up) \in Seq(Line \cup Verbs)
      /\ Len(Tail(dialog.up)) = Len(dialog.up) - 1
      /\ \A i \in 1 .. Len(dialog.up) - 1 : Tail(dialog.up)[i] = dialog.up[i + 1]
  BY <1>1, <1>3, HeadTailProperties
<1>6. w = sent[n + 1]
  <2>1. w = dialog.up[1]
    BY <1>3, <1>4
  <2>2. 1 \in 1 .. Len(dialog.up)
    BY <1>4
  <2> QED BY <1>2, <2>1, <2>2 DEF Sending
<1>7. CASE n = Len(dialog.text)
  <2>1. w = Terminator
    BY <1>3, <1>6, <1>7, SentLines
  <2>2. dialog' = [dialog EXCEPT !.server = "handed", !.up = Tail(@)]
    BY <2>1 DEF ReadData
  <2>3. dialog' \in DialogType
    BY <1>1, <1>5, <2>2 DEF DialogType
  <2>4. /\ dialog'.server = "handed" /\ dialog'.up = Tail(dialog.up)
        /\ dialog'.down = <<>> /\ dialog'.out = dialog.out /\ dialog'.text = dialog.text
    BY <1>1, <1>4, <2>2 DEF DialogType
  <2>5. dialog'.from /\ dialog'.rcpt
    BY <1>1, <1>2, <2>2 DEF DialogType
  <2>6. dialog'.up = <<>>
    <3>1. Len(dialog.up) = 1
      BY <1>3, <1>4, <1>7
    <3>2. Len(Tail(dialog.up)) = 0
      BY <1>5, <3>1
    <3> QED BY <1>5, <2>4, <3>2, EmptySeq
  <2>7. dialog.out = Completed(dialog.text)
    <3>1. Completed(dialog.text) \in Seq(Line) /\ Len(Completed(dialog.text)) = n
      BY <1>3, <1>7, WireLines
    <3>2. \A i \in 1 .. n : dialog.out[i] = Completed(dialog.text)[i]
      BY <1>2 DEF Sending
    <3> QED BY <1>3, <3>1, <3>2, SeqEqual
  <2>8. HandedOver(dialog')
    BY <2>4, <2>5, <2>6, <2>7 DEF HandedOver
  <2> QED BY <1>2, <2>3, <2>4, <2>8 DEF Talk, DialogInv
<1>8. CASE n # Len(dialog.text)
  <2>1. n + 1 \in 1 .. Len(dialog.text)
    BY <1>3, <1>4, <1>8
  <2>2. /\ w = WireOf(dialog.text)[n + 1] /\ w # Terminator
        /\ Unstuffed(w) = Completed(dialog.text)[n + 1]
    <3>1. sent[n + 1] = WireOf(dialog.text)[n + 1]
      BY <1>3, <2>1, SentLines
    <3>2. /\ WireOf(dialog.text)[n + 1] # Terminator
          /\ Unstuffed(WireOf(dialog.text)[n + 1]) = Completed(dialog.text)[n + 1]
      BY <1>3, <2>1, WireLines
    <3> HIDE DEF w
    <3> QED BY <1>6, <3>1, <3>2
  <2>3. Unstuffed(w) \in Line
    BY <1>3, <2>1, <2>2, WireLines
  <2>4. CASE n + 1 > MaxData
    <3>1. dialog' = Leave(Answer(dialog, 552))
      BY <2>2, <2>4 DEF ReadData
    <3>2. dialog' \in DialogType /\ dialog'.out = dialog.out /\ dialog'.server = "ended"
      BY <1>1, <3>1, AnswerFields
    <3> QED BY <1>1, <3>2, EndedTalk DEF DialogInv
  <2>5. CASE ~ (n + 1 > MaxData)
    <3> DEFINE out == Append(dialog.out, Unstuffed(w))
    <3>1. dialog' = [dialog EXCEPT !.out = out, !.up = Tail(@)]
      BY <2>2, <2>5 DEF ReadData
    <3>2. /\ out \in Seq(Line) /\ Len(out) = n + 1 /\ out[n + 1] = Unstuffed(w)
          /\ \A i \in 1 .. n : out[i] = dialog.out[i]
      BY <1>3, <2>3, AppendProperties
    <3> HIDE DEF out
    <3>3. dialog' \in DialogType
      BY <1>1, <1>5, <3>1, <3>2 DEF DialogType
    <3>4. /\ dialog'.server = "data" /\ dialog'.up = Tail(dialog.up)
          /\ dialog'.down = <<>> /\ dialog'.out = out /\ dialog'.text = dialog.text
      BY <1>1, <1>4, <3>1 DEF DialogType
    <3>5. dialog'.from /\ dialog'.rcpt
      BY <1>1, <1>2, <3>1 DEF DialogType
    <3>6. \A i \in 1 .. n + 1 : out[i] = Completed(dialog.text)[i]
      <4>1. \A i \in 1 .. n + 1 : i \in 1 .. n \/ i = n + 1
        <5>1. n \in Nat
          BY <1>3
        <5> HIDE DEF n
        <5> QED BY <5>1
      <4>2. \A i \in 1 .. n : dialog.out[i] = Completed(dialog.text)[i]
        BY <1>2 DEF Sending
      <4> QED BY <2>2, <3>2, <4>1, <4>2
    <3>7. \A i \in 1 .. Len(dialog.up) - 1 : Tail(dialog.up)[i] = sent[(n + 1) + i]
      <4> SUFFICES ASSUME NEW i \in 1 .. Len(dialog.up) - 1
                   PROVE  Tail(dialog.up)[i] = sent[(n + 1) + i]
        OBVIOUS
      <4>1. i + 1 \in 1 .. Len(dialog.up) /\ n + (i + 1) = (n + 1) + i
        <5> HIDE DEF n
        <5> QED BY <1>3, <1>4
      <4>2. Tail(dialog.up)[i] = dialog.up[i + 1]
        BY <1>5
      <4>3. dialog.up[i + 1] = sent[n + (i + 1)]
        BY <1>2, <4>1 DEF Sending
      <4> QED BY <4>1, <4>2, <4>3
    <3>8. Sending(dialog')
      <4>1. Len(dialog'.up) = Len(dialog.up) - 1 /\ Len(dialog'.out) = n + 1
        BY <1>5, <3>2, <3>4
      <4>2. n + 1 <= Len(dialog.text) /\ Len(dialog.up) - 1 = Len(dialog.text) + 1 - (n + 1)
        <5>1. \A m, t, u \in Nat :
                m <= t /\ m # t /\ u = t + 1 - m => m + 1 <= t /\ u - 1 = t + 1 - (m + 1)
          OBVIOUS
        <5> HIDE DEF n
        <5> QED BY <1>3, <1>4, <1>8, <5>1
      <4> HIDE DEF sent, n
      <4> QED BY <3>4, <3>6, <3>7, <4>1, <4>2 DEF Sending, sent
    <3>9. Len(dialog'.out) <= MaxData
      BY <1>3, <2>5, <3>2, <3>4, MailPathAssumption
    <3>10. AtText(dialog')
      BY <3>5, <3>8 DEF AtText
    <3> QED BY <3>3, <3>4, <3>9, <3>10 DEF Talk, DialogInv
  <2> QED BY <2>4, <2>5
<1> QED BY <1>7, <1>8

LEMMA WriteDataReplyStep ==
  ASSUME DialogInv, WriteDataReply
  PROVE  DialogInv'
<1>1. /\ dialog \in DialogType /\ Talk(dialog) /\ dialog.server = "handed"
  BY DEF DialogInv, WriteDataReply
<1>2. PICK durable \in BOOLEAN :
        dialog' = Leave([dialog EXCEPT !.down = Append(@, IF durable THEN 250 ELSE 451)])
  BY Zenon DEF WriteDataReply
<1> DEFINE code == IF durable THEN 250 ELSE 451
           d    == [dialog EXCEPT !.down = Append(dialog.down, code)]
<1>3. Append(dialog.down, code) \in Seq(Int)
  <2>1. code \in Int /\ dialog.down \in Seq(Int)
    BY <1>1 DEF DialogType
  <2> QED BY <2>1, AppendProperties
<1> HIDE DEF code
<1>4. d \in DialogType
  BY <1>1, <1>3 DEF DialogType
<1>5. d.out = dialog.out
  BY <1>1 DEF DialogType
<1>6. dialog' = Leave(d)
  BY <1>2 DEF code
<1> HIDE DEF d
<1>7. dialog' \in DialogType /\ dialog'.out = d.out /\ dialog'.server = "ended"
  BY <1>4, <1>6 DEF Leave, DialogType
<1> QED BY <1>1, <1>5, <1>7, EndedTalk DEF DialogInv

LEMMA DialStep ==
  ASSUME DialogInv, SubmissionInv, Dial \/ OtherDials
  PROVE  DialogInv'
<1>1. CASE Dial
  <2>1. outbox \in Seq(MailType) /\ outbox # <<>>
    BY <1>1 DEF Dial, SubmissionInv, SubmissionTypes
  <2>2. Head(outbox) \in MailType
    BY <2>1
  <2>3. Head(outbox).text \in Seq(Line)
    BY <2>2 DEF MailType
  <2>4. dialog' = Dialog("greeting", Head(outbox).text)
    BY <1>1 DEF Dial
  <2> QED BY <2>3, <2>4, NewDialog DEF DialogInv
<1>2. CASE OtherDials
  <2>1. <<>> \in Seq(Line) /\ dialog' = Dialog("other", <<>>)
    BY <1>2, EmptySeq DEF OtherDials
  <2> QED BY <2>1, NewDialog DEF DialogInv
<1> QED BY <1>1, <1>2

LEMMA OverlayStep ==
  ASSUME DialogInv, SubmissionInv, Overlay
  PROVE  DialogInv'
<1>1. Break \/ DialerDone \/ DialerFails => dialog' = NoDialog
  BY DEF Break, DialerDone, DialerFails
<1>2. dialog' = NoDialog => DialogInv'
  BY DEF DialogInv
<1> QED BY <1>1, <1>2, DialStep, DialerGoesOnStep, OtherGoesOnStep, ServeCommandStep,
           ReadDataStep, WriteDataReplyStep DEF Overlay

(* The overlay only takes the first mail away.                             *)
LEMMA OverlayKeepsMails ==
  ASSUME SubmissionInv, Overlay
  PROVE  SubmissionInv'
<1>1. UNCHANGED <<session, client, replies>>
  BY DEF Overlay, submission, Dial, OtherDials, Break, DialerGoesOn, DialerDone, DialerFails,
         OtherGoesOn, ServeCommand, ReadData, WriteDataReply
<1>2. outbox \in Seq(MailType)
  BY DEF SubmissionInv, SubmissionTypes
<1>3. outbox' = outbox \/ outbox' = Tail(outbox)
  BY DEF Overlay, Dial, OtherDials, Break, DialerGoesOn, DialerDone, DialerFails,
         OtherGoesOn, ServeCommand, ReadData, WriteDataReply
<1>4. outbox' \in Seq(MailType) /\ MailsAreMeant'
  <2>1. CASE outbox' = outbox
    BY <1>2, <2>1 DEF SubmissionInv, MailsAreMeant
  <2>2. CASE outbox' = Tail(outbox) /\ outbox # <<>>
    <3>1. /\ Tail(outbox) \in Seq(MailType) /\ Len(Tail(outbox)) = Len(outbox) - 1
          /\ \A i \in 1 .. Len(Tail(outbox)) : Tail(outbox)[i] = outbox[i + 1]
      BY <1>2, <2>2, HeadTailProperties
    <3>2. \A i \in DOMAIN Tail(outbox) :
            i \in 1 .. Len(Tail(outbox)) /\ i + 1 \in DOMAIN outbox
      BY <1>2, <3>1
    <3> QED BY <2>2, <3>1, <3>2 DEF SubmissionInv, MailsAreMeant
  <2>3. CASE outbox' = Tail(outbox) /\ outbox = <<>>
    BY <2>3, EmptySeq DEF MailsAreMeant
  <2> QED BY <1>3, <2>1, <2>2, <2>3
<1> QED BY <1>1, <1>4 DEF SubmissionInv, SubmissionTypes, InStep

-----------------------------------------------------------------------------
THEOREM MailPathInvariant == Spec => [](SubmissionInv /\ DialogInv)
<1>1. Init => SubmissionInv /\ DialogInv
  BY SubmissionInit DEF Init, DialogInv
<1>2. SubmissionInv /\ DialogInv /\ [Next]_vars => (SubmissionInv /\ DialogInv)'
  <2> SUFFICES ASSUME SubmissionInv, DialogInv, [Next]_vars
               PROVE  SubmissionInv' /\ DialogInv'
    OBVIOUS
  <2>1. CASE Submission \/ \E l \in Lines : SendMail(l)
    <3>1. UNCHANGED dialog
      <4>1. ASSUME NEW l, SendMail(l) PROVE UNCHANGED dialog
        BY <4>1, Zenon DEF SendMail
      <4>2. ASSUME Connect \/ Disconnect \/ ReadReply \/ ReadRefusal PROVE UNCHANGED dialog
        BY <4>2, Zenon DEF Connect, Disconnect, ReadReply, ReadRefusal
      <4> QED BY <2>1, <4>1, <4>2 DEF Submission, WriteLine, WriteDot, SaidIntoText, Helo, MailFrom,
                 RcptTo, Data, Rset, Other, Says, AuthLogin, Username, Password
    <3>2. DialogInv'
      BY <3>1, Zenon DEF DialogInv
    <3> QED BY <2>1, <3>2, SubmissionStep
  <2>2. CASE Overlay
    BY <2>2, OverlayStep, OverlayKeepsMails
  <2>3. CASE UNCHANGED vars
    BY <2>3 DEF vars, submission, SubmissionInv, SubmissionTypes, MailsAreMeant, DialogInv
  <2> QED BY <2>1, <2>2, <2>3 DEF Next
<1> QED BY <1>1, <1>2, PTL DEF Spec

(* A session's sender, recipients and text go with its state, and a peer   *)
(* takes a text only after a sender and a recipient (reply_code,           *)
(* accept_mail, overlay_serve_stream).                                     *)
THEOREM SessionIsCoherent == Spec => []SessionOK
<1>1. SubmissionInv /\ DialogInv => SessionOK
  <2> SUFFICES ASSUME SubmissionInv, DialogInv PROVE SessionOK
    OBVIOUS
  <2>1. session \in SessionType /\ Coherent(session)
    BY DEF SubmissionInv, SubmissionTypes
  <2>2. session.state \in States /\ session.from \in BOOLEAN
    BY <2>1, SessionFields
  <2>3. session.from = (session.state \in {"rcpt", "data"})
    <3>1. session.from <=> session.state \in {"rcpt", "data"}
      BY <2>1 DEF Coherent
    <3>2. (session.state \in {"rcpt", "data"}) \in BOOLEAN
      OBVIOUS
    <3>3. \A a, b \in BOOLEAN : (a <=> b) => a = b
      OBVIOUS
    <3> QED BY <2>2, <3>1, <3>2, <3>3
  <2>4. ASSUME dialog # NoDialog
        PROVE  /\ dialog.server \in {"command", "data", "handed", "ended"}
               /\ dialog.server \in {"data", "handed"} => dialog.from /\ dialog.rcpt
               /\ Len(dialog.out) <= MaxData
    BY <2>4 DEF DialogInv, DialogType, Talk, AtText, HandedOver
  <2> QED BY <2>1, <2>2, <2>3, <2>4 DEF SessionOK, Coherent
<1> QED BY <1>1, MailPathInvariant, PTL

(* Outbox has the lines the client wrote, and the caller of the overlay    *)
(* gets the lines that were sent (handle_conn, accept_mail,                *)
(* overlay_send_stream, read_data).                                        *)
THEOREM TextArrivesWhole == Spec => []BodyIsWhole
<1>1. SubmissionInv /\ DialogInv => BodyIsWhole
  BY DEF SubmissionInv, MailsAreMeant, DialogInv, Talk, HandedOver, BodyIsWhole
<1> QED BY <1>1, MailPathInvariant, PTL
=============================================================================
