SPECIFICATION ImapSpec
CONSTANTS
  Msgs = {m1, m2}
  ChatMsgs = {}
  Dests = {bob}
  UserBoxes = {"TyrChat"}
  Window = 0
  MaxUid = 2
  MaxMails = 2
  MaxClock = 0
  Sessions = {s1, s2}
  ClientBoxes = {"INBOX"}
  NoBox = NoBox
SYMMETRY Symmetry
INVARIANTS
  UidMeansOneMail
PROPERTIES
  ExpungedWasMarked
  NumbersStay
