SPECIFICATION StoreSpec
CONSTANTS
  Msgs = {chat}
  ChatMsgs = {chat}
  Dests = {bob}
  UserBoxes = {"TyrChat", "Work"}
  Window = 1
  MaxUid = 2
  MaxMails = 2
  MaxClock = 2
INVARIANTS
  Integrity
  UidBelowNext
  SeenMeansStored
  NoRepeatInWindow
PROPERTIES
  CounterNeverFalls
