SPECIFICATION MCSpec
CONSTANTS
  Msgs = {old, new}
  Preloaded = {old}
  PreDests = {1}
  ChatMsgs = {}
  Dests = {1, 2}
  Self = 2
  UserBoxes = {"TyrChat"}
  Window = 1
  MaxUid = 3
  MaxMails = 4
  MaxClock = 2
  MaxRcpts = 2
  MaxCancels = 1
  MaxFaults = 1
INVARIANTS
  AcceptedMailIsKept
  RefusedMailIsWithdrawn
  SentMeansSettled
  SendingWhatIsQueued
  SelfCopyRepeatsLate
PROPERTIES
  AcceptedMailIsDelivered
