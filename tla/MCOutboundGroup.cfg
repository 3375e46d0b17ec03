\* Group mails submitted while the sender runs: two recipients, one of them
\* the node itself, no crash and no storage error.
SPECIFICATION Spec
CONSTANTS
  Msgs = {grp}
  Preloaded = {}
  PreDests = {}
  ChatMsgs = {}
  Dests = {1, 2}
  Self = 2
  UserBoxes = {"TyrChat"}
  Window = 1
  MaxUid = 1
  MaxMails = 2
  MaxClock = 0
  MaxRcpts = 2
  MaxCancels = 0
  MaxFaults = 0
INVARIANT EveryRecipientIsKept
