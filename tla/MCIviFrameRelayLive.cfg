SPECIFICATION FairSpec
CONSTANTS
  SeqNumbers <- MCOneSeqNumber
  Times <- MCOneTime
  Margin = 0
  CopyMemoryFrames = 1
  RetriggerLimit = 0
  Malformed = Malformed
  SlotValues <- MCSlots
  MaxSubscriptions = 1
  MaxMessages = 0
  MaxClients = 1
  MaxPhases = 6
  InboxCapacity = 1
  MaxClientAttempts = 1
  MaxOther = 0
  MailboxCapacity = 1
PROPERTIES
  StopOrLossEndsTheProcess
CHECK_DEADLOCK FALSE
