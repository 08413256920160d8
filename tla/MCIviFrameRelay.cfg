SPECIFICATION Spec
CONSTANTS
  SeqNumbers <- MCOneSeqNumber
  Times <- MCOneTime
  Margin = 0
  CopyMemoryFrames = 1
  RetriggerLimit = 0
  Malformed = Malformed
  SlotValues <- MCSlots
  MaxSubscriptions = 2
  MaxMessages = 1
  MaxClients = 2
  MaxPhases = 6
  InboxCapacity = 1
  MaxClientAttempts = 1
  MaxOther = 0
  MailboxCapacity = 1
INVARIANTS
  NoLostWakeup
  JoinedExitIsClean
  CoreFollowsTheWorker
PROPERTIES
  ImplementsRelayCore
  ServedFromTheCurrentSubscription
CONSTRAINTS
  MCSecondRunsOn
  MCSecondClientRunsOn
CHECK_DEADLOCK FALSE
