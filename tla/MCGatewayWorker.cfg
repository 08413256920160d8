SPECIFICATION FairSpec
CONSTANTS
  SlotValues <- MCOneSlot
  InboxCapacity = 2
  MaxClientAttempts = 2
  MaxSubscriptions = 2
  MaxMessages = 2
  MaxOther = 1
INVARIANTS
  LibraryRules
PROPERTIES
  EndsForItsOwnPublication
  FeedInOrder
  StopEndsTheWorker
  DisconnectedIsActedOn
CHECK_DEADLOCK FALSE
