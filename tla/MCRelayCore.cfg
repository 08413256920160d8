SPECIFICATION MCSpec
CONSTANTS
  SeqNumbers <- MCTwoSeqNumbers
  Times <- MCTimes
  Margin = 1
  CopyMemoryFrames = 2
  RetriggerLimit = 1
  Malformed = Malformed
  MaxSubscriptions = 2
  MaxMessages = 4
  MaxClients = 2
  MaxPhases = 2
  DestroyedRetryPeriod = 1
  DestroyedFastWindow = 3
  RetryPeriod = 2
  SilenceTimeout = 1
  SilentSubscriptionsBeforeBackOff = 3
  SilentBackOff = 4
  StartDiagnostic = 4
  SlowRetryPeriod = 5
  ClientFastRetryWindow = 4
  MaxTime = 12
  MaxSucceeded = 4
  MaxCalls = 5
INVARIANTS
  ReturnsAreLostOnlyToLaterStalls
PROPERTIES
  TriggersOnlyForAnIngressTheRelayLacks
  ImplementsSubscriptionPhase
  SilentSubscriptionsBackOff
CONSTRAINT MCShortOrSimple
CHECK_DEADLOCK FALSE
