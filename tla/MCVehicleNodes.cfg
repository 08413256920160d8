SPECIFICATION MCSpec
CONSTANTS
  OverrideMaxAge = 1
  OdometryMaxAge = 1
  StopHold = 2
  WarningMargin = 1
  RssDistances = {1}
  PointDistances = {1, 4}
  MaxTime = 3
  MaxSamples = 2
  MaxReadsPerCall = 2
  Withheld = {2}
  MaxSent = 3
  MaxLeaves = 1
  PrefixBytes = 2
  SampleBytes = 4
  Lengths = {0, 2, 3}
  MaxFrames = 3
  MaxConnections = 3
INVARIANTS
  NewSamplesOnce
  SubscribedProxyIsKept
  ForwardedAsSent
PROPERTIES
  ImplementsLifecycle
  WarningIsNotLost
  ReleasedAtStandstill
  AdapterEnds
CHECK_DEADLOCK FALSE
