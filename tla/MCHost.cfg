SPECIFICATION MCSpec
CONSTANTS
  Revisions = {1, 2, 3}
  Model <- MCModel
  MaxRuns = 4
  MaxFaults = 1
  Threads = {t1, t2}
  Slots = 1
  MaxMoves = 1
  MaxRequests = 2
  MaxRestarts = 1
INVARIANTS
  OpenMeansPublished
  SlotsAndSitesAreGuarded
  TrueMeansWrittenSince
  AnswersAreGrounded
PROPERTIES
  GreenDeployServesItsRevision
  RolledBackIsRestored
  RedeployRecovers
  EveryRequestEnds
CONSTRAINT
  MCFirstCommitFirst
CHECK_DEADLOCK FALSE
