SPECIFICATION FairSpec
CONSTANTS
  Asks = {"first", "second"}
  MaxAsks = 3
  MaxChanges = 1
  MaxRestarts = 1
INVARIANTS
  OnlyTheExportAnswers
PROPERTIES
  EveryAskIsAnswered
  RestartRecovers
CHECK_DEADLOCK FALSE
