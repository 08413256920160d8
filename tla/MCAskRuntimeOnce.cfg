SPECIFICATION Spec
CONSTANTS
  Asks = {"first"}
  MaxAsks = 1
  MaxChanges = 0
  MaxRestarts = 0
INVARIANTS
  WarmedServiceIsTheOneServed
CHECK_DEADLOCK FALSE
