SPECIFICATION ViewerSpec
CONSTANTS
  Threads = {t1}
  Slots = 1
  MaxMoves = 1
  MaxRequests = 1
  MaxRestarts = 0
INVARIANT TrueMeansCurrent
CHECK_DEADLOCK FALSE
