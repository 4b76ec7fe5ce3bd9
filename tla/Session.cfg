SPECIFICATION FairSpec
CONSTANTS
  MAX_CALLS = 3
  BACKLOG = 2
  PIECES = 2
INVARIANTS InCallOrder OkMeansExecuted AloneGetsOwn
PROPERTIES LockComesFree ServerComesBack
CHECK_DEADLOCK FALSE
