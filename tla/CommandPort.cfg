SPECIFICATION Spec
CONSTANTS
  Data = {d0, d1}
  ResetData = d0
  DWELL = 2
  READ_DELAY = 7
INVARIANTS RegistersFollow
PROPERTIES ImplementsQueue EchoMatches
