SPECIFICATION FairSpec
CONSTANTS
  MAX_CALLS = 2
  BURSTS = 2
  Codes = {c1, c2}
  ResetCode = c1
INVARIANTS NoMixing
PROPERTIES FreshFrame StaysQuiet WakesUp
