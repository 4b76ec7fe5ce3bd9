SPECIFICATION FairSpec
CONSTANTS
  B = 5
  DAC = 3
  Q = 1
  GUARD = 4
  MIN_SAT = 4
  MAX_SAT = 5
  ALPHA_INIT = 1
  MAX_DEC = 3
  Samples <- MCSamples
  Requests <- MCRequests
INVARIANTS OkMeansInForce IntegralFits OutputFaithful
PROPERTIES LeavesRail
