SPECIFICATION Spec
CONSTANTS
  MAX_BYTES = 64
  FLOAT_ARGS = 8
  NTAPS = 2
  CALIBRATION = 100
  EGAIN_LIMIT = 32
  MAX_CALLS = 2
  Entries <- MCEntries
  Plants <- MCPlants
  Response <- MCResponse
  Traces <- MCTraces
INVARIANTS OkMeansInForce ShownIsHeld RoutingFollows LabelsNameSignals LocksOnFeature AngleOrients DelayFound
CHECK_DEADLOCK FALSE
