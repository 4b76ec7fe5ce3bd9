SPECIFICATION CaptureSpec
CONSTANTS
  DEPTH = 6
  DEC_MOD = 8
  Decimations = {0, 1, 2, 3, 7}
INVARIANTS TypeOK
PROPERTIES SampleTimes
