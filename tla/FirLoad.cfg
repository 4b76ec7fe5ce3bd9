SPECIFICATION Spec
CONSTANTS
  NTAPS = 2
  MAX_COEFFS = 3
  Coeffs = {0, 1, 2}
INVARIANTS OkMeansLoaded
PROPERTIES FirstLoadAtomic
