SPECIFICATION Spec
CONSTANTS
  HP0_BASE_ADDR = 4
  BURST_BEATS = 4
  BURSTS = 2
  OUTSTANDING = 1
  MidBurstReset = FALSE
  BrespConnected = TRUE
PROPERTIES StreamsBram
