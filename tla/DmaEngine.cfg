SPECIFICATION FairSpec
CONSTANTS
  HP0_BASE_ADDR = 4
  BURST_BEATS = 4
  BURSTS = 3
  OUTSTANDING = 1
  MidBurstReset = FALSE
  BrespConnected = TRUE
INVARIANTS AddressInFrame BurstAgreement BeatLag
PROPERTIES HeldUntilAccepted ReadyMeansWritten ImplementsTransfer TransferCompletes
