\* A flow whose packets go one way only.
SPECIFICATION RelaySpec
CONSTANTS
  udpIdleTimeout = 2
  MaxPackets = 2
  MaxTime = 6
INVARIANTS OnlyIdleCleanedUp
CHECK_DEADLOCK FALSE
