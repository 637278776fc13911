\* Two datagrams each way, three idle periods.
SPECIFICATION RelaySpec
CONSTANTS
  udpIdleTimeout = 2
  MaxPackets = 2
  MaxTime = 6
INVARIANTS IdleReleased RelayAllOrNothing
CHECK_DEADLOCK FALSE
