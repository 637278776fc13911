\* A request and two chunks of response; 2 : 3 : 4 stands for the code's 30 s : 2 min : 5 min.
SPECIFICATION Spec
CONSTANTS
  tcpIdleCheckStep = 2
  tcpZombieTimeout = 3
  tcpIdleTimeout = 4
  MaxChunks <- Chunks
  MaxTime = 7
INVARIANTS CleanEndLosesNothing FinFollowsData IdleBound
PROPERTIES ActiveNotKilled
CHECK_DEADLOCK FALSE
