\* One thread that stops an engine whose Start goroutine may not have run yet.
SPECIFICATION ManagerSpec
CONSTANTS
  Callers = {c1}
  Engines = {e1, e2}
  NoEngine = NoEngine
  NoCaller = NoCaller
  MaxQueue = 1
  AwaitRunning = FALSE
INVARIANTS NoOrphanEngine
CHECK_DEADLOCK FALSE
