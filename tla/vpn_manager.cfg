\* Two threads of the app that start and stop through the manager, waiting for
\* isRunning() before they stop.
SPECIFICATION ManagerSpec
CONSTANTS
  Callers = {c1, c2}
  Engines = {e1, e2}
  NoEngine = NoEngine
  NoCaller = NoCaller
  MaxQueue = 1
  AwaitRunning = TRUE
INVARIANTS TypeOK SingleShutdown SingleReader ManagerInSync
PROPERTIES StopTearsDown RevokedDetected StopReturns
CHECK_DEADLOCK FALSE
