\* Two handlers for one flow, Stop and CloseAllConnections at any time.
SPECIFICATION FairSpec
CONSTANTS
  Flows = {f1}
  Handlers = {h1, h2}
  NoFlow = NoFlow
  MaxUDPConns = 2
PROPERTIES StopDrains CloseAllEndsFlows
CHECK_DEADLOCK FALSE
