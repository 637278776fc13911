\* Two handlers, two flows, room for one pending request.
SPECIFICATION FairSpec
CONSTANTS
  Flows = {f1, f2}
  Handlers = {h1, h2}
  NoFlow = NoFlow
  MaxInFlight = 1
INVARIANTS OneHandlerPerFlow CountMatchesTable NothingLeftBehind
PROPERTIES DialsAsPromised AdmissionRecovers StopDrains
CHECK_DEADLOCK FALSE
