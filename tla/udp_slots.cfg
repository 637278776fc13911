\* Three handlers of one flow compete for two slots.
SPECIFICATION Spec
CONSTANTS
  Flows = {f1}
  Handlers = {h1, h2, h3}
  NoFlow = NoFlow
  MaxUDPConns = 2
SYMMETRY Symmetry
INVARIANTS SlotAccounting CapRespected NothingLeftBehind
PROPERTIES SlotsArePooled DialsAsPromised
CHECK_DEADLOCK FALSE
