\* Both options on and off; packets cut at every length the code compares with.
SPECIFICATION Spec
CONSTANTS
  Packets <- SomePackets
INVARIANTS WalkFindsTransport FilteredNeverInjected NoCollateral RejectAnswered
