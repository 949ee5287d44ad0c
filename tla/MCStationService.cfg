SPECIFICATION Spec
CONSTANTS
    Sentence <- MCSentence
    Modes <- MCModes
    QueueSize = 1
    ReadSize = 2
    BufferLimit = 3
    BackoffBase = 1
    BackoffMax = 4
    HeaderLimit = 3
    Gaps <- MCGaps
    HalfDay = 4
    MaxPause = 2
    MaxFaults = 2
INVARIANTS
  DeliveryInvariant
  CasterIsSpared
PROPERTIES
  Reconnects
CHECK_DEADLOCK FALSE
