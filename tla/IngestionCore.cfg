SPECIFICATION Spec
CONSTANTS
  StreakThreshold = 2
  GoodThreshold = 2
  SuspectThreshold = 1
  ForceIntegration = FALSE
  Threshold = 1
  MaxGap = 3
  Speeds = {0, 1, 2}
  Sizes = {1}
  EventFaults = {"notStored", "stored"}
  MaxTime = 4
  MaxReplays = 1
  MaxEventFaults = 1
  MaxRows = 3
INVARIANTS
  StrongMotionReported
  EventInvariant
  IntegratedAtMostOnce
PROPERTIES
  OpenEventEndsInRow
CHECK_DEADLOCK FALSE
