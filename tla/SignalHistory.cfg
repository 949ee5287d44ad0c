SPECIFICATION HistorySpec
CONSTANTS
  StreakThreshold = 3
  GoodThreshold = 4
  SuspectThreshold = 2
  ForceIntegration = FALSE
  MaxSignals = 9
INVARIANTS
  ModeConsistent
  StreaksAreRuns
  RowInvariant
PROPERTIES
  ModeChangesOnEvidence
CHECK_DEADLOCK FALSE
