SPECIFICATION Spec
CONSTANTS
    Sessions <- MCSessions
    Configs <- MCConfigs
    RinexFiles <- MCFiles
    SourceDir = TRUE
    MaxCalls = 3
    MaxFaults = 1
INVARIANTS
  SessionInvariant
  CheckInvariant
  PreparationInvariant
CHECK_DEADLOCK FALSE
