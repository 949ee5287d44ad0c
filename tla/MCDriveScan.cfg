SPECIFICATION Spec
CONSTANTS
    Entries <- MCEntries
    Root = "drive"
    Entry <- MCEntry
    Capacity = 10
    BatchSize = 2
    SaveEvery = 5
    MaxDepth = 1
    LegacyPaths = {"link"}
    MaxStops = 2
    SurveyLater = FALSE
INVARIANTS
  CheckpointHonest
  CompleteCatalogue
  RecordInvariant
  WipeIsDisclosed
CHECK_DEADLOCK FALSE
