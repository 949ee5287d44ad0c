SPECIFICATION DeskSpec
CONSTANTS
    Apps = {1, 2}
    Catalogs = {"a"}
    Pids = {1, 2}
    MaxScans = 2
    Panels = {"ADDNEQ2.INP", "CRDMERGE.INP", "PPP.pl"}
    Kind <- PanelKind
    Versions <- PanelVersions
    Order <- PanelOrder
    BinCatalogs <- MCCatalogs
    BinInfos <- MCInfos
    Networks = {0, 3}
    PerStation = 1
    Margin = 2
    Floor = 4
    MaxRuns = 2
    MaxCuts = 1
    DirSize = 2
    MaxCopies = 3
    MaxFaults = 1
    Sites = {"BUCA", "DAVA"}
    Epochs = {0, 1, 2}
    Step = 2
    Hidden = {2}
    MaxKills = 1
INVARIANTS
  NothingLost
  ExportIsExact
  ListAgrees
  JobInvariant
  RecoveryInvariant
  PanelInvariant
  SchemaInvariant
PROPERTIES
  ReinvokedCopiesNothing
CHECK_DEADLOCK FALSE
