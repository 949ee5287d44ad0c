SPECIFICATION Spec
CONSTANTS
    Kinds <- MCKinds
    Slots = {"f1"}
    MaxSheets = 1
    MaxFaults = 1
INVARIANT QueuedOnlyOnFault
CHECK_DEADLOCK FALSE
