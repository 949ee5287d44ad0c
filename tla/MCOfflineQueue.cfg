SPECIFICATION Spec
CONSTANTS
    Kinds <- MCKinds
    Slots = {"f1", "f2"}
    MaxSheets = 2
    MaxFaults = 2
INVARIANTS
  SheetInvariant
PROPERTIES
  ListsAreAtomic
  EventuallyStored
CHECK_DEADLOCK FALSE
