SPECIFICATION Spec
CONSTANTS
  BatchSize = 1
  BufferMax = 2
  PoolSize = 2
  Tasks = {t1, t2}
  MaxWrites <- ThreeAndOne
  Faults = {"tooManyConnections", "otherError"}
  MaxFaults = 1
INVARIANTS
  NoRowTwice
  GuardNeverStuck
  BufferBounded
  LossIsCounted
PROPERTIES
  ImplementsLedger
  RowsSettle
  CloseEnds
CHECK_DEADLOCK FALSE
