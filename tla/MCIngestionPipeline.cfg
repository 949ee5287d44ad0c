SPECIFICATION Spec
CONSTANTS
  f1 = f1
  f2 = f2
  f3 = f3
  h1 = h1
  h2 = h2
  Scanners = {s1}
  Dispatchers = {d1}
  Files = {f1, f2}
  Hashes = {h1, h2}
  HashOf <- TwoFiles
  Chains = {c1, c2, c3}
  Faults = {"load", "outcomeUnknown"}
  MaxFaults = 2
INVARIANTS
  SuccessIsCatalogued
PROPERTIES
  PendingResolves
CHECK_DEADLOCK FALSE
