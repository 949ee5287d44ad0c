SPECIFICATION Spec
CONSTANTS
  f1 = f1
  f2 = f2
  f3 = f3
  h1 = h1
  h2 = h2
  Scanners = {}
  Dispatchers = {d1}
  Files = {f1}
  Hashes = {h1}
  HashOf <- OneFile
  Chains = {c1}
  Faults = {"validate"}
  MaxFaults = 1
PROPERTY PendingResolves
CHECK_DEADLOCK FALSE
