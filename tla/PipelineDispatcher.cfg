SPECIFICATION Spec
CONSTANTS
  f1 = f1
  f2 = f2
  f3 = f3
  h1 = h1
  h2 = h2
  Scanners = {}
  Dispatchers = {d1}
  Files = {f1, f2, f3}
  Hashes = {h1, h2}
  HashOf <- CopyAndOther
  Chains = {c1, c2, c3, c4}
  Faults = {"trigger", "standardize", "validate", "load", "outcomeUnknown", "workerLost"}
  MaxFaults = 3
SYMMETRY ChainSymmetry
INVARIANTS
  ContentInvariant
PROPERTIES
  ImplementsLifecycle
CHECK_DEADLOCK FALSE
