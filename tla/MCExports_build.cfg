\* Two equivalent requests, two workers, boots, and every fault.
CONSTANTS
  e1 = e1
  e2 = e2
  j1 = j1
  j2 = j2
  j3 = j3
  w1 = w1
  w2 = w2
  f = f
  None = None
  ExportIds = {e1, e2}
  Jobs = {j1, j2}
  Workers = {w1, w2}
  Fingerprint <- Same
  Key <- SameKey
  TargetOf <- Targets
  Limit <- Attempts
  Local = TRUE
  Faults = {"process", "lease", "database"}
SPECIFICATION Spec
CHECK_DEADLOCK FALSE
SYMMETRY Symmetric
INVARIANTS ExportSafe
