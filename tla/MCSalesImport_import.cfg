\* Two runs of one period, or one run with every fault, on two workers, and a file with the same sale.
CONSTANTS
  r1 = r1
  r2 = r2
  s1 = s1
  w1 = w1
  w2 = w2
  None = None
  Runs = {r1, r2}
  Sales = {s1}
  Workers = {w1, w2}
  Found <- All
  Overlaps <- AllOverlap
  InFile = {s1}
  Worlds <- TwoOrOne
  MaxUploads = 1
SPECIFICATION Spec
CHECK_DEADLOCK FALSE
INVARIANTS ImportSafe
SYMMETRY Symmetric
PROPERTIES CompletedStays
