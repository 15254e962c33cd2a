SPECIFICATION Spec
CONSTANTS
  Importers = {i1, i2}
  Formats = {"codex", "opencode"}
  Rows <- MCRows
  t1 = t1
  t2 = t2
  t3 = t3
  d1 = d1
  d2 = d2
  Ids = {d1, d2}
  Texts = {t1, t2, t3}
  Splitting = {t3}
  None = None
  Bad = Bad
  Torn = Torn
  Faults = {"write", "crash"}
  MaxRows = 3
  MaxRuns = 3
SYMMETRY Symmetry
INVARIANTS CorpusSafe CleanMeansComplete GrowthNeverConflicts 
CHECK_DEADLOCK FALSE
