SPECIFICATION Spec
CONSTANTS
  Clients = {c1, c2, c3}
  Events = {e1, e2}
  Frames = {f1}
  None = None
  Faults = {"write", "cancel", "crash", "open"}
  MaxCrashes = 1
  MaxCancels = 1
SYMMETRY Symmetry
INVARIANTS
  TypeOK
  AckedDurable
  PrologHasSource
  NoHoles
PROPERTIES
  FailStop
  ImplementsCaptureLog
CHECK_DEADLOCK FALSE
