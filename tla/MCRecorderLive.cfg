SPECIFICATION FairSpec
CONSTANTS
  Clients = {c1, c2}
  Events = {e1, e2}
  Frames = {f1}
  None = None
  Faults = {"write", "crash"}
  MaxCrashes = 1
  MaxCancels = 1
PROPERTIES
  CallsAnswered
CHECK_DEADLOCK FALSE
