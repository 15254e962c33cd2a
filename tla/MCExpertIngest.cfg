SPECIFICATION Spec
CONSTANTS
  e1 = e1
  e2 = e2
  Events = {e1, e2}
  Messages = {m1, m2}
  m1 = m1
  m2 = m2
  Captures <- MCCaptures
  Runners = {b1, b2}
  Options <- MCOptions
  None = None
  Torn = Torn
  Live = Live
  Gone = Gone
  Faults = {"refuse", "ambiguous", "kill", "stop", "slow"}
  MaxStarts = 2
  MaxRuns = 2
INVARIANTS  CheckpointCovers SuccessCovers NeverRefused
CHECK_DEADLOCK FALSE
SYMMETRY Symmetry
