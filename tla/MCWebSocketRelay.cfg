SPECIFICATION FairSpec
CONSTANTS
  Faults = {"connect", "prepare", "relay", "locked", "cancel"}
  MaxFrames = 4
  MaxCancels = 2
INVARIANTS JournalSafe EndRecorded
PROPERTIES EitherEndEndsBoth
CHECK_DEADLOCK FALSE
