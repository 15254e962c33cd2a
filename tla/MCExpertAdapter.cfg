SPECIFICATION FairSpec
CONSTANTS
  Requests = {i1, i2, a1}
  Admin = {a1}
  Faults = {"spawn", "crash", "hang", "garbage", "long", "cancel"}
INVARIANTS SessionsSafe 
PROPERTIES CallsEnd
CHECK_DEADLOCK FALSE
