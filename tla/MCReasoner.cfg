SPECIFICATION FairSpec
CONSTANTS
  Requests = {r1, r2, r3}
  Faults = {"launch", "crash", "hang", "partial", "garbage", "extra", "result"}
  MaxSessions = 3
INVARIANTS WorkersSafe CorrelatedReplies
PROPERTIES AnsweredOrStuck
CHECK_DEADLOCK FALSE
