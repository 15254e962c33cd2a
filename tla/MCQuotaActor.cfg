SPECIFICATION FairQuotaSpec
CONSTANTS
  Providers = {zai, gpt}
  Children = {gpt}
  None = None
  Retries = {2}
  MaxTime = 4
  MaxCalls = 3
INVARIANTS RefreshSafe NoChildLeft
PROPERTIES  RefreshEnds
CHECK_DEADLOCK FALSE
