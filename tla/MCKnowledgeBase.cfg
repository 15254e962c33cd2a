SPECIFICATION Spec
CONSTANTS
  Events = {e1, e2, e3}
  Contents = {p, q}
  Labels = {l1}
  Scopes = {s1, s2}
  EvidenceIds = {v1}
  None = None
  Faults = {"crash", "reasoner"}
  MaxLabels = 2
  MaxRequests = 3
SYMMETRY Symmetry
INVARIANTS ChainsSafe Grounded IndexComplete AcceptedIsStored
PROPERTIES AnswersHold
CHECK_DEADLOCK FALSE
