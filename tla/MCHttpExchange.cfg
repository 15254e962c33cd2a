SPECIFICATION Spec
CONSTANTS
  Exchanges = {x1, x2}
  Keys = {k1, k2, k3}
  Faults = {"transport", "budget", "record", "shutdown"}
  MaxCircuits = 2
  Cooldown = 2
  BufferLimit = 1
  MaxChunks = 2
  MaxTime = 1
SYMMETRY Symmetry
INVARIANTS FallbackSafe 
PROPERTIES OneAnswer EvictsOnlyForRoom
CHECK_DEADLOCK FALSE
