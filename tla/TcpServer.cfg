\* Two clients, the second of which may find the first one's capture running
CONSTANTS
  Runs = {g1, g2}
  MaxSessions = 2
  MaxWire = 2
SPECIFICATION Spec
INVARIANTS EndsWhenTold
PROPERTIES CloseEnds SessionsEnd MemallocReturns
CHECK_DEADLOCK FALSE
