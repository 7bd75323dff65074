SPECIFICATION Spec
CONSTANTS
  Session = {s1, s2}
  MaxOps = 1
  MaxEdits = 2
  MaxDocUpdates = 4
  MaxFlushes = 2
  MaxSaves = 0
  Faults = {}
  MaxFaults = 0
  Base = Base
SYMMETRY Sessions
INVARIANTS LateJoinersConverge
CHECK_DEADLOCK FALSE
