SPECIFICATION Spec
CONSTANTS
  Session = {s1, s2}
  MaxOps = 2
  MaxEdits = 2
  MaxDocUpdates = 2
  MaxFlushes = 1
  MaxSaves = 1
  Faults = {"open", "read", "post", "flush", "link", "restart", "close"}
  MaxFaults = 1
  Base = Base
SYMMETRY Sessions
INVARIANTS TypeOK NoGap SeedOnce
CHECK_DEADLOCK FALSE
