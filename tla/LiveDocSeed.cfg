SPECIFICATION Spec
CONSTANTS
  Session = {s1, s2}
  MaxOps = 1
  MaxEdits = 2
  MaxDocUpdates = 3
  MaxFlushes = 2
  MaxSaves = 2
  Faults = {}
  MaxFaults = 0
  Base = Base
SYMMETRY Sessions
INVARIANTS DiskContentSurvives
CHECK_DEADLOCK FALSE
