SPECIFICATION LiveFairSpec
CONSTANTS
  Session = {s1, s2}
  Saver = s1
  MaxOps = 1
  MaxEdits = 2
  MaxDocUpdates = 3
  MaxFlushes = 2
  MaxSaves = 0
  Faults = {"kvread", "kvwrite", "restart", "link", "open"}
  MaxFaults = 2
  Base = Base
PROPERTIES EveryoneCatchesUp EditsAreSaved
CHECK_DEADLOCK FALSE
