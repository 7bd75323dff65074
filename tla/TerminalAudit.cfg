SPECIFICATION Spec
CONSTANTS
  Req = {r1, r2, r3}
  MaxFaults = 0
  Member = {m1, m2}
  Dir = {root}
  Root = root
  MaxAudit = 3
SYMMETRY Symmetry
INVARIANTS EveryCommandAudited
CHECK_DEADLOCK FALSE
