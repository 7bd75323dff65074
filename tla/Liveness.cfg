SPECIFICATION LivenessFairSpec
CONSTANTS
  Parts = {"pairing", "terminal", "agents"}
  Code = {k1}
  Claim = {c1, c2}
  Agent = {a1}
  MaxMishaps = 2
  Req = {r1, r2}
  MaxFaults = 1
  Member = {m1, m2}
  Dir = {root, sub}
  Root = root
  MaxAudit = 1
  Agt = {a1}
  MaxDesires = 3
  MaxUpsets = 3
INVARIANTS
  PartsTypeOK SingleUse LinkedBeforeToken ConnectedIsProvisioned
  NoEntryLeft AnsweredWasRun Serialized OwnSession
PROPERTIES
  BurntForGood WizardLearns EveryCommandEnds StopRemembered FollowsDesire
CHECK_DEADLOCK FALSE
