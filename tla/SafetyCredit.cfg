SPECIFICATION SafetySpec
CONSTANTS
  Parts = {"coauthors"}
  Conn = {c1, c2, c3}
  RoomSlots = 2
  MaxLookups = 1
  DocReq = {d1}
  MaxDocLog = 1
  MaxHubLapses = 0
  Call = {r1}
  MaxCalls = 4
  MaxLapses = 0
  PageSize = 2
  Proposal = {p1, p2}
  Writer = {u1}
  Approver = {u1}
  Task = {t1}
  Human = {h1, h2}
  Bot = {b1}
  Operator = {h2}
  OwnerOf <- Owners
  Claimer = {"ann", "bob"}
  ClaimKey <- ClaimKeys
  OtherKey = {1, 3}
  Area <- Areas
  MaxFacts = 2
  Author = {u1, u2}
  Codespace = {"x"}
  Path = {1}
  Channel = {1, 2, 3}
  RecordKey <- RecordKeys
  FileKey <- FileKeys
  BindingKey <- BindingKeys
  MaxCodespaces = 1
  MaxFiles = 1
INVARIANT SaversAreNamed
CHECK_DEADLOCK FALSE
