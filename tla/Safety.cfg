SPECIFICATION SafetySpec
CONSTANTS
  Parts = {"voice", "hub", "gate", "tasks", "claims", "facts", "coauthors",
           "registry", "rules"}
  Conn = {c1, c2, c3}
  RoomSlots = 2
  MaxLookups = 1
  DocReq = {d1, d2, d3}
  MaxDocLog = 2
  MaxHubLapses = 1
  Call = {r1, r2}
  MaxCalls = 4
  MaxLapses = 1
  PageSize = 2
  Proposal = {p1, p2}
  Writer = {u1}
  Approver = {u1}
  Task = {t1}
  Human = {h1, h2}
  Bot = {b1}
  Operator = {h2}
  OwnerOf <- Owners
  Claimer = {"ann", "bob"}
  ClaimKey <- ClaimKeys
  OtherKey = {1, 3}
  Area <- Areas
  MaxFacts = 2
  Author = {u1, u2}
  Codespace = {"x", "y", "z"}
  Path = {1, 2}
  Channel = {1}
  RecordKey <- RecordKeys
  FileKey <- FileKeys
  BindingKey <- BindingKeys
  MaxCodespaces = 1
  MaxFiles = 1
SYMMETRY Symmetry
INVARIANTS
  PartsTypeOK DistinctSeats MeshCloses GhostsOnlyFromWelcome RoomForgotten
  NothingVanishes DecidedOnce DeletedStaysDeleted
  OverlapCalledOut FactsInOrder FactsAccountedFor CreditKept CapOvershoot
  OrphansAreRaced GlobMatchesCut
PROPERTIES IsDocStore
CHECK_DEADLOCK FALSE
