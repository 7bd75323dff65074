SPECIFICATION Spec
CONSTANTS
  Conn = {c1, c2, c3}
  RoomSlots = 2
  MaxLookups = 0
SYMMETRY Conns
INVARIANTS SharedRoom
CHECK_DEADLOCK FALSE
