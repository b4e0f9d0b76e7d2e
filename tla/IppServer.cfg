SPECIFICATION ServerSpec
CONSTANTS
  Conns = {p1, p2, s1, s2}
  SecureConns = {s1, s2}
  WorkerSlots = 2
  Backlog = 2
  NoConn = NoConn
INVARIANTS SlotConservation OneOwner
PROPERTIES ClientsLeaveBacklog SlotsComeBack
