SPECIFICATION Spec
CONSTANTS
  Conns = {c1, c2}
  SecureConns = {c2}
  WorkerSlots = 1
  Backlog = 2
  NoConn = NoConn
  Capacity = 2
  TTL = 1
  UpJobs = {7}
  NoJob = NoJob
  Requests <- DocumentRequests
  Printers = {A}
  NoRequest = NoRequest
  NoTarget = NoTarget
  MaxNow = 0
INVARIANTS NoTruncatedDocument SuccessIsReal DeliveredAtMostOnce
PROPERTIES ImplementsServer ClientsAreServed
