SPECIFICATION Safety
CONSTANTS
  Conns = {c1, c2}
  SecureConns = {}
  WorkerSlots = 2
  Backlog = 1
  NoConn = NoConn
  Capacity = 1
  TTL = 1
  UpJobs = {7}
  NoJob = NoJob
  Requests <- MixedRequests
  Printers = {A}
  NoRequest = NoRequest
  NoTarget = NoTarget
  MaxNow = 1
INVARIANTS LogTellsTruth NoStuckRecord
