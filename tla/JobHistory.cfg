SPECIFICATION Spec
CONSTANTS
  Capacity = 2
  TTL = 2
  UpJobs = {7}
  NoJob = NoJob
  MaxId = 3
  MaxJobs = 5
  MaxNow = 2
INVARIANTS FindsNewestUpstream LiveIds
PROPERTIES ImplementsLog SnapshotShowsNewest
