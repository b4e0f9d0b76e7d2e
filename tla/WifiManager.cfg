SPECIFICATION Spec
CONSTANTS
  Callers = {web, uart}
  Serial = uart
  Servers = {d1, d2}
  Retries = 5
  Faults = {"memory"}
  MaxEvents = 2
  Null = Null
INVARIANTS
  NeverStranded
  NothingIgnored
  MemoryInUse
  DnsFunnel
PROPERTY SetupFallback
