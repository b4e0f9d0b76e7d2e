SPECIFICATION Spec
CONSTANTS
  A = A
  B = B
  Printers = {A, B}
  Addrs = {1, 2, 3}
  Names = {n}
  Workers = {}
  Refreshers = {}
  Networks <- Static
  MdnsFails = TRUE
  MaxBoots = 1
  NoTarget = NoTarget
  NoName = NoName
  Absent = Absent
INVARIANTS ConfirmedIsKept FlagsAreRegistered
