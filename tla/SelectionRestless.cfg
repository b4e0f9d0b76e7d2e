SPECIFICATION Spec
CONSTANTS
  A = A
  B = B
  Printers = {A, B}
  Addrs = {1, 2, 3}
  Names = {}
  Workers = {w}
  Refreshers = {}
  Networks <- Restless
  MdnsFails = FALSE
  MaxBoots = 0
  NoTarget = NoTarget
  NoName = NoName
  Absent = Absent
INVARIANTS AdvertisedIsSelected
