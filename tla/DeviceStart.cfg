SPECIFICATION DeviceSpec
CONSTANTS
  Pieces = 2
  MaxCrashes = 2
  MaxLost = 1
INVARIANTS OneWriter Fallback InstalledIsComplete IdentityIsWhole IdentityIsKept
PROPERTIES UpdateEnds ReadyRestarts DeviceComesBack
