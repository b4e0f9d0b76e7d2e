SPECIFICATION Spec
CONSTANTS
  BufferSize = 6
  TrailersMax = 1
  StreamChunk = 2
  PrefixMax = 3
  MaxLength = 4
  MaxHeard = 23
  Sizes = {0, 1, 2}
  DataSymbols <- MCDataSymbols
  AttributesLength = 2
  RewrittenLength = 3
CHECK_DEADLOCK FALSE
INVARIANTS HeadIsFound PrinterGetsPrefix EndIsReal OnlyBadIsMalformed
PROPERTIES NoReadPastEnd
