SPECIFICATION RasterSpec
CONSTANTS
  Syncs = {"RaS2", "RaS3"}
  Bytes = {0, 1, 2, 127, 128, 129, 254, 255}
  Pixels = {128}
  MaxWidth = 9
  MaxHeight = 3
  MaxLine = 4
  Piece = 2
  MaxPages = 2
  None = None
  Headers <- MCHeaders
INVARIANT ConvertsDocuments
CHECK_DEADLOCK FALSE
