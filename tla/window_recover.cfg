SPECIFICATION TextSpec
CONSTANTS
  Chunks <- MCChunks
  MaxWrites = 4
  CaptureLimit = 18
  FirstLines = {1, 3}
  LineMax = 6
  Budget = 14
  MinLines = 3
  MinBytes = 5
  RunCap = 1
  ListMax = 1
  OpaqueMin = 2
  RowWidth = 1
  SeamWidth = 1
  ClampWidth = 6
  Char <- MCChar
  Files <- MCFiles
  Batches <- MCBatches
  Seds <- MCSeds
INVARIANTS WindowLinesResolve
CHECK_DEADLOCK FALSE
