CONSTANTS
  Sizes <- MCSizes
  RangeArgs <- MCRangeArgs
  ChunkSizes = {1, 2, 3, 5, 6}
  Connections = {1, 3}
  IntMax = 5
  MaxChunkBuffer = 3
  CurlMaxWrite = 2
SPECIFICATION Spec
INVARIANTS
  TypeOK
  ChunksTileRange
  ChunksFit
  PlanIsClosedForm
