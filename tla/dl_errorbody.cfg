CONSTANTS
  First = 1
  RangeSize = 3
  ChunkSize = 2
  ObjectSize = 4
  NumFetchers <- MCNum
  Offset <- MCOffset
  Length <- MCLength
  ConfBuffSize = 2
  CurlMaxWrite = 2
  mNConnections = 2
  ReadSizes = {1, 3}
  HonouredRange = "last"
  ErrorBodies = {1}
  Faults = {"http"}
  MaxFaults = 1
  FaultsForever = FALSE
SPECIFICATION Spec
INVARIANT NoErrorBytes
