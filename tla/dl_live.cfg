CONSTANTS
  First = 0
  RangeSize = 6
  ChunkSize = 4
  ObjectSize = 7
  NumFetchers <- MCNum
  Offset <- MCOffset
  Length <- MCLength
  ConfBuffSize = 3
  CurlMaxWrite = 2
  mNConnections = 2
  ReadSizes = {1, 3}
  HonouredRange = "last"
  ErrorBodies = {0}
  Faults = {"net", "http", "multi"}
  MaxFaults = 2
  FaultsForever = FALSE
SPECIFICATION EagerSpec
PROPERTIES
  ReadReturns
  DownloadCompletes
