CONSTANTS
  First = 1
  RangeSize = 9
  ChunkSize = 4
  ObjectSize = 11
  NumFetchers <- MCNum
  Offset <- MCOffset
  Length <- MCLength
  ConfBuffSize = 3
  CurlMaxWrite = 2
  mNConnections = 2
  ReadSizes = {1, 3}
  HonouredRange = "last"
  ErrorBodies = {0}
  Faults = {"net", "http", "nocode", "nomem", "nohandle", "multi"}
  MaxFaults = 2
  FaultsForever = FALSE
SPECIFICATION Spec
INVARIANTS
  TypeOK
  DeliveredInOrder
  EofIsComplete
  NoInternalError
  PausedIsLive
  TransferAligned
  RetryOnce
  NothingToShift
PROPERTIES
  ImplementsByteStream
