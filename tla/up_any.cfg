CONSTANTS
  mBuffSize = 2
  retries = 2
  CacheModes = {TRUE, FALSE}
  WriteSizes = {1, 3}
  MaxBytes = 4
  MaxCancels = 1
  Faults = {"connect", "midbody", "lostreply", "errorbody", "errorempty"}
SPECIFICATION FairSpec
INVARIANTS
  TypeOK
  AcceptedKept
PROPERTIES
  CallReturns
