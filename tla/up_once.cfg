CONSTANTS
  mBuffSize = 2
  retries = 1
  CacheModes = {TRUE, FALSE}
  WriteSizes = {1, 3}
  MaxBytes = 5
  MaxCancels = 2
  Faults = {"connect", "midbody", "lostreply", "errorbody"}
SPECIFICATION Spec
INVARIANTS
  PartsHeld
  ClosedIsStored
PROPERTIES
  ImplementsObjectUpload
