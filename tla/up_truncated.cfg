CONSTANTS
  mBuffSize = 2
  retries = 2
  CacheModes = {TRUE}
  WriteSizes = {1, 3}
  MaxBytes = 3
  MaxCancels = 0
  Faults = {"midbody"}
SPECIFICATION Spec
INVARIANT ClosedIsStored
