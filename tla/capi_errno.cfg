CONSTANTS
  Threads = {t1}
  Handles = {h1}
  NoHandle = NoHandle
  Calls = {"listObjects", "deleteBucket"}
  MaxPages = 2
  InitFaults = {"bad_alloc"}
  RequestFaults = {"QingStorNetworkException", "bad_alloc"}
  ReadFaults = {"QingStorNetworkException"}
  ForeignFaults = {}
SPECIFICATION Spec
INVARIANT ErrnoOfCause
