CONSTANTS
  Threads = {t1, t2}
  Handles = {h1, h2}
  NoHandle = NoHandle
  Calls = {"listObjects", "deleteBucket"}
  MaxPages = 2
  InitFaults = {"bad_alloc"}
  RequestFaults = {"InvalidParameter", "bad_alloc"}
  ReadFaults = {"QingStorNetworkException"}
  ForeignFaults = {}
SPECIFICATION Spec
SYMMETRY Symmetry
INVARIANTS
  TypeOK
  CastsMatch
  NoStreamLost
  ConfigurationShared
  RepliesPut
  ErrorIsOwn
