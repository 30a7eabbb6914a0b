CONSTANTS
  KeyNames = {"access_key_id", "secret_access_key", "host"}
  Values = {"", "v"}
  MaxEntries = 2
SPECIFICATION Spec
INVARIANT WellFormedAccepted
