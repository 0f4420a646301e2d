CONSTANTS
  NoMessage = NoMessage
  Scenarios = {"mpt"}
  MptLengths <- LanesWithEmpty
  MptClosers = {"b"}
  GdrBuffers <- TwoChunksThenOne
SPECIFICATION Spec
INVARIANT AllCalledBack
CHECK_DEADLOCK FALSE
