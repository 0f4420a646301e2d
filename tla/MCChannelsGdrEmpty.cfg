CONSTANTS
  NoMessage = NoMessage
  Scenarios = {"cuda_gdr"}
  MptLengths <- LanesUnequal
  MptClosers = {}
  GdrBuffers <- EmptyBetween
SPECIFICATION Spec
INVARIANT ReceivedIntact
CHECK_DEADLOCK FALSE
