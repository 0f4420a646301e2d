CONSTANTS
  NoMessage = NoMessage
  Scenarios = {"basic", "xth", "cma", "cuda_xth", "mpt", "mpt, from the server", "cuda_ipc",
    "cuda_basic", "cuda_basic, CPU channel in order", "cuda_gdr", "cuda_gdr, two NICs"}
  MptLengths <- LanesUnequal
  MptClosers = {}
  GdrBuffers <- TwoChunksThenOne
SPECIFICATION Spec
INVARIANTS
  NoDanglingIterator
  AllCalledBack
  NoneStuck
  ReceivedIntact
  SentMeansTaken
  ResourcesKept
CHECK_DEADLOCK FALSE
