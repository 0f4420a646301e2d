CONSTANTS
  Scenarios = {"shm", "shm, both ways", "uv", "uv, both ways", "ibv", "ibv, closing", "ibv, waiting"}
  IbvCanFail = TRUE
SPECIFICATION Spec
INVARIANTS Answered ReadsWhatWasWritten NoneForgotten RequestsAccounted
CHECK_DEADLOCK FALSE
