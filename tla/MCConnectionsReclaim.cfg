CONSTANTS
  Scenarios = {"ibv, closing"}
  IbvCanFail = FALSE
SPECIFICATION Spec
INVARIANT RequestsReclaimed
CHECK_DEADLOCK FALSE
