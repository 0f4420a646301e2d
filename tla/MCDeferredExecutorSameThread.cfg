SPECIFICATION FairSpec
CONSTANTS
  Users = {u1, u2}
  LoopThread = loop
  NoThread = none
  MaxCalls = 2
PROPERTY SameThread
CHECK_DEADLOCK FALSE
