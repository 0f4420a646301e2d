SPECIFICATION FairSpec
CONSTANTS
  Users = {u1, u2}
  LoopThread = loop
  NoThread = none
  MaxCalls = 5
INVARIANTS MutualExclusion InLoopIsRunningThread NothingStranded ExecutorInv
PROPERTIES BeginInOrder SerialSpec EveryTaskRuns RunInLoopReturns
CHECK_DEADLOCK FALSE
