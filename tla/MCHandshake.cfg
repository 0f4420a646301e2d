CONSTANTS
  clientA = clientA
  clientB = clientB
  Clients = {clientA}
  Setups <- KeptOrReplaced
  NumConnectionsNeeded <- Needed
  Unknown = Unknown
  MaxAccepts = 1
  MaxTasks = 3
  Closers = {"client", "pipe", "listener", "context", "transport"}
SPECIFICATION AnySpec
CHECK_DEADLOCK FALSE
INVARIANTS NoLooseEnds ConnectionsMatched NeverHalfway SelectionsAgree
