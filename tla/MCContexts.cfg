CONSTANTS
  NoConnection = NoConnection
  End = End
  l = l
  d = d
  i = i
  j = j
  x = x
  y = y
  c1 = c1
  c2 = c2
  c3 = c3
  Scenarios = {"shm", "ibv", "uv", "xth", "epoll", "cuda"}
SPECIFICATION Spec
INVARIANTS NothingAfterJoin ServedInOrder
PROPERTIES JoinReturns AllServed
CHECK_DEADLOCK FALSE
