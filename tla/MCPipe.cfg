CONSTANTS
  a = a
  b = b
  Pipes = {a, b}
  Sessions <- OneWayOrBoth
SPECIFICATION Spec
INVARIANTS StreamsAgree NoDanglingOperation ReadCallFindsItsMessage
  NothingLeftToAdvance CallbacksInOrder
PROPERTIES NothingPostedAfterError StreamSpec
CHECK_DEADLOCK FALSE
