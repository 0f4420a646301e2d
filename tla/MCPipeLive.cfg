CONSTANTS
  a = a
  b = b
  Pipes = {a, b}
  Sessions <- TwoThatWait
SPECIFICATION FairSpec
PROPERTIES AnsweredAfterError WritesAreAnswered
CHECK_DEADLOCK FALSE
