CONSTANTS
  Waiters = {w1, w2}
  Interval = 2
  MaxTime = 6
  NoFence = NoFence
SPECIFICATION Spec
PROPERTIES CompletionNeedsThree
CHECK_DEADLOCK FALSE
