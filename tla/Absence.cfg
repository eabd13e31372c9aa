CONSTANTS
  Waiters = {w1, w2}
  Interval = 2
  MaxTime = 6
  NoFence = NoFence
SPECIFICATION Spec
INVARIANT EvidenceIsReal
PROPERTY CompletionIsProven
CHECK_DEADLOCK FALSE
