SPECIFICATION Spec
CONSTANTS
  Interval = 3
  QuietPoll = 4
  FlushGrace = 5
  MaxFlushResubmits = 2
  Horizon = 20
INVARIANTS
  NoBurst
  FlushIsBounded
CHECK_DEADLOCK FALSE
