SPECIFICATION Spec
CONSTANTS
  Resubmits = 1
  Delay = 1
  MftRoom = 2
  Trouble = 2
  MaxBacklog = 2
  MaxWire = 1
  MaxAsks = 1
INVARIANTS
  FailureIsAsked
CHECK_DEADLOCK FALSE
