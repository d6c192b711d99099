SPECIFICATION QuietSpec
CONSTANTS
  Resubmits = 1
  Delay = 0
  MftRoom = 1
  Trouble = 1
  MaxBacklog = 1
  MaxWire = 1
  MaxAsks = 1
PROPERTIES
  StillGetsItsKeyframe
CHECK_DEADLOCK FALSE
