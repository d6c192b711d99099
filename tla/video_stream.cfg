SPECIFICATION BusySpec
CONSTANTS
  Resubmits = 1
  Delay = 0
  MftRoom = 1
  Trouble = 1
  MaxBacklog = 1
  MaxWire = 1
  MaxAsks = 1
INVARIANTS
  NoSilentGap
  RequestNeverLost
PROPERTIES
  KeyframeAnswered
  PictureRecovers
CHECK_DEADLOCK FALSE
