SPECIFICATION FairSpec
CONSTANTS
  Delay = 1
  Room = 2
  Resubmits = 2
  MaxFrames = 3
  Mishaps = 1
INVARIANTS
  CountersExact
  NewestWins
  SenderOutlivesSink
PROPERTIES
  DepthNeverShort
  KeepsPipe
  LastFrameComesOut
  TeardownEnds
CHECK_DEADLOCK FALSE
