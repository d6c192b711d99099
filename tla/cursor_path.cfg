SPECIFICATION FairSpec
CONSTANTS
  Moments = 2
  Trouble = 1
  MaxWire = 1
  MftRoom = 1
INVARIANTS PacketCoherent NoLostRepaint
PROPERTIES CursorCatchesUp
CHECK_DEADLOCK FALSE
