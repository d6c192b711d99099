SPECIFICATION FairSpec
CONSTANTS
  Regions = {left, right}
  left = left
  right = right
  Changes = 2
  Trouble = 2
INVARIANT NothingForgotten
PROPERTY PictureCatchesUp
CHECK_DEADLOCK FALSE
