SPECIFICATION FairSpec
CONSTANTS
  Decodable = {"hevc"}
  Backlog = 1
  MaxInbox = 1
  Trouble = 1
  Modes <- MCModes
  FirstModes <- MCFirstModes
  SeedFormat = "same"
  Convertible <- MCConvertible
  Preferred = "hevc"
  CodecExplicit = TRUE
  Changes = 1
INVARIANTS StaleModeEnds FrameFits CopyMatches EachDropIsAChange NeverGivesUp
PROPERTIES RefusalSticks SessionSettles CloseHonoured
CHECK_DEADLOCK FALSE
