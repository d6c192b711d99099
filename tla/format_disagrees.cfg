SPECIFICATION FairSpec
CONSTANTS
  Decodable = {"hevc"}
  Backlog = 1
  MaxInbox = 1
  Trouble = 0
  Modes <- MCModes
  FirstModes <- MCStillDisplay
  SeedFormat = "rgb10"
  Convertible <- MCConvertible
  Preferred = "hevc"
  CodecExplicit = TRUE
  Changes = 0
PROPERTY SessionSettles
CHECK_DEADLOCK FALSE
