CONSTANTS
  Device <- Ids
  Score <- Scores
  LawModes <- AllModes
  Member <- Three
  Before <- FullMesh
  After <- StarAt01
  Pins <- SpokePin
  MaxTimeouts = 0
  MaxFailures = 1
  Router <- Five
  Modes <- Shapes
  Scripts <- Plans
  SeenCap = 2
  MaxDown = 1
  Relays <- RelayHost
  Rostered <- Everybody
  Call = {"single", "stream", "unserved"}
  Streaming = {"stream", "unserved"}
  Handler <- Served
  Chunks = 2
  MaxLost = 1
SPECIFICATION MCSpec
CHECK_DEADLOCK FALSE
INVARIANT  RoutedOnce
PROPERTY ShapeLaws  OverlaySettles
