SPECIFICATION SessionSpec
CONSTANTS
  MaxToken = 4
  MaxFault = 2
  Mode <- Scenes
  MaxCand = 2
  MaxQueue = 2
  MaxGen = 2
  MaxEpoch = 2
  Rescues = 2
  Streams <- Sent
  SeqSpace = 16
  MAX_AU_PARTS = 3
  MAX_PENDING_PARTS = 4
  MAX_PENDING_FRAMES = 2
  Grace = 1
  MaxRepeats = 2
  MaxTicks = 3
  MAX_PICTURES = 2
  MAX_BYTES = 3
  MAX_SAMPLES = 3
  Capacity = 2
  OtherCapacity = 1
  ByteCapacity = 3
  MAX_QUEUED_SAMPLES = 3
  EventBacklog = 2
  MaxPictures = 3
  MaxEvents = 6
CHECK_DEADLOCK FALSE
INVARIANT StreamFaithful FeedsAccount
PROPERTY SessionsApart CandidatesFit
