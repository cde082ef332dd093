SPECIFICATION FairEngineSpec
CONSTANTS
  Machines = {"media", "pressure", "watch", "recovery"}
  Caller = {1, 2}
  MaxLanes = 2
  Pinned = 1
  MaxTracks = 2
  MaxRemote = 1
  Network = {1, 2}
  Peer = {p}
  Steps = 2
  MaxWaves = 3
  Address = {"x", "y"}
  Fingerprint = {"f", "g"}
  Retries = 0
  Policy <- Ends
CHECK_DEADLOCK FALSE
INVARIANT LanesKept
PROPERTY PressureExact  
