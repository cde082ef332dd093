SPECIFICATION MCSpec
CONSTANTS
  Primary = {"p", "q"}
  Fallback = {"f"}
  Slots = {1, 2}
  Inbound <- MCInbound
  Scenes <- MCScenes
  SeenCap = 4
  ReplayCap = 1
  BackoffCap = 2
  Member = {"a", "b"}
  Listener = {"a", "b"}
  Address = {"i"}
  ConnId = {1, 2}
  MaxPerIp = 2
  StrikeLimit = 1
  StoreCap = 2
  ReplayCapReq = 2
  OutBound = 2
  Peer = {"p"}
  Key = {"k1", "k2"}
  KeyPeer <- MCKeyPeer
  Addr = {1, 2}
  Port = {1, 2}
  Delay <- MCDelay
  Parallel = 2
  MaxConns = 2
  MaxEvents = 2
CHECK_DEADLOCK FALSE
 
PROPERTY DriverBooks LanTablesFit SignalingSettles
