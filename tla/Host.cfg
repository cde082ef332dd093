SPECIFICATION FairHostSpec
CONSTANTS
  Site <- Sites
  Prefs <- Settings
  MaxTrouble = 1
  Conn = {"t1", "t2"}
  Request <- Requests
  MaxRequests = 2
  Ids = {"a", "b"}
  Nets = {"x", "y"}
  Offered <- FirstNetworks
  Hosting <- FirstServices
  MaxHitches = 1
  Socket = {"s1", "s2"}
  Call = {"r1"}
  MaxClients = 2
  MaxFrames = 2
CHECK_DEADLOCK FALSE
 
PROPERTY  ClientsFit HostProgress
