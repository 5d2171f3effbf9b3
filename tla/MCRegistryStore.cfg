SPECIFICATION Spec
CONSTANTS
  d1 = d1
  d2 = d2
  id1 = id1
  id2 = id2
  id3 = id3
  n1 = n1
  Device <- Devices
  Id <- Ids
  Name <- Names
  NoId = NoId
  NoName = NoName
  NoIp = NoIp
  MaxClients = 3
  MaxRequests = 2
  MaxFaults = 2
  Faults <- FaultKinds
INVARIANTS TypeOK ListedOnce EntriesKept
SYMMETRY Alike
