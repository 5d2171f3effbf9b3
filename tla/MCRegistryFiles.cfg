SPECIFICATION Spec
CONSTANTS
  d1 = d1
  d2 = d2
  a = a
  b = b
  c = c
  i1 = i1
  i2 = i2
  i3 = i3
  n1 = n1
  NoIp = NoIp
  NoName = NoName
  Device <- TwoDevices
  Id <- ThreeIds
  Ip <- ThreeIps
  Name <- NoNames
  MaxClients = 2
  MaxMade = 1
  MaxRequests = 2
  Events <- Anything
INVARIANTS TypeOK FilesTracked
PROPERTIES HistoryKept
CONSTRAINT OneMisplaced
SYMMETRY Symmetry
