SPECIFICATION FairSpec
CONSTANTS
  d1 = d1
  d2 = d2
  a = a
  b = b
  c = c
  i1 = i1
  i2 = i2
  i3 = i3
  n1 = n1
  NoIp = NoIp
  NoName = NoName
  Device <- TwoDevices
  Id <- ThreeIds
  Ip <- TwoIps
  Name <- OneName
  MaxClients = 3
  MaxMade = 1
  MaxRequests = 3
  Events <- Patience
INVARIANTS NotMixed
PROPERTIES Converges
