SPECIFICATION FairSpec
CONSTANTS
  id1 = id1
  id2 = id2
  id3 = id3
  n1 = n1
  u = u
  v = v
  NoId = NoId
  NoName = NoName
  Basic = Basic
  Full = Full
  Id <- Ids
  Registered <- Clients
  Recorded <- Uploaded
  Name <- Names
  Hours <- Ranges
  Long <- Day
  Value <- Values
  Setting <- Settings
  MaxClicks = 3
  MaxLost = 1
INVARIANTS TypeOK OneClient
PROPERTIES Settles
