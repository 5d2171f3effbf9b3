SPECIFICATION FairSpec
CONSTANTS
  MaxRecords = 3
  BatchSize = 2
  MaxAppends = 6
  MaxCrashes = 2
  UintMod = 257
  Faults <- Resets
PROPERTIES ImplementsSyncQueue EventuallyDelivered
