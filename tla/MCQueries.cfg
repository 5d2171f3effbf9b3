SPECIFICATION FairSpec
CONSTANTS
  MaxTime = 3
  MaxRecords = 4
  MaxLimit = 3
  MaxRaw = 3
  MaxBuckets = 2
  Latest = 2
  BucketSec = 2
  Faults <- ReadErrors
INVARIANTS TypeOK RecentFound FoundExactly BucketsSplit
PROPERTIES Answered
