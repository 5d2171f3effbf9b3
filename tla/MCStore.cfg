SPECIFICATION Spec
CONSTANTS
  a = a
  b = b
  Id <- Ids
  MaxRecords = 3
  MaxAppends = 5
  MaxCrashes = 1
  Faults <- AllFaults
INVARIANTS TypeOK TailInOrder RecentKept
PROPERTIES ImplementsBoundedLog
SYMMETRY Symmetry
CONSTRAINT SomeSound
CHECK_DEADLOCK FALSE
