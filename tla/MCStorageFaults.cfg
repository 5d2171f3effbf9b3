SPECIFICATION Spec
CONSTANTS
  MaxRecords = 3
  BatchSize = 2
  MaxAppends = 6
  MaxCrashes = 2
  UintMod = 257
  Faults <- AllFaults
INVARIANTS TypeOK SyncedWasDelivered PendingInWindow UnsyncedCountCovers NoSilentLoss
CONSTRAINT FewFaults
