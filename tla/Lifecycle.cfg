SPECIFICATION LiveSpec
CONSTANTS
  NoName = NoName
  Workers = {w1, w2}
  Names = {n1}
  MaxIds = 2
  MaxDeletes = 1
  MaxFaults = 1
CHECK_DEADLOCK FALSE
INVARIANTS
  SweepSparesLive
  StoreMatchesKube
PROPERTIES
  OrphanedProvisioningRemoved
