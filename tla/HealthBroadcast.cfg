\* Every ship class, with damage, losses and players joining.
SPECIFICATION HealthSpec
CONSTANTS
  Lists <- AllLists
  Budget = 10
  SyncTicks = 10
  MaxHits = 1
  MaxLost = 1
  MaxSpawns = 2
INVARIANTS
  OwnerSynced
  RemoteSyncedIfCovered
  WindowsReadBack
PROPERTIES
  OwnerSeesDestruct
CHECK_DEADLOCK FALSE
