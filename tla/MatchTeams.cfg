\* Teams to a score: players change teams, hit friends, blow themselves up, come back early.
SPECIFICATION Spec
CONSTANTS
  alice = alice
  bob = bob
  NoName = NoName
  NoEntry = NoEntry
  Names <- OneName
  MaxSlots = 2
  TeamMode = TRUE
  UseScoreLimit = TRUE
  Limit = 1
  DamagePerPoint = 2
  Losses <- OneLoss
  CacheSize = 2
  Tubes = 0
  GhostsLinger = TRUE
  MaxSpawns = 2
  MaxDamage = 2
INVARIANT TeamKillsAreLosses
CHECK_DEADLOCK FALSE
