\* Free for all: late torpedoes, late hits, players who leave and come back.
SPECIFICATION Spec
CONSTANTS
  alice = alice
  bob = bob
  NoName = NoName
  NoEntry = NoEntry
  Names <- TwoNames
  MaxSlots = 2
  TeamMode = FALSE
  UseScoreLimit = FALSE
  Limit = 2
  DamagePerPoint = 2
  Losses <- OneLoss
  CacheSize = 2
  Tubes = 1
  GhostsLinger = FALSE
  MaxSpawns = 3
  MaxDamage = 2
INVARIANTS
  TallyMirrored
  LedgerIsCurrent
  LimitEndsGame
  KillsAreLosses
PROPERTIES
  FrozenAfterEnd
  ScoreSurvives
SYMMETRY NameSymmetry
CHECK_DEADLOCK FALSE
