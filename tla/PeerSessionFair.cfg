\* Two clients contend for one slot; what must be done is done.
SPECIFICATION FairSpec
CONSTANTS
  c1 = c1
  c2 = c2
  home = home
  NoClient = NoClient
  Clients <- TwoClients
  IpOf <- SharedIp
  Answer <- FinalMalformed
  MaxSlots = 1
  Rounds = 2
  Manifest = TRUE
  RateSlots = 1
  SamePort = FALSE
  MaxDuplicates = 0
  MaxSessions = 2
INVARIANTS
  OnlyBadClientsFail
PROPERTIES
  HandshakeEnds
  GhostsAreReclaimed
CHECK_DEADLOCK FALSE
