\* A repeated response, with a manifest.
SPECIFICATION Spec
CONSTANTS
  c1 = c1
  c2 = c2
  home = home
  NoClient = NoClient
  Clients <- TwoClients
  IpOf <- SharedIp
  Answer <- Honest
  MaxSlots = 1
  Rounds = 2
  Manifest = TRUE
  RateSlots = 1
  SamePort = FALSE
  MaxDuplicates = 1
  MaxSessions = 1
INVARIANT
  OnlyBadClientsFail
CHECK_DEADLOCK FALSE
