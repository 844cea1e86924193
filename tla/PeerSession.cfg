\* Two clients of one IP, and a repeated packet of one of them.
SPECIFICATION Spec
CONSTANTS
  c1 = c1
  c2 = c2
  home = home
  NoClient = NoClient
  Clients <- TwoClients
  IpOf <- SharedIp
  Answer <- Honest
  MaxSlots = 2
  Rounds = 2
  Manifest = TRUE
  RateSlots = 1
  SamePort = FALSE
  MaxDuplicates = 1
  MaxSessions = 1
INVARIANTS
  OneSlotPerAddress
  VerifiedInLobby
  QuiescentRoster
CHECK_DEADLOCK FALSE
