\* The server from its start to its exit, with its modules, players and masters.
SPECIFICATION Spec
CONSTANTS
  e1 = e1
  h1 = h1
  h2 = h2
  a1 = a1
  Events <- OneEvent
  Handlers <- TwoHandlers
  Priorities <- TwoPriorities
  MaxEvents = 1
  MaxSubs = 2
  MaxFireDepth = 2
  MaxMade = 4
  OwnerOf <- Owners
  MaxMasters = 2
  MaxModules = 4
  MaxSlots = 3
  DefaultMasters <- TwoDefaults
  Addresses <- OneAddress
  Unresolved = Unresolved
  Interval = 2
  ClockPeriod = 4
  Files <- SomeFiles
  Arguments <- ShortArguments
  Machines <- AllMachines
  MaxStep = 1
INVARIANTS
  CommandLineWins
  BeatsAreTimely
  NewsReachesMasters
  GoodbyeUnlists
  SlotIsClean
  LastWordsSent
  NothingHeld
  OnlyLeftBehindRunClosed
  SubscriptionsAreKept
  FireSeesItsList
PROPERTY EventuallyListed
CHECK_DEADLOCK FALSE
