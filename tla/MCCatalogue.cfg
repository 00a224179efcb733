SPECIFICATION Spec
CONSTANTS
  pikachu = pikachu
  salameche = salameche
  alice = alice
  bob = bob
  r1 = r1
  r2 = r2
  r3 = r3
  Requests <- MCRequests
  ClientOf <- MCClientOf
  Clients <- MCClients
  Cards <- MCCards
  CardIn <- MCCardIn
  Asking <- MCAsking
  Configurations <- MCConfigurations
  PerClient = 1
  Global = 2
  MaxConcurrent = 2
  MaxTracked = 1
  Window = 1
  Replies <- MCReplies
  Threshold = 2
  Cooldown = 1
  FreshFor = 1
  StaleFor = 2
  MaxEntries = 2
  MaxTime = 1
  Saved <- MCSaved
INVARIANTS
  TypeOK
  RetryAfterSuffices
  NobodyWaitsInVain
PROPERTIES
  StaleBeatsError
  CircuitRests
CHECK_DEADLOCK FALSE
