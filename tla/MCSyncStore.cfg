SPECIFICATION Spec
CONSTANTS
  u1 = u1
  u2 = u2
  u3 = u3
  h1 = h1
  h2 = h2
  c1 = c1
  c2 = c2
  c3 = c3
  Users <- MCUsers
  Holdings <- MCHoldings
  Operations <- MCOperations
  Batches <- MCBatches
  Inherited <- MCInherited
  MaxQuantity = 2
  Retention = 1
  MaxAccounts = 2
  MaxEvents = 3
  MaxBytes = 4
  MaxOperationBytes = 2
  MaxPullBytes = 3
  EnvelopeBytes = 1
  EventLimit = 2
  SyncPruneLimit = 1
  MaintenanceLimit = 2
  SyncCompactLimit = 1
  StartCompactLimit = 1
  MaxGeneration = 3
  MaxSequence = 4
  MaxTime = 1
  Null = Null
  HoldingPlain = {"quantity", "note"}
  HoldingNeeded = {"quantity"}
  CardPlain = {"name", "rarity"}
  CardNeeded = {"name"}
  UpdatePlain = {"note"}
  OtherPlain = {"delta"}
  Writes <- MCWrites
  Candidates <- MCCandidates
  Inputs <- MCInputs
SYMMETRY MCSymmetry
INVARIANTS
  TypeOK
  EpochIsolation
  LogReplays
  SnapshotsExact
  PullProgresses
  EventsComeRound
PROPERTIES
  ImplementsAccountLog
  GenerationsNeverReissued
  AppendOnly
