SPECIFICATION Spec
CONSTANTS
  phone = phone
  laptop = laptop
  tab1 = tab1
  tab2 = tab2
  h1 = h1
  h2 = h2
  Holdings <- MCHoldings
  Operations <- AddOp
  MaxQuantity = 3
  Devices <- OneDevice
  Tabs <- TwoTabs
  DeviceOf <- Shared
  Deleters <- TwoTabs
  Edits <- AddOnly
  BatchSize = 1
  PageLimit = 1
  MaxPages = 3
  MaxAttempts = 3
  MaxGeneration = 3
  MaxFaults = 0
SYMMETRY TabSymmetry
PROPERTIES
  DeletionFenced
