SPECIFICATION FairSpec
CONSTANTS
  phone = phone
  laptop = laptop
  tab1 = tab1
  tab2 = tab2
  h1 = h1
  h2 = h2
  Holdings <- MCHoldings
  Operations <- ApartOps
  MaxQuantity = 3
  Devices <- TwoDevices
  Tabs <- TwoTabs
  DeviceOf <- OneEach
  Deleters = {}
  Edits <- Apart
  BatchSize = 1
  PageLimit = 1
  MaxPages = 8
  MaxAttempts = 3
  MaxGeneration = 2
  MaxFaults = 1
PROPERTIES
  QueueDrains
