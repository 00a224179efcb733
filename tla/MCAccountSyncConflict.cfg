SPECIFICATION RetriggeredSpec
CONSTANTS
  phone = phone
  laptop = laptop
  tab1 = tab1
  tab2 = tab2
  h1 = h1
  h2 = h2
  Holdings <- MCHoldings
  Operations <- RacingOps
  MaxQuantity = 3
  Devices <- TwoDevices
  Tabs <- TwoTabs
  DeviceOf <- OneEach
  Deleters = {}
  Edits <- Racing
  BatchSize = 1
  PageLimit = 1
  MaxPages = 8
  MaxAttempts = 3
  MaxGeneration = 1
  MaxFaults = 0
PROPERTIES
  QueueDrains
