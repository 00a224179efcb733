SPECIFICATION FairSpec
CONSTANTS
  tab1 = tab1
  tab2 = tab2
  anon = anon
  ann = ann
  pika = pika
  listed = listed
  offset = offset
  None = None
  Missing = Missing
  Tabs <- TwoTabs
  Anonymous = anon
  Accounts <- AnnOnly
  Cards <- TwoCards
  Printing <- SamePrinting
  Offered <- MCOffered
  Finishes <- MCFinishes
  Conditions <- MCConditions
  Costs <- MCCosts
  Preferences <- MCPreferences
  Scanned <- MCScanned
  Corrections <- MCCorrections
  Settings <- OneTab
  MaxQuantity = 2
  Clock <- MCClock
  OtherTimes <- MCOtherTimes
  Stored <- AtHome
  Backup <- Ahead
  Rows <- MCRows
  Taken = 202
  MaxActs = 3
INVARIANTS
  TypeOK
  EditsGoThrough
  ShownIsOfSubject
  HeldWorthIsHonest
PROPERTIES
  AddsJoin
  ShownCatchesUp
CHECK_DEADLOCK FALSE
