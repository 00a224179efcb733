SPECIFICATION FairSpec
CONSTANTS
  ann = ann
  bob = bob
  tab1 = tab1
  tab2 = tab2
  theirs = theirs
  Subjects <- Both
  Tabs <- OneTab
  Events <- Three
  Others <- Theirs
  BatchSize = 2
  MaxActs = 2
INVARIANTS
  TypeOK
  OutboxIsolated
  AttemptIsStable
PROPERTIES
  NothingDiscarded
  EnrollmentResolves
CHECK_DEADLOCK FALSE
