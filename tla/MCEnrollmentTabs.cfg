SPECIFICATION Spec
CONSTANTS
  ann = ann
  bob = bob
  tab1 = tab1
  tab2 = tab2
  theirs = theirs
  Subjects <- Ann
  Tabs <- TwoTabs
  Events <- One
  Others <- Theirs
  BatchSize = 1
  MaxActs = 3
CHECK_DEADLOCK FALSE
PROPERTY NothingDiscarded
