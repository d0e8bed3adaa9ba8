CONSTANTS
  id1 = id1
  key1 = key1
  id2 = id2
  key2 = key2
  Issued <- MCIssued
  Empty = Empty
  Builds = {"aborts"}
  Faults = FALSE
SPECIFICATION FairSpec
PROPERTIES
  TableUpdated
CHECK_DEADLOCK FALSE
