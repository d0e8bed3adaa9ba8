CONSTANTS
  id1 = id1
  key1 = key1
  id2 = id2
  key2 = key2
  Issued <- MCIssued
  Empty = Empty
  Builds = {"aborts", "fails", "allowed"}
  Faults = TRUE
SPECIFICATION Spec
INVARIANTS
  SameIdentity
  NeverMixed
PROPERTIES
  SealedIdentity
  CredentialsKept
