SPECIFICATION SpecOcrReturns
CONSTANTS
  u1 = u1
  u2 = u2
  u3 = u3
  u4 = u4
  f1 = f1
  f2 = f2
  NoDocument = NoDocument
  Uploads <- MCFour
  FileOf <- MCFileOf
  Overlapping = FALSE
  Faulty = FALSE
  Crashing = FALSE
INVARIANTS
  NoOrphanedStatus
  FailedHasNoCredentials
PROPERTIES
  StatusFlow
  UploadsSettle
  ImplementsOnce
CHECK_DEADLOCK FALSE
