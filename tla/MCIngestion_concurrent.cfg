SPECIFICATION Spec
CONSTANTS
  u1 = u1
  u2 = u2
  u3 = u3
  u4 = u4
  f1 = f1
  f2 = f2
  NoDocument = NoDocument
  Uploads <- MCThree
  FileOf <- MCFileOf
  Overlapping = TRUE
  Faulty = TRUE
  Crashing = TRUE
INVARIANTS
  TypeOK
  OneDocumentPerFile
  DocumentHasBlob
  StoredHasCredentials
  IngestInv
CHECK_DEADLOCK FALSE
