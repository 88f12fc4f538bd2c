SPECIFICATION Spec
CONSTANTS
  e = e
  u1 = u1
  u2 = u2
  u3 = u3
  u4 = u4
  f1 = f1
  f2 = f2
  NoDocument = NoDocument
  Uploads <- MCUploads
  FileOf <- MCFileOf
  Earlier <- MCEarlier
  Choices <- MCChoices
  Polls <- MCPolls
  Reliable <- MCReliable
INVARIANT
  DoneMeansSaved
PROPERTY
  PanelSettles
CHECK_DEADLOCK FALSE
