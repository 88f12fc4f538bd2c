SPECIFICATION Spec
CONSTANTS
  c1 = c1
  c2 = c2
  c3 = c3
  s1 = s1
  s2 = s2
  k1 = k1
  k2 = k2
  NoApplication = NoApplication
  Unknown = Unknown
  Calls <- MCCalls
  Statuses <- MCStatuses
  Keys <- MCKeys
SYMMETRY MCSymmetry
INVARIANTS
  WritesAsApproved
  ReportIsTrue
  StatusHasHistory
  StatusIsLastEvent
CHECK_DEADLOCK FALSE
