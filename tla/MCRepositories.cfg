SPECIFICATION Spec
CONSTANTS
  c1 = c1
  c2 = c2
  c3 = c3
  c4 = c4
  v1 = v1
  v2 = v2
  f1 = f1
  f2 = f2
  k1 = k1
  k2 = k2
  Calls <- MCCalls
  Groups <- MCGroups
  SerialCallers = TRUE
SYMMETRY MCSymmetry
PROPERTIES
  ImplementsRepositories
CHECK_DEADLOCK FALSE
