SPECIFICATION Spec
CONSTANTS
  AgentTimeout = 12
  ApprovalTimeout = 9
INVARIANT
  ExpiresBeforeGapTimeout
CHECK_DEADLOCK FALSE
