SPECIFICATION Spec
CONSTANTS
  w1 = w1
  w2 = w2
  r1 = r1
  v1 = v1
  q1 = q1
  NoQueue = NoQueue
  Calls <- MCCalls
  Writes <- MCWrites
  Conversations <- MCConversations
  Queues <- MCQueues
  ConversationOf <- MCConversationOf
INVARIANTS
  TypeOK
  ConsentBeforeWrite
  AuditAgreesWithAnswer
  PendingIffWaiting
  GateInv
PROPERTIES
  CheckEnds
  ImplementsLedger
