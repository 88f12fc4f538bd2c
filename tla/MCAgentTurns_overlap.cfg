SPECIFICATION Spec
CONSTANTS
  t1 = t1
  t2 = t2
  c1 = c1
  c2 = c2
  k1 = k1
  k2 = k2
  v1 = v1
  NoClient = NoClient
  NoTurn = NoTurn
  Conversations <- MCConversations
  Turns <- MCTwoTurns
  ConvOf <- MCConvOf
  Calls <- MCNone
  Writes <- MCWrites
  TurnOf <- MCTurnOf
  Clients <- MCTwoClients
  Abandonable <- MCTwoTurns
  Mortal <- MCTwoClients
  Talkative <- MCFirstTurn
  Overlapping = TRUE
INVARIANTS
  TypeOK
  NothingOutlivesTurn
  FailedClientDropped
PROPERTY
  TurnEnds
CHECK_DEADLOCK FALSE
