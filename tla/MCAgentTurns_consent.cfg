SPECIFICATION Spec
CONSTANTS
  t1 = t1
  t2 = t2
  c1 = c1
  c2 = c2
  k1 = k1
  k2 = k2
  v1 = v1
  NoClient = NoClient
  NoTurn = NoTurn
  Conversations <- MCConversations
  Turns <- MCTwoTurns
  ConvOf <- MCConvOf
  Calls <- MCOneCall
  Writes <- MCWrites
  TurnOf <- MCTurnOf
  Clients <- MCTwoClients
  Abandonable <- MCFirstTurn
  Mortal <- MCFirstClient
  Talkative <- MCNone
  Overlapping = TRUE
INVARIANTS
  ConsentEndToEnd
  RequestReachesStream
  TurnsInv
CHECK_DEADLOCK FALSE
