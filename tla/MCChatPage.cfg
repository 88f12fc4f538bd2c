SPECIFICATION Spec
CONSTANTS
  CR = CR
  LF = LF
  EventLine = EventLine
  PingLine = PingLine
  Nobody = Nobody
  p1 = p1
  Pages <- MCPages
  MaxTurns = 2
  Streams <- MCStreams
  MaxReloads = 1
  Cuts = {1, 5}
INVARIANTS
  NothingLostInStream
  StoredIsWhole
  ShownIsStored
  AckedIsShown
CHECK_DEADLOCK FALSE
