\* No client leaves: the gate is honest and always reopens.
SPECIFICATION FairSpec
CONSTANTS
  u1 = u1
  u2 = u2
  r1 = r1
  r2 = r2
  r3 = r3
  Users = {u1}
  Requests = {r1, r2}
  Sessions = {s1}
  Asker <- OneAsker
  Streams = {r1}
  Leavers = {}
  Cap = 2
  MaxRestarts = 1
  None = None
INVARIANTS
  BusyMeansAnswering
  WholeTurns
  CountIsExact
PROPERTIES
  ImplementsLedger
  EveryRequestEnds
  GateReopens
CHECK_DEADLOCK FALSE
