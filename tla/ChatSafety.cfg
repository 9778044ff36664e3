\* Two turns of one account, one of whose clients may leave, and another account.
SPECIFICATION Spec
CONSTANTS
  u1 = u1
  u2 = u2
  r1 = r1
  r2 = r2
  r3 = r3
  Users = {u1, u2}
  Requests = {r1, r2}
  Sessions = {s1, s2}
  Asker <- OneAsker
  Streams = {r1}
  Leavers = {r1}
  Cap = 4
  MaxRestarts = 0
  None = None
SYMMETRY SessionSymmetry
INVARIANTS
  TypeOK
  OneAgentPerAccount
  OwnTurnsOnly
  DoneIsSaved
  NotFoundMeansDeleted
  DoneTurnsAreSeen
CHECK_DEADLOCK FALSE
