\* One client leaves a stream.
SPECIFICATION Spec
CONSTANTS
  u1 = u1
  u2 = u2
  r1 = r1
  r2 = r2
  r3 = r3
  Users = {u1}
  Requests = {r1}
  Sessions = {s1}
  Asker <- OneAsker
  Streams = {r1}
  Leavers = {r1}
  Cap = 2
  MaxRestarts = 0
  None = None
INVARIANTS
  BusyMeansAnswering
CHECK_DEADLOCK FALSE
