\* An account is deleted while a route of it opens a conversation.
SPECIFICATION Spec
CONSTANTS
  u1 = u1
  u2 = u2
  r1 = r1
  r2 = r2
  r3 = r3
  Users = {u1}
  Requests = {r1}
  Sessions = {s1}
  Asker <- OneAsker
  Streams = {r1}
  Leavers = {}
  Cap = 2
  MaxRestarts = 0
  None = None
INVARIANTS
  DeletedAccountKeepsNothing
CHECK_DEADLOCK FALSE
