\* Two routes at a time over accounts that take turns at one name.
SPECIFICATION Spec
CONSTANTS
  Ids = {a1, a2}
  Names = {n1}
  Passwords = {p1, p2}
  Requests = {r1, r2}
  Indexed = TRUE
  MaxVersion = 2
  MaxTokens = 2
  None = None
SYMMETRY AccountSymmetry
INVARIANTS
  TypeOK
  UniqueNames
  SignInsKnowPassword
PROPERTIES
  RevokedStaysRevoked
