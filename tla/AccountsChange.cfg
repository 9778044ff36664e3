\* Two changes of one password at a time.
SPECIFICATION Spec
CONSTANTS
  Ids = {a1}
  Names = {n1}
  Passwords = {p1, p2}
  Requests = {r1, r2}
  Indexed = TRUE
  MaxVersion = 2
  MaxTokens = 2
  None = None
SYMMETRY AccountSymmetry
INVARIANTS
  ChangeSignsOutOthers
