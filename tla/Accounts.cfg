SPECIFICATION Spec
CHECK_DEADLOCK FALSE
CONSTANTS
  Users = {u1, u2}
  Names = {n1, n2}
  Tokens = {t1}
  Handlers = {h1, h2}
  MaxRequests = 5
  MaxRestarts = 1
  None = None
SYMMETRY Symmetry
INVARIANTS
  TypeOK
  UsernamesUnique
  TokensAreCurrent
  TempMustBeChanged
PROPERTIES
  LastAdminLostByOverlap
  StartAppoints
