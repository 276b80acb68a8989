SPECIFICATION SessSpec
CONSTANTS
  u1 = u1
  u2 = u2
  h1 = h1
  h2 = h2
  Users = {u1, u2}
  Email <- MCEmail
  TokenIds = {1, 2, 3}
  Handlers = {h1, h2}
  MaxFailures = 2
  NoUser = NoUser
  MaxAccounts = 1
SYMMETRY SessionSymmetry
CHECK_DEADLOCK FALSE
INVARIANTS
  SweptStaysOut
  BlockedOnlyLate
  OneActivePerFamily
