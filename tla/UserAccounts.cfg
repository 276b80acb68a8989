SPECIFICATION UserSpec
CONSTANTS
  u1 = u1
  u2 = u2
  h1 = h1
  h2 = h2
  Users = {u1, u2}
  Email <- MCEmail
  TokenIds = {1, 2, 3}
  Handlers = {h1, h2}
  MaxFailures = 1
  NoUser = NoUser
  MaxAccounts = 2
  Codes = {1, 2}
  MaxAttempts = 2
  Owners = {u1}
  AddrIds = {1, 2, 3}
  Clerks = {h1, h2}
  MaxAddresses = 2
  Calls = {h1, h2}
  RefreshOutcomes = {TRUE, FALSE}
  MaxPairs = 2
  MaxRequests = 5
SYMMETRY HandlerSymmetry
CHECK_DEADLOCK FALSE
INVARIANTS
  GuessesLimited
  OneDefault
  WaitsForRefresh
  ForwardedOnce
  SignedOutStaysOut
PROPERTIES
  DefaultMoves
  GoneGetsNothing
