CONSTANTS
  Requests = {r1, r2, r3}
  Seed = Seed
  Providers = {github, google}
  ProviderIds = {i1, i2}
  Lifetime = 2
  None = None
  MaxSuffix = 3
  MaxNow = 3
  MaxFaults = 1
SPECIFICATION Spec
CHECK_DEADLOCK FALSE
SYMMETRY Symmetry
INVARIANTS TypeOK UsernamesUnique AccountsWhole SignedOutStaysOut SessionSurvives
