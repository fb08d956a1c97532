SPECIFICATION Spec
CONSTANTS
  alice = alice
  bob = bob
  carol = carol
  USD = USD
  EUR = EUR
  r1 = r1
  r2 = r2
  Accounts <- Everyone
  Currencies <- DollarsAndEuros
  DefaultCurrency = USD
  Requests <- TwoRequests
  Amounts <- One
  Kinds <- AllKinds
  Opened <- AliceAndBob
  InitialBalance = 1
  MaxInFlight = 2
  MaxFaults = 2
SYMMETRY RequestSymmetry
INVARIANTS
  TypeOK
  NonNegativeBalances
  CompletedIsApplied
  UncontendedBalancesAreExact
  CutShortOnlyLoses
