SPECIFICATION Spec
CONSTANTS
  alice = alice
  bob = bob
  carol = carol
  USD = USD
  EUR = EUR
  r1 = r1
  r2 = r2
  Accounts <- Everyone
  Currencies <- Dollars
  DefaultCurrency = USD
  Requests <- TwoRequests
  Amounts <- One
  Kinds <- DepositAndStatus
  Opened <- AliceAndBob
  InitialBalance = 0
  MaxInFlight = 2
  MaxFaults = 0
INVARIANTS
  ClosedAccountsAreEmpty
