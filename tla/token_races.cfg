SPECIFICATION FairSpec
CONSTANTS
  gold = gold
  bar = bar
  none = none
  NoDeposit = none
  r1 = r1
  r2 = r2
  r3 = r3
  Requests <- ThreeRequests
  Deposits <- TwoDeposits
  Stored <- OneDeposit
  Amounts <- One
  Kinds <- AllKinds
  InitialSupply = 1
  MaxSupply = 2
  MaxInFlight = 2
  MaxFaults = 1
INVARIANTS
  TypeOK
  CompletedIsBacked
  ReserveFollowsSupply
  SupplyStaysInLimit
  UncontendedBooksAreExact
  
PROPERTIES
  RequestsSettle
