SPECIFICATION Spec
CONSTANTS
  gold = gold
  bar = bar
  none = none
  NoDeposit = none
  r1 = r1
  r2 = r2
  r3 = r3
  Requests <- ThreeRequests
  Deposits <- OneDeposit
  Stored <- OneDeposit
  Amounts <- One
  Kinds <- MintOnly
  InitialSupply = 1
  MaxSupply = 5
  MaxInFlight = 1
  MaxFaults = 0
INVARIANTS
  MintedAgainstDeposits
