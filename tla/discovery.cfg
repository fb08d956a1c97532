SPECIFICATION FairSpec
CONSTANTS
  ledger = ledger  accounts = accounts
  u1 = u1  u2 = u2
  c1 = c1  c2 = c2
  None = None
  Names <- TwoNames
  Urls <- TwoUrls
  Slots <- TwoSlots
  MaxCalls = 2
  MaxFaults = 1
  MaxRestarts = 1
  MaxFlips = 1
INVARIANTS UndisturbedIsAsRegistered RoutesToWhatAnswered
PROPERTY StatusesSettle
