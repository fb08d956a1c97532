SPECIFICATION FairSpec
CONSTANTS
  USD = USD  EUR = EUR  GBP = GBP
  fixer = fixer
  u1 = u1  p1 = p1  r1 = r1
  None = None
  Fiat <- EuroAndPound
  Batches <- EuroRate
  MetalCurrencies <- NoMetals
  PriceLists <- EuroBase
  Conversions <- BothWays
  Sources <- OneSource
  Updates <- OneUpdate
  Prices <- OnePriceRun
  Requests <- OneRequest
  MaxVersion = 2
  MaxTroubles = 1
INVARIANT PlacesAgree
PROPERTIES ConversionsAreCurrent UnreadableRatesAreReplaced
