\* Fees as in a block with and without a base fee; a price scale with the structure of
\* the source's 10^6 = 10^4 * 10^2, small enough for 32-bit products.
SPECIFICATION AlgorithmsSpec
CONSTANTS
  Suggested = {0, 1, 2, 7, 13}
  BaseFees = {0, 3}
  Floors = {5}
  maxFeeReplacements = 5
  RateDays = {0, 1}
  Quotes = {"EUR", "KRW"}
  From = 1
  To = 2
  FactDays = {1, 2, 3}
  Filings = {1, 2}
  Scale = 40
  SizeGrid = 10
  TickSizes = {4, 8, 20}
  MaxUint256 = 127
  MaxCoreWei = 63
  Prices <- AllPrices
  Sizes <- AllSizes
  MaxRead <- ReadBounds
INVARIANTS
  CapCoversTip
  RatesAreUnambiguous
  FactsAreLatest
  NoEvidenceIsLost
  OrdersAreExact
  TransfersAreWhole
  RejectionsAreUncontradicted
PROPERTY
  ReplacementOutbids
CHECK_DEADLOCK FALSE
