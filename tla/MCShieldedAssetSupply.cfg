SPECIFICATION AssetSpec
CONSTANTS
  User = {u1, u2}
  Honest = {u1, u2}
  Funds = 2
  Amounts <- MCAmounts
  Deltas <- MCDeltas
  MaxInFlight <- MCMaxInFlight
  MaxBalance = 4
  MaxTaken = 0
  NoEntry = NoEntry
INVARIANTS
  TotalSupplyIsConserved
