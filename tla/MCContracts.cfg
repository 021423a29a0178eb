CONSTANTS
  User = {u1, u2}
  Honest = {u1}
  Funds = 1
  Amounts <- MCAmounts
  Deltas <- MCDeltas
  MaxInFlight <- MCMaxInFlight
  MaxBalance = 2
  MaxTaken = 1
  NoEntry = NoEntry
  Tx = {t1, t2, t3}
  Invoking = {t1, t2}
  Poster = {p}
  Syncer = {s}
  PageSize = 2
  rc = rc  mat = mat  fr = fr  g1 = g1  g2 = g2  junk = junk
  Absent = Absent
  Value <- MCValue
  Built <- MCBuilt
  Calls <- MCCalls
  Own <- MCOwn
  OwnValue <- MCOwnValue
  Threshold = 2
  Amount = 4
  MinTtl = 3
  Q = 5
  NoPoint = NoPoint
  Off <- NoPoint
  stray = stray
  Stray <- stray
  none = none
  NoKey <- none
  Msm <- MCMsm
  FixedLen <- MCFixedLen
  PointLen <- MCPointLen
  Word <- MCWord
  Buffer <- MCBuffer
  ProofBuffer <- MCProofBuffer
  Inputs <- MCInputs
SPECIFICATION ContractsSpec
INVARIANTS
  AssetInv
  Conserved
  CompletePassCovers
  CacheInv
  WholeCallsAreCached
  IInv
  VerdictIsTheEquation
  OnlyIdentityIsRefused
PROPERTIES
  DebitsAreTraced
  EarlierRecordsKept
  UseRenews
