SPECIFICATION FairSpec
CONSTANTS
  Client = {c1, c2}
  Keys = {one, left, mixed, right}
  one = one
  left = left
  mixed = mixed
  right = right
  Byte <- MCByte
  Ser <- MCSer
  Verdict <- MCVerdict
  Junk = {junk}
  Claim = {claim}
  ChunkSize = 2
  MaxChunks = 2
  Threshold = 2
  Amount = 3
  MinTtl = 1
  NoRequest = NoRequest
  NoEntry = NoEntry
  NoKey = NoKey
INVARIANTS
  IInv
  StoredKeyIsWhole
  ProofContextIsShortLived
PROPERTIES
  CallsEnd
  SaveRenewsEveryEntry
  ImplementsRegister
