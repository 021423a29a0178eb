SPECIFICATION IndexSpec
CONSTANTS
  Tx = {t1, t2, t3}
  Invoking = {t1, t2}
  Poster = {p, q}
  Syncer = {}
  PageSize = 2
INVARIANTS
  NoDuplicateRecords
