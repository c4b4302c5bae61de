\* One connection under every pair of toxics, or the external backend.
SPECIFICATION ProxyFairSpec
CONSTANTS
  c1 = c1
  Conns = {c1}
  MaxChunks = 1
  ToxicKinds <- AllToxics
  Backends = {"builtin", "external"}
INVARIANTS TypeOK FinBehindTheData
PROPERTIES HalfCloseForwarded CancelEndsUnlessBlocked
CHECK_DEADLOCK FALSE
