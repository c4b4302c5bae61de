\* A toxic waits in Read for a peer that says nothing more.
SPECIFICATION ProxyFairSpec
CONSTANTS
  c1 = c1
  Conns = {c1}
  MaxChunks = 1
  ToxicKinds <- StreamToxics
  Backends = {"builtin"}
PROPERTY CancelEndsFault
CHECK_DEADLOCK FALSE
