\* Any fault may end at any moment, the second even before StartOrJoin returns.
SPECIFICATION FairSpec
CONSTANTS
  c1 = c1
  c2 = c2
  c3 = c3
  k1 = k1
  x1 = x1
  x2 = x2
  None = None
  Calls = {c1, c2, c3}
  Keys = {k1}
  Closers = {x1, x2}
  KeyOf <- MCKeyOf
  PolicyOf <- MCPolicyOf
  FinishesEarly = {c2}
  LongRunning <- MCLongRunning
INVARIANTS TypeOK DedupExclusive KeyHeldByItsFault WaitGroupExact
PROPERTIES CloseReturnsDrained ImplementsKeyedFaults CloseComesBack
CHECK_DEADLOCK FALSE
