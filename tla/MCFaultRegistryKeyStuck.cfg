\* A fault that ends before its cleanup is registered keeps its key.
SPECIFICATION Spec
CONSTANTS
  c1 = c1
  c2 = c2
  c3 = c3
  k1 = k1
  x1 = x1
  x2 = x2
  None = None
  Calls = {c1, c2}
  Keys = {k1}
  Closers = {x1}
  KeyOf <- MCKeyOf
  PolicyOf <- MCDedupAll
  FinishesEarly = {c1, c2}
  LongRunning <- MCNobody
INVARIANT KeyFreedAfterFault
CHECK_DEADLOCK FALSE
