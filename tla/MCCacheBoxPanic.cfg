\* Record races Stop.
SPECIFICATION Spec
CONSTANTS
  q1 = q1
  q2 = q2
  q3 = q3
  q4 = q4
  h1 = h1
  pA = pA
  pB = pB
  b1 = b1
  b2 = b2
  big = big
  s1 = s1
  NoBody = NoBody
  Nothing = Nothing
  Seeded = Seeded
  TargetOf <- MCTargetOf
  BodyOf <- MCBodyOf
  Unkeyed = {big}
  Reused = {}
  Strategy = "exact_with_body"
  Stoppers = {s1}
  BufSize = 1
  TTL = 0
  SizeOf <- MCSizeOf
  Requests = {q1}
  SeedTargets <- MCNoSeed
  MaxEntries = 1
INVARIANT RecordReturns
CHECK_DEADLOCK FALSE
