\* The body takes part in the key; the queue holds two records.
SPECIFICATION Spec
CONSTANTS
  q1 = q1
  q2 = q2
  q3 = q3
  q4 = q4
  h1 = h1
  pA = pA
  pB = pB
  b1 = b1
  b2 = b2
  big = big
  s1 = s1
  NoBody = NoBody
  Nothing = Nothing
  Seeded = Seeded
  TargetOf <- MCTargetOf
  BodyOf <- MCBodyOf
  Unkeyed = {big}
  Reused = {pB}
  Strategy = "exact_with_body"
  Stoppers = {s1}
  BufSize = 2
  TTL = 0
  SizeOf <- MCSizeOf
  Requests = {q1, q2, q3, q4}
  SeedTargets <- MCSeedA
  MaxEntries = 2
SYMMETRY MCSymmetry
INVARIANTS ReplayAnswersTheSameQuestion StoredUnderAnnouncedKey
CHECK_DEADLOCK FALSE
