\* Batches of two out of three records, a queue of two; any timer may be late.
SPECIFICATION PipelineSpec
CONSTANTS
  r1 = r1
  r2 = r2
  r3 = r3
  s1 = s1
  p1 = p1
  p2 = p2
  Nothing = Nothing
  NoTimer = NoTimer
  Records = {r1, r2, r3}
  Stoppers = {s1}
  PushStoppers = {p1, p2}
  BufSize = 2
  MaxBatch = 2
INVARIANTS AcceptedInOrder EntriesConserved BatchHasTimer StoredBeforePushed
PROPERTIES StopDrains EveryRecordIsCounted
CHECK_DEADLOCK FALSE
