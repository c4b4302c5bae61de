\* Two requests: HTTP, Hook or MustFault, and HTTP, gRPC or MustFault.
SPECIFICATION FairSpec
CONSTANTS
  r1 = r1
  r2 = r2
  proxy = proxy
  proxy2 = proxy2
  sleep = sleep
  own = own
  broken = broken
  broken2 = broken2
  broken3 = broken3
  garbled = garbled
  pace = pace
  wait = wait
  NoOne = NoOne
  None = NoOne
  Requests = {r1, r2}
  EntriesOf <- MCEntriesOf
  LabelsOf <- MCLabelsOf
  Objects = {proxy, proxy2, sleep, own, broken, broken2, broken3, garbled, pace, wait}
  SpecOf <- MCSpecOf
  AdminName <- MCAdmin
  OwnFault = own
  CompiledLists <- MCLists
  PostedLists <- MCPosted
  HasRegistry = TRUE
  HasCacheBox = TRUE
INVARIANTS TypeOK MustFaultInjects DedupKeepsOwnSpan SameFaultsRun
PROPERTIES DecidedByHighestPriority RequestsComplete
CHECK_DEADLOCK FALSE
