\* A refill interval is half a second and worth one and a half bytes; a CPU
\* fault lasts for a window and a quarter, and a quarter of a window is a tick.
SPECIFICATION FairSpec
CONSTANTS
  w1 = w1
  w2 = w2
  t1 = t1
  c1 = c1
  c2 = c2
  Duration = 3
  Workers = {w1, w2}
  Need = 2
  TargetRate = 3
  Second = 2
  Interval = 1
  RatedConfigs <- MCRatedConfigs
  NumChunks = 3
  Thrashers = {t1}
  RampDowns = {TRUE, FALSE}
  CPUs = {c1, c2}
  CpuDuration = 5
  Full = 4
  Window = 4
  CpuConfigs <- MCCpuConfigs
  Delays = {1, 2}
INVARIANTS
  NeverAboveRate WalksWholeChunks CpuWithinShare
  RampDownNotAnnouncedEarly ErrIsTheCallers
PROPERTIES AcquireKeepsPace ImplementsFaultLife FilesRemoved
CHECK_DEADLOCK FALSE
