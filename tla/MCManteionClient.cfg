\* An outage of two requests and at most one re-registration at once.
SPECIFICATION FairSpec
CONSTANTS
  r1 = r1
  MaxVersion = 3
  MaxFailures = 2
  ReregisterAt = 2
  Regs = {r1}
  Rules <- MCRules
  ActiveFault <- MCActiveFault
  FreezeCfg <- MCFreezeCfg
INVARIANT WakeupNotLost
PROPERTIES NothingAfterClose CloseComesBack EventuallyInSync
CHECK_DEADLOCK FALSE
