\* One failed request and two rule sets, both sound.
SPECIFICATION FairSpec
CONSTANTS
  r1 = r1
  MaxVersion = 2
  MaxFailures = 1
  ReregisterAt = 2
  Regs = {r1}
  Rules <- SoundRules
  ActiveFault <- Nowhere
  FreezeCfg <- Nowhere
PROPERTY ConnectedRulesAreFresh
CHECK_DEADLOCK FALSE
