SPECIFICATION FairSpec
CONSTANTS
  RateMin = 2
  RateMax = 20
  RateStep = 5
  RateAtBoot = 10
  MaxNudges = 2
  MaxToggles = 2
  MaxResets = 1
INVARIANTS PauseFlagIsTrue
PROPERTIES PanelCatchesUp
CHECK_DEADLOCK FALSE
