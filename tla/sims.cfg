SPECIFICATION FairSpec
CONSTANTS
  MaxRiders = 1
  MaxDrivers = 1
  NumRegions = 1
  Rates = {1, 2}
  Shrinks = FALSE
  Cold = FALSE
  MaxStarts = 2
  MaxLoad = 2
INVARIANTS TypeOK ActiveSimTicks RidersEndAtFleetRate SupplyCoversDrivers FeedIsBootstrapped
PROPERTIES StoppedFleetGoesQuiet FleetKeepsTicking
CHECK_DEADLOCK FALSE
