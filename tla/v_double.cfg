SPECIFICATION Spec
CONSTANTS
  MaxRiders = 1
  MaxDrivers = 1
  NumRegions = 1
  Rates = {1}
  Shrinks = FALSE
  Cold = FALSE
  MaxStarts = 1
  MaxLoad = 2
INVARIANT OneLoopPerSim
CHECK_DEADLOCK FALSE
