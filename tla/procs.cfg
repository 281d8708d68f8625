SPECIFICATION FairSpec
CONSTANTS
  MaxSpawns = 2
  MaxStops = 2
INVARIANTS StatusIsTrue
PROPERTIES CrashIsReported StopEndsTheProcess
CHECK_DEADLOCK FALSE
