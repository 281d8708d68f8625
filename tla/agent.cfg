SPECIFICATION FairSpec
CONSTANTS
  Regions = {sf}
  MaxTimers = 2
  MaxBacklog = 2
INVARIANTS TypeOK TickLoop GateAgrees
PROPERTIES ImplementsGate HaltedUntilApproved UnsafeRegionIsHalted
