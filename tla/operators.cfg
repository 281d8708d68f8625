SPECIFICATION Spec
CONSTANTS
  Trips = {t1, t2}
  Drivers = {d1}
  Regions = {sf}
  NoDriver = NoDriver
  NoRegion = NoRegion
  NoTrip = NoTrip
  Home <- AnyHome
  Extras = {"cancel", "complete", "force_idle", "offline", "halt"}
  MaxConfirms = 1
  MaxBacklog = 2
  AcceptBeatsEpoch = FALSE
SYMMETRY TripsAndDrivers
INVARIANTS TypeOK EpochLoop NoStrandedTrip PoolTracksStatus NoRoundWhileHalted
PROPERTIES HaltedRegionKeepsItsTrips OverUnlessCalled
