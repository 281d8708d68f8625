SPECIFICATION Spec
CONSTANTS
  Trips = {t1, t2}
  Drivers = {d1, d2}
  Regions = {sf}
  NoDriver = NoDriver
  NoRegion = NoRegion
  NoTrip = NoTrip
  Home <- AnyHome
  Extras = {"cancel"}
  MaxConfirms = 2
  MaxBacklog = 2
  AcceptBeatsEpoch = TRUE
INVARIANTS TokenConserved NoDoubleBooking DrivingDriverNotMatchable FreesItsOwnDriver
PROPERTIES ImplementsMatchmaking
