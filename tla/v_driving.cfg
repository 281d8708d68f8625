SPECIFICATION Spec
CONSTANTS
  Trips = {t1, t2}
  Drivers = {d1}
  Regions = {sf}
  NoDriver = NoDriver
  NoRegion = NoRegion
  NoTrip = NoTrip
  Home <- AnyHome
  Extras = {}
  MaxConfirms = 1
  MaxBacklog = 2
  AcceptBeatsEpoch = FALSE
INVARIANTS DrivingDriverNotMatchable
