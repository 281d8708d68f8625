SPECIFICATION FairSpec
CONSTANTS
  Trips = {t1}
  Drivers = {d1}
  Regions = {sf}
  NoDriver = NoDriver
  NoRegion = NoRegion
  NoTrip = NoTrip
  Home <- AnyHome
  Extras = {"cancel"}
  MaxConfirms = 1
  MaxBacklog = 2
  AcceptBeatsEpoch = FALSE
PROPERTIES DriverReturns
