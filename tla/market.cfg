SPECIFICATION FairSpec
CONSTANTS
  Regions = {sf}
  Riders = {r1}
  EventWindow = 2
  Metres = 3000
  BaseFare = 350
  Weather = {"snow"}
  Accidents = {60}
  MaxSets = 2
  MaxRequests = 2
  MaxBootstraps = 1
  MaxDrivers = 1
INVARIANTS TypeOK UpdatesAreKept RateCountsWindow RefreshLoopsAreKept
PROPERTIES KeysAreIndependent RidersAreQuoted PricesFollow
