SPECIFICATION FairSpec
CONSTANTS
  Regions = {sf}
  Riders = {r1}
  EventWindow = 2
  Metres = 3000
  BaseFare = 350
  Weather = {}
  Accidents = {}
  MaxSets = 0
  MaxRequests = 2
  MaxBootstraps = 1
  MaxDrivers = 1
PROPERTIES SurgeDecays
