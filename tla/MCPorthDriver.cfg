SPECIFICATION DriverSpec
CONSTANTS
  Channels = 2
  RingSize = 1
  Limit = 70
  Temps <- MCTemps
INVARIANT DriverInv
INVARIANT DeviceSeesLiveMemory
INVARIANT SampledBreachHalts
PROPERTY BreachHalts
PROPERTY NobodyHangs
