CONSTANTS
  Client = TRUE
  Satellite = TRUE
  CalTicks = 1
  ClockHz = 100
  SatelliteHz = 1000
SPECIFICATION RoutingSpec
PROPERTY SleepEnds
