CONSTANTS
  NoTable = NoTable
  \* SmpBoot: processor 2 never starts
  APs = {1, 2, 3}
  Dead = {2}
  MaxAttempts = 2
  \* TlbShootdown
  Bsp = "bsp"
  Remotes = {"a1", "a2"}
  Responsive = {"a1", "a2"}
  PageSet = {"p1", "p2"}
  Frames = {1}
  AllPages = "all"
  Word = 5
  MaxMaps = 2
  MaxTimeouts = 1
  SendOutcomes = {TRUE, FALSE}
  Patient = FALSE
  \* InterruptRouting: the client with a satellite build
  Client = TRUE
  Satellite = TRUE
  CalTicks = 1
  ClockHz = 100
  SatelliteHz = 1000

SPECIFICATION Spec

INVARIANTS
  
  HandoffIsExclusive
  NoStaleTranslation
  InterruptTransparent
  

PROPERTIES
  BootContinues
