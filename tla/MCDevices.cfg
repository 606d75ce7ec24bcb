SPECIFICATION Spec

INVARIANTS
  CodecSetUp
  SoundAccounted
  ArithmeticExact
  
  PresentShowsFrame
  
  DecodedAsTyped
  EchoSpellsCommand

PROPERTIES
  SnapshotCoherent
  BusScanned
  InputServed
  BringUpEnds
