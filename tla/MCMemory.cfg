SPECIFICATION Spec

INVARIANTS
  MappingsExact
  HeapExact
  
  

PROPERTIES
  HandedOutUnmapped
  

CHECK_DEADLOCK FALSE
