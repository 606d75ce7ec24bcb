CONSTANTS
  MaxOrder = 3
  BlockPages <- MCBlockPages
  BootPages = {1, 2, 3}
  ExtendPages = {4, 5, 6, 7}
  NodeCount = 2
  SratNode <- MCSratNode
  LocalNode = 1
  MaxRejects = 2
SPECIFICATION Spec
INVARIANTS
  BuddyInv
  FullyCoalesced
PROPERTY
  PagesChangeHandsOnce
