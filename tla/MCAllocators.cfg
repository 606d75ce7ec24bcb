CONSTANTS
  \* BumpAllocators: offsets are words of five bits; a size of 31 is one whose sum with
  \* any offset wraps
  Word = 32
  ArenaCapacity = 12
  StackCapacity = 10
  DefaultAlign = 4
  Sizes = {0, 1, 3, 31}
  Aligns = {0, 1, 2, 16}
  Budgets = {0, 3, 7}
  MaxRegions = 4
  MaxMarkers = 2
  Pointer = 2
  KmallocAlign = 4
  BlockSizes = {0, 1, 5}
  Alignments = {1, 4, 8}
  Space = 40
  MaxHeld = 2
  \* RingBuffer
  Capacity = 3
  Values = {"a", "b"}
  MaxOps = 4

SPECIFICATION Spec

INVARIANTS
  FreeListsExact
  RegionsDisjoint
  

PROPERTIES
  RingIsFifo
  RefusalsRight

CHECK_DEADLOCK FALSE
