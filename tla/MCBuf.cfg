SPECIFICATION Spec
CONSTANTS
  Types <- MCTypes
  Counts <- MCCounts
  Caps <- MCCaps
  HeapBases <- MCHeapBases
  StackBases <- MCStackBases
  MaxAlign = 4
  MaxBlocks = 3
INVARIANTS TypeOK BlocksDisjoint BlocksAligned OverrunBounded ZeroedStaysZero
PROPERTIES OverrunBlocksAllocation ImplementsRegion
CHECK_DEADLOCK FALSE
