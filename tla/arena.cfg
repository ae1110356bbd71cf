CONSTANTS
  AddrLimit = 32
  MaxSize = 6
  MemBlocks <- SmallBlocks
  Sizes <- SmallSizes
SPECIFICATION Spec
INVARIANTS TypeOK LiveDisjoint
PROPERTY ImplementsAllocator
