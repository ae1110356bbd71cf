CONSTANTS
  AddrLimit = 64
  AlignedTop = 40
  MaxAligned = 3
  UnalignedTop = 32
  MaxUnaligned = 2
  MemMaps <- AllMaps
SPECIFICATION FairSpec
INVARIANTS TypeOK FreeIsUnoccupied FreeIsRam FreeIsDisjoint OutputFits
PROPERTY ImplementsFreeMap
CHECK_DEADLOCK FALSE
