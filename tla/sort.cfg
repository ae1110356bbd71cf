CONSTANTS
  AddrLimit = 64
  MaxLen = 4
  Addrs = {0, 8, 24}
  Sizes = {0, 16}
  Arrays <- SmallArrays
  ElemSizes = {256, 257}
  Rams <- RamMaps
SPECIFICATION MapSpec
INVARIANTS TypeOK Stable SortedAtReturn MapIsExact
PROPERTY ImplementsAdjacentSwaps
CHECK_DEADLOCK FALSE
