CONSTANTS
  CellLimit = 2
  U8Limit = 2
  NULL = null
  Phandle = 1
  Trees <- SmallTrees
SPECIFICATION Spec
INVARIANTS TypeOK FoundAllOnce RegistersDecoded StopsForWantedOnly
CHECK_DEADLOCK FALSE
