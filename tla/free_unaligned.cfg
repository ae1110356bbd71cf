CONSTANTS
  AddrLimit = 64
  AlignedTop = 40
  MaxAligned = 3
  UnalignedTop = 32
  MaxUnaligned = 2
  MemMaps <- UnalignedMaps
SPECIFICATION Spec
INVARIANT EmittedBlocksAreFree
CHECK_DEADLOCK FALSE
