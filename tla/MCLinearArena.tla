--------------------------- MODULE MCLinearArena ----------------------------
(***************************************************************************)
(* Small arenas: an empty one, one at address 0, one in the middle of the  *)
(* address space and one that ends at its last byte.                       *)
(***************************************************************************)
EXTENDS LinearArena

CONSTANT MaxSize  \* the largest block

SmallBlocks ==
  { Run(0, MaxSize), Run(5, 0), Run(7, MaxSize - 1), Run(AddrLimit - 1 - MaxSize, MaxSize) }

SmallSizes == 0 .. MaxSize + 1
=============================================================================
