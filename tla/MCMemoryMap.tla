---------------------------- MODULE MCMemoryMap -----------------------------
(***************************************************************************)
(* Every array of up to MaxLen blocks with few addresses and sizes, which  *)
(* tell blocks at one address apart, and RAM maps they touch, contain and  *)
(* stick out of.                                                           *)
(***************************************************************************)
EXTENDS MemoryMap

CONSTANTS MaxLen, Addrs, Sizes

SmallBlocks == [baseAddr : Addrs, size : Sizes]

SmallArrays == UNION {[1 .. n -> SmallBlocks] : n \in 0 .. MaxLen}

B(base, size) == [baseAddr |-> base, size |-> size]

\* No RAM, one region, two that touch, two in descending order with a hole.
RamMaps ==
  { << >>, <<B(0, 32)>>, <<B(8, 8), B(16, 16)>>, <<B(24, 8), B(0, 16)>> }
=============================================================================
