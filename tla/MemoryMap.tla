----------------------------- MODULE MemoryMap ------------------------------
(***************************************************************************)
(* InsertionSort and QKEmitFreeAlignedMemBlocks together: the occupied     *)
(* regions are sorted with MemCompareBlocksByAddr, as memory.h asks of the *)
(* second function's callers, and the array that the first has rearranged  *)
(* is what the second reads.                                               *)
(***************************************************************************)
EXTENDS InsertionSort

CONSTANT Rams  \* the RAM maps: lists of regions

ASSUME RamsAssumption == Rams \subseteq Seq(Block)

VARIABLES
  ram, emitPc, ramRegIdx, occupiedRamRegIdx, currentStart, free  (* see    *)
                                                      (* FreeBlocks        *)

sortLocals == <<input, elemSize, key, i, j, pc>>
emitVars   == <<ram, emitPc, ramRegIdx, occupiedRamRegIdx, currentStart, free>>
mapVars    == <<vars, emitVars>>

Emit == INSTANCE FreeBlocks WITH
  MemMaps  <- [ram : Seq(Block), occupied : Seq(Block)],
  occupied <- arr,
  pc       <- emitPc

MapInit ==
  /\ Init
  /\ ram \in Rams
  /\ emitPc = "region"
  /\ ramRegIdx = 1 /\ occupiedRamRegIdx = 1 /\ currentStart = 0
  /\ free = << >>

SortStep == Next /\ UNCHANGED emitVars

EmitStep ==
  /\ pc = "done"
  /\ Emit!Next
  /\ UNCHANGED sortLocals

MapNext == SortStep \/ EmitStep

MapSpec == MapInit /\ [][MapNext]_mapVars
-----------------------------------------------------------------------------
(* Properties.                                                              *)

\* The caller's regions, in the order it has them: on the word grid, with ends that
\* do not wrap.
Usable(regions) == \A k \in 1 .. Len(regions) : IsNoWrap(regions[k]) /\ IsWordAligned(regions[k])

HandedOut == {w \in Words : \E f \in 1 .. Len(free) : Within(WordAt(w), free[f])}

Available ==
  {w \in Words :
     /\ \E r \in 1 .. Len(ram) : Within(WordAt(w), ram[r])
     /\ \A o \in 1 .. Len(input) : ~Overlap(WordAt(w), input[o])}

\* memory.h:47 "occupiedRegions MUST BE SORTED !": sorting by MemCompareBlocksByAddr is
\* all a caller has to do.  Whatever the order, nesting and repetition of the regions
\* it began with, no word of one of them is ever handed out, and in the end every
\* other whole word of RAM is; elements that do not fit the key halt the machine
\* before anything is.
MapIsExact ==
  /\ pc # "done" => free = << >>
  /\ Usable(ram) /\ Usable(input) =>
       /\ HandedOut \subseteq Available
       /\ emitPc = "done" => Available \subseteq HandedOut
=============================================================================
