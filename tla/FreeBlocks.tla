----------------------------- MODULE FreeBlocks -----------------------------
(***************************************************************************)
(* QKEmitFreeAlignedMemBlocks (kernel/src/memory/memory.c): subtract the   *)
(* occupied regions from the RAM regions and emit what is left as blocks   *)
(* of whole 8-byte words.  One action per iteration of the inner loop, one *)
(* per entry to and one per exit from the body of the outer loop.  Region  *)
(* counters run from 1, as TLA+ sequences do.                              *)
(***************************************************************************)
EXTENDS MemBlock, Sequences

CONSTANT MemMaps  \* the argument lists explored: [ram, occupied] records

ASSUME MemMapsAssumption == MemMaps \subseteq [ram : Seq(Block), occupied : Seq(Block)]

VARIABLES
  ram,              (* memRegions, memRegionsCount                         *)
  occupied,         (* occupiedRegions, occupiedRegionsCount               *)
  pc,               (* control: "region", "occupied" or "done"             *)
  ramRegIdx,
  occupiedRamRegIdx,
  currentStart,
  free              (* pFreeMemBlocks[0 .. *pFreeMemBlocksCount - 1]       *)

args == <<ram, occupied>>
vars == <<ram, occupied, pc, ramRegIdx, occupiedRamRegIdx, currentStart, free>>

Region == ram[ramRegIdx]
Taken  == occupied[occupiedRamRegIdx]

\* `free' after the gap [start, end) has been looked at: both emit sites of the
\* code do this.
Emitted(start, end) ==
  IF start < end /\ AlignDown(end - start, ALIGNMENT) > 0
  THEN Append(free, [baseAddr |-> AlignUp(start, ALIGNMENT),
                     size     |-> AlignDown(end - start, ALIGNMENT)])
  ELSE free

Init ==
  /\ \E m \in MemMaps : ram = m.ram /\ occupied = m.occupied
  /\ pc = "region"
  /\ ramRegIdx = 1
  /\ occupiedRamRegIdx = 1
  /\ currentStart = 0
  /\ free = << >>

EnterRegion ==
  /\ pc = "region" /\ ramRegIdx <= Len(ram)
  /\ pc' = "occupied"
  /\ currentStart' = Region.baseAddr
  /\ occupiedRamRegIdx' = 1
  /\ UNCHANGED <<ram, occupied, ramRegIdx, free>>

\* Faults for the mutation runs: one of the two comparisons is missing.
IrrelevantMissesLeft  == End(Region) < Taken.baseAddr
IrrelevantMissesRight == End(Taken) < currentStart

\* The occupied region does not touch what is left of the RAM region.
Irrelevant == End(Taken) < currentStart \/ End(Region) < Taken.baseAddr

SkipOccupied ==
  /\ pc = "occupied" /\ occupiedRamRegIdx <= Len(occupied)
  /\ Irrelevant
  /\ occupiedRamRegIdx' = occupiedRamRegIdx + 1
  /\ UNCHANGED <<ram, occupied, pc, ramRegIdx, currentStart, free>>

\* Fault: the search resumes at the start of the occupied region.
CutOccupiedResumesAtStart ==
  /\ pc = "occupied" /\ occupiedRamRegIdx <= Len(occupied)
  /\ ~Irrelevant
  /\ free' = Emitted(currentStart, Taken.baseAddr)
  /\ currentStart' = Taken.baseAddr
  /\ occupiedRamRegIdx' = occupiedRamRegIdx + 1
  /\ UNCHANGED <<ram, occupied, pc, ramRegIdx>>

\* Fault: the counter is incremented in the body and in the loop header.
CutOccupiedSkipsNext ==
  /\ pc = "occupied" /\ occupiedRamRegIdx <= Len(occupied)
  /\ ~Irrelevant
  /\ free' = Emitted(currentStart, Taken.baseAddr)
  /\ currentStart' = End(Taken)
  /\ occupiedRamRegIdx' = occupiedRamRegIdx + 2
  /\ UNCHANGED <<ram, occupied, pc, ramRegIdx>>

CutOccupied ==
  /\ pc = "occupied" /\ occupiedRamRegIdx <= Len(occupied)
  /\ ~Irrelevant
  /\ free' = Emitted(currentStart, Taken.baseAddr)
  /\ currentStart' = End(Taken)
  /\ occupiedRamRegIdx' = occupiedRamRegIdx + 1
  /\ UNCHANGED <<ram, occupied, pc, ramRegIdx>>

\* Fault: the left-over of the region is not emitted.
LeaveRegionDropsLeftOver ==
  /\ pc = "occupied" /\ occupiedRamRegIdx > Len(occupied)
  /\ ramRegIdx' = ramRegIdx + 1
  /\ pc' = "region"
  /\ UNCHANGED <<ram, occupied, occupiedRamRegIdx, currentStart, free>>

LeaveRegion ==
  /\ pc = "occupied" /\ occupiedRamRegIdx > Len(occupied)
  /\ free' = Emitted(currentStart, End(Region))
  /\ ramRegIdx' = ramRegIdx + 1
  /\ pc' = "region"
  /\ UNCHANGED <<ram, occupied, occupiedRamRegIdx, currentStart>>

Return ==
  /\ pc = "region" /\ ramRegIdx > Len(ram)
  /\ pc' = "done"
  /\ UNCHANGED <<ram, occupied, ramRegIdx, occupiedRamRegIdx, currentStart, free>>

Next == EnterRegion \/ SkipOccupied \/ CutOccupied \/ LeaveRegion \/ Return

Spec == Init /\ [][Next]_vars

\* The caller waits for the call to return: the processor keeps executing it.
FairSpec == Spec /\ WF_vars(Next)
-----------------------------------------------------------------------------
(* The conditions on the arguments.                                         *)

NoWrap ==
  /\ \A r \in 1 .. Len(ram) : IsNoWrap(ram[r])
  /\ \A o \in 1 .. Len(occupied) : IsNoWrap(occupied[o])

WordAligned ==
  /\ \A r \in 1 .. Len(ram) : IsWordAligned(ram[r])
  /\ \A o \in 1 .. Len(occupied) : IsWordAligned(occupied[o])

\* memory.h:47 "occupiedRegions MUST BE SORTED !"
Sorted ==
  \A o, p \in 1 .. Len(occupied) : o < p => occupied[o].baseAddr <= occupied[p].baseAddr

RamDisjoint ==
  \A r, s \in 1 .. Len(ram) : r # s => ~Overlap(ram[r], ram[s])
-----------------------------------------------------------------------------
(* Properties.                                                              *)

TypeOK ==
  /\ ram \in Seq(Block) /\ occupied \in Seq(Block)
  /\ pc \in {"region", "occupied", "done"}
  /\ ramRegIdx \in 1 .. Len(ram) + 1
  /\ occupiedRamRegIdx \in 1 .. Len(occupied) + 1
  /\ currentStart \in U64
  /\ free \in Seq(Block)
  /\ pc = "occupied" => ramRegIdx <= Len(ram)

\* A block handed out as free holds no byte of an occupied region, whatever the
\* nesting, overlap or adjacency of the occupied regions, provided the caller
\* keeps to the header's contract (sorted) and the addresses are word-aligned.
FreeIsUnoccupied ==
  NoWrap /\ WordAligned /\ Sorted =>
    \A f \in 1 .. Len(free), o \in 1 .. Len(occupied) : ~Overlap(free[f], occupied[o])

\* The same promise without the alignment condition: "emit left-free block"
\* (memory.c:32).  The code rounds the start of an unaligned gap up but keeps the
\* size it had before rounding.
EmittedBlocksAreFree ==
  NoWrap /\ Sorted =>
    \A f \in 1 .. Len(free), o \in 1 .. Len(occupied) :
      occupied[o].size > 0 => ~Overlap(free[f], occupied[o])

\* A free block lies inside one RAM region, even where an occupied region sticks
\* out of the RAM region it is cut from on either side.
FreeIsRam ==
  NoWrap /\ WordAligned =>
    \A f \in 1 .. Len(free) : \E r \in 1 .. Len(ram) : Within(free[f], ram[r])

\* No byte is handed out twice.
FreeIsDisjoint ==
  NoWrap /\ WordAligned /\ RamDisjoint =>
    \A f, g \in 1 .. Len(free) : f # g => ~Overlap(free[f], free[g])

\* The function writes through pFreeMemBlocks without knowing its capacity: a
\* buffer with one slot per RAM region and one per occupied region is enough,
\* although every pair of them is compared.
OutputFits ==
  NoWrap /\ RamDisjoint => Len(free) <= Len(ram) + Len(occupied)
-----------------------------------------------------------------------------
(* The abstract specification: a set of free words that only grows.         *)

Map == INSTANCE FreeMap WITH
  freeWords <- {w \in Words : \E f \in 1 .. Len(free) : Within(WordAt(w), free[f])},
  returned  <- (pc = "done")

\* The loops implement FreeMap: the call returns, and with every whole aligned word of
\* RAM that touches no occupied region; neither the rounding of unaligned gaps nor
\* the order of the occupied regions loses memory.
ImplementsFreeMap == Map!FairSpec
=============================================================================
