---------------------------- MODULE MCFreeBlocks ----------------------------
(***************************************************************************)
(* Small argument lists for QKEmitFreeAlignedMemBlocks.                    *)
(***************************************************************************)
EXTENDS FreeBlocks

CONSTANTS
  AlignedTop,    (* Word-aligned lists reach up to here ...                *)
  MaxAligned,    (* ... with so many occupied regions at most, sorted.     *)
  UnalignedTop,  (* Lists on half words, sorted or not, reach up to here   *)
  MaxUnaligned   (* ... with so many.                                      *)

B(base, size) == [baseAddr |-> base, size |-> size]

Grid(grain, top) == {a \in 0 .. top : a % grain = 0}

SmallBlocks(grain, top) ==
  {b \in [baseAddr : Grid(grain, top), size : Grid(grain, top)] : b.baseAddr + b.size <= top}

\* One region, two with a hole between them, two that touch, three in descending
\* order with an empty one.
RamMaps(grain, top) ==
  { <<B(grain, top - grain)>>,
    <<B(0, 16), B(16 + grain, top - 16 - grain)>>,
    <<B(0, 16), B(16, top - 16)>>,
    <<B(24, top - 24), B(16 + grain, 0), B(0, 16)>> }

OccupiedLists(grain, top, max) == UNION {[1 .. n -> SmallBlocks(grain, top)] : n \in 0 .. max}

IsSorted(s) == \A i, j \in DOMAIN s : i < j => s[i].baseAddr <= s[j].baseAddr

AlignedMaps ==
  [ ram      : RamMaps(8, AlignedTop),
    occupied : {s \in OccupiedLists(8, AlignedTop, MaxAligned) : IsSorted(s)} ]

UnalignedMaps ==
  [ram : RamMaps(4, UnalignedTop), occupied : OccupiedLists(4, UnalignedTop, MaxUnaligned)]

AllMaps == AlignedMaps \cup UnalignedMaps
=============================================================================
