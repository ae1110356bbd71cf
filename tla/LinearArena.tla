---------------------------- MODULE LinearArena -----------------------------
(***************************************************************************)
(* The bump allocator of kernel/src/memory/linear_arena.c over one block   *)
(* of memory.  `live', `asked' and `ret' are what the callers see: the     *)
(* allocations they hold, the size last asked for and the pointer returned.*)
(***************************************************************************)
EXTENDS MemBlock

CONSTANTS
  MemBlocks,  (* the blocks an arena may be created over                   *)
  Sizes       (* the sizes callers ask for                                 *)

ASSUME MemBlocksAssumption ==
  /\ MemBlocks \subseteq Block
  /\ \A b \in MemBlocks : b.baseAddr + b.size < AddrLimit

ASSUME SizesAssumption == Sizes \subseteq U64

VARIABLES
  memBlock,   (* linearArena->memBlock                                     *)
  used,       (* linearArena->used                                         *)
  live,
  asked,
  ret

vars == <<memBlock, used, live, asked, ret>>

NULL == 0

Run(addr, sizeInBytes) == [baseAddr |-> addr, size |-> sizeInBytes]

\* MemLinearArenaCreate.
Init ==
  /\ memBlock \in MemBlocks
  /\ used = 0
  /\ live = {}
  /\ asked = 0 /\ ret = NULL

\* Faults for the mutation runs: the last byte is not counted, in either direction.
NoSpaceOffByOne(sizeInBytes)     == (used + sizeInBytes) % AddrLimit > memBlock.size + 1
NoSpaceWastesLastByte(sizeInBytes) == (used + sizeInBytes) % AddrLimit >= memBlock.size

NoSpace(sizeInBytes) == (used + sizeInBytes) % AddrLimit > memBlock.size

AllocFails(sizeInBytes) ==
  /\ NoSpace(sizeInBytes)
  /\ asked' = sizeInBytes /\ ret' = NULL
  /\ UNCHANGED <<memBlock, used, live>>

\* Fault: `=' for `+='.
AllocAssignsUsed(sizeInBytes) ==
  LET mem == (memBlock.baseAddr + used) % AddrLimit IN
  /\ ~NoSpace(sizeInBytes)
  /\ used' = sizeInBytes
  /\ live' = live \cup {Run(mem, sizeInBytes)}
  /\ asked' = sizeInBytes /\ ret' = mem
  /\ UNCHANGED memBlock

Alloc(sizeInBytes) ==
  LET mem == (memBlock.baseAddr + used) % AddrLimit IN
  /\ ~NoSpace(sizeInBytes)
  /\ used' = (used + sizeInBytes) % AddrLimit
  /\ live' = live \cup {Run(mem, sizeInBytes)}
  /\ asked' = sizeInBytes /\ ret' = mem
  /\ UNCHANGED memBlock

\* MemLinearReset: every allocation is taken back at once.
Reset ==
  /\ used' = 0
  /\ live' = {}
  /\ UNCHANGED <<memBlock, asked, ret>>

Next == Reset \/ \E sizeInBytes \in Sizes : Alloc(sizeInBytes) \/ AllocFails(sizeInBytes)

Spec == Init /\ [][Next]_vars
-----------------------------------------------------------------------------
(* Properties.                                                              *)

TypeOK ==
  /\ memBlock \in MemBlocks
  /\ used \in 0 .. memBlock.size
  /\ live \subseteq Block
  /\ asked \in U64 /\ ret \in U64

\* No request is so large that adding it to `used' can wrap around.
SizesFit == \A b \in MemBlocks, n \in Sizes : b.size + n < AddrLimit

\* Between two resets no byte is handed out twice, whatever the sequence of
\* sizes, those that failed in between included.
LiveDisjoint == SizesFit => \A b, c \in live : b # c => ~Overlap(b, c)

\* What is handed out lies in the arena's block, below the bump pointer.
LiveInside ==
  SizesFit =>
    \A b \in live :
      Within(b, memBlock) /\ b.baseAddr + b.size <= memBlock.baseAddr + used

\* No byte below the bump pointer is lost: someone holds it.
NothingLeaks ==
  SizesFit =>
    \A addr \in memBlock.baseAddr .. memBlock.baseAddr + used - 1 :
      \E b \in live : b.baseAddr <= addr /\ addr < b.baseAddr + b.size

Allocator == INSTANCE BlockAllocator

\* The bump pointer implements the allocator its callers are promised: in
\* particular NULL means that no run of that many free bytes is left anywhere.
ImplementsAllocator == Allocator!Spec
=============================================================================
