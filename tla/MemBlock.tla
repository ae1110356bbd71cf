------------------------------ MODULE MemBlock ------------------------------
(***************************************************************************)
(* mem_block_t and the address arithmetic of kernel/src/memory/memory.h:   *)
(* the vocabulary shared by the arena, the free-block computation and the  *)
(* boot sequence.                                                          *)
(***************************************************************************)
EXTENDS Integers

CONSTANT AddrLimit  \* 2^64 in the code: one past the largest uint64_t

ALIGNMENT == 8  \* sizeof( uint64_t )

ASSUME AddrLimitAssumption == AddrLimit \in Nat /\ AddrLimit >= ALIGNMENT

U64 == 0 .. AddrLimit - 1

Block == [baseAddr : U64, size : U64]

AlignDown(value, alignment) == value - (value % alignment)
AlignUp(value, alignment)   == AlignDown((value + alignment - 1) % AddrLimit, alignment)

\* baseAddr + size, in uint64_t.
End(b) == (b.baseAddr + b.size) % AddrLimit
-----------------------------------------------------------------------------
(* What the properties say of blocks, in unbounded arithmetic.              *)

IsWordAligned(b) == b.baseAddr % ALIGNMENT = 0 /\ b.size % ALIGNMENT = 0

\* Neither the end of b nor that end rounded up to a word wraps around 2^64.
IsNoWrap(b) == b.baseAddr + b.size + ALIGNMENT <= AddrLimit

\* The blocks share a byte, or one is an empty block strictly inside the other.
Overlap(b, c) ==
  /\ b.baseAddr < c.baseAddr + c.size
  /\ c.baseAddr < b.baseAddr + b.size

Within(b, c) ==
  c.baseAddr <= b.baseAddr /\ b.baseAddr + b.size <= c.baseAddr + c.size

\* The whole word at address w.
WordAt(w) == [baseAddr |-> w, size |-> ALIGNMENT]

\* The addresses of the aligned words.
Words == {w \in U64 : w % ALIGNMENT = 0}
=============================================================================
