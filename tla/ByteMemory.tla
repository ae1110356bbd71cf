----------------------------- MODULE ByteMemory -----------------------------
(***************************************************************************)
(* The memory that the functions of nolibc work on.                        *)
(***************************************************************************)
EXTENDS Integers

CONSTANTS
  MemSize,    (* memory is the addresses below it                          *)
  Byte        (* what an address holds                                     *)

ASSUME MemoryAssumption == MemSize \in Nat

Address == 0 .. MemSize - 1

Memory == [Address -> Byte]
=============================================================================
