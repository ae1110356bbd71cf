-------------------------- MODULE BlockAllocator ----------------------------
(***************************************************************************)
(* What the callers of an arena are promised (kernel/src/memory/memory.h): *)
(* an allocation is a run of bytes of the arena's block that nobody else   *)
(* holds, NULL means that there is no such run, and a reset takes every    *)
(* allocation back.  Where in the block an allocation goes is left open.   *)
(***************************************************************************)
EXTENDS MemBlock

CONSTANTS
  MemBlocks,  (* the blocks an arena may be created over                   *)
  Sizes       (* the sizes callers ask for                                 *)

VARIABLES
  memBlock,   (* the block the arena was created over                      *)
  live,       (* the allocations the callers hold                          *)
  asked,      (* the size the last call asked for                          *)
  ret         (* what it returned                                          *)

vars == <<memBlock, live, asked, ret>>

NULL == 0

Free(run) == Within(run, memBlock) /\ \A b \in live : ~Overlap(run, b)

Run(addr, sizeInBytes) == [baseAddr |-> addr, size |-> sizeInBytes]

Init == memBlock \in MemBlocks /\ live = {} /\ asked = 0 /\ ret = NULL

Alloc(sizeInBytes) ==
  \E addr \in U64 :
    /\ Free(Run(addr, sizeInBytes))
    /\ live' = live \cup {Run(addr, sizeInBytes)}
    /\ asked' = sizeInBytes /\ ret' = addr
    /\ UNCHANGED memBlock

Refuse(sizeInBytes) ==
  /\ \A addr \in U64 : ~Free(Run(addr, sizeInBytes))
  /\ asked' = sizeInBytes /\ ret' = NULL
  /\ UNCHANGED <<memBlock, live>>

Reset == live' = {} /\ UNCHANGED <<memBlock, asked, ret>>

Next == Reset \/ \E sizeInBytes \in Sizes : Alloc(sizeInBytes) \/ Refuse(sizeInBytes)

Spec == Init /\ [][Next]_vars
=============================================================================
