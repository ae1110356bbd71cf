------------------------------ MODULE FreeMap -------------------------------
(***************************************************************************)
(* What QKEmitFreeAlignedMemBlocks promises its caller: a word once handed *)
(* out stays so, the call returns, with all the words of RAM that no       *)
(* occupied region touches, and to a caller that keeps the contract it     *)
(* hands out no others.                                                    *)
(***************************************************************************)
EXTENDS MemBlock, Sequences

CONSTANT MemMaps  \* the argument lists: [ram, occupied] records

VARIABLES ram, occupied, freeWords, returned

vars == <<ram, occupied, freeWords, returned>>

Available ==
  {w \in Words :
     /\ \E r \in 1 .. Len(ram) : Within(WordAt(w), ram[r])
     /\ \A o \in 1 .. Len(occupied) : ~Overlap(WordAt(w), occupied[o])}

\* memory.h:47: sorted by address; nothing off the word grid, nothing that wraps.
KeepsContract ==
  /\ \A r \in 1 .. Len(ram) : IsNoWrap(ram[r]) /\ IsWordAligned(ram[r])
  /\ \A o \in 1 .. Len(occupied) : IsNoWrap(occupied[o]) /\ IsWordAligned(occupied[o])
  /\ \A o, p \in 1 .. Len(occupied) : o < p => occupied[o].baseAddr <= occupied[p].baseAddr

Init ==
  /\ [ram |-> ram, occupied |-> occupied] \in MemMaps
  /\ freeWords = {}
  /\ returned = FALSE

HandOut ==
  /\ ~returned
  /\ freeWords' \in SUBSET Words
  /\ freeWords \subseteq freeWords'
  /\ KeepsContract => freeWords' \subseteq Available
  /\ UNCHANGED <<ram, occupied, returned>>

Return ==
  /\ ~returned
  /\ Available \subseteq freeWords
  /\ returned' = TRUE
  /\ UNCHANGED <<ram, occupied, freeWords>>

Next == HandOut \/ Return

Spec == Init /\ [][Next]_vars

FairSpec == Spec /\ <>returned
=============================================================================
