--------------------------- MODULE AdjacentSwaps ----------------------------
(***************************************************************************)
(* What the users of InsertionSort are promised, without saying how: the   *)
(* array is sorted by exchanging neighbours that are strictly out of order *)
(* (so that equal elements never pass each other), and the call returns    *)
(* only when no such neighbours are left.                                  *)
(***************************************************************************)
EXTENDS MemBlock, Sequences

CONSTANT Arrays  \* the arrays callers sort

VARIABLES contents, returned

vars == <<contents, returned>>

Init == contents \in Arrays /\ returned = FALSE

OutOfOrder(k) == contents[k].baseAddr > contents[k + 1].baseAddr

Swap(k) ==
  /\ OutOfOrder(k)
  /\ contents' = [contents EXCEPT ![k] = contents[k + 1], ![k + 1] = contents[k]]
  /\ UNCHANGED returned

Return ==
  /\ \A k \in 1 .. Len(contents) - 1 : ~OutOfOrder(k)
  /\ returned' = TRUE
  /\ UNCHANGED contents

Next == Return \/ \E k \in 1 .. Len(contents) - 1 : Swap(k)

Spec == Init /\ [][Next]_vars
=============================================================================
