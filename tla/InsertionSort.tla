--------------------------- MODULE InsertionSort ----------------------------
(***************************************************************************)
(* InsertionSort (kernel/src/lib/c_lib.c) on arrays of mem_block_t, with   *)
(* the comparison function the kernel has for them.  One action per        *)
(* iteration of the inner loop, one for each end of the outer loop's body. *)
(* Indices run from 1, so the code's j = -1 is j = 0 here.                 *)
(***************************************************************************)
EXTENDS MemBlock, Sequences

CONSTANTS
  Arrays,     (* the arrays callers sort                                   *)
  ElemSizes   (* the element sizes they pass                               *)

ASSUME ArraysAssumption == Arrays \subseteq Seq(Block)
ASSUME ElemSizesAssumption == ElemSizes \subseteq Nat

VARIABLES
  input,      (* the array when the call was made                          *)
  arr,        (* arrayBase[0 .. elemCount - 1]                             *)
  elemSize,
  key,        (* the local buffer, one element long                        *)
  i,
  j,
  pc          (* "check", "outer", "inner", "done", or "hcf" once halted   *)

vars == <<input, arr, elemSize, key, i, j, pc>>

KEY_BYTES == 256  \* ARRAY_LEN( key )

\* Fault for the mutation runs: equal elements count as out of order.
CompareTiesGreater(a, b) == IF a.baseAddr < b.baseAddr THEN -1 ELSE 1

MemCompareBlocksByAddr(a, b) ==
  IF a.baseAddr < b.baseAddr THEN -1 ELSE IF a.baseAddr > b.baseAddr THEN 1 ELSE 0

Init ==
  /\ arr \in Arrays /\ input = arr
  /\ elemSize \in ElemSizes
  /\ key = [baseAddr |-> 0, size |-> 0]  \* uninitialised, and not read before TakeKey
  /\ i = 2 /\ j = 0
  /\ pc = "check"

\* Fault: the size of the key buffer is not checked.
CheckNothing ==
  /\ pc = "check"
  /\ pc' = "outer"
  /\ UNCHANGED <<input, arr, elemSize, key, i, j>>

CheckElemSize ==
  /\ pc = "check"
  /\ pc' = IF elemSize > KEY_BYTES THEN "hcf" ELSE "outer"
  /\ UNCHANGED <<input, arr, elemSize, key, i, j>>

TakeKey ==
  /\ pc = "outer" /\ i <= Len(arr)
  /\ key' = arr[i]
  /\ j' = i - 1
  /\ pc' = "inner"
  /\ UNCHANGED <<input, arr, elemSize, i>>

\* Fault: the first element is never compared with the key.
KeyBelowStopsEarly == j >= 2 /\ MemCompareBlocksByAddr(arr[j], key) > 0

KeyBelow == j >= 1 /\ MemCompareBlocksByAddr(arr[j], key) > 0

Shift ==
  /\ pc = "inner" /\ KeyBelow
  /\ arr' = [arr EXCEPT ![j + 1] = arr[j]]
  /\ j' = j - 1
  /\ UNCHANGED <<input, elemSize, key, i, pc>>

\* Fault: the key is not written back.
InsertNothing ==
  /\ pc = "inner" /\ ~KeyBelow
  /\ i' = i + 1
  /\ pc' = "outer"
  /\ UNCHANGED <<input, arr, elemSize, key, j>>

Insert ==
  /\ pc = "inner" /\ ~KeyBelow
  /\ arr' = [arr EXCEPT ![j + 1] = key]
  /\ i' = i + 1
  /\ pc' = "outer"
  /\ UNCHANGED <<input, elemSize, key, j>>

Return ==
  /\ pc = "outer" /\ i > Len(arr)
  /\ pc' = "done"
  /\ UNCHANGED <<input, arr, elemSize, key, i, j>>

Next == CheckElemSize \/ TakeKey \/ Shift \/ Insert \/ Return

Spec == Init /\ [][Next]_vars

-----------------------------------------------------------------------------
(* Properties.                                                              *)

\* The stores of the inner loop stay in the array, and the key in its buffer.
TypeOK ==
  /\ input \in Seq(Block) /\ arr \in Seq(Block) /\ Len(arr) = Len(input)
  /\ elemSize \in Nat /\ key \in Block
  /\ pc \in {"check", "outer", "inner", "done", "hcf"}
  /\ i \in Nat /\ i >= 2 /\ j \in Nat
  /\ pc = "inner" => i <= Len(arr) /\ j < i
  /\ pc \in {"outer", "inner", "done"} => elemSize <= KEY_BYTES

\* The array with the key in the hole the inner loop moves towards the front:
\* while a hole is open, one element exists only in the key buffer.
Contents == IF pc = "inner" THEN [arr EXCEPT ![j + 1] = key] ELSE arr

InOrder(seq) == \A k, l \in 1 .. Len(seq) : k < l => seq[k].baseAddr <= seq[l].baseAddr

\* seq holds input's elements, and equal ones in the order they had there.
StableArrangement(seq) ==
  \E from \in [1 .. Len(seq) -> 1 .. Len(seq)] :
    /\ \A k \in 1 .. Len(seq) : seq[k] = input[from[k]]
    /\ \A k, l \in 1 .. Len(seq) : k # l => from[k] # from[l]
    /\ \A k, l \in 1 .. Len(seq) :
         k < l /\ seq[k].baseAddr = seq[l].baseAddr => from[k] < from[l]

\* At every step, shifts half done included, array and key together hold every
\* element of the input once, and equal elements have not passed each other.
Stable == StableArrangement(Contents)

\* When the call returns the array is sorted.
SortedAtReturn == pc = "done" => InOrder(arr)

Swaps == INSTANCE AdjacentSwaps WITH contents <- Contents, returned <- (pc = "done")

\* Seen through Contents, sorting exchanges strictly inverted neighbours only.
ImplementsAdjacentSwaps == Swaps!Spec
=============================================================================
