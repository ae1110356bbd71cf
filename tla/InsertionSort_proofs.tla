------------------------ MODULE InsertionSort_proofs ------------------------
(***************************************************************************)
(* InsertionSort on arrays of every length: it sorts, it is stable, no     *)
(* element is lost while the hole moves, and sorting is all that           *)
(* QKEmitFreeAlignedMemBlocks needs to hand out exactly the free memory.   *)
(***************************************************************************)
EXTENDS MemoryMap, FiniteSetTheorems, TLAPS
-----------------------------------------------------------------------------
(* Type correctness.                                                        *)

LEMMA BlockNat == ASSUME NEW b \in Block PROVE b.baseAddr \in Nat
BY AddrLimitAssumption DEF Block, U64

LEMMA TypeInit == Init => TypeOK
<1> SUFFICES ASSUME Init PROVE TypeOK
  OBVIOUS
<1>1. arr \in Seq(Block) /\ input \in Seq(Block) /\ elemSize \in Nat
  BY ArraysAssumption, ElemSizesAssumption DEF Init
<1>2. key \in Block
  BY AddrLimitAssumption DEF Init, Block, U64, ALIGNMENT
<1> QED
  BY <1>1, <1>2 DEF Init, TypeOK

LEMMA TypeStep == TypeOK /\ [Next]_vars => TypeOK'
<1> SUFFICES ASSUME TypeOK, [Next]_vars PROVE TypeOK'
  OBVIOUS
<1> USE DEF TypeOK
<1>1. CASE CheckElemSize
  BY <1>1 DEF CheckElemSize, KEY_BYTES
<1>2. CASE TakeKey
  <2>1. i \in 1 .. Len(arr) /\ arr[i] \in Block
    BY <1>2 DEF TakeKey
  <2> QED
    BY <1>2, <2>1 DEF TakeKey
<1>3. CASE Shift
  <2>1. j \in 1 .. Len(arr) /\ arr[j] \in Block
    BY <1>3 DEF Shift, KeyBelow
  <2> QED
    BY <1>3, <2>1 DEF Shift
<1>4. CASE Insert
  BY <1>4 DEF Insert
<1>5. CASE Return
  BY <1>5 DEF Return
<1>6. CASE UNCHANGED vars
  BY <1>6 DEF vars
<1> QED
  BY <1>1, <1>2, <1>3, <1>4, <1>5, <1>6 DEF Next

\* The inner loop's stores stay inside the array for arrays of every length.
THEOREM TypeCorrect == Spec => []TypeOK
BY TypeInit, TypeStep, PTL DEF Spec
-----------------------------------------------------------------------------
(* Stability.                                                               *)

Swapped(f, k) == [f EXCEPT ![k] = f[k + 1], ![k + 1] = f[k]]

\* Exchanging strictly inverted neighbours keeps a stable arrangement of the
\* input one: the witness exchanges the same two positions.
LEMMA SwapKeepsArrangement ==
  ASSUME NEW seq \in Seq(Block), NEW k \in 1 .. Len(seq) - 1,
         seq[k].baseAddr > seq[k + 1].baseAddr, StableArrangement(seq)
  PROVE  Swapped(seq, k) \in Seq(Block) /\ StableArrangement(Swapped(seq, k))
<1> DEFINE n   == Len(seq)
           new == Swapped(seq, k)
<1>1. n \in Nat /\ k \in 1 .. n - 1 /\ k \in 1 .. n /\ k + 1 \in 1 .. n /\ k < k + 1
  OBVIOUS
<1>2. seq \in [1 .. n -> Block]
  OBVIOUS
<1>3. PICK from \in [1 .. n -> 1 .. n] :
        /\ \A a \in 1 .. n : seq[a] = input[from[a]]
        /\ \A a, b \in 1 .. n : a # b => from[a] # from[b]
        /\ \A a, b \in 1 .. n :
             a < b /\ seq[a].baseAddr = seq[b].baseAddr => from[a] < from[b]
  BY DEF StableArrangement
<1> DEFINE from2 == Swapped(from, k)
<1>4. seq[k].baseAddr # seq[k + 1].baseAddr
  <2>1. seq[k].baseAddr \in Nat /\ seq[k + 1].baseAddr \in Nat
    BY <1>1, <1>2, BlockNat
  <2> QED
    BY <2>1
<1> HIDE DEF n
<1> DEFINE other(a) == IF a = k THEN k + 1 ELSE IF a = k + 1 THEN k ELSE a
<1>5. /\ \A a \in 1 .. n : other(a) \in 1 .. n
      /\ \A a, b \in 1 .. n : a # b => other(a) # other(b)
      /\ \A a, b \in 1 .. n : a < b /\ ~(a = k /\ b = k + 1) => other(a) < other(b)
      /\ other(k) = k + 1 /\ other(k + 1) = k
  <2>1. \A a \in 1 .. n : other(a) \in 1 .. n
    BY <1>1
  <2>2. ASSUME NEW a \in 1 .. n, NEW b \in 1 .. n, a < b, ~(a = k /\ b = k + 1)
        PROVE  other(a) < other(b)
    <3>1. a \in Int /\ b \in Int /\ k \in Int
      BY <1>1
    <3> QED
      BY <2>2, <3>1
  <2>3. \A a, b \in 1 .. n : a # b => other(a) # other(b)
    <3>1. \A a \in 1 .. n : a \in Int
      BY <1>1
    <3> QED
      BY <1>1, <3>1
  <2> QED
    BY <1>1, <2>1, <2>2, <2>3
<1>6. new \in [1 .. n -> Block] /\ \A a \in 1 .. n : new[a] = seq[other(a)]
  BY <1>1, <1>2 DEF Swapped
<1>7. from2 \in [1 .. n -> 1 .. n] /\ \A a \in 1 .. n : from2[a] = from[other(a)]
  BY <1>1, <1>3 DEF Swapped
<1> HIDE DEF new, from2, other
<1>8. \A a \in 1 .. n : new[a] = input[from2[a]]
  <2> TAKE a \in 1 .. n
  <2>1. other(a) \in 1 .. n
    BY <1>5
  <2>2. new[a] = seq[other(a)]
    BY <1>6
  <2>3. seq[other(a)] = input[from[other(a)]]
    BY <1>3, <2>1
  <2>4. from2[a] = from[other(a)]
    BY <1>7
  <2> QED
    BY <2>2, <2>3, <2>4
<1>9. \A a, b \in 1 .. n : a # b => from2[a] # from2[b]
  <2> TAKE a, b \in 1 .. n
  <2>1. other(a) \in 1 .. n /\ other(b) \in 1 .. n /\ (a # b => other(a) # other(b))
    BY <1>5
  <2>2. other(a) # other(b) => from[other(a)] # from[other(b)]
    BY <1>3, <2>1
  <2>3. from2[a] = from[other(a)] /\ from2[b] = from[other(b)]
    BY <1>7
  <2> QED
    BY <2>1, <2>2, <2>3
<1>10. ASSUME NEW a \in 1 .. n, NEW b \in 1 .. n, a < b, new[a].baseAddr = new[b].baseAddr
       PROVE  from2[a] < from2[b]
  <2>1. ~(a = k /\ b = k + 1)
    BY <1>1, <1>4, <1>5, <1>6, <1>10
  <2>2. other(a) \in 1 .. n /\ other(b) \in 1 .. n /\ other(a) < other(b)
    BY <1>5, <1>10, <2>1
  <2>3. seq[other(a)].baseAddr = seq[other(b)].baseAddr
    BY <1>6, <1>10
  <2>4. from[other(a)] < from[other(b)]
    BY <1>3, <2>2, <2>3
  <2> QED
    BY <1>7, <2>4
<1>11. new \in Seq(Block) /\ Len(new) = n
  BY <1>1, <1>6
<1> QED
  <2>1. /\ Len(new) = n /\ from2 \in [1 .. n -> 1 .. n]
        /\ \A a \in 1 .. n : new[a] = input[from2[a]]
        /\ \A a, b \in 1 .. n : a # b => from2[a] # from2[b]
        /\ \A a, b \in 1 .. n : a < b /\ new[a].baseAddr = new[b].baseAddr => from2[a] < from2[b]
    BY <1>7, <1>8, <1>9, <1>10, <1>11
  <2>2. StableArrangement(new)
    BY <2>1, ZenonT(30) DEF StableArrangement
  <2> QED
    BY <1>11, <2>2 DEF new
-----------------------------------------------------------------------------
(* The inductive invariant: the prefix before i is sorted, apart from the    *)
(* hole, and what has been shifted past the hole is greater than the key.   *)

Before(k, l) == arr[k].baseAddr <= arr[l].baseAddr

PrefixSorted ==
  /\ pc = "check" => i = 2
  /\ pc = "outer" =>
       \A k, l \in 1 .. Len(arr) : k < l /\ l < i => Before(k, l)
  /\ pc = "inner" =>
       /\ \A k, l \in 1 .. Len(arr) :
            k < l /\ l <= i /\ k # j + 1 /\ l # j + 1 => Before(k, l)
       /\ \A l \in 1 .. Len(arr) : j + 1 < l /\ l <= i => key.baseAddr < arr[l].baseAddr
  /\ pc = "done" => InOrder(arr)

IInv == TypeOK /\ Stable /\ PrefixSorted

LEMMA CompareMeans ==
  ASSUME NEW a \in Block, NEW b \in Block
  PROVE  (MemCompareBlocksByAddr(a, b) > 0) <=> (a.baseAddr > b.baseAddr)
<1>1. a.baseAddr \in Nat /\ b.baseAddr \in Nat
  BY BlockNat
<1> QED
  BY <1>1 DEF MemCompareBlocksByAddr

\* One iteration of the inner loop, seen through Contents, is an exchange of the
\* key with the greater element before the hole.
LEMMA ShiftSwaps ==
  ASSUME TypeOK, Shift
  PROVE  /\ j \in 1 .. Len(Contents) - 1 /\ Contents \in Seq(Block)
         /\ Contents[j].baseAddr > Contents[j + 1].baseAddr
         /\ Contents' = Swapped(Contents, j)
<1>1. /\ pc = "inner" /\ pc' = "inner" /\ key' = key /\ j' = j - 1
      /\ arr' = [arr EXCEPT ![j + 1] = arr[j]]
      /\ j \in 1 .. Len(arr) - 1 /\ arr \in Seq(Block) /\ key \in Block
  BY DEF Shift, KeyBelow, TypeOK
<1> DEFINE n == Len(arr)
<1>2. n \in Nat /\ arr \in [1 .. n -> Block] /\ j \in 1 .. n /\ j + 1 \in 1 .. n /\ j # j + 1
  BY <1>1
<1>3. Contents = [arr EXCEPT ![j + 1] = key]
  BY <1>1 DEF Contents
<1>4. Contents' = [arr' EXCEPT ![j] = key]
  <2>1. j' + 1 = j
    BY <1>1
  <2> QED
    BY <1>1, <2>1 DEF Contents
<1>5. Contents \in Seq(Block) /\ Len(Contents) = n
  BY <1>1, <1>2, <1>3
<1> HIDE DEF n
<1>6. arr[j].baseAddr > key.baseAddr
  BY <1>1, <1>2, CompareMeans DEF Shift, KeyBelow
<1>7. Contents[j] = arr[j] /\ Contents[j + 1] = key
  BY <1>2, <1>3
<1>8. Contents' = Swapped(Contents, j)
  BY <1>1, <1>2, <1>3, <1>4, <1>7 DEF Swapped
<1> QED
  BY <1>1, <1>2, <1>5, <1>6, <1>7, <1>8 DEF n

LEMMA InvInit == Init => IInv
<1> SUFFICES ASSUME Init PROVE IInv
  OBVIOUS
<1>1. TypeOK
  BY TypeInit
<1>2. Stable
  <2> DEFINE from == [k \in 1 .. Len(arr) |-> k]
  <2>1. /\ from \in [1 .. Len(arr) -> 1 .. Len(arr)]
        /\ \A k \in 1 .. Len(arr) : from[k] = k
    OBVIOUS
  <2>2. Contents = arr /\ input = arr
    BY DEF Init, Contents
  <2> HIDE DEF from
  <2> QED
    BY <2>1, <2>2 DEF Stable, StableArrangement
<1> QED
  BY <1>1, <1>2 DEF IInv, PrefixSorted, Init

LEMMA StableStep == IInv /\ [Next]_vars => Stable'
<1> SUFFICES ASSUME IInv, [Next]_vars PROVE Stable'
  OBVIOUS
<1>1. TypeOK /\ Stable
  BY DEF IInv
<1>2. input' = input
  BY DEF Next, CheckElemSize, TakeKey, Shift, Insert, Return, vars
<1>3. Contents' = Contents => Stable'
  BY <1>1, <1>2 DEF Stable, StableArrangement
<1>4. CASE CheckElemSize
  BY <1>3, <1>4 DEF CheckElemSize, Contents
<1>5. CASE TakeKey
  <2>1. /\ pc' = "inner" /\ pc = "outer" /\ arr' = arr /\ key' = arr[i] /\ j' + 1 = i
        /\ i \in 1 .. Len(arr)
    BY <1>1, <1>5 DEF TakeKey, TypeOK
  <2>2. [arr EXCEPT ![i] = arr[i]] = arr
    BY <1>1, <2>1 DEF TypeOK
  <2> QED
    BY <1>3, <2>1, <2>2 DEF Contents
<1>6. CASE Shift
  <2>1. StableArrangement(Swapped(Contents, j))
    BY <1>1, <1>6, ShiftSwaps, SwapKeepsArrangement DEF Stable
  <2>2. StableArrangement(Contents')
    BY <1>1, <1>6, <2>1, ShiftSwaps
  <2> QED
    BY <1>2, <2>2 DEF Stable, StableArrangement
<1>7. CASE Insert
  BY <1>3, <1>7 DEF Insert, Contents
<1>8. CASE Return
  BY <1>3, <1>8 DEF Return, Contents
<1>9. CASE UNCHANGED vars
  BY <1>3, <1>9 DEF vars, Contents
<1> QED
  BY <1>4, <1>5, <1>6, <1>7, <1>8, <1>9 DEF Next

LEMMA PrefixStep == IInv /\ [Next]_vars => PrefixSorted'
<1> SUFFICES ASSUME IInv, [Next]_vars PROVE PrefixSorted'
  OBVIOUS
<1>1. TypeOK /\ PrefixSorted
  BY DEF IInv
<1> DEFINE n == Len(arr)
<1>2. n \in Nat /\ i \in Nat /\ j \in Nat /\ i >= 2 /\ arr \in [1 .. n -> Block]
  BY <1>1 DEF TypeOK
<1>3. \A k \in 1 .. n : arr[k] \in Block /\ arr[k].baseAddr \in Nat
  BY <1>2, BlockNat
<1>4. CASE CheckElemSize
  <2>1. arr' = arr /\ i' = 2 /\ pc' \in {"outer", "hcf"}
    BY <1>1, <1>4 DEF CheckElemSize, PrefixSorted
  <2>2. \A k, l \in 1 .. n : ~(k < l /\ l < 2)
    BY <1>2
  <2> QED
    BY <2>1, <2>2 DEF PrefixSorted
<1>5. CASE TakeKey
  <2>1. /\ pc = "outer" /\ pc' = "inner" /\ arr' = arr /\ i' = i /\ j' + 1 = i
    BY <1>1, <1>5 DEF TakeKey, TypeOK
  <2>2. ASSUME NEW k \in 1 .. n, NEW l \in 1 .. n, k < l, l <= i, l # i
        PROVE  Before(k, l)
    <3>1. l < i
      BY <1>2, <2>2
    <3> QED
      BY <1>1, <2>1, <2>2, <3>1 DEF PrefixSorted
  <2>3. \A l \in 1 .. n : ~(i < l /\ l <= i)
    BY <1>2
  <2> QED
    BY <2>1, <2>2, <2>3 DEF PrefixSorted, Before
<1>6. CASE Shift
  <2>1. /\ pc = "inner" /\ pc' = "inner" /\ i' = i /\ j' + 1 = j /\ key' = key
        /\ arr' = [arr EXCEPT ![j + 1] = arr[j]] /\ j \in 1 .. n /\ j + 1 \in 1 .. n
        /\ j < i /\ key \in Block
    BY <1>1, <1>6 DEF Shift, KeyBelow, TypeOK
  <2>2. arr'[j + 1] = arr[j] /\ Len(arr') = n /\ \A k \in 1 .. n : k # j + 1 => arr'[k] = arr[k]
    BY <1>1, <1>2, <2>1 DEF TypeOK
  <2>3. key.baseAddr < arr[j].baseAddr
    BY <1>3, <1>6, <2>1, CompareMeans, BlockNat DEF Shift, KeyBelow
  <2>4. ASSUME NEW k \in 1 .. n, NEW l \in 1 .. n, k < l, l <= i, k # j, l # j
        PROVE  arr'[k].baseAddr <= arr'[l].baseAddr
    <3>1. CASE k = j + 1
      <4>1. j < l /\ l # j + 1 /\ j # j + 1
        BY <1>2, <2>4, <3>1
      <4>2. Before(j, l)
        BY <1>1, <2>1, <2>4, <4>1 DEF PrefixSorted
      <4> QED
        BY <2>2, <3>1, <4>1, <4>2 DEF Before
    <3>2. CASE l = j + 1
      <4>1. k < j /\ k # j + 1 /\ j # j + 1 /\ j <= i
        BY <1>2, <2>1, <2>4, <3>2
      <4>2. Before(k, j)
        BY <1>1, <2>1, <2>4, <4>1 DEF PrefixSorted
      <4> QED
        BY <2>2, <3>2, <4>1, <4>2 DEF Before
    <3>3. CASE k # j + 1 /\ l # j + 1
      BY <1>1, <2>1, <2>2, <2>4, <3>3 DEF PrefixSorted, Before
    <3> QED
      BY <3>1, <3>2, <3>3
  <2>5. ASSUME NEW l \in 1 .. n, j < l, l <= i
        PROVE  key.baseAddr < arr'[l].baseAddr
    <3>1. CASE l = j + 1
      BY <2>2, <2>3, <3>1
    <3>2. CASE l # j + 1
      <4>1. j + 1 < l
        BY <1>2, <2>5, <3>2
      <4> QED
        BY <1>1, <2>1, <2>2, <2>5, <3>2, <4>1 DEF PrefixSorted
    <3> QED
      BY <3>1, <3>2
  <2> QED
    BY <2>1, <2>2, <2>4, <2>5 DEF PrefixSorted, Before
<1>7. CASE Insert
  <2>1. /\ pc = "inner" /\ pc' = "outer" /\ i' = i + 1 /\ key \in Block
        /\ arr' = [arr EXCEPT ![j + 1] = key] /\ j + 1 \in 1 .. n /\ j < i /\ ~KeyBelow
    BY <1>1, <1>7 DEF Insert, TypeOK
  <2>2. arr'[j + 1] = key /\ Len(arr') = n /\ \A k \in 1 .. n : k # j + 1 => arr'[k] = arr[k]
    BY <1>1, <1>2, <2>1 DEF TypeOK
  <2>3. key.baseAddr \in Nat
    BY <2>1, BlockNat
  <2>4. j \in 1 .. n => arr[j].baseAddr <= key.baseAddr
    BY <1>2, <1>3, <2>1, <2>3, CompareMeans DEF KeyBelow
  <2>5. ASSUME NEW k \in 1 .. n, NEW l \in 1 .. n, k < l, l < i + 1
        PROVE  arr'[k].baseAddr <= arr'[l].baseAddr
    <3>1. CASE l = j + 1
      <4>1. j \in 1 .. n /\ k <= j /\ j <= i /\ j # j + 1 /\ k # j + 1
        BY <1>2, <2>1, <2>5, <3>1
      <4>2. arr[k].baseAddr <= arr[j].baseAddr
        <5>1. CASE k = j
          BY <1>3, <4>1, <5>1
        <5>2. CASE k < j
          BY <1>1, <2>1, <4>1, <5>2 DEF PrefixSorted, Before
        <5> QED
          BY <4>1, <5>1, <5>2
      <4>3. arr[k].baseAddr <= key.baseAddr
        BY <1>3, <2>3, <2>4, <4>1, <4>2
      <4> QED
        BY <2>2, <3>1, <4>1, <4>3
    <3>2. CASE k = j + 1
      <4>1. j + 1 < l /\ l <= i /\ l # j + 1
        BY <1>2, <2>5, <3>2
      <4>2. key.baseAddr < arr[l].baseAddr
        BY <1>1, <2>1, <4>1 DEF PrefixSorted
      <4>3. key.baseAddr <= arr[l].baseAddr
        BY <1>3, <2>3, <4>2
      <4> QED
        BY <2>2, <3>2, <4>1, <4>3
    <3>3. CASE k # j + 1 /\ l # j + 1
      <4>1. l <= i
        BY <1>2, <2>5
      <4> QED
        BY <1>1, <2>1, <2>2, <2>5, <3>3, <4>1 DEF PrefixSorted, Before
    <3> QED
      BY <3>1, <3>2, <3>3
  <2> QED
    BY <2>1, <2>2, <2>5 DEF PrefixSorted, Before
<1>8. CASE Return
  BY <1>1, <1>2, <1>8 DEF Return, PrefixSorted, InOrder, Before
<1>9. CASE UNCHANGED vars
  BY <1>1, <1>9 DEF vars, PrefixSorted, InOrder, Before
<1> QED
  BY <1>4, <1>5, <1>6, <1>7, <1>8, <1>9 DEF Next

LEMMA InvStep == IInv /\ [Next]_vars => IInv'
BY TypeStep, StableStep, PrefixStep DEF IInv

LEMMA Invariant == Spec => []IInv
BY InvInit, InvStep, PTL DEF Spec

\* For arrays of every length: at every step, array and key hold each element of
\* the input exactly once, equal ones in their old order.
THEOREM SortIsStable == Spec => []Stable
<1>1. IInv => Stable
  BY DEF IInv
<1> QED
  BY <1>1, Invariant, PTL

\* For arrays of every length: the array is sorted when the call returns.
THEOREM SortSorts == Spec => []SortedAtReturn
<1>1. IInv => SortedAtReturn
  BY DEF IInv, PrefixSorted, SortedAtReturn
<1> QED
  BY <1>1, Invariant, PTL
-----------------------------------------------------------------------------
(* The sort implements AdjacentSwaps.                                        *)

LEMMA RefinementStep == IInv /\ [Next]_vars => [Swaps!Next]_(Swaps!vars)
<1> SUFFICES ASSUME IInv, [Next]_vars PROVE [Swaps!Next]_(Swaps!vars)
  OBVIOUS
<1>1. TypeOK /\ PrefixSorted
  BY DEF IInv
<1>2. ASSUME Contents' = Contents, (pc = "done") <=> (pc' = "done")
      PROVE  UNCHANGED Swaps!vars
  BY <1>2 DEF Swaps!vars
<1>3. CASE CheckElemSize
  BY <1>2, <1>3 DEF CheckElemSize, Contents
<1>4. CASE TakeKey
  <2>1. /\ pc' = "inner" /\ pc = "outer" /\ arr' = arr /\ key' = arr[i] /\ j' + 1 = i
        /\ i \in 1 .. Len(arr)
    BY <1>1, <1>4 DEF TakeKey, TypeOK
  <2>2. [arr EXCEPT ![i] = arr[i]] = arr
    BY <1>1, <2>1 DEF TypeOK
  <2> QED
    BY <1>2, <2>1, <2>2 DEF Contents
<1>5. CASE Shift
  <2>1. /\ j \in 1 .. Len(Contents) - 1
        /\ Contents[j].baseAddr > Contents[j + 1].baseAddr
        /\ Contents' = Swapped(Contents, j)
    BY <1>1, <1>5, ShiftSwaps
  <2>2. pc = "inner" /\ pc' = "inner"
    BY <1>5 DEF Shift
  <2> QED
    BY <2>1, <2>2 DEF Swapped, Swaps!Next, Swaps!Swap, Swaps!OutOfOrder
<1>6. CASE Insert
  BY <1>2, <1>6 DEF Insert, Contents
<1>7. CASE Return
  <2>1. /\ pc = "outer" /\ pc' = "done" /\ arr' = arr /\ i > Len(arr)
        /\ arr \in Seq(Block) /\ i \in Nat
    BY <1>1, <1>7 DEF Return, TypeOK
  <2>2. Contents = arr /\ Contents' = arr
    BY <2>1 DEF Contents
  <2>3. ASSUME NEW k \in 1 .. Len(arr) - 1
        PROVE  ~(arr[k].baseAddr > arr[k + 1].baseAddr)
    <3>1. k \in 1 .. Len(arr) /\ k + 1 \in 1 .. Len(arr) /\ k < k + 1 /\ k + 1 < i
      BY <2>1
    <3>2. Before(k, k + 1)
      BY <1>1, <2>1, <3>1 DEF PrefixSorted
    <3>3. arr[k].baseAddr \in Nat /\ arr[k + 1].baseAddr \in Nat
      BY <2>1, <3>1, BlockNat
    <3> QED
      BY <3>2, <3>3 DEF Before
  <2> QED
    BY <2>1, <2>2, <2>3 DEF Swaps!Next, Swaps!Return, Swaps!OutOfOrder
<1>8. CASE UNCHANGED vars
  BY <1>2, <1>8 DEF vars, Contents
<1> QED
  BY <1>3, <1>4, <1>5, <1>6, <1>7, <1>8 DEF Next

\* For arrays of every length, sorting exchanges strictly inverted neighbours
\* only, and returns when there are none.
THEOREM Refinement == Spec => ImplementsAdjacentSwaps
<1>1. Init => Swaps!Init
  BY DEF Init, Contents, Swaps!Init
<1> QED
  BY <1>1, RefinementStep, Invariant, PTL DEF Spec, ImplementsAdjacentSwaps, Swaps!Spec
-----------------------------------------------------------------------------
(* The sorted array passed on to QKEmitFreeAlignedMemBlocks.                 *)

Free == INSTANCE FreeBlocks_proofs WITH
  MemMaps  <- [ram : Seq(Block), occupied : Seq(Block)],
  occupied <- arr,
  pc       <- emitPc

\* The two modules speak of the same blocks and words, and the assumptions of the
\* other hold here.
LEMMA FreeTerms ==
  /\ AddrLimit \in Nat /\ AddrLimit >= Free!ALIGNMENT
  /\ [ram : Seq(Block), occupied : Seq(Block)]
       \subseteq [ram : Seq(Free!Block), occupied : Seq(Free!Block)]
  /\ Free!Words = Words
  /\ \A b, c : (Free!Within(b, c) <=> Within(b, c)) /\ (Free!Overlap(b, c) <=> Overlap(b, c))
  /\ \A w : Free!WordAt(w) = WordAt(w)
  /\ \A b : (Free!IsNoWrap(b) <=> IsNoWrap(b)) /\ (Free!IsWordAligned(b) <=> IsWordAligned(b))
<1>1. Free!ALIGNMENT = ALIGNMENT /\ Free!Block = Block /\ Free!Words = Words
  BY DEF Free!ALIGNMENT, ALIGNMENT, Free!Block, Block, Free!U64, U64, Free!Words, Words
<1>2. \A b, c : (Free!Within(b, c) <=> Within(b, c)) /\ (Free!Overlap(b, c) <=> Overlap(b, c))
  BY DEF Free!Within, Within, Free!Overlap, Overlap
<1>3. \A w : Free!WordAt(w) = WordAt(w)
  BY <1>1 DEF Free!WordAt, WordAt
<1>4. \A b : (Free!IsNoWrap(b) <=> IsNoWrap(b)) /\ (Free!IsWordAligned(b) <=> IsWordAligned(b))
  BY <1>1 DEF Free!IsNoWrap, IsNoWrap, Free!IsWordAligned, IsWordAligned
<1> QED
  BY <1>1, <1>2, <1>3, <1>4, AddrLimitAssumption

LEMMA EmitIsFree == Emit!Next => Free!Next /\ ram' = ram /\ arr' = arr
BY DEF Emit!Next, Free!Next, Emit!EnterRegion, Free!EnterRegion, Emit!SkipOccupied,
       Free!SkipOccupied, Emit!CutOccupied, Free!CutOccupied, Emit!LeaveRegion,
       Free!LeaveRegion, Emit!Return, Free!Return, Emit!Region, Free!Region, Emit!Taken,
       Free!Taken, Emit!Emitted, Free!Emitted, Emit!AlignUp, Emit!AlignDown, Free!AlignUp,
       Free!AlignDown, Emit!ALIGNMENT, Free!ALIGNMENT, Emit!End, Free!End,
       Emit!Irrelevant, Free!Irrelevant

\* An injection of 1 .. n into itself is onto, so a stable arrangement of the input
\* has each of its elements.
LEMMA ArrangementIsOnto ==
  ASSUME NEW seq \in Seq(Block), Len(seq) = Len(input), StableArrangement(seq)
  PROVE  /\ \A k \in 1 .. Len(seq) : \E o \in 1 .. Len(input) : seq[k] = input[o]
         /\ \A o \in 1 .. Len(input) : \E k \in 1 .. Len(seq) : seq[k] = input[o]
<1>1. PICK n \in Nat : n = Len(seq)
  OBVIOUS
<1>2. PICK from \in [1 .. n -> 1 .. n] :
        /\ \A k \in 1 .. n : seq[k] = input[from[k]]
        /\ \A k, l \in 1 .. n : k # l => from[k] # from[l]
  BY <1>1 DEF StableArrangement
<1>3. from \in Injection(1 .. n, 1 .. n)
  BY <1>2 DEF Injection, IsInjective
<1>4. IsFiniteSet(1 .. n)
  BY <1>1, FS_Interval
<1>5. from \in Surjection(1 .. n, 1 .. n)
  BY <1>3, <1>4, FS_Injection
<1>6. \A o \in 1 .. n : \E k \in 1 .. n : from[k] = o
  BY <1>5 DEF Surjection
<1>7. \A k \in 1 .. n : from[k] \in 1 .. n
  BY <1>2
<1>8. \A k \in 1 .. n : \E o \in 1 .. n : seq[k] = input[o]
  BY <1>2, <1>7
<1>9. \A o \in 1 .. n : \E k \in 1 .. n : seq[k] = input[o]
  <2> TAKE o \in 1 .. n
  <2>1. PICK k \in 1 .. n : from[k] = o
    BY <1>6
  <2>2. seq[k] = input[from[k]]
    BY <1>2
  <2> QED
    BY <2>1, <2>2
<1>10. Len(seq) = n /\ Len(input) = n
  BY <1>1
<1> QED
  BY <1>8, <1>9, <1>10

\* The second function has not begun.
NotBegun ==
  /\ emitPc = "region"
  /\ ramRegIdx = 1 /\ occupiedRamRegIdx = 1 /\ currentStart = 0
  /\ free = << >>

MapInv ==
  /\ IInv
  /\ ram \in Seq(Block)
  /\ pc # "done" => NotBegun
  /\ Free!IInv
  /\ Free!NoWrap => Free!Covered

LEMMA NotBegunStarts ==
  ram \in Seq(Block) /\ arr \in Seq(Block) /\ NotBegun => Free!IInv /\ Free!Covered
<1> SUFFICES ASSUME ram \in Seq(Block), arr \in Seq(Block), NotBegun
             PROVE  Free!IInv /\ Free!Covered
  OBVIOUS
<1>1. Free!Init
  <2>1. [ram |-> ram, occupied |-> arr] \in [ram : Seq(Block), occupied : Seq(Block)]
    OBVIOUS
  <2> QED
    BY <2>1 DEF Free!Init, NotBegun
<1> QED
  BY <1>1, FreeTerms, Free!InvInit, Free!CoveredInit

LEMMA MapInvInit == MapInit => MapInv
<1> SUFFICES ASSUME MapInit PROVE MapInv
  OBVIOUS
<1>1. IInv /\ ram \in Seq(Block) /\ NotBegun
  BY InvInit, RamsAssumption DEF MapInit, NotBegun
<1>2. arr \in Seq(Block)
  BY <1>1 DEF IInv, TypeOK
<1> QED
  BY <1>1, <1>2, NotBegunStarts DEF MapInv

LEMMA MapInvStep == MapInv /\ [MapNext]_mapVars => MapInv'
<1> SUFFICES ASSUME MapInv, [MapNext]_mapVars PROVE MapInv'
  OBVIOUS
<1>1. CASE SortStep
  <2>1. IInv' /\ ram' \in Seq(Block)
    BY <1>1, InvStep DEF MapInv, SortStep, emitVars
  <2>2. pc # "done"
    BY <1>1 DEF SortStep, Next, CheckElemSize, TakeKey, Shift, Insert, Return
  <2>3. NotBegun'
    BY <1>1, <2>2 DEF MapInv, NotBegun, SortStep, emitVars
  <2>4. arr' \in Seq(Block)
    BY <2>1 DEF IInv, TypeOK
  <2>5. (ram \in Seq(Block) /\ arr \in Seq(Block) /\ NotBegun => Free!IInv /\ Free!Covered)'
    BY NotBegunStarts, PTL
  <2> QED
    BY <2>1, <2>3, <2>4, <2>5 DEF MapInv
<1>2. CASE EmitStep
  <2>1. Free!Next /\ ram' = ram /\ arr' = arr /\ pc = "done"
    BY <1>2, EmitIsFree DEF EmitStep
  <2>2. UNCHANGED vars
    BY <1>2, <2>1 DEF EmitStep, sortLocals, vars
  <2>3. IInv' /\ pc' = "done"
    BY <2>1, <2>2, InvStep DEF MapInv, vars
  <2>4. Free!IInv'
    BY <2>1, FreeTerms, Free!InvStep DEF MapInv
  <2>5. Free!NoWrap' = Free!NoWrap
    BY <2>1 DEF Free!NoWrap
  <2>6. Free!NoWrap => Free!Covered'
    BY <2>1, FreeTerms, Free!CoveredStep DEF MapInv, Free!IInv
  <2> QED
    BY <2>1, <2>3, <2>4, <2>5, <2>6 DEF MapInv
<1>3. CASE UNCHANGED mapVars
  <2>1. UNCHANGED vars /\ UNCHANGED emitVars
    BY <1>3 DEF mapVars
  <2>2. IInv' /\ UNCHANGED Free!vars
    BY <2>1, InvStep DEF MapInv, vars, emitVars, Free!vars
  <2>3. Free!IInv'
    BY <2>2, FreeTerms, Free!InvStep DEF MapInv
  <2>4. Free!NoWrap => Free!Covered'
    BY <2>2, FreeTerms, Free!CoveredStep DEF MapInv, Free!IInv
  <2>5. Free!NoWrap' = Free!NoWrap
    BY <2>2 DEF Free!NoWrap, Free!vars
  <2> QED
    BY <2>1, <2>2, <2>3, <2>4, <2>5 DEF MapInv, vars, emitVars, NotBegun
<1> QED
  BY <1>1, <1>2, <1>3 DEF MapNext

LEMMA MapInvariant == MapSpec => []MapInv
BY MapInvInit, MapInvStep, PTL DEF MapSpec

\* For lists of every length, in any order: when the array that InsertionSort returns is
\* passed on, the memory handed out is that which meets none of the caller's regions,
\* and in the end all of it.
THEOREM MapExact == MapSpec => []MapIsExact
<1>1. MapInv => MapIsExact
  <2> SUFFICES ASSUME MapInv PROVE MapIsExact
    OBVIOUS
  <2>1. pc # "done" => free = << >> /\ emitPc = "region"
    BY DEF MapInv, NotBegun
  <2> SUFFICES ASSUME pc = "done", Usable(ram), Usable(input)
               PROVE  /\ HandedOut \subseteq Available
                      /\ emitPc = "done" => Available \subseteq HandedOut
    <3>1. pc # "done" => HandedOut = {}
      BY <2>1 DEF HandedOut
    <3> QED
      BY <2>1, <3>1 DEF MapIsExact
  <2>2. TypeOK /\ StableArrangement(arr) /\ InOrder(arr)
    BY DEF MapInv, IInv, PrefixSorted, Stable, Contents
  <2>3. /\ \A k \in 1 .. Len(arr) : \E o \in 1 .. Len(input) : arr[k] = input[o]
        /\ \A o \in 1 .. Len(input) : \E k \in 1 .. Len(arr) : arr[k] = input[o]
    BY <2>2, ArrangementIsOnto DEF TypeOK
  <2>4. Free!NoWrap /\ Free!Aligned /\ Free!Sorted
    BY <2>2, <2>3, FreeTerms
       DEF Free!Aligned, Free!NoWrap, Free!WordAligned, Free!Sorted, InOrder, Usable
  <2>5. HandedOut = Free!HandedWords
    BY FreeTerms DEF HandedOut, Free!HandedWords, Free!Handed
  <2>6. Available = Free!AvailableWords
    <3>1. ASSUME NEW w
          PROVE  Free!Blocked(w) <=> \E o \in 1 .. Len(input) : Overlap(WordAt(w), input[o])
      BY <2>3, FreeTerms DEF Free!Blocked
    <3> QED
      BY <3>1, FreeTerms DEF Available, Free!AvailableWords
  <2>7. Free!HandedWords \subseteq Free!AvailableWords
    BY <2>4, FreeTerms, Free!HandedIsAvailable DEF MapInv
  <2>8. emitPc = "done" => Free!AvailableWords \subseteq Free!HandedWords
    BY <2>4, FreeTerms, Free!AvailableIsHanded DEF MapInv, Free!IInv, Free!Covered
  <2> QED
    BY <2>5, <2>6, <2>7, <2>8
<1> QED
  BY <1>1, MapInvariant, PTL
-----------------------------------------------------------------------------
(* The blocks handed out, wherever the caller's regions lie.                 *)

NoneWraps ==
  /\ \A r \in 1 .. Len(ram) : IsNoWrap(ram[r])
  /\ \A o \in 1 .. Len(input) : IsNoWrap(input[o])

\* Every gap starts on the word grid.
StartsOnGrid ==
  /\ \A r \in 1 .. Len(ram) : ram[r].baseAddr % 8 = 0
  /\ \A o \in 1 .. Len(input) : (input[o].baseAddr + input[o].size) % 8 = 0

\* What is certain of a block: all of it, or all but its last seven bytes.
Certain(b) == [baseAddr |-> b.baseAddr, size |-> b.size - (IF StartsOnGrid THEN 0 ELSE 7)]

RamApart == \A r, s \in 1 .. Len(ram) : r # s => ~Overlap(ram[r], ram[s])

\* Sorting is all the caller has to do for the blocks too: each is RAM, meets no region
\* that the caller named, in whatever order, and shares no byte with another; and
\* one slot per region is enough for all of them.
MapBlocksApart ==
  pc = "done" /\ NoneWraps =>
    /\ \A f \in 1 .. Len(free) : \E r \in 1 .. Len(ram) : Within(Certain(free[f]), ram[r])
    /\ \A f \in 1 .. Len(free), o \in 1 .. Len(input) : ~Overlap(Certain(free[f]), input[o])
    /\ RamApart =>
         /\ \A f, g \in 1 .. Len(free) : f # g => ~Overlap(Certain(free[f]), Certain(free[g]))
         /\ Len(free) <= Len(ram) + Len(input)

BlocksInv == Free!CoreInv /\ Free!FitInv

LEMMA BlocksStart ==
  ram \in Seq(Block) /\ arr \in Seq(Block) /\ NotBegun => BlocksInv
<1> SUFFICES ASSUME ram \in Seq(Block), arr \in Seq(Block), NotBegun PROVE BlocksInv
  OBVIOUS
<1>1. Free!Init
  <2>1. [ram |-> ram, occupied |-> arr] \in [ram : Seq(Block), occupied : Seq(Block)]
    OBVIOUS
  <2> QED
    BY <2>1 DEF Free!Init, NotBegun
<1> QED
  BY <1>1, FreeTerms, Free!CoreInit, Free!FitInit DEF BlocksInv

LEMMA BlocksStep == MapInv /\ BlocksInv /\ [MapNext]_mapVars => BlocksInv'
<1> SUFFICES ASSUME MapInv, BlocksInv, [MapNext]_mapVars PROVE BlocksInv'
  OBVIOUS
<1>1. MapInv'
  BY MapInvStep
<1>2. CASE SortStep
  <2>1. pc # "done"
    BY <1>2 DEF SortStep, Next, CheckElemSize, TakeKey, Shift, Insert, Return
  <2>2. NotBegun'
    BY <1>2, <2>1 DEF MapInv, NotBegun, SortStep, emitVars
  <2>3. ram' \in Seq(Block) /\ arr' \in Seq(Block)
    BY <1>1 DEF MapInv, IInv, TypeOK
  <2>4. (ram \in Seq(Block) /\ arr \in Seq(Block) /\ NotBegun => BlocksInv)'
    BY BlocksStart, PTL
  <2> QED
    BY <2>2, <2>3, <2>4
<1>3. CASE EmitStep
  <2>1. Free!Next
    BY <1>3, EmitIsFree DEF EmitStep
  <2>2. Free!CoreInv' /\ Free!FitInv'
    BY <2>1, FreeTerms, Free!CoreStep, Free!FitStep DEF BlocksInv, Free!CoreInv
  <2> QED
    BY <2>2 DEF BlocksInv
<1>4. CASE UNCHANGED mapVars
  <2>1. UNCHANGED Free!vars
    BY <1>4 DEF mapVars, vars, emitVars, Free!vars
  <2>2. Free!CoreInv' /\ Free!FitInv'
    BY <2>1, FreeTerms, Free!CoreStep, Free!FitStep DEF BlocksInv, Free!CoreInv
  <2> QED
    BY <2>2 DEF BlocksInv
<1> QED
  BY <1>2, <1>3, <1>4 DEF MapNext

\* For lists of every length, in any order and with addresses of any alignment.
THEOREM MapBlocks == MapSpec => []MapBlocksApart
<1>1. MapInit => BlocksInv
  <2> SUFFICES ASSUME MapInit PROVE BlocksInv
    OBVIOUS
  <2>1. MapInv /\ NotBegun
    BY MapInvInit DEF MapInit, NotBegun
  <2> QED
    BY <2>1, BlocksStart DEF MapInv, IInv, TypeOK
<1>2. MapInv /\ BlocksInv => MapBlocksApart
  <2> SUFFICES ASSUME MapInv, BlocksInv, pc = "done", NoneWraps PROVE MapBlocksApart
    BY DEF MapBlocksApart
  <2>1. TypeOK /\ StableArrangement(arr) /\ InOrder(arr) /\ Len(arr) = Len(input)
    <3>1. TypeOK /\ StableArrangement(arr) /\ InOrder(arr)
      BY DEF MapInv, IInv, PrefixSorted, Stable, Contents
    <3> QED
      BY <3>1 DEF TypeOK
  <2>2. /\ \A k \in 1 .. Len(arr) : \E o \in 1 .. Len(input) : arr[k] = input[o]
        /\ \A o \in 1 .. Len(input) : \E k \in 1 .. Len(arr) : arr[k] = input[o]
    BY <2>1, ArrangementIsOnto DEF TypeOK
  <2>3. Free!NoWrap /\ Free!Sorted
    BY <2>1, <2>2, FreeTerms DEF Free!NoWrap, Free!Sorted, InOrder, NoneWraps
  <2>4. Free!StartsAligned <=> StartsOnGrid
    <3>1. (\A k \in 1 .. Len(arr) : (arr[k].baseAddr + arr[k].size) % 8 = 0)
            <=> (\A o \in 1 .. Len(input) : (input[o].baseAddr + input[o].size) % 8 = 0)
      <4>1. ASSUME \A k \in 1 .. Len(arr) : (arr[k].baseAddr + arr[k].size) % 8 = 0,
                   NEW o \in 1 .. Len(input)
            PROVE  (input[o].baseAddr + input[o].size) % 8 = 0
        <5>1. PICK k \in 1 .. Len(arr) : arr[k] = input[o]
          BY <2>2
        <5> QED
          BY <4>1, <5>1
      <4>2. ASSUME \A o \in 1 .. Len(input) : (input[o].baseAddr + input[o].size) % 8 = 0,
                   NEW k \in 1 .. Len(arr)
            PROVE  (arr[k].baseAddr + arr[k].size) % 8 = 0
        <5>1. PICK o \in 1 .. Len(input) : arr[k] = input[o]
          BY <2>2
        <5> QED
          BY <4>2, <5>1
      <4> QED
        BY <4>1, <4>2
    <3> QED
      BY <3>1 DEF Free!StartsAligned, StartsOnGrid
  <2>5. ASSUME NEW b PROVE Free!Core(b) = Certain(b)
    BY <2>4 DEF Free!Core, Free!Slack, Certain
  <2>6. Free!RamDisjoint <=> RamApart
    BY FreeTerms DEF Free!RamDisjoint, RamApart
  <2>7. Free!CoresBehind /\ Free!CoresUnoccupied /\ Free!CoresDisjoint /\ Free!TypeOK
    BY <2>3 DEF BlocksInv, Free!CoreInv
  <2>8. \A f \in 1 .. Len(free) : \E r \in 1 .. Len(ram) : Within(Certain(free[f]), ram[r])
    BY <2>5, <2>7, FreeTerms DEF Free!CoresBehind
  <2>9. \A f \in 1 .. Len(free), o \in 1 .. Len(input) : ~Overlap(Certain(free[f]), input[o])
    <3> SUFFICES ASSUME NEW f \in 1 .. Len(free), NEW o \in 1 .. Len(input)
                 PROVE  ~Overlap(Certain(free[f]), input[o])
      OBVIOUS
    <3>1. PICK k \in 1 .. Len(arr) : arr[k] = input[o]
      BY <2>2
    <3>2. ~Free!Overlap(Free!Core(free[f]), arr[k])
      BY <2>3, <2>7 DEF Free!CoresUnoccupied
    <3> QED
      BY <2>5, <3>1, <3>2, FreeTerms
  <2>10. RamApart =>
           \A f, g \in 1 .. Len(free) : f # g => ~Overlap(Certain(free[f]), Certain(free[g]))
    <3> SUFFICES ASSUME RamApart, NEW f \in 1 .. Len(free), NEW g \in 1 .. Len(free), f # g
                 PROVE  ~Overlap(Certain(free[f]), Certain(free[g]))
      OBVIOUS
    <3>1. ~Free!Overlap(Free!Core(free[f]), Free!Core(free[g]))
      BY <2>6, <2>7 DEF Free!CoresDisjoint
    <3> QED
      BY <2>5, <3>1, FreeTerms
  <2>11. RamApart => Len(free) <= Len(ram) + Len(input)
    BY <2>1, <2>3, <2>6, <2>7, FreeTerms, Free!ChargesFit DEF BlocksInv, Free!OutputFits
  <2> QED
    BY <2>8, <2>9, <2>10, <2>11 DEF MapBlocksApart
<1> QED
  BY <1>1, <1>2, BlocksStep, MapInvInit, MapInvStep, PTL DEF MapSpec
-----------------------------------------------------------------------------
(* Termination.                                                            *)

\* A bound on the steps still to come: the loops' body, for each element left, takes
\* the key, shifts at most all others and writes the key back.
StepsLeft ==
  LET n == Len(arr) IN
  CASE pc = "check" -> (n * (n + 2)) + 2
    [] pc = "outer" -> IF i > n THEN 1 ELSE ((n + 1 - i) * (n + 2)) + 1
    [] pc = "inner" -> ((n - i) * (n + 2)) + j + 2
    [] pc \in {"done", "hcf"} -> 0

StepsTell == StepsLeft \in Nat /\ (StepsLeft = 0 <=> pc \in {"done", "hcf"})

LEMMA StepCounts == TypeOK /\ Next => StepsLeft' < StepsLeft
<1> SUFFICES ASSUME TypeOK, Next PROVE StepsLeft' < StepsLeft
  OBVIOUS
<1> DEFINE n == Len(arr)
<1>1. n \in Nat /\ i \in Nat /\ i >= 2 /\ j \in Nat /\ Len(arr)' = n
  <2>1. TypeOK'
    BY TypeStep
  <2>2. input' = input
    BY DEF Next, CheckElemSize, TakeKey, Shift, Insert, Return
  <2> QED
    BY <2>1, <2>2 DEF TypeOK
<1> HIDE DEF n
<1>2. ASSUME NEW x \in Int, NEW y \in Int
      PROVE  x * (n + 2) \in Int /\ (x + 1) * (n + 2) = (x * (n + 2)) + (n + 2)
                /\ (x <= y => x * (n + 2) <= y * (n + 2))
  BY <1>1, <1>2
<1>3. CASE CheckElemSize
  <2>1. pc = "check" /\ pc' \in {"hcf", "outer"} /\ i' = i
    BY <1>3 DEF CheckElemSize
  <2>2. StepsLeft = (n * (n + 2)) + 2
    BY <2>1 DEF StepsLeft, n
  <2>3. StepsLeft' \in {0, 1, ((n + 1 - i) * (n + 2)) + 1}
    BY <1>1, <2>1 DEF StepsLeft
  <2>4. n + 1 - i \in Int /\ n + 1 - i <= n /\ 0 <= n
    BY <1>1
  <2>5. (n + 1 - i) * (n + 2) <= n * (n + 2) /\ (n + 1 - i) * (n + 2) \in Int /\ n * (n + 2) \in Nat
    BY <1>1, <1>2, <2>4
  <2> QED
    BY <2>2, <2>3, <2>5
<1>4. CASE TakeKey
  <2>1. pc = "outer" /\ pc' = "inner" /\ i <= n /\ i' = i /\ j' = i - 1
    BY <1>4 DEF TakeKey, n
  <2>2. /\ StepsLeft = ((n + 1 - i) * (n + 2)) + 1
        /\ StepsLeft' = ((n - i) * (n + 2)) + (i - 1) + 2
    BY <1>1, <2>1 DEF StepsLeft, n
  <2>3. n - i \in Int /\ n + 1 - i = (n - i) + 1
    BY <1>1
  <2>4. (n - i) * (n + 2) \in Int /\ (n + 1 - i) * (n + 2) = ((n - i) * (n + 2)) + (n + 2)
    BY <1>2, <2>3
  <2> QED
    BY <1>1, <2>1, <2>2, <2>4
<1>5. CASE Shift
  <2>1. pc = "inner" /\ pc' = "inner" /\ i' = i /\ j' = j - 1
    BY <1>5 DEF Shift
  <2>2. /\ StepsLeft = ((n - i) * (n + 2)) + j + 2
        /\ StepsLeft' = ((n - i) * (n + 2)) + (j - 1) + 2
    BY <1>1, <2>1 DEF StepsLeft, n
  <2>3. (n - i) * (n + 2) \in Int
    BY <1>1, <1>2
  <2> QED
    BY <1>1, <2>2, <2>3
<1>6. CASE Insert
  <2>1. pc = "inner" /\ pc' = "outer" /\ i' = i + 1 /\ i <= n
    BY <1>6 DEF Insert, TypeOK, n
  <2>2. /\ StepsLeft = ((n - i) * (n + 2)) + j + 2
        /\ StepsLeft' = IF i + 1 > n THEN 1 ELSE ((n + 1 - (i + 1)) * (n + 2)) + 1
    BY <1>1, <2>1 DEF StepsLeft, n
  <2>3. n - i \in Int /\ 0 <= n - i /\ n + 1 - (i + 1) = n - i /\ 0 * (n + 2) = 0
    BY <1>1, <2>1
  <2>4. (n - i) * (n + 2) \in Nat
    BY <1>1, <1>2, <2>3
  <2> QED
    BY <1>1, <2>2, <2>3, <2>4
<1>7. CASE Return
  BY <1>7 DEF Return, StepsLeft
<1> QED
  BY <1>3, <1>4, <1>5, <1>6, <1>7 DEF Next

LEMMA StepsRemain == TypeOK => StepsTell
<1> SUFFICES ASSUME TypeOK PROVE StepsTell
  OBVIOUS
<1> DEFINE n == Len(arr)
<1>1. /\ n \in Nat /\ i \in Nat /\ j \in Nat /\ (pc = "inner" => i <= n)
      /\ pc \in {"check", "outer", "inner", "done", "hcf"}
  BY DEF TypeOK
<1>2. ASSUME NEW x \in Nat
      PROVE  x * (n + 2) \in Nat
  BY <1>1, <1>2
<1>3. CASE pc = "check"
  BY <1>1, <1>2, <1>3 DEF StepsLeft, StepsTell
<1>4. CASE pc = "outer"
  <2>1. i > n \/ n + 1 - i \in Nat
    BY <1>1
  <2> QED
    BY <1>2, <1>4, <2>1 DEF StepsLeft, StepsTell
<1>5. CASE pc = "inner"
  <2>1. n - i \in Nat
    BY <1>1, <1>5
  <2>2. (n - i) * (n + 2) \in Nat /\ StepsLeft = ((n - i) * (n + 2)) + j + 2
    BY <1>2, <1>5, <2>1 DEF StepsLeft
  <2> HIDE DEF n
  <2> QED
    BY <1>1, <1>5, <2>2 DEF StepsTell
<1>6. CASE pc \in {"done", "hcf"}
  BY <1>6 DEF StepsLeft, StepsTell
<1> QED
  BY <1>1, <1>3, <1>4, <1>5, <1>6

\* However the array is arranged, the sort is over after at most quadratically many
\* steps: each makes the number of those to come smaller, and none is left where it
\* has returned or the machine has halted.
THEOREM Terminates ==
  /\ Init => StepsLeft = (Len(arr) * (Len(arr) + 2)) + 2
  /\ Spec => []StepsTell /\ [][StepsLeft' < StepsLeft]_vars
<1>1. Init => StepsLeft = (Len(arr) * (Len(arr) + 2)) + 2
  BY DEF Init, StepsLeft
<1> QED
  BY <1>1, StepCounts, StepsRemain, TypeInit, TypeStep, PTL DEF Spec
=============================================================================
