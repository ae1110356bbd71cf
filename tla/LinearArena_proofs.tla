------------------------- MODULE LinearArena_proofs -------------------------
(***************************************************************************)
(* The arena's guarantees for blocks, requests and addresses of any size.  *)
(***************************************************************************)
EXTENDS LinearArena, TLAPS
-----------------------------------------------------------------------------
(* Type correctness: `used' never passes the end of the block, not even      *)
(* when a request makes the sum wrap around.                                *)

LEMMA BlockNat ==
  ASSUME NEW b \in Block
  PROVE  b.baseAddr \in Nat /\ b.size \in Nat /\ b.baseAddr \in U64 /\ b.size \in U64
BY AddrLimitAssumption DEF Block, U64

LEMMA ArenaNat ==
  ASSUME TypeOK
  PROVE  /\ memBlock \in Block /\ memBlock.baseAddr \in Nat /\ memBlock.size \in Nat
         /\ used \in Nat /\ used <= memBlock.size
         /\ memBlock.baseAddr + memBlock.size < AddrLimit
         /\ (memBlock.baseAddr + used) % AddrLimit = memBlock.baseAddr + used
         /\ memBlock.baseAddr + used \in U64
<1>1. memBlock \in Block /\ memBlock.baseAddr + memBlock.size < AddrLimit
  BY MemBlocksAssumption DEF TypeOK
<1>2. memBlock.baseAddr \in Nat /\ memBlock.size \in Nat
  BY <1>1, BlockNat
<1>3. used \in Nat /\ used <= memBlock.size
  BY <1>2 DEF TypeOK
<1>4. memBlock.baseAddr + used \in Nat /\ memBlock.baseAddr + used < AddrLimit
  BY <1>1, <1>2, <1>3, AddrLimitAssumption
<1> DEFINE mem == memBlock.baseAddr + used
<1>5. mem \in Nat /\ mem < AddrLimit
  BY <1>4
<1> HIDE DEF mem
<1>6. mem % AddrLimit = mem /\ mem \in U64
  BY <1>5, AddrLimitAssumption DEF U64, ALIGNMENT
<1> QED
  BY <1>1, <1>2, <1>3, <1>6 DEF mem

LEMMA TypeInit == Init => TypeOK
<1> SUFFICES ASSUME Init PROVE TypeOK
  OBVIOUS
<1>1. memBlock \in Block
  BY MemBlocksAssumption DEF Init
<1> QED
  BY <1>1, BlockNat, AddrLimitAssumption DEF Init, TypeOK, U64, NULL, ALIGNMENT

\* The guard keeps the sum, wrapped or not, within the block.
LEMMA UsedType ==
  ASSUME TypeOK, NEW n \in Sizes, ~NoSpace(n)
  PROVE  (used + n) % AddrLimit \in 0 .. memBlock.size
<1>1. n \in Nat
  BY SizesAssumption, AddrLimitAssumption DEF U64
<1>2. used + n \in Nat
  BY <1>1, ArenaNat
<1> DEFINE sum == (used + n) % AddrLimit
<1>3. sum \in Nat
  BY <1>2, AddrLimitAssumption DEF ALIGNMENT
<1>4. ~(sum > memBlock.size)
  BY DEF NoSpace
<1> HIDE DEF sum
<1>5. sum \in 0 .. memBlock.size
  BY <1>3, <1>4, ArenaNat
<1> QED
  BY <1>5 DEF sum

LEMMA TypeStep == TypeOK /\ [Next]_vars => TypeOK'
<1> SUFFICES ASSUME TypeOK, [Next]_vars PROVE TypeOK'
  OBVIOUS
<1> USE DEF TypeOK
<1>1. CASE Reset
  BY <1>1, ArenaNat DEF Reset
<1>2. ASSUME NEW n \in Sizes, Alloc(n) PROVE TypeOK'
  <2>1. Run(memBlock.baseAddr + used, n) \in Block
    BY ArenaNat, SizesAssumption DEF Run, Block
  <2>2. used' \in 0 .. memBlock.size
    BY <1>2, UsedType DEF Alloc
  <2> QED
    BY <1>2, <2>1, <2>2, ArenaNat, SizesAssumption DEF Alloc
<1>3. ASSUME NEW n \in Sizes, AllocFails(n) PROVE TypeOK'
  BY <1>3, SizesAssumption, AddrLimitAssumption DEF AllocFails, NULL, U64, ALIGNMENT
<1>4. CASE UNCHANGED vars
  BY <1>4 DEF vars
<1> QED
  BY <1>1, <1>2, <1>3, <1>4 DEF Next

\* The bump pointer stays within the block, for requests of every size.
THEOREM TypeCorrect == Spec => []TypeOK
BY TypeInit, TypeStep, PTL DEF Spec
-----------------------------------------------------------------------------
(* The inductive invariant: what is handed out tiles the block up to `used', *)
(* as long as no request that is still held made the sum wrap around.        *)

\* Nobody holds an allocation so large that adding it to `used' can have wrapped.
NoneWraps == \A b \in live : memBlock.size + b.size < AddrLimit

Tiled ==
  \A addr \in memBlock.baseAddr .. memBlock.baseAddr + used - 1 :
    \E b \in live : b.baseAddr <= addr /\ addr < b.baseAddr + b.size

Inside == \A b \in live : Within(b, memBlock) /\ b.baseAddr + b.size <= memBlock.baseAddr + used

Apart == \A b, c \in live : b # c => ~Overlap(b, c)

HeldHonestly == NoneWraps => Apart /\ Inside /\ Tiled

IInv ==
  /\ TypeOK
  /\ \A b \in live : b.size \in Sizes
  /\ HeldHonestly

\* Where a successful call puts its allocation.
LEMMA AllocFacts ==
  ASSUME TypeOK, NEW n \in Sizes, memBlock.size + n < AddrLimit, Alloc(n)
  PROVE  /\ n \in Nat
         /\ used' = used + n /\ used + n <= memBlock.size
         /\ live' = live \cup {Run(memBlock.baseAddr + used, n)}
         /\ memBlock' = memBlock
         /\ asked' = n /\ ret' = memBlock.baseAddr + used
<1>1. n \in Nat
  BY SizesAssumption, AddrLimitAssumption DEF U64
<1>2. used + n \in Nat /\ used + n < AddrLimit
  BY <1>1, ArenaNat, AddrLimitAssumption
<1> DEFINE sum == used + n
<1>3. sum \in Nat /\ sum < AddrLimit
  BY <1>2
<1> HIDE DEF sum
<1>4. sum % AddrLimit = sum
  BY <1>3, AddrLimitAssumption DEF ALIGNMENT
<1>5. (used + n) % AddrLimit = used + n
  BY <1>4 DEF sum
<1>6. used + n <= memBlock.size
  BY <1>2, <1>5, ArenaNat DEF Alloc, NoSpace
<1> QED
  BY <1>1, <1>5, <1>6, ArenaNat DEF Alloc

LEMMA InvInit == Init => IInv
<1> SUFFICES ASSUME Init PROVE IInv
  OBVIOUS
<1>1. memBlock.baseAddr \in Nat
  BY TypeInit, ArenaNat
<1>2. Tiled
  BY <1>1 DEF Init, Tiled
<1> QED
  BY <1>2, TypeInit DEF Init, IInv, HeldHonestly, Apart, Inside

LEMMA AllocKeeps ==
  ASSUME IInv, NEW n \in Sizes, Alloc(n), NoneWraps'
  PROVE  Apart' /\ Inside' /\ Tiled'
<1> DEFINE mem == memBlock.baseAddr + used
           new == Run(mem, n)
<1>1. TypeOK
  BY DEF IInv
<1>2. memBlock' = memBlock /\ live' = live \cup {new} /\ new.baseAddr = mem /\ new.size = n
  BY <1>1, ArenaNat DEF Alloc, Run
<1>3. NoneWraps /\ memBlock.size + n < AddrLimit
  BY <1>2 DEF NoneWraps
<1>4. used' = used + n
  BY <1>1, <1>3, AllocFacts
<1>5. /\ mem \in Nat /\ n \in Nat /\ mem = memBlock.baseAddr + used
      /\ used \in Nat /\ used + n <= memBlock.size
      /\ memBlock.baseAddr \in Nat /\ memBlock.size \in Nat
  BY <1>1, <1>3, ArenaNat, AllocFacts
<1>6. Apart /\ Inside /\ Tiled
  BY <1>3 DEF IInv, HeldHonestly
<1>7. \A b \in live :
        /\ b.baseAddr \in Nat /\ b.size \in Nat /\ Within(b, memBlock)
        /\ b.baseAddr + b.size <= mem
  BY <1>1, <1>6, BlockNat DEF Inside, TypeOK
<1> HIDE DEF mem, new
<1>8. \A b \in live : ~Overlap(b, new) /\ ~Overlap(new, b)
  BY <1>2, <1>5, <1>7 DEF Overlap
<1>9. Apart'
  BY <1>2, <1>6, <1>8 DEF Apart
<1>10. Inside'
  <2>1. ASSUME NEW b \in live
        PROVE  b.baseAddr + b.size <= memBlock.baseAddr + (used + n)
    BY <1>5, <1>7
  <2>2. Within(new, memBlock) /\ new.baseAddr + new.size <= memBlock.baseAddr + (used + n)
    BY <1>2, <1>5 DEF Within
  <2>3. \A b \in live' :
          Within(b, memBlock) /\ b.baseAddr + b.size <= memBlock.baseAddr + (used + n)
    BY <1>2, <1>7, <2>1, <2>2
  <2> QED
    BY <1>2, <1>4, <2>3 DEF Inside
<1>11. Tiled'
  <2>1. ASSUME NEW addr \in memBlock.baseAddr .. memBlock.baseAddr + (used + n) - 1
        PROVE  \E b \in live' : b.baseAddr <= addr /\ addr < b.baseAddr + b.size
    <3>1. CASE addr < mem
      BY <1>2, <1>5, <1>6, <3>1 DEF Tiled
    <3>2. CASE addr >= mem
      BY <1>2, <1>5, <3>2
    <3> QED
      BY <1>5, <3>1, <3>2
  <2> QED
    BY <1>2, <1>4, <2>1 DEF Tiled
<1> QED
  BY <1>9, <1>10, <1>11

LEMMA InvStep == IInv /\ [Next]_vars => IInv'
<1> SUFFICES ASSUME IInv, [Next]_vars PROVE IInv'
  OBVIOUS
<1>1. TypeOK /\ TypeOK' /\ \A b \in live : b.size \in Sizes
  BY TypeStep DEF IInv
<1>2. CASE Reset
  <2>1. Tiled'
    BY <1>1, <1>2, ArenaNat DEF Reset, Tiled
  <2> QED
    BY <1>1, <1>2, <2>1 DEF Reset, IInv, HeldHonestly, Apart, Inside
<1>3. ASSUME NEW n \in Sizes, Alloc(n) PROVE IInv'
  <2>1. \A b \in live' : b.size \in Sizes
    BY <1>1, <1>3 DEF Alloc, Run
  <2> QED
    BY <1>1, <1>3, <2>1, AllocKeeps DEF IInv, HeldHonestly
<1>4. ASSUME NEW n \in Sizes, AllocFails(n) PROVE IInv'
  BY <1>1, <1>4 DEF AllocFails, IInv, HeldHonestly, NoneWraps, Apart, Inside, Tiled
<1>5. CASE UNCHANGED vars
  BY <1>1, <1>5 DEF vars, IInv, HeldHonestly, NoneWraps, Apart, Inside, Tiled
<1> QED
  BY <1>2, <1>3, <1>4, <1>5 DEF Next

LEMMA Invariant == Spec => []IInv
BY InvInit, InvStep, PTL DEF Spec

\* Without a word on what callers may ask for: while no request that is still held made
\* the sum wrap, the allocations are separate, inside, and leave no gap; a caller that
\* asked for too much spoils the arena until the next reset and no longer.
THEOREM HonestWithoutPremise == Spec => []HeldHonestly
<1>1. IInv => HeldHonestly
  BY DEF IInv
<1> QED
  BY <1>1, Invariant, PTL

\* A granted request moves the bump pointer up within the block, or it wrapped.
LEMMA GrantedOrWrapped ==
  ASSUME TypeOK, NEW n \in Sizes, Alloc(n)
  PROVE  \/ used + n < AddrLimit /\ used' = used + n /\ used' <= memBlock.size
         \/ used + n >= AddrLimit /\ used' = used + n - AddrLimit /\ used' < used
<1>1. n \in Nat /\ n < AddrLimit /\ used \in Nat /\ used < AddrLimit
  BY SizesAssumption, AddrLimitAssumption, ArenaNat DEF U64
<1>2. AddrLimit \in Nat /\ AddrLimit > 0
  BY AddrLimitAssumption DEF ALIGNMENT
<1>3. used' = (used + n) % AddrLimit /\ used' \in 0 .. memBlock.size
  BY UsedType DEF Alloc
<1>4. PICK sum \in Nat : sum = used + n
  BY <1>1
<1>5. CASE sum < AddrLimit
  <2>1. sum % AddrLimit = sum
    BY <1>2, <1>5
  <2> QED
    BY <1>3, <1>4, <1>5, <2>1, ArenaNat
<1>6. CASE sum >= AddrLimit
  <2>1. PICK over \in Nat : over = sum - AddrLimit
    BY <1>2, <1>6
  <2>2. over < AddrLimit /\ over < used
    BY <1>1, <1>2, <1>4, <2>1
  <2>3. sum % AddrLimit = over
    BY <1>2, <2>1, <2>2
  <2> QED
    <3>1. used' = over
      BY <1>3, <1>4, <2>3
    <3>2. over = used + n - AddrLimit /\ used + n >= AddrLimit
      BY <1>1, <1>2, <1>4, <1>6, <2>1
    <3> QED
      BY <2>2, <3>1, <3>2
<1> QED
  BY <1>2, <1>4, <1>5, <1>6

\* What the guard `used + sizeInBytes > size' lets through: a request that fits, or
\* one whose sum has wrapped, and this one always moves the pointer back over memory
\* that may be held.
THEOREM GrantsFitOrWrap ==
  Spec => [][\A n \in Sizes :
               Alloc(n) => \/ used + n < AddrLimit /\ used' = used + n /\ used' <= memBlock.size
                           \/ used + n >= AddrLimit /\ used' = used + n - AddrLimit
                                                     /\ used' < used]_vars
<1>1. TypeOK =>
        \A n \in Sizes :
          Alloc(n) => \/ used + n < AddrLimit /\ used' = used + n /\ used' <= memBlock.size
                      \/ used + n >= AddrLimit /\ used' = used + n - AddrLimit /\ used' < used
  BY GrantedOrWrapped
<1> QED
  BY <1>1, TypeCorrect, PTL

\* With requests that cannot wrap the premise is always met.
LEMMA FitsIsHonest == IInv => LiveDisjoint /\ LiveInside /\ NothingLeaks
<1> SUFFICES ASSUME IInv, SizesFit PROVE LiveDisjoint /\ LiveInside /\ NothingLeaks
  BY DEF LiveDisjoint, LiveInside, NothingLeaks
<1>1. NoneWraps
  BY DEF IInv, TypeOK, SizesFit, NoneWraps
<1> QED
  BY <1>1 DEF IInv, HeldHonestly, Apart, Inside, Tiled, LiveDisjoint, LiveInside, NothingLeaks

\* Whatever is asked for and however often the arena is reset, no byte is held
\* twice.
THEOREM AllocationsDisjoint == Spec => []LiveDisjoint
<1>1. IInv => LiveDisjoint
  BY FitsIsHonest
<1> QED
  BY <1>1, Invariant, PTL

\* Every allocation lies in the block the arena was created over.
THEOREM AllocationsInside == Spec => []LiveInside
<1>1. IInv => LiveInside
  BY FitsIsHonest
<1> QED
  BY <1>1, Invariant, PTL

\* The bump pointer moves over no byte that nobody holds.
THEOREM NothingLeaked == Spec => []NothingLeaks
<1>1. IInv => NothingLeaks
  BY FitsIsHonest
<1> QED
  BY <1>1, Invariant, PTL
-----------------------------------------------------------------------------
(* The arena implements BlockAllocator.                                      *)

\* A successful call places the run where nobody holds a byte.
LEMMA AllocRefines ==
  ASSUME IInv, SizesFit, NEW n \in Sizes, Alloc(n)
  PROVE  Allocator!Alloc(n)
<1> DEFINE mem == memBlock.baseAddr + used
<1>1. TypeOK
  BY DEF IInv
<1>0. memBlock.size + n < AddrLimit
  BY <1>1 DEF SizesFit, TypeOK
<1>2. /\ mem \in U64 /\ asked' = n /\ ret' = mem /\ memBlock' = memBlock
      /\ live' = live \cup {Run(mem, n)}
  BY <1>0, <1>1, ArenaNat, AllocFacts
<1>3. /\ mem \in Nat /\ n \in Nat /\ used \in Nat /\ used + n <= memBlock.size
      /\ mem = memBlock.baseAddr + used
      /\ memBlock.baseAddr \in Nat /\ memBlock.size \in Nat
  BY <1>0, <1>1, ArenaNat, AllocFacts
<1>4. \A b \in live :
        b.baseAddr \in Nat /\ b.size \in Nat /\ b.baseAddr + b.size <= mem
  BY <1>1, BlockNat, FitsIsHonest DEF LiveInside, TypeOK
<1> HIDE DEF mem
<1>5. Run(mem, n).baseAddr = mem /\ Run(mem, n).size = n
  BY DEF Run
<1>6. Within(Run(mem, n), memBlock)
  BY <1>3, <1>5 DEF Within
<1>7. \A b \in live : ~Overlap(Run(mem, n), b)
  BY <1>3, <1>4, <1>5 DEF Overlap
<1> QED
  BY <1>2, <1>6, <1>7
     DEF Allocator!Alloc, Allocator!Free, Allocator!Run, Run,
         Allocator!Within, Within, Allocator!Overlap, Overlap, Allocator!U64, U64

\* NULL means that every run of that many bytes meets an allocation: the block is
\* tiled up to `used', and what is left above is too short.
LEMMA FailRefines ==
  ASSUME IInv, SizesFit, NEW n \in Sizes, AllocFails(n)
  PROVE  Allocator!Refuse(n)
<1>1. TypeOK
  BY DEF IInv
<1>2. /\ n \in Nat /\ used \in Nat /\ used <= memBlock.size
      /\ memBlock.baseAddr \in Nat /\ memBlock.size \in Nat
  BY <1>1, ArenaNat, SizesAssumption, AddrLimitAssumption DEF U64
<1>3. used + n > memBlock.size
  <2> DEFINE sum == used + n
  <2>1. memBlock.size + n < AddrLimit
    BY <1>1 DEF SizesFit, TypeOK
  <2>2. sum \in Nat /\ sum < AddrLimit
    BY <1>2, <2>1, AddrLimitAssumption
  <2>3. sum % AddrLimit > memBlock.size
    BY DEF AllocFails, NoSpace
  <2> HIDE DEF sum
  <2>4. sum > memBlock.size
    BY <2>2, <2>3, AddrLimitAssumption DEF ALIGNMENT
  <2> QED
    BY <2>4 DEF sum
<1>4. ASSUME NEW addr \in U64, Within(Run(addr, n), memBlock)
      PROVE  \E b \in live : Overlap(Run(addr, n), b)
  <2>1. addr \in Nat
    BY AddrLimitAssumption DEF U64
  <2>2. memBlock.baseAddr <= addr /\ addr + n <= memBlock.baseAddr + memBlock.size
    BY <1>4 DEF Within, Run
  <2>3. addr \in memBlock.baseAddr .. memBlock.baseAddr + used - 1
    BY <1>2, <1>3, <2>1, <2>2
  <2>4. PICK b \in live : b.baseAddr <= addr /\ addr < b.baseAddr + b.size
    BY <2>3, FitsIsHonest DEF NothingLeaks
  <2>5. b.baseAddr \in Nat /\ b.size \in Nat
    BY <1>1, BlockNat DEF TypeOK
  <2>6. n > 0
    BY <1>2, <1>3
  <2>7. Overlap(Run(addr, n), b)
    BY <1>2, <2>1, <2>4, <2>5, <2>6 DEF Overlap, Run
  <2> QED
    BY <2>7
<1> QED
  BY <1>4
     DEF AllocFails, Allocator!Refuse, Allocator!Free, Allocator!Run, Run, Allocator!NULL, NULL,
         Allocator!Within, Within, Allocator!Overlap, Overlap, Allocator!U64, U64

\* The arena implements the allocator, for blocks and request sequences of every
\* size, as long as no request is so large that the sum with `used' wraps.
THEOREM Refinement == SizesFit => (Spec => ImplementsAllocator)
<1> SUFFICES ASSUME SizesFit PROVE Spec => ImplementsAllocator
  OBVIOUS
<1>1. Init => Allocator!Init
  BY DEF Init, Allocator!Init, NULL, Allocator!NULL
<1>2. IInv /\ [Next]_vars => [Allocator!Next]_(Allocator!vars)
  <2> SUFFICES ASSUME IInv, [Next]_vars PROVE [Allocator!Next]_(Allocator!vars)
    OBVIOUS
  <2>1. CASE Reset
    BY <2>1 DEF Reset, Allocator!Next, Allocator!Reset
  <2>2. ASSUME NEW n \in Sizes, Alloc(n) PROVE Allocator!Next
    BY <2>2, AllocRefines DEF Allocator!Next
  <2>3. ASSUME NEW n \in Sizes, AllocFails(n) PROVE Allocator!Next
    BY <2>3, FailRefines DEF Allocator!Next
  <2>4. CASE UNCHANGED vars
    BY <2>4 DEF vars, Allocator!vars
  <2> QED
    BY <2>1, <2>2, <2>3, <2>4 DEF Next
<1> QED
  BY <1>1, <1>2, Invariant, PTL DEF Spec, ImplementsAllocator, Allocator!Spec
=============================================================================
