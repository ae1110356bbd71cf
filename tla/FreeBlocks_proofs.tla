------------------------- MODULE FreeBlocks_proofs --------------------------
(***************************************************************************)
(* What QKEmitFreeAlignedMemBlocks guarantees on argument lists of every   *)
(* length and for addresses of every width.                                *)
(***************************************************************************)
EXTENDS FreeBlocks, FiniteSetTheorems, TLAPS
-----------------------------------------------------------------------------
(* Address arithmetic.                                                      *)

LEMMA BlockNat == ASSUME NEW b \in Block PROVE b.baseAddr \in Nat /\ b.size \in Nat
BY AddrLimitAssumption DEF Block, U64

\* The end of a block is an address, and the plain sum when it does not wrap.
LEMMA EndOfBlock ==
  ASSUME NEW b \in Block
  PROVE  /\ End(b) \in U64
         /\ IsNoWrap(b) => End(b) = b.baseAddr + b.size /\ End(b) + 8 <= AddrLimit
BY AddrLimitAssumption DEF Block, End, U64, IsNoWrap, ALIGNMENT

\* Rounding an address or a length stays within 64 bits.
LEMMA RoundingType ==
  ASSUME NEW v \in U64
  PROVE  AlignDown(v, ALIGNMENT) \in U64 /\ AlignUp(v, ALIGNMENT) \in U64
<1>1. v % 8 \in 0 .. v
  BY AddrLimitAssumption DEF U64
<1>2. (v + 8 - 1) % AddrLimit \in U64
  BY AddrLimitAssumption DEF U64, ALIGNMENT
<1>3. ((v + 8 - 1) % AddrLimit) % 8 \in 0 .. ((v + 8 - 1) % AddrLimit)
  BY <1>2, AddrLimitAssumption DEF U64
<1> QED
  BY <1>1, <1>2, <1>3, AddrLimitAssumption DEF AlignDown, AlignUp, ALIGNMENT, U64

\* Rounding leaves a multiple of the word alone.
LEMMA RoundingAligned ==
  ASSUME NEW v \in U64, v % 8 = 0, v + 8 <= AddrLimit
  PROVE  AlignDown(v, ALIGNMENT) = v /\ AlignUp(v, ALIGNMENT) = v
<1>1. AlignDown(v, ALIGNMENT) = v
  BY DEF AlignDown, ALIGNMENT, U64
<1>2. (v + 8 - 1) % AddrLimit = v + 7
  BY AddrLimitAssumption DEF U64, ALIGNMENT
<1>3. (v + 7) - ((v + 7) % 8) = v
  BY DEF U64
<1> QED
  BY <1>1, <1>2, <1>3 DEF AlignUp, AlignDown, ALIGNMENT

\* What lies in one of two separate blocks lies on one side of the other.
LEMMA WithinApart ==
  ASSUME NEW b \in Block, NEW c \in Block, NEW d \in Block, Within(b, c), ~Overlap(c, d)
  PROVE  b.baseAddr + b.size <= d.baseAddr \/ d.baseAddr + d.size <= b.baseAddr
<1>1. \A x \in Block : x.baseAddr \in Nat /\ x.size \in Nat
  BY AddrLimitAssumption DEF Block, U64
<1> QED
  BY <1>1 DEF Within, Overlap

\* Appending a gap keeps `free' a list of blocks.
LEMMA EmittedType ==
  ASSUME free \in Seq(Block), NEW start \in U64, NEW end \in U64
  PROVE  Emitted(start, end) \in Seq(Block)
<1>1. CASE start < end /\ AlignDown(end - start, ALIGNMENT) > 0
  <2>1. end - start \in U64
    BY <1>1, AddrLimitAssumption DEF U64
  <2>2. [baseAddr |-> AlignUp(start, ALIGNMENT),
         size |-> AlignDown(end - start, ALIGNMENT)] \in Block
    BY <2>1, RoundingType DEF Block
  <2> QED
    BY <1>1, <2>2 DEF Emitted
<1>2. CASE ~(start < end /\ AlignDown(end - start, ALIGNMENT) > 0)
  BY <1>2 DEF Emitted
<1> QED
  BY <1>1, <1>2

\* An aligned gap is emitted exactly, or not at all when it is empty.
LEMMA EmittedAligned ==
  ASSUME free \in Seq(Block), NEW start \in U64, NEW end \in U64,
         start % 8 = 0, end % 8 = 0, start + 8 <= AddrLimit, end + 8 <= AddrLimit
  PROVE  \/ Emitted(start, end) = free
         \/ /\ start < end
            /\ Emitted(start, end) =
                 Append(free, [baseAddr |-> start, size |-> end - start])
<1>1. CASE start < end
  <2>1. end - start \in U64 /\ (end - start) % 8 = 0 /\ end - start + 8 <= AddrLimit
    BY <1>1, AddrLimitAssumption DEF U64
  <2>2. AlignDown(end - start, ALIGNMENT) = end - start /\ AlignUp(start, ALIGNMENT) = start
    BY <2>1, RoundingAligned
  <2> QED
    BY <1>1, <2>2 DEF Emitted
<1>2. CASE ~(start < end)
  BY <1>2 DEF Emitted
<1> QED
  BY <1>1, <1>2
-----------------------------------------------------------------------------
(* Type correctness.                                                        *)

LEMMA TypeInit == Init => TypeOK
<1> SUFFICES ASSUME Init PROVE TypeOK
  OBVIOUS
<1>1. PICK m \in MemMaps : ram = m.ram /\ occupied = m.occupied
  BY DEF Init
<1>2. m \in [ram : Seq(Block), occupied : Seq(Block)]
  BY MemMapsAssumption
<1>3. ram \in Seq(Block) /\ occupied \in Seq(Block)
  BY <1>1, <1>2
<1>4. Len(ram) \in Nat /\ Len(occupied) \in Nat /\ free \in Seq(Block)
  BY <1>3 DEF Init
<1> QED
  BY <1>3, <1>4, AddrLimitAssumption DEF Init, TypeOK, U64, ALIGNMENT

LEMMA TypeStep == TypeOK /\ [Next]_vars => TypeOK'
<1> SUFFICES ASSUME TypeOK, [Next]_vars PROVE TypeOK'
  OBVIOUS
<1> USE DEF TypeOK
<1>1. CASE EnterRegion
  <2>1. Region \in Block
    BY <1>1 DEF EnterRegion, Region
  <2> QED
    BY <1>1, <2>1 DEF EnterRegion, Block
<1>2. CASE SkipOccupied
  BY <1>2 DEF SkipOccupied
<1>3. CASE CutOccupied
  <2>1. Taken \in Block
    BY <1>3 DEF CutOccupied, Taken
  <2>2. Taken.baseAddr \in U64 /\ End(Taken) \in U64
    BY <2>1, EndOfBlock DEF Block
  <2>3. free' \in Seq(Block)
    BY <1>3, <2>2, EmittedType DEF CutOccupied
  <2> QED
    BY <1>3, <2>2, <2>3 DEF CutOccupied
<1>4. CASE LeaveRegion
  <2>1. Region \in Block
    BY <1>4 DEF LeaveRegion, Region
  <2>2. free' \in Seq(Block)
    BY <1>4, <2>1, EndOfBlock, EmittedType DEF LeaveRegion
  <2> QED
    BY <1>4, <2>2 DEF LeaveRegion
<1>5. CASE Return
  BY <1>5 DEF Return
<1>6. CASE UNCHANGED vars
  BY <1>6 DEF vars
<1> QED
  BY <1>1, <1>2, <1>3, <1>4, <1>5, <1>6 DEF Next

\* Counters stay on the lists and every stored address and size is a uint64_t,
\* for argument lists of any length, wrapping addresses included.
THEOREM TypeCorrect == Spec => []TypeOK
<1> QED
  BY TypeInit, TypeStep, PTL DEF Spec
-----------------------------------------------------------------------------
(* The inductive invariant.  `currentStart' splits the current RAM region:   *)
(* what the call has emitted of it lies below, and what is left above meets  *)
(* none of the occupied regions already looked at.                           *)

\* The arguments the function is written for.
Aligned == NoWrap /\ WordAligned

StartInRegion ==
  pc = "occupied" =>
    /\ currentStart % 8 = 0
    /\ currentStart + 8 <= AddrLimit
    /\ Region.baseAddr <= currentStart

\* RAM region r has been dealt with up to the block b.
Behind(b, r) ==
  \/ r < ramRegIdx
  \/ r = ramRegIdx /\ pc = "occupied" /\ b.baseAddr + b.size <= currentStart

EmittedBehind ==
  \A f \in 1 .. Len(free) :
    \E r \in 1 .. Len(ram) : Behind(free[f], r) /\ Within(free[f], ram[r])

\* The occupied regions looked at do not meet what is left of the RAM region.
LookedAt ==
  pc = "occupied" =>
    \A o \in 1 .. occupiedRamRegIdx - 1 :
      \/ occupied[o].baseAddr + occupied[o].size <= currentStart
      \/ Region.baseAddr + Region.size <= occupied[o].baseAddr

IInv ==
  /\ TypeOK
  /\ Aligned => StartInRegion
  /\ Aligned => EmittedBehind
  /\ Aligned => LookedAt
  /\ FreeIsUnoccupied
  /\ FreeIsDisjoint

\* The facts about the current RAM region that the steps below use.
LEMMA RegionFacts ==
  ASSUME TypeOK, Aligned, ramRegIdx <= Len(ram)
  PROVE  /\ ramRegIdx \in 1 .. Len(ram)
         /\ Region \in Block
         /\ Region.baseAddr % 8 = 0
         /\ End(Region) % 8 = 0
         /\ End(Region) = Region.baseAddr + Region.size
         /\ End(Region) + 8 <= AddrLimit
<1>1. ramRegIdx \in 1 .. Len(ram) /\ Region \in Block
  BY DEF TypeOK, Region
<1>2. IsNoWrap(Region) /\ IsWordAligned(Region)
  BY <1>1 DEF Aligned, NoWrap, WordAligned, Region
<1>3. End(Region) = Region.baseAddr + Region.size /\ End(Region) + 8 <= AddrLimit
  BY <1>1, <1>2, EndOfBlock
<1>4. (Region.baseAddr + Region.size) % 8 = 0
  BY <1>1, <1>2 DEF IsWordAligned, Block, ALIGNMENT, U64
<1> QED
  BY <1>1, <1>2, <1>3, <1>4 DEF IsWordAligned, ALIGNMENT

\* ... and about the occupied region the inner loop is at.
LEMMA TakenFacts ==
  ASSUME TypeOK, Aligned, occupiedRamRegIdx <= Len(occupied)
  PROVE  /\ Taken \in Block
         /\ Taken.baseAddr % 8 = 0
         /\ Taken.baseAddr + 8 <= AddrLimit
         /\ End(Taken) % 8 = 0
         /\ End(Taken) = Taken.baseAddr + Taken.size
         /\ End(Taken) + 8 <= AddrLimit
<1>1. occupiedRamRegIdx \in 1 .. Len(occupied) /\ Taken \in Block
  BY DEF TypeOK, Taken
<1>2. IsNoWrap(Taken) /\ IsWordAligned(Taken)
  BY <1>1 DEF Aligned, NoWrap, WordAligned, Taken
<1>3. End(Taken) = Taken.baseAddr + Taken.size /\ End(Taken) + 8 <= AddrLimit
  BY <1>1, <1>2, EndOfBlock
<1>4. (Taken.baseAddr + Taken.size) % 8 = 0
  BY <1>1, <1>2 DEF IsWordAligned, Block, ALIGNMENT, U64
<1> QED
  BY <1>1, <1>2, <1>3, <1>4, AddrLimitAssumption DEF IsWordAligned, ALIGNMENT, Block, U64, IsNoWrap

LEMMA InvInit == Init => IInv
<1> SUFFICES ASSUME Init PROVE IInv
  OBVIOUS
<1>1. TypeOK
  BY TypeInit
<1> QED
  BY <1>1 DEF Init, IInv, StartInRegion, EmittedBehind, LookedAt, FreeIsUnoccupied, FreeIsDisjoint

\* The condition on the arguments cannot change: the code only reads them.
LEMMA ArgsConstant ==
  ASSUME [Next]_vars
  PROVE  /\ ram' = ram /\ occupied' = occupied
         /\ Aligned' = Aligned /\ Sorted' = Sorted /\ RamDisjoint' = RamDisjoint
<1>1. ram' = ram /\ occupied' = occupied
  BY DEF Next, EnterRegion, SkipOccupied, CutOccupied, LeaveRegion, Return, vars
<1> QED
  BY <1>1 DEF Aligned, NoWrap, WordAligned, Sorted, RamDisjoint

\* A step that emits the gap [start, end), or nothing, at the current position.
Emits(start, end) ==
  \/ free' = free
  \/ free' = Append(free, [baseAddr |-> start, size |-> end - start])

\* What the output list holds after such a step.
LEMMA EmitElements ==
  ASSUME TypeOK, NEW start \in U64, NEW end \in U64, start < end, Emits(start, end)
  PROVE  /\ \A f \in 1 .. Len(free) : free'[f] = free[f] /\ free[f] \in Block
         /\ \A f \in 1 .. Len(free') :
              f \notin 1 .. Len(free) =>
                /\ f = Len(free) + 1
                /\ free'[f] = [baseAddr |-> start, size |-> end - start]
<1> DEFINE new == [baseAddr |-> start, size |-> end - start]
<1>1. new \in Block
  BY AddrLimitAssumption DEF Block, U64
<1>2. free \in Seq(Block) /\ (free' = free \/ free' = Append(free, new))
  BY DEF TypeOK, Emits
<1> HIDE DEF new
<1>3. /\ \A f \in 1 .. Len(free) : free'[f] = free[f] /\ free[f] \in Block
      /\ \A f \in 1 .. Len(free') :
           f \notin 1 .. Len(free) => f = Len(free) + 1 /\ free'[f] = new
  BY <1>1, <1>2
<1> QED
  BY <1>3 DEF new

\* A gap between `currentStart' and the region's end that meets no occupied
\* region can be handed out without breaking FreeIsUnoccupied ...
LEMMA EmitUnoccupied ==
  ASSUME TypeOK, [Next]_vars, FreeIsUnoccupied,
         NEW start \in U64, NEW end \in U64, start < end, Emits(start, end),
         Aligned /\ Sorted =>
           \A o \in 1 .. Len(occupied) :
             occupied[o].baseAddr + occupied[o].size <= start \/ end <= occupied[o].baseAddr
  PROVE  FreeIsUnoccupied'
<1> SUFFICES ASSUME Aligned, Sorted,
                    NEW f \in 1 .. Len(free'), NEW o \in 1 .. Len(occupied)
             PROVE  ~Overlap(free'[f], occupied[o])
  BY ArgsConstant DEF FreeIsUnoccupied, Aligned
<1>1. occupied[o] \in Block
  BY DEF TypeOK
<1>2. CASE f \in 1 .. Len(free)
  <2>1. free'[f] = free[f]
    BY <1>2, EmitElements
  <2> QED
    BY <1>2, <2>1 DEF FreeIsUnoccupied, Aligned
<1>3. CASE f \notin 1 .. Len(free)
  <2>1. free'[f] = [baseAddr |-> start, size |-> end - start]
    BY <1>3, EmitElements
  <2> QED
    BY <1>1, <2>1 DEF Overlap, Block, U64
<1> QED
  BY <1>2, <1>3

\* A block that ends by x ends by everything after x.
LEMMA Transitive ==
  ASSUME NEW b \in Block, NEW x \in Nat, NEW y \in Nat, b.baseAddr + b.size <= x, x <= y
  PROVE  b.baseAddr + b.size <= y
BY BlockNat

\* A block on one side of a region is on that side of a gap in the region.
LEMMA BesideRegion ==
  ASSUME NEW b \in Block, NEW region \in Block, NEW start \in Nat, NEW end \in Nat,
         region.baseAddr <= start, end <= region.baseAddr + region.size,
         \/ b.baseAddr + b.size <= region.baseAddr
         \/ region.baseAddr + region.size <= b.baseAddr
  PROVE  b.baseAddr + b.size <= start \/ end <= b.baseAddr
BY BlockNat

\* Blocks that begin before an address and reach it meet.
LEMMA AroundAPoint ==
  ASSUME NEW b, NEW c, NEW x \in Nat, b.baseAddr \in Nat, b.size \in Nat,
         c.baseAddr \in Nat, c.size \in Nat,
         b.baseAddr < x, x <= b.baseAddr + b.size, c.baseAddr < x, x <= c.baseAddr + c.size
  PROVE  Overlap(b, c)
BY DEF Overlap

\* Blocks one of which ends where the other begins, or before, do not meet.
LEMMA ApartNotOverlap ==
  ASSUME NEW b, NEW c, NEW start \in Nat, NEW end \in Nat,
         b.baseAddr \in Nat, b.size \in Nat,
         c.baseAddr = start, c.baseAddr + c.size = end,
         b.baseAddr + b.size <= start \/ end <= b.baseAddr
  PROVE  ~Overlap(b, c) /\ ~Overlap(c, b)
BY DEF Overlap

\* Because everything emitted lies behind `currentStart', emitting hands out
\* no byte twice.
LEMMA EmitDisjoint ==
  ASSUME TypeOK, [Next]_vars, Aligned => EmittedBehind, FreeIsDisjoint, pc = "occupied",
         NEW start \in U64, NEW end \in U64, start < end, Emits(start, end),
         Aligned => currentStart <= start /\ Region.baseAddr <= start
                      /\ end <= Region.baseAddr + Region.size
  PROVE  FreeIsDisjoint'
<1> SUFFICES ASSUME Aligned, RamDisjoint,
                    NEW f \in 1 .. Len(free'), NEW g \in 1 .. Len(free'), f # g
             PROVE  ~Overlap(free'[f], free'[g])
  BY ArgsConstant DEF FreeIsDisjoint, Aligned
<1> DEFINE new == [baseAddr |-> start, size |-> end - start]
<1>1. \A h \in 1 .. Len(free) : free'[h] = free[h] /\ free[h] \in Block
  BY EmitElements
<1>2. \A h \in 1 .. Len(free') : h \notin 1 .. Len(free) => h = Len(free) + 1 /\ free'[h] = new
  BY EmitElements
<1>3. ASSUME NEW h \in 1 .. Len(free)
      PROVE  ~Overlap(free[h], new) /\ ~Overlap(new, free[h])
  <2> DEFINE old == free[h]
  <2>1. PICK r \in 1 .. Len(ram) : Behind(old, r) /\ Within(old, ram[r])
    BY DEF EmittedBehind
  <2>2. old \in Block /\ ram[r] \in Block /\ Region \in Block /\ ramRegIdx \in 1 .. Len(ram)
    BY <1>1 DEF TypeOK, Region
  <2>3. /\ old.baseAddr \in Nat /\ old.size \in Nat /\ currentStart \in Nat
        /\ Region.baseAddr \in Nat /\ Region.size \in Nat
        /\ ram[r].baseAddr \in Nat /\ ram[r].size \in Nat /\ start \in Nat /\ end \in Nat
    <3>1. \A b \in Block : b.baseAddr \in Nat /\ b.size \in Nat
      BY AddrLimitAssumption DEF Block, U64
    <3>2. currentStart \in Nat /\ start \in Nat /\ end \in Nat
      BY AddrLimitAssumption DEF U64, TypeOK
    <3> QED
      BY <2>2, <3>1, <3>2
  <2>4. /\ new.baseAddr = start /\ new.baseAddr + new.size = end
        /\ currentStart <= start /\ Region.baseAddr <= start
        /\ end <= Region.baseAddr + Region.size
    BY <2>3
  <2> HIDE DEF old, new
  <2>5. old.baseAddr + old.size <= start \/ end <= old.baseAddr
    <3>1. CASE r = ramRegIdx /\ old.baseAddr + old.size <= currentStart
      <4>1. currentStart <= start
        BY <2>4
      <4> QED
        BY <2>2, <2>3, <3>1, <4>1, Transitive
    <3>2. CASE r < ramRegIdx
      <4>1. ~Overlap(ram[r], Region)
        BY <2>2, <3>2 DEF RamDisjoint, Region
      <4>2. \/ old.baseAddr + old.size <= Region.baseAddr
            \/ Region.baseAddr + Region.size <= old.baseAddr
        BY <2>1, <2>2, <4>1, WithinApart
      <4> QED
        BY <2>2, <2>3, <2>4, <4>2, BesideRegion
    <3> QED
      BY <2>1, <3>1, <3>2 DEF Behind
  <2>6. ~Overlap(old, new) /\ ~Overlap(new, old)
    BY <2>3, <2>4, <2>5, ApartNotOverlap
  <2> QED
    BY <2>6 DEF old
<1>4. CASE f \in 1 .. Len(free) /\ g \in 1 .. Len(free)
  BY <1>1, <1>4 DEF FreeIsDisjoint, Aligned
<1>5. CASE f \in 1 .. Len(free) /\ g \notin 1 .. Len(free)
  BY <1>1, <1>2, <1>3, <1>5
<1>6. CASE f \notin 1 .. Len(free) /\ g \in 1 .. Len(free)
  BY <1>1, <1>2, <1>3, <1>6
<1>7. CASE f \notin 1 .. Len(free) /\ g \notin 1 .. Len(free)
  BY <1>2, <1>7
<1> QED
  BY <1>4, <1>5, <1>6, <1>7

\* What both kinds of emitting step do to the properties.
LEMMA EmitStep ==
  ASSUME IInv, [Next]_vars, Aligned, pc = "occupied",
         NEW start \in U64, NEW end \in U64, start % 8 = 0, end % 8 = 0,
         start + 8 <= AddrLimit, end + 8 <= AddrLimit,
         free' = Emitted(start, end),
         start = currentStart, end <= Region.baseAddr + Region.size,
         Sorted =>
           \A o \in 1 .. Len(occupied) :
             occupied[o].baseAddr + occupied[o].size <= start \/ end <= occupied[o].baseAddr
  PROVE  /\ FreeIsUnoccupied' /\ FreeIsDisjoint'
         /\ \A f \in 1 .. Len(free') :
              \/ f \in 1 .. Len(free) /\ free'[f] = free[f]
              \/ /\ Region.baseAddr <= free'[f].baseAddr
                 /\ free'[f].baseAddr + free'[f].size = end
<1>1. TypeOK /\ StartInRegion
  BY DEF IInv
<1>2. CASE free' = free
  BY <1>2, ArgsConstant
     DEF IInv, FreeIsUnoccupied, FreeIsDisjoint, Aligned, NoWrap, WordAligned
<1>3. CASE start < end /\ free' = Append(free, [baseAddr |-> start, size |-> end - start])
  <2>1. Emits(start, end)
    BY <1>3 DEF Emits
  <2>2. FreeIsUnoccupied'
    BY <1>1, <1>3, <2>1, EmitUnoccupied DEF IInv
  <2>3. FreeIsDisjoint'
    BY <1>1, <1>3, <2>1, EmitDisjoint, AddrLimitAssumption DEF IInv, StartInRegion, U64
  <2>4. ASSUME NEW f \in 1 .. Len(free'), f \notin 1 .. Len(free)
        PROVE  Region.baseAddr <= free'[f].baseAddr /\ free'[f].baseAddr + free'[f].size = end
    <3>1. free'[f] = [baseAddr |-> start, size |-> end - start]
      BY <1>1, <1>3, <2>1, <2>4, EmitElements
    <3> QED
      BY <1>1, <3>1, AddrLimitAssumption DEF StartInRegion, U64
  <2> QED
    BY <1>1, <1>3, <2>1, <2>2, <2>3, <2>4, EmitElements
<1> QED
  BY <1>1, <1>2, <1>3, EmittedAligned DEF TypeOK

LEMMA InvStep == IInv /\ [Next]_vars => IInv'
<1> SUFFICES ASSUME IInv, [Next]_vars PROVE IInv'
  OBVIOUS
<1>1. TypeOK /\ TypeOK'
  BY TypeStep DEF IInv
<1>2. /\ ram' = ram /\ occupied' = occupied
      /\ Aligned' = Aligned /\ Sorted' = Sorted /\ RamDisjoint' = RamDisjoint
  BY ArgsConstant
<1>3. CASE ~Aligned
  BY <1>1, <1>2, <1>3 DEF IInv, FreeIsUnoccupied, FreeIsDisjoint, Aligned
<1> SUFFICES ASSUME Aligned
             PROVE  StartInRegion' /\ EmittedBehind' /\ LookedAt'
                      /\ FreeIsUnoccupied' /\ FreeIsDisjoint'
  BY <1>1, <1>2, <1>3 DEF IInv
<1>4. StartInRegion /\ EmittedBehind /\ LookedAt
  BY DEF IInv
<1>5. free' = free => FreeIsUnoccupied' /\ FreeIsDisjoint'
  BY <1>2 DEF IInv, FreeIsUnoccupied, FreeIsDisjoint, Aligned, NoWrap, WordAligned
<1>6. CASE EnterRegion
  <2>1. StartInRegion'
    <3>1. Region \in Block /\ Region.baseAddr % 8 = 0 /\ Region' = Region
      BY <1>1, <1>6, RegionFacts DEF EnterRegion, Region
    <3>2. IsNoWrap(Region)
      BY <1>1, <1>6 DEF EnterRegion, Region, Aligned, NoWrap, TypeOK
    <3>3. Region.baseAddr \in Nat /\ Region.baseAddr + 8 <= AddrLimit
      BY <3>1, <3>2, AddrLimitAssumption DEF IsNoWrap, Block, U64, ALIGNMENT
    <3> QED
      BY <1>6, <3>1, <3>3 DEF EnterRegion, StartInRegion
  <2>2. EmittedBehind'
    BY <1>1, <1>4, <1>6 DEF EnterRegion, EmittedBehind, Behind
  <2>3. LookedAt'
    BY <1>6 DEF EnterRegion, LookedAt
  <2> QED
    BY <1>5, <1>6, <2>1, <2>2, <2>3 DEF EnterRegion
<1>7. CASE SkipOccupied
  <2>1. StartInRegion' /\ EmittedBehind'
    BY <1>1, <1>4, <1>7 DEF SkipOccupied, StartInRegion, EmittedBehind, Behind, Region
  <2>2. LookedAt'
    <3>1. Taken.baseAddr + Taken.size <= currentStart
            \/ Region.baseAddr + Region.size <= Taken.baseAddr
      <4>1. /\ End(Taken) = Taken.baseAddr + Taken.size
            /\ End(Region) = Region.baseAddr + Region.size
            /\ Taken \in Block /\ Region \in Block
        BY <1>1, <1>7, RegionFacts, TakenFacts DEF SkipOccupied, TypeOK
      <4>2. Taken.baseAddr + Taken.size < currentStart
              \/ Region.baseAddr + Region.size < Taken.baseAddr
        BY <1>7, <4>1 DEF SkipOccupied, Irrelevant
      <4>3. /\ Taken.baseAddr \in Nat /\ Taken.size \in Nat /\ currentStart \in Nat
            /\ Region.baseAddr \in Nat /\ Region.size \in Nat
        BY <1>1, <4>1, BlockNat DEF TypeOK, U64
      <4> QED
        BY <4>2, <4>3
    <3> QED
      BY <1>1, <1>4, <1>7, <3>1 DEF SkipOccupied, LookedAt, Region, Taken, TypeOK
  <2> QED
    BY <1>5, <1>7, <2>1, <2>2 DEF SkipOccupied
<1>8. CASE CutOccupied
  <2>1. /\ Taken \in Block /\ Region \in Block /\ pc = "occupied" /\ pc' = "occupied"
        /\ ramRegIdx \in 1 .. Len(ram) /\ ramRegIdx' = ramRegIdx
        /\ occupiedRamRegIdx \in 1 .. Len(occupied)
        /\ occupiedRamRegIdx' = occupiedRamRegIdx + 1
        /\ Region' = Region /\ currentStart' = End(Taken)
        /\ free' = Emitted(currentStart, Taken.baseAddr)
    BY <1>1, <1>8, RegionFacts, TakenFacts DEF CutOccupied, TypeOK, Region
  <2>2. /\ End(Taken) = Taken.baseAddr + Taken.size
        /\ End(Region) = Region.baseAddr + Region.size
        /\ Taken.baseAddr % 8 = 0 /\ Taken.baseAddr + 8 <= AddrLimit
        /\ End(Taken) % 8 = 0 /\ End(Taken) + 8 <= AddrLimit
    BY <1>1, <2>1, RegionFacts, TakenFacts
  <2>3. /\ Taken.baseAddr \in Nat /\ Taken.size \in Nat /\ currentStart \in Nat
        /\ Region.baseAddr \in Nat /\ Region.size \in Nat
    BY <1>1, <2>1, AddrLimitAssumption DEF Block, U64, TypeOK
  <2>4. /\ currentStart <= Taken.baseAddr + Taken.size
        /\ Taken.baseAddr <= Region.baseAddr + Region.size
    <3>1. /\ ~(Taken.baseAddr + Taken.size < currentStart)
          /\ ~(Region.baseAddr + Region.size < Taken.baseAddr)
      BY <1>8, <2>2 DEF CutOccupied, Irrelevant
    <3> QED
      BY <2>3, <3>1
  <2>5. ASSUME Sorted, NEW o \in 1 .. Len(occupied)
        PROVE  \/ occupied[o].baseAddr + occupied[o].size <= currentStart
               \/ Taken.baseAddr <= occupied[o].baseAddr
    <3>1. CASE o < occupiedRamRegIdx
      <4>1. o \in 1 .. occupiedRamRegIdx - 1 /\ occupied[o] \in Block
        BY <1>1, <2>1, <3>1 DEF TypeOK
      <4>2. \/ occupied[o].baseAddr + occupied[o].size <= currentStart
            \/ Region.baseAddr + Region.size <= occupied[o].baseAddr
        BY <1>4, <2>1, <4>1 DEF LookedAt
      <4>3. occupied[o].baseAddr \in Nat
        BY <4>1, AddrLimitAssumption DEF Block, U64
      <4> QED
        BY <2>3, <2>4, <4>2, <4>3
    <3>2. CASE o >= occupiedRamRegIdx
      BY <2>1, <2>3, <2>5, <3>2 DEF Sorted, Taken
    <3> QED
      BY <2>1, <3>1, <3>2
  <2>6. /\ FreeIsUnoccupied' /\ FreeIsDisjoint'
        /\ \A f \in 1 .. Len(free') :
             \/ f \in 1 .. Len(free) /\ free'[f] = free[f]
             \/ /\ Region.baseAddr <= free'[f].baseAddr
                /\ free'[f].baseAddr + free'[f].size = Taken.baseAddr
    <3> DEFINE end == Taken.baseAddr
    <3>1. end \in U64 /\ currentStart \in U64
      BY <1>1, <2>1 DEF Block, TypeOK
    <3>2. /\ currentStart % 8 = 0 /\ currentStart + 8 <= AddrLimit
          /\ end % 8 = 0 /\ end + 8 <= AddrLimit
          /\ end <= Region.baseAddr + Region.size
          /\ free' = Emitted(currentStart, end)
      BY <1>4, <2>1, <2>2, <2>4 DEF StartInRegion
    <3>3. Sorted => \A o \in 1 .. Len(occupied) :
            occupied[o].baseAddr + occupied[o].size <= currentStart \/ end <= occupied[o].baseAddr
      BY <2>5
    <3> HIDE DEF end
    <3>4. /\ FreeIsUnoccupied' /\ FreeIsDisjoint'
          /\ \A f \in 1 .. Len(free') :
               \/ f \in 1 .. Len(free) /\ free'[f] = free[f]
               \/ /\ Region.baseAddr <= free'[f].baseAddr
                  /\ free'[f].baseAddr + free'[f].size = end
      BY <2>1, <3>1, <3>2, <3>3, EmitStep
    <3> QED
      BY <3>4 DEF end
  <2>7. currentStart <= currentStart'
    BY <2>1, <2>2, <2>4
  <2>8. StartInRegion'
    <3>1. Region.baseAddr <= currentStart
      BY <1>4, <2>1 DEF StartInRegion
    <3>2. Region.baseAddr <= Taken.baseAddr + Taken.size
      BY <2>3, <2>4, <3>1
    <3> QED
      BY <2>1, <2>2, <3>2 DEF StartInRegion
  <2>9. EmittedBehind'
    <3> SUFFICES ASSUME NEW f \in 1 .. Len(free')
                 PROVE  \E r \in 1 .. Len(ram) : Behind(free[f], r)' /\ Within(free'[f], ram[r])
      BY <1>2 DEF EmittedBehind
    <3>1. CASE f \in 1 .. Len(free) /\ free'[f] = free[f]
      <4>1. PICK r \in 1 .. Len(ram) : Behind(free[f], r) /\ Within(free[f], ram[r])
        BY <1>4, <3>1 DEF EmittedBehind
      <4>2. free[f].baseAddr + free[f].size \in Nat
        <5>1. free[f] \in Block
          BY <1>1, <3>1, SMTT(30) DEF TypeOK
        <5> QED
          BY <5>1, BlockNat
      <4>3. free[f].baseAddr + free[f].size <= currentStart
              => free[f].baseAddr + free[f].size <= currentStart'
        <5>1. currentStart' = Taken.baseAddr + Taken.size
          BY <2>1, <2>2
        <5> QED
          BY <2>3, <2>4, <4>2, <5>1
      <4>4. Behind(free[f], r)'
        BY <2>1, <3>1, <4>1, <4>3 DEF Behind
      <4> QED
        BY <3>1, <4>1, <4>4
    <3>2. CASE /\ Region.baseAddr <= free'[f].baseAddr
               /\ free'[f].baseAddr + free'[f].size = Taken.baseAddr
      <4>1. Within(free'[f], ram[ramRegIdx])
        BY <2>3, <2>4, <3>2 DEF Within, Region
      <4>2. Behind(free[f], ramRegIdx)'
        BY <2>1, <2>2, <2>3, <3>2 DEF Behind
      <4> QED
        BY <2>1, <4>1, <4>2
    <3> QED
      BY <2>6, <3>1, <3>2
  <2>10. LookedAt'
    <3> SUFFICES ASSUME NEW o \in 1 .. occupiedRamRegIdx
                 PROVE  \/ occupied[o].baseAddr + occupied[o].size <= End(Taken)
                        \/ Region.baseAddr + Region.size <= occupied[o].baseAddr
      BY <1>2, <2>1 DEF LookedAt
    <3>1. CASE o = occupiedRamRegIdx
      BY <2>2, <2>3, <3>1 DEF Taken
    <3>2. CASE o # occupiedRamRegIdx
      <4>1. o \in 1 .. occupiedRamRegIdx - 1 /\ occupied[o] \in Block
        BY <1>1, <2>1, <3>2 DEF TypeOK
      <4>2. occupied[o].baseAddr \in Nat /\ occupied[o].size \in Nat
        BY <4>1, BlockNat
      <4>3. \/ occupied[o].baseAddr + occupied[o].size <= currentStart
            \/ Region.baseAddr + Region.size <= occupied[o].baseAddr
        BY <1>4, <2>1, <4>1 DEF LookedAt
      <4> QED
        BY <2>2, <2>3, <2>4, <4>2, <4>3
    <3> QED
      BY <3>1, <3>2
  <2> QED
    BY <2>6, <2>8, <2>9, <2>10
<1>9. CASE LeaveRegion
  <2>1. /\ Region \in Block /\ pc = "occupied" /\ pc' = "region"
        /\ ramRegIdx \in 1 .. Len(ram) /\ ramRegIdx' = ramRegIdx + 1
        /\ occupiedRamRegIdx = Len(occupied) + 1
        /\ free' = Emitted(currentStart, End(Region))
    BY <1>1, <1>9, RegionFacts DEF LeaveRegion, TypeOK
  <2>2. /\ End(Region) = Region.baseAddr + Region.size
        /\ End(Region) % 8 = 0 /\ End(Region) + 8 <= AddrLimit
        /\ End(Region) \in U64 /\ currentStart \in U64
        /\ Region.baseAddr \in Nat /\ Region.size \in Nat
    BY <1>1, <2>1, RegionFacts, EndOfBlock, AddrLimitAssumption DEF TypeOK, Block, U64
  <2>3. ASSUME NEW o \in 1 .. Len(occupied)
        PROVE  \/ occupied[o].baseAddr + occupied[o].size <= currentStart
               \/ End(Region) <= occupied[o].baseAddr
    BY <1>1, <1>4, <2>1, <2>2 DEF LookedAt, TypeOK
  <2>4. /\ FreeIsUnoccupied' /\ FreeIsDisjoint'
        /\ \A f \in 1 .. Len(free') :
             \/ f \in 1 .. Len(free) /\ free'[f] = free[f]
             \/ /\ Region.baseAddr <= free'[f].baseAddr
                /\ free'[f].baseAddr + free'[f].size = End(Region)
    <3>1. currentStart % 8 = 0 /\ currentStart + 8 <= AddrLimit
      BY <1>4, <2>1 DEF StartInRegion
    <3>2. End(Region) <= Region.baseAddr + Region.size
      BY <2>2
    <3> QED
      BY <2>1, <2>2, <2>3, <3>1, <3>2, EmitStep
  <2>5. EmittedBehind'
    <3> SUFFICES ASSUME NEW f \in 1 .. Len(free')
                 PROVE  \E r \in 1 .. Len(ram) : r < ramRegIdx + 1 /\ Within(free'[f], ram[r])
      BY <1>2, <2>1 DEF EmittedBehind, Behind
    <3>1. CASE f \in 1 .. Len(free) /\ free'[f] = free[f]
      <4>1. PICK r \in 1 .. Len(ram) : Behind(free[f], r) /\ Within(free[f], ram[r])
        BY <1>4, <3>1 DEF EmittedBehind
      <4>2. r < ramRegIdx + 1
        BY <2>1, <4>1 DEF Behind
      <4> QED
        BY <3>1, <4>1, <4>2
    <3>2. CASE /\ Region.baseAddr <= free'[f].baseAddr
               /\ free'[f].baseAddr + free'[f].size = End(Region)
      <4>1. Within(free'[f], ram[ramRegIdx])
        BY <2>2, <3>2 DEF Within, Region
      <4>2. ramRegIdx < ramRegIdx + 1
        BY <2>1
      <4> QED
        BY <2>1, <4>1, <4>2
    <3> QED
      BY <2>4, <3>1, <3>2
  <2> QED
    BY <2>1, <2>4, <2>5 DEF StartInRegion, LookedAt
<1>10. CASE Return
  BY <1>1, <1>4, <1>5, <1>10 DEF Return, StartInRegion, EmittedBehind, LookedAt, Behind
<1>11. CASE UNCHANGED vars
  BY <1>1, <1>4, <1>5, <1>11 DEF vars, StartInRegion, EmittedBehind, LookedAt, Behind, Region
<1> QED
  BY <1>6, <1>7, <1>8, <1>9, <1>10, <1>11 DEF Next

LEMMA Invariant == Spec => []IInv
BY InvInit, InvStep, PTL DEF Spec
-----------------------------------------------------------------------------
(* The theorems.                                                            *)

\* However many RAM and occupied regions there are, and however the occupied ones
\* nest, touch or stick out, no block handed out meets an occupied region, as
\* long as addresses are word-aligned, sorted and do not wrap.
THEOREM FreeUnoccupied == Spec => []FreeIsUnoccupied
<1>1. IInv => FreeIsUnoccupied
  BY DEF IInv
<1> QED
  BY <1>1, Invariant, PTL

\* Every block handed out lies in one RAM region, sorted or not.
THEOREM FreeInRam == Spec => []FreeIsRam
<1>1. IInv => FreeIsRam
  BY DEF IInv, FreeIsRam, EmittedBehind, Aligned
<1> QED
  BY <1>1, Invariant, PTL

\* Disjoint RAM regions give disjoint free blocks, sorted or not.
THEOREM FreeDisjoint == Spec => []FreeIsDisjoint
<1>1. IInv => FreeIsDisjoint
  BY DEF IInv
<1> QED
  BY <1>1, Invariant, PTL
-----------------------------------------------------------------------------
(* Completeness: no word of RAM is lost.  Rounding included, but no wrap.    *)

Handed(w)  == \E f \in 1 .. Len(free) : Within(WordAt(w), free[f])
Blocked(w) == \E o \in 1 .. Len(occupied) : Overlap(WordAt(w), occupied[o])

\* The RAM that the loops have passed.
Passed(w, r) ==
  /\ Within(WordAt(w), ram[r])
  /\ r < ramRegIdx \/ (r = ramRegIdx /\ pc = "occupied" /\ w < currentStart)

Covered ==
  /\ \A r \in 1 .. Len(ram), w \in Words : Passed(w, r) => Handed(w) \/ Blocked(w)
  /\ pc = "done" => ramRegIdx > Len(ram)

\* A gap, however it is aligned, is emitted with every whole word in it.
LEMMA GapWords ==
  ASSUME free \in Seq(Block), NEW start \in U64, NEW end \in U64, end + 8 <= AddrLimit,
         NEW w \in Words, start <= w, w + 8 <= end
  PROVE  \E f \in 1 .. Len(Emitted(start, end)) : Within(WordAt(w), Emitted(start, end)[f])
<1> DEFINE up   == AlignUp(start, ALIGNMENT)
           down == AlignDown(end - start, ALIGNMENT)
           new  == [baseAddr |-> up, size |-> down]
<1>1. start \in Nat /\ end \in Nat /\ w \in Nat /\ w % 8 = 0 /\ start < end
  BY AddrLimitAssumption DEF U64, Words, ALIGNMENT
<1>2. up = (start + 7) - ((start + 7) % 8)
  <2>1. start + 8 - 1 = start + 7 /\ (start + 7) % AddrLimit = start + 7
    BY <1>1, AddrLimitAssumption
  <2> QED
    BY <2>1 DEF AlignUp, AlignDown, ALIGNMENT
<1>3. down = (end - start) - ((end - start) % 8)
  BY DEF AlignDown, ALIGNMENT
<1>4. up \in Nat /\ down \in Nat /\ down > 0 /\ up <= w /\ w + 8 <= up + down
  <2> HIDE DEF up, down
  <2>1. up \in Nat /\ up % 8 = 0 /\ start <= up /\ up < start + 8
    BY <1>1, <1>2
  <2>2. down \in Nat /\ down % 8 = 0 /\ down <= end - start /\ end - start < down + 8
    BY <1>1, <1>3
  <2>3. up <= w
    BY <1>1, <2>1
  <2>4. w < up + down /\ down > 0
    BY <1>1, <2>1, <2>2
  <2> QED
    BY <1>1, <2>1, <2>2, <2>3, <2>4
<1>5. Emitted(start, end) = Append(free, new)
  BY <1>1, <1>4 DEF Emitted
<1>6. Within(WordAt(w), new)
  BY <1>1, <1>4 DEF Within, WordAt, ALIGNMENT
<1> HIDE DEF new, up, down
<1>7. Len(free) + 1 \in 1 .. Len(Append(free, new)) /\ Append(free, new)[Len(free) + 1] = new
  OBVIOUS
<1> QED
  BY <1>5, <1>6, <1>7

\* What has been handed out stays so.
LEMMA EmittedGrows ==
  ASSUME free \in Seq(Block), NEW start, NEW end, NEW w,
         Handed(w)
  PROVE  \E f \in 1 .. Len(Emitted(start, end)) : Within(WordAt(w), Emitted(start, end)[f])
<1> DEFINE new == [baseAddr |-> AlignUp(start, ALIGNMENT), size |-> AlignDown(end - start, ALIGNMENT)]
<1>1. Emitted(start, end) = free \/ Emitted(start, end) = Append(free, new)
  BY DEF Emitted
<1> HIDE DEF new
<1>2. \A f \in 1 .. Len(free) : f \in 1 .. Len(Append(free, new)) /\ Append(free, new)[f] = free[f]
  OBVIOUS
<1> QED
  BY <1>1, <1>2 DEF Handed

LEMMA CoveredStep == TypeOK /\ NoWrap /\ Covered /\ [Next]_vars => Covered'
<1> SUFFICES ASSUME TypeOK, NoWrap, Covered, [Next]_vars PROVE Covered'
  OBVIOUS
<1>1. ram' = ram /\ occupied' = occupied
  BY ArgsConstant
<1>2. ASSUME NEW w, Blocked(w) PROVE Blocked(w)'
  BY <1>1, <1>2 DEF Blocked
<1>3. ASSUME NEW w, Handed(w) PROVE Handed(w)'
  <2>1. CASE free' = free
    BY <1>3, <2>1 DEF Handed
  <2>2. CASE \E start, end : free' = Emitted(start, end)
    BY <1>3, <2>2, EmittedGrows DEF TypeOK, Handed
  <2> QED
    BY <2>1, <2>2 DEF Next, EnterRegion, SkipOccupied, CutOccupied, LeaveRegion, Return, vars
<1>4. ASSUME pc' = "done" => ramRegIdx' > Len(ram),
             \A r \in 1 .. Len(ram), w \in Words :
               Passed(w, r)' => Passed(w, r) \/ Handed(w)' \/ Blocked(w)
      PROVE  Covered'
  BY <1>1, <1>2, <1>3, <1>4 DEF Covered
<1>5. \A w \in Words : w \in Nat /\ WordAt(w).baseAddr = w /\ WordAt(w).size = 8
  BY AddrLimitAssumption DEF Words, U64, WordAt, ALIGNMENT
<1>6. CASE EnterRegion
  <2>1. ASSUME NEW r \in 1 .. Len(ram), NEW w \in Words, Passed(w, r)'
        PROVE  Passed(w, r)
    <3>1. ram[r] \in Block /\ ram[r].baseAddr <= w
      BY <1>1, <1>5, <2>1 DEF TypeOK, Passed, Within
    <3>2. ram[r].baseAddr \in Nat /\ w \in Nat
      BY <1>5, <3>1, BlockNat
    <3>3. r = ramRegIdx => ~(w < currentStart')
      BY <1>6, <3>1, <3>2 DEF EnterRegion, Region
    <3> QED
      BY <1>1, <1>6, <2>1, <3>3 DEF EnterRegion, Passed
  <2> QED
    BY <1>4, <1>6, <2>1 DEF EnterRegion
<1>7. CASE SkipOccupied
  BY <1>1, <1>4, <1>7 DEF SkipOccupied, Passed
<1>8. CASE CutOccupied
  <2>1. /\ Taken \in Block /\ occupiedRamRegIdx \in 1 .. Len(occupied)
        /\ pc = "occupied" /\ pc' = "occupied" /\ ramRegIdx' = ramRegIdx
        /\ currentStart' = End(Taken) /\ free' = Emitted(currentStart, Taken.baseAddr)
    BY <1>8 DEF CutOccupied, TypeOK, Taken
  <2>2. IsNoWrap(Taken)
    BY <2>1 DEF NoWrap, Taken
  <2>3. /\ End(Taken) = Taken.baseAddr + Taken.size /\ Taken.baseAddr + 8 <= AddrLimit
        /\ Taken.baseAddr \in Nat /\ Taken.size \in Nat /\ currentStart \in Nat
        /\ Taken.baseAddr \in U64 /\ currentStart \in U64
    <3>1. Taken.baseAddr \in Nat /\ Taken.size \in Nat /\ Taken.baseAddr \in U64
      BY <2>1, BlockNat DEF Block
    <3>2. currentStart \in U64 /\ currentStart \in Nat
      BY AddrLimitAssumption DEF TypeOK, U64
    <3>3. Taken.baseAddr + 8 <= AddrLimit
      BY <2>2, <3>1, AddrLimitAssumption DEF IsNoWrap, ALIGNMENT
    <3> QED
      BY <2>1, <2>2, <3>1, <3>2, <3>3, EndOfBlock
  <2>4. ASSUME NEW r \in 1 .. Len(ram), NEW w \in Words, Passed(w, r)', ~Passed(w, r)
        PROVE  Handed(w)' \/ Blocked(w)
    <3>1. w \in Nat /\ currentStart <= w /\ w < Taken.baseAddr + Taken.size
      BY <1>1, <1>5, <2>1, <2>3, <2>4 DEF Passed
    <3>2. CASE w + 8 <= Taken.baseAddr
      <4>1. \E f \in 1 .. Len(free') : Within(WordAt(w), free'[f])
        BY <2>1, <2>3, <3>1, <3>2, GapWords DEF TypeOK
      <4> QED
        BY <4>1 DEF Handed
    <3>3. CASE ~(w + 8 <= Taken.baseAddr)
      <4>1. Overlap(WordAt(w), Taken)
        BY <1>5, <2>3, <3>1, <3>3 DEF Overlap
      <4> QED
        BY <2>1, <4>1 DEF Blocked, Taken
    <3> QED
      BY <3>2, <3>3
  <2> QED
    BY <1>4, <2>1, <2>4
<1>9. CASE LeaveRegion
  <2>1. /\ Region \in Block /\ ramRegIdx \in 1 .. Len(ram)
        /\ pc = "occupied" /\ pc' = "region" /\ ramRegIdx' = ramRegIdx + 1
        /\ free' = Emitted(currentStart, End(Region)) /\ ramRegIdx \in Nat
    BY <1>9 DEF LeaveRegion, TypeOK, Region
  <2>2. IsNoWrap(Region)
    BY <2>1 DEF NoWrap, Region
  <2>3. /\ End(Region) = Region.baseAddr + Region.size /\ End(Region) + 8 <= AddrLimit
        /\ End(Region) \in U64 /\ currentStart \in U64 /\ currentStart \in Nat
    BY <2>1, <2>2, EndOfBlock, AddrLimitAssumption DEF TypeOK, U64
  <2>4. ASSUME NEW r \in 1 .. Len(ram), NEW w \in Words, Passed(w, r)', ~Passed(w, r)
        PROVE  Handed(w)'
    <3>1. r = ramRegIdx
      BY <1>1, <2>1, <2>4 DEF Passed
    <3>2. w \in Nat /\ currentStart <= w /\ w + 8 <= End(Region)
      BY <1>1, <1>5, <2>1, <2>3, <2>4, <3>1 DEF Passed, Within, Region
    <3>3. \E f \in 1 .. Len(free') : Within(WordAt(w), free'[f])
      BY <2>1, <2>3, <3>2, GapWords DEF TypeOK
    <3> QED
      BY <3>3 DEF Handed
  <2> QED
    BY <1>4, <2>1, <2>4
<1>10. CASE Return
  BY <1>1, <1>4, <1>10 DEF Return, Passed
<1>11. CASE UNCHANGED vars
  BY <1>1, <1>4, <1>11 DEF vars, Passed, Covered
<1> QED
  BY <1>6, <1>7, <1>8, <1>9, <1>10, <1>11 DEF Next

LEMMA CoveredInit == Init => Covered
<1> SUFFICES ASSUME Init PROVE Covered
  OBVIOUS
<1>1. \A r \in 1 .. Len(ram) : ~(r < 1)
  OBVIOUS
<1> QED
  BY <1>1 DEF Init, Covered, Passed
-----------------------------------------------------------------------------
(* The size of the output: every block emitted can be charged to a RAM       *)
(* region that has been left, or to the occupied region it was cut off by,   *)
(* and no region is charged twice.                                           *)

Slots == Len(ram) + Len(occupied)

\* Occupied region o has cut something off RAM region r.
HasCut(o, r) ==
  /\ r < ramRegIdx \/ (r = ramRegIdx /\ pc = "occupied" /\ o < occupiedRamRegIdx)
  /\ ram[r].baseAddr < occupied[o].baseAddr
  /\ occupied[o].baseAddr <= ram[r].baseAddr + ram[r].size

IsCharged(slot) ==
  \/ slot < ramRegIdx
  \/ \E o \in 1 .. Len(occupied), r \in 1 .. Len(ram) : slot = Len(ram) + o /\ HasCut(o, r)

Charges(charge) ==
  /\ charge \in [1 .. Len(free) -> 1 .. Slots]
  /\ \A f, g \in 1 .. Len(free) : f # g => charge[f] # charge[g]
  /\ \A f \in 1 .. Len(free) : IsCharged(charge[f])

FitInv ==
  NoWrap /\ RamDisjoint =>
    /\ pc = "occupied" => Region.baseAddr <= currentStart
    /\ \E charge : Charges(charge)

\* A step that emits at most one block and charges it to a slot not yet charged.
LEMMA ChargeStep ==
  ASSUME TypeOK, [Next]_vars, NEW charge, Charges(charge), NEW start, NEW end,
         NEW slot \in 1 .. Slots, free' = Emitted(start, end),
         start < end => ~IsCharged(slot) /\ IsCharged(slot)',
         \A s \in 1 .. Slots : IsCharged(s) => IsCharged(s)'
  PROVE  (\E c : Charges(c))'
<1> DEFINE new == [baseAddr |-> AlignUp(start, ALIGNMENT), size |-> AlignDown(end - start, ALIGNMENT)]
<1>1. Slots' = Slots /\ free \in Seq(Block)
  BY ArgsConstant DEF Slots, TypeOK
<1>2. PICK n \in Nat : n = Len(free)
  BY <1>1
<1>3. PICK c2 : c2 = [f \in 1 .. n + 1 |-> IF f \in 1 .. n THEN charge[f] ELSE slot]
  OBVIOUS
<1>4. /\ \A f \in 1 .. n : charge[f] \in 1 .. Slots /\ IsCharged(charge[f])
      /\ \A f, g \in 1 .. n : f # g => charge[f] # charge[g]
      /\ charge \in [1 .. n -> 1 .. Slots]
  BY <1>2 DEF Charges
<1>5. \A f \in 1 .. n : IsCharged(charge[f])'
  <2> TAKE f \in 1 .. n
  <2>1. PICK s \in 1 .. Slots : s = charge[f] /\ IsCharged(s)
    BY <1>4
  <2>2. IsCharged(s)'
    BY <2>1
  <2> QED
    BY <2>1, <2>2
<1>6. CASE free' = free
  <2>1. Charges(charge)'
    BY <1>1, <1>2, <1>4, <1>5, <1>6 DEF Charges
  <2> QED
    BY <2>1
<1>7. CASE free' # free
  <2>1. start < end /\ free' = Append(free, new)
    BY <1>7 DEF Emitted
  <2> HIDE DEF new
  <2>2. Len(free') = n + 1
    BY <1>1, <1>2, <2>1
  <2>3. \A f \in 1 .. n + 1 : (f \in 1 .. n /\ c2[f] = charge[f]) \/ (f = n + 1 /\ c2[f] = slot)
    BY <1>2, <1>3
  <2>4. c2 \in [1 .. n + 1 -> 1 .. Slots]
    BY <1>3, <1>4
  <2>5. \A f \in 1 .. n + 1 : IsCharged(c2[f])'
    BY <1>5, <2>1, <2>3
  <2>6. \A f \in 1 .. n : charge[f] # slot
    BY <1>4, <2>1
  <2>7. \A f, g \in 1 .. n + 1 : f # g => c2[f] # c2[g]
    BY <1>4, <2>3, <2>6
  <2>8. Charges(c2)'
    BY <1>1, <2>2, <2>4, <2>5, <2>7 DEF Charges
  <2> QED
    BY <2>8
<1> QED
  BY <1>6, <1>7

LEMMA FitStep == TypeOK /\ FitInv /\ [Next]_vars => FitInv'
<1> SUFFICES ASSUME TypeOK, FitInv, [Next]_vars PROVE FitInv'
  OBVIOUS
<1>1. ram' = ram /\ occupied' = occupied
  BY ArgsConstant
<1> SUFFICES ASSUME NoWrap, RamDisjoint
             PROVE  (pc = "occupied" => Region.baseAddr <= currentStart)' /\ (\E c : Charges(c))'
  BY <1>1 DEF FitInv, NoWrap, RamDisjoint
<1>2. PICK charge : Charges(charge)
  BY DEF FitInv
<1>3. pc = "occupied" => Region.baseAddr <= currentStart
  BY DEF FitInv
<1>4. /\ ramRegIdx \in Nat /\ occupiedRamRegIdx \in Nat /\ Len(ram) \in Nat /\ Len(occupied) \in Nat
      /\ ramRegIdx <= Len(ram) + 1
  BY DEF TypeOK
<1>5. ASSUME free' = free, \A s \in 1 .. Slots : IsCharged(s) => IsCharged(s)'
      PROVE  (\E c : Charges(c))'
  <2>1. Slots' = Slots
    BY <1>1 DEF Slots
  <2>2. Charges(charge)'
    <3>1. \A f \in 1 .. Len(free) : charge[f] \in 1 .. Slots /\ IsCharged(charge[f])
      BY <1>2 DEF Charges
    <3> QED
      BY <1>2, <1>5, <2>1, <3>1 DEF Charges, IsCharged
  <2> QED
    BY <2>2
<1>6. CASE EnterRegion
  <2>1. \A s \in 1 .. Slots : IsCharged(s) => IsCharged(s)'
    BY <1>1, <1>6 DEF EnterRegion, IsCharged, HasCut
  <2>2. Region' = Region /\ currentStart' = Region.baseAddr /\ Region.baseAddr \in Nat
    <3>1. Region' = Region /\ currentStart' = Region.baseAddr /\ Region \in Block
      BY <1>6 DEF EnterRegion, Region, TypeOK
    <3> QED
      BY <3>1, BlockNat
  <2> QED
    BY <1>5, <1>6, <2>1, <2>2 DEF EnterRegion
<1>7. CASE SkipOccupied
  <2>1. \A s \in 1 .. Slots : IsCharged(s) => IsCharged(s)'
    <3>1. \A o \in 1 .. Len(occupied) : o < occupiedRamRegIdx => o < occupiedRamRegIdx + 1
      BY <1>4
    <3> QED
      BY <1>1, <1>7, <3>1 DEF SkipOccupied, IsCharged, HasCut
  <2> QED
    BY <1>3, <1>5, <1>7, <2>1 DEF SkipOccupied, Region
<1>8. CASE CutOccupied
  <2>1. /\ Taken \in Block /\ Region \in Block /\ occupiedRamRegIdx \in 1 .. Len(occupied)
        /\ ramRegIdx \in 1 .. Len(ram) /\ pc = "occupied" /\ pc' = "occupied"
        /\ ramRegIdx' = ramRegIdx /\ occupiedRamRegIdx' = occupiedRamRegIdx + 1
        /\ currentStart' = End(Taken) /\ free' = Emitted(currentStart, Taken.baseAddr)
        /\ Region' = Region
    BY <1>8 DEF CutOccupied, TypeOK, Taken, Region
  <2>2. IsNoWrap(Taken) /\ IsNoWrap(Region)
    BY <2>1 DEF NoWrap, Taken, Region
  <2>3. /\ End(Taken) = Taken.baseAddr + Taken.size /\ End(Region) = Region.baseAddr + Region.size
        /\ Taken.baseAddr \in Nat /\ Taken.size \in Nat /\ currentStart \in Nat
        /\ Region.baseAddr \in Nat /\ Region.size \in Nat
    BY <2>1, <2>2, EndOfBlock, BlockNat, AddrLimitAssumption DEF TypeOK, U64
  <2>4. /\ ~(Taken.baseAddr + Taken.size < currentStart)
        /\ ~(Region.baseAddr + Region.size < Taken.baseAddr)
    BY <1>8, <2>3 DEF CutOccupied, Irrelevant
  <2>5. (pc = "occupied" => Region.baseAddr <= currentStart)'
    BY <1>3, <2>1, <2>3, <2>4
  <2>6. PICK slot \in 1 .. Slots : slot = Len(ram) + occupiedRamRegIdx
    BY <1>4, <2>1 DEF Slots
  <2>7. \A s \in 1 .. Slots : IsCharged(s) => IsCharged(s)'
    <3>1. \A o \in 1 .. Len(occupied) : o < occupiedRamRegIdx => o < occupiedRamRegIdx + 1
      BY <1>4
    <3> QED
      BY <1>1, <2>1, <3>1 DEF IsCharged, HasCut
  <2>8. ASSUME currentStart < Taken.baseAddr
        PROVE  ~IsCharged(slot) /\ IsCharged(slot)'
    <3>1. Region.baseAddr < Taken.baseAddr /\ Taken.baseAddr <= Region.baseAddr + Region.size
      BY <1>3, <2>1, <2>3, <2>4, <2>8
    <3>2. IsCharged(slot)'
      <4>1. occupiedRamRegIdx < occupiedRamRegIdx + 1
        BY <1>4
      <4> QED
        BY <1>1, <2>1, <2>6, <3>1, <4>1 DEF IsCharged, HasCut, Taken, Region
    <3>3. ~(slot < ramRegIdx)
      BY <1>4, <2>1, <2>6
    <3>4. ASSUME NEW o \in 1 .. Len(occupied), NEW r \in 1 .. Len(ram),
                 slot = Len(ram) + o, HasCut(o, r)
          PROVE  FALSE
      <4>1. o = occupiedRamRegIdx
        BY <1>4, <2>6, <3>4
      <4>2. /\ r < ramRegIdx /\ ram[r].baseAddr < Taken.baseAddr
            /\ Taken.baseAddr <= ram[r].baseAddr + ram[r].size
        BY <1>4, <3>4, <4>1 DEF HasCut, Taken
      <4>3. ram[r] \in Block /\ ram[r].baseAddr \in Nat /\ ram[r].size \in Nat
        BY BlockNat DEF TypeOK
      <4>4. Overlap(ram[r], Region)
        BY <2>3, <3>1, <4>2, <4>3, AroundAPoint
      <4>5. r # ramRegIdx
        BY <1>4, <4>2
      <4> QED
        BY <2>1, <4>4, <4>5 DEF RamDisjoint, Region
    <3> QED
      BY <3>2, <3>3, <3>4 DEF IsCharged
  <2>9. (\E c : Charges(c))'
    BY <1>2, <2>1, <2>6, <2>7, <2>8, ChargeStep
  <2> QED
    BY <2>5, <2>9
<1>9. CASE LeaveRegion
  <2>1. /\ ramRegIdx \in 1 .. Len(ram) /\ pc = "occupied" /\ pc' = "region"
        /\ ramRegIdx' = ramRegIdx + 1 /\ free' = Emitted(currentStart, End(Region))
    BY <1>9 DEF LeaveRegion, TypeOK
  <2>2. PICK slot \in 1 .. Slots : slot = ramRegIdx
    BY <1>4, <2>1 DEF Slots
  <2>3. \A s \in 1 .. Slots : IsCharged(s) => IsCharged(s)'
    <3>1. \A s \in 1 .. Slots : s < ramRegIdx => s < ramRegIdx + 1
      BY <1>4 DEF Slots
    <3>2. \A r \in 1 .. Len(ram) : r < ramRegIdx \/ r = ramRegIdx => r < ramRegIdx + 1
      BY <1>4
    <3> QED
      BY <1>1, <2>1, <3>1, <3>2 DEF IsCharged, HasCut
  <2>4. ~IsCharged(slot) /\ IsCharged(slot)'
    <3>1. IsCharged(slot)'
      BY <1>4, <2>1, <2>2 DEF IsCharged
    <3>2. \A o \in 1 .. Len(occupied) : slot # Len(ram) + o
      BY <1>4, <2>1, <2>2
    <3> QED
      BY <1>4, <2>2, <3>1, <3>2 DEF IsCharged
  <2>5. (\E c : Charges(c))'
    BY <1>2, <2>1, <2>2, <2>3, <2>4, ChargeStep
  <2> QED
    BY <2>1, <2>5
<1>10. CASE Return
  <2>1. \A s \in 1 .. Slots : IsCharged(s) => IsCharged(s)'
    BY <1>1, <1>10 DEF Return, IsCharged, HasCut
  <2> QED
    BY <1>5, <1>10, <2>1 DEF Return
<1>11. CASE UNCHANGED vars
  <2>1. \A s \in 1 .. Slots : IsCharged(s) => IsCharged(s)'
    BY <1>1, <1>11 DEF vars, IsCharged, HasCut
  <2> QED
    BY <1>3, <1>5, <1>11, <2>1 DEF vars, Region
<1> QED
  BY <1>6, <1>7, <1>8, <1>9, <1>10, <1>11 DEF Next

LEMMA FitInit == Init => FitInv
<1> SUFFICES ASSUME Init PROVE FitInv
  OBVIOUS
<1> DEFINE none == [f \in 1 .. Len(free) |-> 1]
<1>1. free = << >> /\ 1 .. Len(free) = {}
  BY DEF Init
<1>2. Charges(none)
  BY <1>1 DEF Charges
<1> QED
  BY <1>2 DEF Init, FitInv

\* Charging each block to a slot of its own there are no more blocks than slots.
LEMMA ChargesFit == TypeOK /\ FitInv => OutputFits
<1> SUFFICES ASSUME TypeOK, NoWrap, RamDisjoint, FitInv PROVE Len(free) <= Slots
  BY DEF OutputFits, Slots
<1>1. PICK charge : Charges(charge)
  BY DEF FitInv
<1>2. Len(free) \in Nat /\ Slots \in Nat
  BY DEF TypeOK, Slots
<1>3. charge \in Injection(1 .. Len(free), 1 .. Slots)
  BY <1>1 DEF Charges, Injection, IsInjective
<1>4. IsFiniteSet(1 .. Slots) /\ Cardinality(1 .. Slots) = Slots /\ Cardinality(1 .. Len(free)) = Len(free)
  <2>1. ASSUME NEW n \in Nat PROVE IsFiniteSet(1 .. n) /\ Cardinality(1 .. n) = n
    <3>1. IsFiniteSet(1 .. n) /\ Cardinality(1 .. n) = IF 1 > n THEN 0 ELSE n - 1 + 1
      BY FS_Interval
    <3> QED
      BY <3>1
  <2> QED
    BY <1>2, <2>1
<1> QED
  BY <1>2, <1>3, <1>4, FS_Injection

\* However many regions there are and however they lie, one slot per region is room
\* enough for the output.
THEOREM FreeFits == Spec => []OutputFits
BY ChargesFit, TypeInit, TypeStep, FitInit, FitStep, PTL DEF Spec
-----------------------------------------------------------------------------
(* The loops implement FreeMap.                                              *)

\* FreeMap's words, in this module's terms.
AvailableWords ==
  {w \in Words : (\E r \in 1 .. Len(ram) : Within(WordAt(w), ram[r])) /\ ~Blocked(w)}

HandedWords == {w \in Words : Handed(w)}

LEMMA MapTerms ==
  /\ Map!Words = Words
  /\ Map!Available = AvailableWords
  /\ Map!KeepsContract => Aligned /\ Sorted
<1>1. Map!Words = Words
  BY DEF Map!Words, Words, Map!U64, U64, Map!ALIGNMENT, ALIGNMENT
<1>2. \A b, c : (Map!Within(b, c) <=> Within(b, c)) /\ (Map!Overlap(b, c) <=> Overlap(b, c))
  BY DEF Map!Within, Within, Map!Overlap, Overlap
<1>3. \A w : Map!WordAt(w) = WordAt(w)
  BY DEF Map!WordAt, WordAt, Map!ALIGNMENT, ALIGNMENT
<1>4. \A b : (Map!IsNoWrap(b) <=> IsNoWrap(b)) /\ (Map!IsWordAligned(b) <=> IsWordAligned(b))
  BY DEF Map!IsNoWrap, IsNoWrap, Map!IsWordAligned, IsWordAligned, Map!ALIGNMENT, ALIGNMENT
<1>5. Map!Available = AvailableWords
  BY <1>1, <1>2, <1>3 DEF Map!Available, AvailableWords, Blocked
<1>6. Map!KeepsContract => Aligned /\ Sorted
  BY <1>4 DEF Map!KeepsContract, Aligned, NoWrap, WordAligned, Sorted
<1> QED
  BY <1>1, <1>5, <1>6

\* A word of a block that lies in RAM and meets no occupied region is available.
LEMMA HandedIsAvailable == IInv /\ Aligned /\ Sorted => HandedWords \subseteq AvailableWords
<1> SUFFICES ASSUME IInv, Aligned, Sorted, NEW w \in Words, Handed(w)
             PROVE  (\E r \in 1 .. Len(ram) : Within(WordAt(w), ram[r])) /\ ~Blocked(w)
  BY DEF HandedWords, AvailableWords
<1>1. PICK f \in 1 .. Len(free) : Within(WordAt(w), free[f])
  BY DEF Handed
<1>2. PICK r \in 1 .. Len(ram) : Within(free[f], ram[r])
  BY DEF IInv, EmittedBehind
<1>3. free[f] \in Block /\ ram[r] \in Block
  BY DEF IInv, TypeOK
<1>4. /\ w \in Nat /\ WordAt(w).baseAddr = w /\ WordAt(w).size = 8
      /\ free[f].baseAddr \in Nat /\ free[f].size \in Nat
      /\ ram[r].baseAddr \in Nat /\ ram[r].size \in Nat
  BY <1>3, BlockNat, AddrLimitAssumption DEF Words, U64, WordAt, ALIGNMENT
<1>5. Within(WordAt(w), ram[r])
  BY <1>1, <1>2, <1>4, SMTT(30) DEF Within
<1>6. ASSUME NEW o \in 1 .. Len(occupied) PROVE ~Overlap(WordAt(w), occupied[o])
  <2>1. ~Overlap(free[f], occupied[o])
    BY DEF IInv, FreeIsUnoccupied, Aligned
  <2>2. occupied[o] \in Block /\ occupied[o].baseAddr \in Nat /\ occupied[o].size \in Nat
    BY BlockNat DEF IInv, TypeOK
  <2>3. free[f].baseAddr <= w /\ w + 8 <= free[f].baseAddr + free[f].size
    BY <1>1, <1>4 DEF Within
  <2>4. ~(/\ free[f].baseAddr < occupied[o].baseAddr + occupied[o].size
          /\ occupied[o].baseAddr < free[f].baseAddr + free[f].size)
    BY <2>1 DEF Overlap
  <2>5. ~(w < occupied[o].baseAddr + occupied[o].size /\ occupied[o].baseAddr < w + 8)
    <3> DEFINE a == free[f].baseAddr
               b == free[f].size
               x == occupied[o].baseAddr
               y == occupied[o].size
    <3>1. w \in Nat /\ a \in Nat /\ b \in Nat /\ x \in Nat /\ y \in Nat
      BY <1>4, <2>2
    <3>2. a <= w /\ w + 8 <= a + b /\ ~(a < x + y /\ x < a + b)
      BY <2>3, <2>4
    <3>3. ~(w < x + y /\ x < w + 8)
      <4> HIDE DEF a, b, x, y
      <4> QED
        BY <3>1, <3>2
    <3> QED
      BY <3>3
  <2> QED
    BY <1>4, <2>5 DEF Overlap
<1> QED
  BY <1>5, <1>6 DEF Blocked

\* Past the last RAM region, nothing available is missing.
LEMMA AvailableIsHanded ==
  TypeOK /\ Covered /\ ramRegIdx > Len(ram) => AvailableWords \subseteq HandedWords
<1> SUFFICES ASSUME TypeOK, Covered, ramRegIdx > Len(ram), NEW w \in AvailableWords
             PROVE  Handed(w)
  BY DEF AvailableWords, HandedWords
<1>1. PICK r \in 1 .. Len(ram) : Within(WordAt(w), ram[r])
  BY DEF AvailableWords
<1>2. w \in Words /\ ~Blocked(w)
  BY DEF AvailableWords
<1>3. Passed(w, r)
  BY <1>1 DEF Passed, TypeOK
<1> QED
  BY <1>2, <1>3 DEF Covered

LEMMA RefinementStep ==
  IInv /\ NoWrap /\ Covered /\ [Next]_vars => [Map!Next]_(Map!vars)
<1> SUFFICES ASSUME IInv, NoWrap, Covered, [Next]_vars PROVE [Map!Next]_(Map!vars)
  OBVIOUS
<1>1. TypeOK /\ IInv' /\ ram' = ram /\ occupied' = occupied
  BY InvStep, ArgsConstant DEF IInv
<1>2. /\ {w \in Words : \E f \in 1 .. Len(free) : Within(WordAt(w), free[f])} = HandedWords
      /\ {w \in Words : \E f \in 1 .. Len(free) : Within(WordAt(w), free[f])}' = HandedWords'
  BY DEF HandedWords, Handed
<1>3. ASSUME pc # "done", pc' # "done", free' = free \/ \E start, end : free' = Emitted(start, end)
      PROVE  Map!HandOut
  <2>1. HandedWords' \in SUBSET Words
    BY DEF HandedWords
  <2>2. HandedWords \subseteq HandedWords'
    BY <1>1, <1>3, EmittedGrows DEF HandedWords, Handed, TypeOK
  <2>3. ASSUME Aligned, Sorted PROVE HandedWords' \subseteq AvailableWords
    <3>1. Aligned' /\ Sorted'
      BY <2>3, ArgsConstant
    <3>2. (IInv /\ Aligned /\ Sorted => HandedWords \subseteq AvailableWords)'
      BY HandedIsAvailable, PTL
    <3>3. AvailableWords' = AvailableWords
      BY <1>1 DEF AvailableWords, Blocked
    <3> QED
      BY <1>1, <3>1, <3>2, <3>3
  <2> QED
    BY <1>1, <1>2, <1>3, <2>1, <2>2, <2>3, MapTerms DEF Map!HandOut
<1>4. CASE EnterRegion \/ SkipOccupied
  BY <1>3, <1>4 DEF EnterRegion, SkipOccupied, Map!Next
<1>5. CASE CutOccupied \/ LeaveRegion
  BY <1>3, <1>5 DEF CutOccupied, LeaveRegion, Map!Next
<1>6. CASE Return
  <2>1. pc = "region" /\ pc' = "done" /\ ramRegIdx > Len(ram) /\ free' = free
    BY <1>6 DEF Return
  <2>2. AvailableWords \subseteq HandedWords
    BY <1>1, <2>1, AvailableIsHanded
  <2>3. HandedWords' = HandedWords
    BY <2>1 DEF HandedWords, Handed
  <2> QED
    BY <1>1, <1>2, <2>1, <2>2, <2>3, MapTerms DEF Map!Next, Map!Return
<1>7. CASE UNCHANGED vars
  <2>1. HandedWords' = HandedWords
    BY <1>7 DEF vars, HandedWords, Handed
  <2> QED
    BY <1>1, <1>2, <1>7, <2>1 DEF vars, Map!vars
<1> QED
  BY <1>4, <1>5, <1>6, <1>7 DEF Next

\* For argument lists of every length that do not wrap, word-aligned and sorted or not,
\* the loops hand out words as FreeMap does and return with none missing.
THEOREM Refinement ==
  ASSUME \A m \in MemMaps :
           /\ \A r \in 1 .. Len(m.ram) : IsNoWrap(m.ram[r])
           /\ \A o \in 1 .. Len(m.occupied) : IsNoWrap(m.occupied[o])
  PROVE  Spec => Map!Spec
<1>1. Init => NoWrap /\ Covered /\ Map!Init
  <2> SUFFICES ASSUME Init PROVE NoWrap /\ Covered /\ Map!Init
    OBVIOUS
  <2>1. PICK m \in MemMaps : ram = m.ram /\ occupied = m.occupied
    BY DEF Init
  <2>2. NoWrap
    BY <2>1 DEF NoWrap
  <2>3. m \in [ram : Seq(Block), occupied : Seq(Block)]
    BY MemMapsAssumption
  <2>4. [ram |-> ram, occupied |-> occupied] = m
    BY <2>1, <2>3
  <2> QED
    BY <2>2, <2>4, CoveredInit DEF Init, Map!Init
<1>2. NoWrap /\ [Next]_vars => NoWrap'
  BY ArgsConstant DEF NoWrap
<1>3. IInv => TypeOK
  BY DEF IInv
<1> QED
  BY <1>1, <1>2, <1>3, Invariant, CoveredStep, RefinementStep, PTL DEF Spec, Map!Spec
-----------------------------------------------------------------------------
(* Termination.                                                            *)

\* How many steps the loops still take: a region costs one for each occupied region, one
\* to enter and one to leave.
StepsLeft ==
  LET round == Len(occupied) + 2 IN
  CASE pc = "region"   -> ((Len(ram) + 1 - ramRegIdx) * round) + 1
    [] pc = "occupied" -> ((Len(ram) - ramRegIdx) * round) + (Len(occupied) + 1 - occupiedRamRegIdx) + 2
    [] pc = "done"     -> 0

LEMMA StepCounts == TypeOK /\ Next => StepsLeft' = StepsLeft - 1
<1> SUFFICES ASSUME TypeOK, Next PROVE StepsLeft' = StepsLeft - 1
  OBVIOUS
<1> DEFINE m == Len(ram)
           n == Len(occupied)
           i == ramRegIdx
           j == occupiedRamRegIdx
<1>1. m \in Nat /\ n \in Nat /\ i \in Nat /\ j \in Nat /\ ram' = ram /\ occupied' = occupied
  BY ArgsConstant DEF TypeOK
<1>2. CASE EnterRegion
  <2>1. pc = "region" /\ pc' = "occupied" /\ ramRegIdx' = i /\ occupiedRamRegIdx' = 1
    BY <1>2 DEF EnterRegion
  <2>2. StepsLeft = ((m + 1 - i) * (n + 2)) + 1 /\ StepsLeft' = ((m - i) * (n + 2)) + (n + 1 - 1) + 2
    BY <1>1, <2>1 DEF StepsLeft
  <2> HIDE DEF m, n, i
  <2>3. (m + 1 - i) * (n + 2) = ((m - i) * (n + 2)) + (n + 2) /\ (m - i) * (n + 2) \in Int
    BY <1>1
  <2> QED
    BY <1>1, <2>2, <2>3
<1>3. CASE SkipOccupied \/ CutOccupied
  <2>1. pc = "occupied" /\ pc' = "occupied" /\ ramRegIdx' = i /\ occupiedRamRegIdx' = j + 1
    BY <1>3 DEF SkipOccupied, CutOccupied
  <2>2. /\ StepsLeft = ((m - i) * (n + 2)) + (n + 1 - j) + 2
        /\ StepsLeft' = ((m - i) * (n + 2)) + (n + 1 - (j + 1)) + 2
    BY <1>1, <2>1 DEF StepsLeft
  <2> HIDE DEF m, n, i, j
  <2>3. (m - i) * (n + 2) \in Int
    BY <1>1
  <2> QED
    BY <1>1, <2>2, <2>3
<1>4. CASE LeaveRegion
  <2>1. pc = "occupied" /\ pc' = "region" /\ ramRegIdx' = i + 1 /\ j = n + 1
    BY <1>1, <1>4 DEF LeaveRegion, TypeOK
  <2>2. /\ StepsLeft = ((m - i) * (n + 2)) + (n + 1 - j) + 2
        /\ StepsLeft' = ((m + 1 - (i + 1)) * (n + 2)) + 1
    BY <1>1, <2>1 DEF StepsLeft
  <2> HIDE DEF m, n, i, j
  <2>3. m + 1 - (i + 1) = m - i /\ (m - i) * (n + 2) \in Int
    BY <1>1
  <2> QED
    BY <1>1, <2>1, <2>2, <2>3
<1>5. CASE Return
  <2>1. pc = "region" /\ pc' = "done" /\ i = m + 1
    BY <1>1, <1>5 DEF Return, TypeOK
  <2>2. StepsLeft = ((m + 1 - i) * (n + 2)) + 1 /\ StepsLeft' = 0
    BY <2>1 DEF StepsLeft
  <2> HIDE DEF m, n, i
  <2>3. m + 1 - i = 0
    BY <1>1, <2>1
  <2> QED
    BY <1>1, <2>2, <2>3
<1> QED
  BY <1>2, <1>3, <1>4, <1>5 DEF Next

LEMMA StepsRemain == TypeOK => StepsLeft \in Nat /\ (StepsLeft = 0 <=> pc = "done")
<1> SUFFICES ASSUME TypeOK PROVE StepsLeft \in Nat /\ (StepsLeft = 0 <=> pc = "done")
  OBVIOUS
<1> DEFINE m == Len(ram)
           n == Len(occupied)
           i == ramRegIdx
           j == occupiedRamRegIdx
<1>1. m \in Nat /\ n \in Nat /\ i \in 1 .. m + 1 /\ j \in 1 .. n + 1 /\ pc \in {"region", "occupied", "done"}
  BY DEF TypeOK
<1>2. pc = "occupied" => i <= m
  BY DEF TypeOK
<1>3. CASE pc = "region"
  <2>1. StepsLeft = ((m + 1 - i) * (n + 2)) + 1
    BY <1>3 DEF StepsLeft
  <2> HIDE DEF m, n, i
  <2>2. (m + 1 - i) * (n + 2) \in Nat
    BY <1>1
  <2> QED
    BY <1>3, <2>1, <2>2
<1>4. CASE pc = "occupied"
  <2>1. StepsLeft = ((m - i) * (n + 2)) + (n + 1 - j) + 2
    BY <1>4 DEF StepsLeft
  <2> HIDE DEF m, n, i, j
  <2>2. (m - i) * (n + 2) \in Nat /\ n + 1 - j \in Nat
    BY <1>1, <1>2, <1>4
  <2> QED
    BY <1>4, <2>1, <2>2
<1>5. CASE pc = "done"
  BY <1>5 DEF StepsLeft
<1> QED
  BY <1>1, <1>3, <1>4, <1>5

\* A step is left until the call has returned.
Counts ==
  /\ StepsLeft \in Nat
  /\ StepsLeft = 0 <=> pc = "done"

\* The call is over after exactly one step more than each RAM region takes, two and one
\* for each occupied region: whatever the regions are, no loop of
\* QKEmitFreeAlignedMemBlocks runs for ever and none starts again.
THEOREM Terminates ==
  /\ Init => StepsLeft = (Len(ram) * (Len(occupied) + 2)) + 1
  /\ Spec => []Counts /\ [][StepsLeft' = StepsLeft - 1]_vars
<1>1. Init => StepsLeft = (Len(ram) * (Len(occupied) + 2)) + 1
  <2> SUFFICES ASSUME Init PROVE StepsLeft = (Len(ram) * (Len(occupied) + 2)) + 1
    OBVIOUS
  <2>1. Len(ram) \in Nat /\ pc = "region" /\ ramRegIdx = 1
    BY TypeInit DEF Init, TypeOK
  <2>2. Len(ram) + 1 - 1 = Len(ram)
    BY <2>1
  <2> QED
    BY <2>1, <2>2 DEF StepsLeft
<1>2. TypeOK => Counts
  BY StepsRemain DEF Counts
<1> QED
  BY <1>1, <1>2, StepCounts, TypeInit, TypeStep, PTL DEF Spec
-----------------------------------------------------------------------------
(* Addresses off the word grid.  The code rounds the start of a gap up and   *)
(* keeps the size it had: the block handed out may reach past the gap's end, *)
(* by less than a word, and by nothing where gaps start on the grid.         *)

\* Gaps start at the bases of RAM regions and the ends of occupied ones.
StartsAligned ==
  /\ \A r \in 1 .. Len(ram) : ram[r].baseAddr % 8 = 0
  /\ \A o \in 1 .. Len(occupied) : (occupied[o].baseAddr + occupied[o].size) % 8 = 0

Slack == IF StartsAligned THEN 0 ELSE 7

\* A block without the last bytes that rounding may have put past the gap.
Core(b) == [baseAddr |-> b.baseAddr, size |-> b.size - Slack]

StartOfRest ==
  pc = "occupied" =>
    /\ StartsAligned => currentStart % 8 = 0
    /\ currentStart + 8 <= AddrLimit
    /\ Region.baseAddr <= currentStart

CoresBehind ==
  \A f \in 1 .. Len(free) :
    /\ free[f].size >= 8
    /\ \E r \in 1 .. Len(ram) : Behind(Core(free[f]), r) /\ Within(Core(free[f]), ram[r])

CoresUnoccupied ==
  Sorted => \A f \in 1 .. Len(free), o \in 1 .. Len(occupied) : ~Overlap(Core(free[f]), occupied[o])

CoresDisjoint ==
  RamDisjoint => \A f, g \in 1 .. Len(free) : f # g => ~Overlap(Core(free[f]), Core(free[g]))

CoreInv ==
  /\ TypeOK
  /\ NoWrap => StartOfRest /\ LookedAt /\ CoresBehind /\ CoresUnoccupied /\ CoresDisjoint

LEMMA SlackSize == Slack \in 0 .. 7 /\ (StartsAligned => Slack = 0) /\ (~StartsAligned => Slack = 7)
BY DEF Slack

LEMMA GridConstant ==
  ASSUME [Next]_vars
  PROVE  NoWrap' = NoWrap /\ StartsAligned' = StartsAligned /\ Slack' = Slack
<1>1. ram' = ram /\ occupied' = occupied
  BY ArgsConstant
<1>2. NoWrap' = NoWrap /\ StartsAligned' = StartsAligned
  BY <1>1 DEF NoWrap, StartsAligned
<1> QED
  BY <1>2 DEF Slack

\* The whole word sizes that rounding gives.
LEMMA RoundedGap ==
  ASSUME NEW start \in U64, NEW end \in U64, start + 8 <= AddrLimit, start < end,
         AlignDown(end - start, ALIGNMENT) > 0, StartsAligned => start % 8 = 0
  PROVE  /\ AlignDown(end - start, ALIGNMENT) >= 8
         /\ start <= AlignUp(start, ALIGNMENT)
         /\ AlignUp(start, ALIGNMENT) + AlignDown(end - start, ALIGNMENT) - Slack <= end
<1>1. start \in Nat /\ end \in Nat /\ AddrLimit \in Nat
  BY AddrLimitAssumption DEF U64
<1>2. AlignUp(start, ALIGNMENT) = (start + 7) - ((start + 7) % 8)
  <2>1. (start + 8 - 1) % AddrLimit = start + 7
    BY <1>1
  <2> QED
    BY <2>1 DEF AlignUp, AlignDown, ALIGNMENT
<1>3. /\ start <= AlignUp(start, ALIGNMENT) /\ AlignUp(start, ALIGNMENT) <= start + 7
      /\ start % 8 = 0 => AlignUp(start, ALIGNMENT) = start
      /\ AlignUp(start, ALIGNMENT) \in Nat
  BY <1>1, <1>2
<1>4. /\ AlignDown(end - start, ALIGNMENT) >= 8
      /\ AlignDown(end - start, ALIGNMENT) <= end - start
      /\ AlignDown(end - start, ALIGNMENT) \in Nat
  <2>1. PICK n \in Nat : n = end - start
    BY <1>1
  <2>2. AlignDown(n, ALIGNMENT) = n - (n % 8) /\ n - (n % 8) > 0
    BY <2>1 DEF AlignDown, ALIGNMENT
  <2> QED
    BY <2>1, <2>2
<1> QED
  BY <1>1, <1>3, <1>4, SlackSize

\* The core of what is emitted for a gap lies in the gap.
LEMMA EmittedCore ==
  ASSUME free \in Seq(Block), NEW start \in U64, NEW end \in U64, start + 8 <= AddrLimit,
         StartsAligned => start % 8 = 0, free' = Emitted(start, end)
  PROVE  /\ \A f \in 1 .. Len(free) : f \in 1 .. Len(free') /\ free'[f] = free[f]
         /\ \A f \in 1 .. Len(free') :
              f \notin 1 .. Len(free) =>
                /\ f = Len(free) + 1 /\ free'[f].size >= 8
                /\ free'[f].baseAddr \in Nat /\ free'[f].size \in Nat
                /\ start <= free'[f].baseAddr
                /\ free'[f].baseAddr + free'[f].size - Slack <= end
<1>1. CASE start < end /\ AlignDown(end - start, ALIGNMENT) > 0
  <2> DEFINE new == [baseAddr |-> AlignUp(start, ALIGNMENT),
                     size |-> AlignDown(end - start, ALIGNMENT)]
  <2>1. end - start \in U64
    BY <1>1, AddrLimitAssumption DEF U64
  <2>2. new \in Block
    BY <2>1, RoundingType DEF Block
  <2>3. new.baseAddr \in Nat /\ new.size \in Nat
    BY <2>2, BlockNat
  <2>4. new.size >= 8 /\ start <= new.baseAddr /\ new.baseAddr + new.size - Slack <= end
    BY <1>1, RoundedGap
  <2>5. free' = Append(free, new)
    BY <1>1 DEF Emitted
  <2> HIDE DEF new
  <2> QED
    BY <2>2, <2>3, <2>4, <2>5
<1>2. CASE ~(start < end /\ AlignDown(end - start, ALIGNMENT) > 0)
  BY <1>2 DEF Emitted
<1> QED
  BY <1>1, <1>2

LEMMA CoreOf ==
  ASSUME NEW b, b.baseAddr \in Nat, b.size \in Nat, b.size >= 8
  PROVE  /\ Core(b).baseAddr = b.baseAddr /\ Core(b).size \in Nat
         /\ Core(b).baseAddr + Core(b).size = b.baseAddr + b.size - Slack
BY SlackSize DEF Core

\* Blocks on different sides of an address, or of a span, do not overlap.
LEMMA SidesApart ==
  ASSUME NEW b, NEW c, NEW p \in Nat, NEW q \in Nat,
         b.baseAddr \in Nat, b.size \in Nat, c.baseAddr \in Nat, c.size \in Nat,
         p <= b.baseAddr, b.baseAddr + b.size <= q,
         c.baseAddr + c.size <= p \/ q <= c.baseAddr
  PROVE  ~Overlap(b, c) /\ ~Overlap(c, b)
BY DEF Overlap

\* A block in a span of a region is in the region.
LEMMA SpanWithin ==
  ASSUME NEW b, NEW r, NEW p \in Nat, NEW q \in Nat,
         b.baseAddr \in Nat, b.size \in Nat, r.baseAddr \in Nat, r.size \in Nat,
         p <= b.baseAddr, b.baseAddr + b.size <= q, r.baseAddr <= p, q <= r.baseAddr + r.size
  PROVE  Within(b, r)
BY DEF Within

\* Blocks within regions that do not overlap do not either.
LEMMA WithinTwo ==
  ASSUME NEW b, NEW c, NEW r, NEW s,
         b.baseAddr \in Nat, b.size \in Nat, c.baseAddr \in Nat, c.size \in Nat,
         r.baseAddr \in Nat, r.size \in Nat, s.baseAddr \in Nat, s.size \in Nat,
         Within(b, r), Within(c, s), ~Overlap(r, s)
  PROVE  ~Overlap(b, c) /\ ~Overlap(c, b)
BY DEF Overlap, Within

LEMMA CoreInit == Init => CoreInv
<1> SUFFICES ASSUME Init PROVE CoreInv
  OBVIOUS
<1>1. TypeOK
  BY TypeInit
<1> QED
  BY <1>1 DEF Init, CoreInv, StartOfRest, LookedAt, CoresBehind, CoresUnoccupied, CoresDisjoint

\* What both kinds of emitting step do to the cores.
LEMMA CoreEmit ==
  ASSUME CoreInv, NoWrap, [Next]_vars, pc = "occupied", NEW end \in U64,
         end <= Region.baseAddr + Region.size, free' = Emitted(currentStart, end),
         Sorted =>
           \A o \in 1 .. Len(occupied) :
             \/ occupied[o].baseAddr + occupied[o].size <= currentStart
             \/ end <= occupied[o].baseAddr
  PROVE  /\ CoresUnoccupied' /\ CoresDisjoint'
         /\ \A f \in 1 .. Len(free') :
              \/ f \in 1 .. Len(free) /\ free'[f] = free[f]
              \/ /\ free'[f].size >= 8 /\ free'[f].baseAddr \in Nat /\ free'[f].size \in Nat
                 /\ Region.baseAddr <= free'[f].baseAddr
                 /\ free'[f].baseAddr + free'[f].size - Slack <= end
<1>1. /\ free \in Seq(Block) /\ currentStart \in U64 /\ currentStart + 8 <= AddrLimit
      /\ StartsAligned => currentStart % 8 = 0
      /\ Region.baseAddr <= currentStart
      /\ ramRegIdx \in 1 .. Len(ram) /\ Region \in Block
      /\ CoresBehind /\ CoresUnoccupied /\ CoresDisjoint
  BY DEF CoreInv, TypeOK, StartOfRest, Region
<1>2. /\ currentStart \in Nat /\ end \in Nat /\ Region.baseAddr \in Nat /\ Region.size \in Nat
  BY <1>1, BlockNat, AddrLimitAssumption DEF U64
<1>3. /\ \A f \in 1 .. Len(free) : f \in 1 .. Len(free') /\ free'[f] = free[f]
      /\ \A f \in 1 .. Len(free') :
           f \notin 1 .. Len(free) =>
             /\ f = Len(free) + 1 /\ free'[f].size >= 8
             /\ free'[f].baseAddr \in Nat /\ free'[f].size \in Nat
             /\ currentStart <= free'[f].baseAddr
             /\ free'[f].baseAddr + free'[f].size - Slack <= end
  BY <1>1, EmittedCore
<1>4. /\ ram' = ram /\ occupied' = occupied /\ Sorted' = Sorted /\ RamDisjoint' = RamDisjoint
      /\ Slack' = Slack
  BY ArgsConstant, GridConstant
<1>5. ASSUME NEW f \in 1 .. Len(free)
      PROVE  /\ Core(free[f]).baseAddr \in Nat /\ Core(free[f]).size \in Nat
             /\ \E r \in 1 .. Len(ram) : Behind(Core(free[f]), r) /\ Within(Core(free[f]), ram[r])
  <2>1. free[f] \in Block
    BY <1>1
  <2>2. free[f].baseAddr \in Nat /\ free[f].size \in Nat /\ free[f].size >= 8
    BY <1>1, <2>1, BlockNat DEF CoresBehind
  <2> QED
    BY <1>1, <2>2, CoreOf DEF CoresBehind
<1>6. ASSUME NEW f \in 1 .. Len(free'), f \notin 1 .. Len(free)
      PROVE  /\ Core(free'[f]).baseAddr \in Nat /\ Core(free'[f]).size \in Nat
             /\ currentStart <= Core(free'[f]).baseAddr
             /\ Core(free'[f]).baseAddr + Core(free'[f]).size <= end
  BY <1>3, <1>6, CoreOf
<1>7. CoresUnoccupied'
  <2> SUFFICES ASSUME Sorted, NEW f \in 1 .. Len(free'), NEW o \in 1 .. Len(occupied)
               PROVE  ~Overlap(Core(free'[f]), occupied[o])
    BY <1>4 DEF CoresUnoccupied, Core, Overlap
  <2>1. CASE f \in 1 .. Len(free)
    BY <1>1, <1>3, <2>1 DEF CoresUnoccupied
  <2>2. CASE f \notin 1 .. Len(free)
    <3>1. occupied[o].baseAddr \in Nat /\ occupied[o].size \in Nat
      <4>1. occupied[o] \in Block
        BY DEF CoreInv, TypeOK
      <4> QED
        BY <4>1, BlockNat
    <3>2. \/ occupied[o].baseAddr + occupied[o].size <= currentStart
          \/ end <= occupied[o].baseAddr
      OBVIOUS
    <3>3. /\ Core(free'[f]).baseAddr \in Nat /\ Core(free'[f]).size \in Nat
          /\ currentStart <= Core(free'[f]).baseAddr
          /\ Core(free'[f]).baseAddr + Core(free'[f]).size <= end
      BY <1>6, <2>2
    <3> QED
      BY <1>2, <3>1, <3>2, <3>3, SidesApart
  <2> QED
    BY <2>1, <2>2
<1>8. ASSUME RamDisjoint, NEW f \in 1 .. Len(free), NEW g \in 1 .. Len(free'),
             g \notin 1 .. Len(free)
      PROVE  ~Overlap(Core(free[f]), Core(free'[g])) /\ ~Overlap(Core(free'[g]), Core(free[f]))
  <2>1. PICK b, c : b = Core(free[f]) /\ c = Core(free'[g])
    OBVIOUS
  <2> SUFFICES ~Overlap(b, c) /\ ~Overlap(c, b)
    BY <2>1
  <2>2. /\ b.baseAddr \in Nat /\ b.size \in Nat /\ c.baseAddr \in Nat /\ c.size \in Nat
        /\ currentStart <= c.baseAddr /\ c.baseAddr + c.size <= end
    BY <1>5, <1>6, <1>8, <2>1
  <2>3. PICK r \in 1 .. Len(ram) : Behind(b, r) /\ Within(b, ram[r])
    BY <1>5, <2>1
  <2>4. CASE r = ramRegIdx /\ b.baseAddr + b.size <= currentStart
    BY <1>2, <2>2, <2>4, SidesApart
  <2>5. CASE r < ramRegIdx
    <3>1. PICK mine, other : mine = Region /\ other = ram[r]
      OBVIOUS
    <3>2. ~Overlap(other, mine)
      BY <1>1, <1>8, <2>5, <3>1 DEF RamDisjoint, Region
    <3>3. other.baseAddr \in Nat /\ other.size \in Nat
      <4>1. ram[r] \in Block
        BY DEF CoreInv, TypeOK
      <4> QED
        BY <3>1, <4>1, BlockNat
    <3>4. mine.baseAddr \in Nat /\ mine.size \in Nat
      BY <1>2, <3>1
    <3>5. Within(b, other)
      BY <2>3, <3>1
    <3>6. Within(c, mine)
      <4>1. mine.baseAddr <= currentStart /\ end <= mine.baseAddr + mine.size
        BY <1>1, <3>1
      <4> QED
        BY <1>2, <2>2, <3>4, <4>1, SpanWithin
    <3> QED
      BY <2>2, <3>2, <3>3, <3>4, <3>5, <3>6, WithinTwo
  <2> QED
    BY <2>3, <2>4, <2>5 DEF Behind
<1>9. CoresDisjoint'
  <2> SUFFICES ASSUME RamDisjoint, NEW f \in 1 .. Len(free'), NEW g \in 1 .. Len(free'), f # g
               PROVE  ~Overlap(Core(free'[f]), Core(free'[g]))
    BY <1>4 DEF CoresDisjoint, Core, Overlap
  <2>1. CASE f \in 1 .. Len(free) /\ g \in 1 .. Len(free)
    BY <1>1, <1>3, <2>1 DEF CoresDisjoint
  <2>2. CASE f \in 1 .. Len(free) /\ g \notin 1 .. Len(free)
    BY <1>3, <1>8, <2>2
  <2>3. CASE f \notin 1 .. Len(free) /\ g \in 1 .. Len(free)
    BY <1>3, <1>8, <2>3
  <2>4. CASE f \notin 1 .. Len(free) /\ g \notin 1 .. Len(free)
    BY <1>3, <2>4
  <2> QED
    BY <2>1, <2>2, <2>3, <2>4
<1>10. ASSUME NEW f \in 1 .. Len(free'), f \notin 1 .. Len(free)
       PROVE  Region.baseAddr <= free'[f].baseAddr
  BY <1>1, <1>2, <1>3, <1>10
<1> QED
  BY <1>3, <1>7, <1>9, <1>10

\* Blocks of the list already and new ones, wherever the step left the loops.
LEMMA CoresMove ==
  ASSUME CoreInv, NoWrap, [Next]_vars, pc = "occupied", NEW end \in Nat,
         end <= Region.baseAddr + Region.size,
         \A f \in 1 .. Len(free') :
           \/ f \in 1 .. Len(free) /\ free'[f] = free[f]
           \/ /\ free'[f].size >= 8 /\ free'[f].baseAddr \in Nat /\ free'[f].size \in Nat
              /\ Region.baseAddr <= free'[f].baseAddr
              /\ free'[f].baseAddr + free'[f].size - Slack <= end,
         \/ ramRegIdx' = ramRegIdx + 1
         \/ /\ ramRegIdx' = ramRegIdx /\ pc' = "occupied"
            /\ currentStart <= currentStart' /\ end <= currentStart'
  PROVE  CoresBehind'
<1>1. ram' = ram /\ Slack' = Slack
  BY ArgsConstant, GridConstant
<1>2. /\ TypeOK /\ TypeOK' /\ CoresBehind /\ ramRegIdx \in 1 .. Len(ram)
      /\ Region.baseAddr \in Nat /\ Region.size \in Nat
  <2>1. TypeOK /\ TypeOK' /\ CoresBehind /\ ramRegIdx \in 1 .. Len(ram) /\ Region \in Block
    BY TypeStep DEF CoreInv, TypeOK, Region
  <2> QED
    BY <2>1, BlockNat
<1>3. currentStart \in Nat /\ currentStart' \in Nat
  BY <1>2, AddrLimitAssumption DEF TypeOK, U64
<1> SUFFICES ASSUME NEW f \in 1 .. Len(free')
             PROVE  /\ free'[f].size >= 8
                    /\ \E r \in 1 .. Len(ram) :
                         Behind(Core(free[f]), r)' /\ Within(Core(free'[f]), ram[r])
  BY <1>1 DEF CoresBehind, Core, Within
<1>4. Core(free[f])' = Core(free'[f])
  BY <1>1 DEF Core
<1>5. CASE f \in 1 .. Len(free) /\ free'[f] = free[f]
  <2>1. PICK r \in 1 .. Len(ram) : Behind(Core(free[f]), r) /\ Within(Core(free[f]), ram[r])
    BY <1>2, <1>5 DEF CoresBehind
  <2>2. Core(free[f]).baseAddr + Core(free[f]).size \in Int
    <3>1. free[f] \in Block
      <4>1. free \in Seq(Block)
        BY DEF CoreInv, TypeOK
      <4> QED
        BY <1>5, <4>1
    <3>2. free[f].size >= 8
      BY <1>2, <1>5 DEF CoresBehind
    <3> QED
      BY <3>1, <3>2, BlockNat, CoreOf
  <2>3. Behind(Core(free[f]), r)'
    BY <1>2, <1>3, <1>4, <1>5, <2>1, <2>2 DEF Behind
  <2>4. free'[f].size >= 8
    BY <1>2, <1>5 DEF CoresBehind
  <2> QED
    BY <1>5, <2>1, <2>3, <2>4
<1>6. CASE /\ free'[f].size >= 8 /\ free'[f].baseAddr \in Nat /\ free'[f].size \in Nat
           /\ Region.baseAddr <= free'[f].baseAddr
           /\ free'[f].baseAddr + free'[f].size - Slack <= end
  <2>1. /\ Core(free'[f]).baseAddr \in Nat /\ Core(free'[f]).size \in Nat
        /\ Region.baseAddr <= Core(free'[f]).baseAddr
        /\ Core(free'[f]).baseAddr + Core(free'[f]).size <= end
    BY <1>6, CoreOf
  <2>2. PICK r \in 1 .. Len(ram) : r = ramRegIdx
    BY <1>2
  <2>3. Within(Core(free'[f]), ram[r])
    <3>1. PICK b : b = Core(free'[f])
      OBVIOUS
    <3>2. PICK region : region = Region
      OBVIOUS
    <3>3. Within(b, region)
      <4>1. /\ b.baseAddr \in Nat /\ b.size \in Nat
            /\ region.baseAddr \in Nat /\ region.size \in Nat
        BY <1>2, <2>1, <3>1, <3>2
      <4>2. region.baseAddr <= b.baseAddr /\ b.baseAddr + b.size <= end
        BY <2>1, <3>1, <3>2
      <4>3. end <= region.baseAddr + region.size
        BY <3>2
      <4> QED
        BY <4>1, <4>2, <4>3 DEF Within
    <3> QED
      BY <2>2, <3>1, <3>2, <3>3 DEF Region
  <2>4. \/ r < ramRegIdx'
        \/ /\ r = ramRegIdx' /\ pc' = "occupied"
           /\ Core(free'[f]).baseAddr + Core(free'[f]).size <= currentStart'
    <3>1. CASE ramRegIdx' = ramRegIdx + 1
      BY <1>2, <2>2, <3>1
    <3>2. CASE ramRegIdx' = ramRegIdx /\ pc' = "occupied" /\ end <= currentStart'
      BY <1>3, <2>1, <2>2, <3>2
    <3> QED
      BY <3>1, <3>2
  <2>5. Behind(Core(free[f]), r)'
    BY <1>4, <2>4 DEF Behind
  <2> QED
    BY <1>6, <2>3, <2>5
<1> QED
  BY <1>5, <1>6

LEMMA CoreStep == CoreInv /\ [Next]_vars => CoreInv'
<1> SUFFICES ASSUME CoreInv, [Next]_vars, NoWrap
             PROVE  StartOfRest' /\ LookedAt' /\ CoresBehind' /\ CoresUnoccupied' /\ CoresDisjoint'
  BY TypeStep, GridConstant DEF CoreInv
<1>1. /\ TypeOK /\ TypeOK' /\ StartOfRest /\ LookedAt
      /\ CoresBehind /\ CoresUnoccupied /\ CoresDisjoint
  BY TypeStep DEF CoreInv
<1>2. /\ ram' = ram /\ occupied' = occupied /\ Sorted' = Sorted /\ RamDisjoint' = RamDisjoint
      /\ StartsAligned' = StartsAligned /\ Slack' = Slack
  BY ArgsConstant, GridConstant
<1>3. free' = free => CoresUnoccupied' /\ CoresDisjoint'
  BY <1>1, <1>2 DEF CoresUnoccupied, CoresDisjoint, Core, Overlap
<1>4. ASSUME free' = free, ramRegIdx' = ramRegIdx, currentStart' = currentStart, pc' = pc
      PROVE  CoresBehind'
  BY <1>1, <1>2, <1>4 DEF CoresBehind, Behind, Core, Within
<1>5. \A r \in 1 .. Len(ram) :
        /\ ram[r] \in Block /\ ram[r].baseAddr \in Nat /\ ram[r].size \in Nat
        /\ End(ram[r]) = ram[r].baseAddr + ram[r].size /\ End(ram[r]) + 8 <= AddrLimit
  <2> SUFFICES ASSUME NEW r \in 1 .. Len(ram)
               PROVE  /\ ram[r] \in Block /\ ram[r].baseAddr \in Nat /\ ram[r].size \in Nat
                      /\ End(ram[r]) = ram[r].baseAddr + ram[r].size
                      /\ End(ram[r]) + 8 <= AddrLimit
    OBVIOUS
  <2>1. ram[r] \in Block /\ IsNoWrap(ram[r])
    BY <1>1 DEF TypeOK, NoWrap
  <2> QED
    BY <2>1, BlockNat, EndOfBlock
<1>6. \A o \in 1 .. Len(occupied) :
        /\ occupied[o] \in Block /\ occupied[o].baseAddr \in Nat /\ occupied[o].size \in Nat
        /\ End(occupied[o]) = occupied[o].baseAddr + occupied[o].size
        /\ End(occupied[o]) + 8 <= AddrLimit
  <2> SUFFICES ASSUME NEW o \in 1 .. Len(occupied)
               PROVE  /\ occupied[o] \in Block
                      /\ occupied[o].baseAddr \in Nat /\ occupied[o].size \in Nat
                      /\ End(occupied[o]) = occupied[o].baseAddr + occupied[o].size
                      /\ End(occupied[o]) + 8 <= AddrLimit
    OBVIOUS
  <2>1. occupied[o] \in Block /\ IsNoWrap(occupied[o])
    BY <1>1 DEF TypeOK, NoWrap
  <2> QED
    BY <2>1, BlockNat, EndOfBlock
<1>7. currentStart \in Nat /\ AddrLimit \in Nat
  BY <1>1, AddrLimitAssumption DEF TypeOK, U64
<1>8. CASE EnterRegion
  <2>1. /\ ramRegIdx \in 1 .. Len(ram) /\ pc = "region" /\ pc' = "occupied"
        /\ currentStart' = Region.baseAddr /\ occupiedRamRegIdx' = 1
        /\ free' = free /\ ramRegIdx' = ramRegIdx /\ Region' = Region
    BY <1>1, <1>2, <1>8 DEF EnterRegion, TypeOK, Region
  <2>2. Region.baseAddr \in Nat /\ Region.size \in Nat /\ Region.baseAddr + Region.size + 8 <= AddrLimit
    BY <1>5, <2>1 DEF Region
  <2>3. StartsAligned => Region.baseAddr % 8 = 0
    BY <2>1 DEF StartsAligned, Region
  <2>4. StartOfRest'
    BY <1>2, <1>7, <2>1, <2>2, <2>3 DEF StartOfRest
  <2>5. LookedAt'
    BY <2>1 DEF LookedAt
  <2>6. CoresBehind'
    BY <1>1, <1>2, <2>1 DEF CoresBehind, Behind, Core, Within
  <2> QED
    BY <1>3, <2>1, <2>4, <2>5, <2>6
<1>9. CASE SkipOccupied
  <2>1. /\ ramRegIdx \in 1 .. Len(ram) /\ occupiedRamRegIdx \in 1 .. Len(occupied)
        /\ pc = "occupied" /\ pc' = pc /\ currentStart' = currentStart
        /\ occupiedRamRegIdx' = occupiedRamRegIdx + 1
        /\ free' = free /\ ramRegIdx' = ramRegIdx /\ Region' = Region /\ Irrelevant
    BY <1>1, <1>2, <1>9 DEF SkipOccupied, TypeOK, Region
  <2>2. \/ occupied[occupiedRamRegIdx].baseAddr + occupied[occupiedRamRegIdx].size <= currentStart
        \/ Region.baseAddr + Region.size <= occupied[occupiedRamRegIdx].baseAddr
    <3>1. End(Taken) = Taken.baseAddr + Taken.size /\ Taken.baseAddr \in Nat /\ Taken.size \in Nat
      BY <1>6, <2>1 DEF Taken
    <3>2. /\ End(Region) = Region.baseAddr + Region.size
          /\ Region.baseAddr \in Nat /\ Region.size \in Nat
      BY <1>5, <2>1 DEF Region
    <3>3. End(Taken) < currentStart \/ End(Region) < Taken.baseAddr
      BY <2>1 DEF Irrelevant
    <3>4. \/ Taken.baseAddr + Taken.size <= currentStart
          \/ Region.baseAddr + Region.size <= Taken.baseAddr
      BY <1>7, <3>1, <3>2, <3>3
    <3> QED
      BY <3>4 DEF Taken
  <2>3. LookedAt'
    BY <1>1, <1>2, <2>1, <2>2 DEF LookedAt
  <2>4. StartOfRest'
    BY <1>1, <1>2, <2>1 DEF StartOfRest
  <2> QED
    BY <1>3, <1>4, <2>1, <2>3, <2>4
<1>10. CASE CutOccupied
  <2>1. /\ ramRegIdx \in 1 .. Len(ram) /\ occupiedRamRegIdx \in 1 .. Len(occupied)
        /\ pc = "occupied" /\ pc' = pc /\ currentStart' = End(Taken)
        /\ occupiedRamRegIdx' = occupiedRamRegIdx + 1
        /\ free' = Emitted(currentStart, Taken.baseAddr)
        /\ ramRegIdx' = ramRegIdx /\ Region' = Region /\ ~Irrelevant
    BY <1>1, <1>2, <1>10 DEF CutOccupied, TypeOK, Region
  <2>2. /\ End(Taken) = Taken.baseAddr + Taken.size /\ End(Taken) + 8 <= AddrLimit
        /\ Taken \in Block /\ Taken.baseAddr \in Nat /\ Taken.size \in Nat
        /\ End(Region) = Region.baseAddr + Region.size
        /\ Region.baseAddr \in Nat /\ Region.size \in Nat
    <3>1. /\ End(Taken) = Taken.baseAddr + Taken.size /\ End(Taken) + 8 <= AddrLimit
          /\ Taken \in Block /\ Taken.baseAddr \in Nat /\ Taken.size \in Nat
      BY <1>6, <2>1 DEF Taken
    <3>2. /\ End(Region) = Region.baseAddr + Region.size
          /\ Region.baseAddr \in Nat /\ Region.size \in Nat
      BY <1>5, <2>1 DEF Region
    <3> QED
      BY <3>1, <3>2
  <2>3. /\ currentStart <= Taken.baseAddr + Taken.size
        /\ Taken.baseAddr <= Region.baseAddr + Region.size
    <3>1. ~(End(Taken) < currentStart) /\ ~(End(Region) < Taken.baseAddr)
      BY <2>1 DEF Irrelevant
    <3> QED
      BY <1>7, <2>2, <3>1
  <2>4. ASSUME Sorted, NEW o \in 1 .. Len(occupied)
        PROVE  \/ occupied[o].baseAddr + occupied[o].size <= currentStart
               \/ Taken.baseAddr <= occupied[o].baseAddr
    <3>1. CASE o < occupiedRamRegIdx
      <4>1. o \in 1 .. occupiedRamRegIdx - 1
        BY <2>1, <3>1
      <4>2. \/ occupied[o].baseAddr + occupied[o].size <= currentStart
            \/ Region.baseAddr + Region.size <= occupied[o].baseAddr
        BY <1>1, <2>1, <4>1 DEF LookedAt
      <4> QED
        BY <1>6, <2>2, <2>3, <4>2
    <3>2. CASE o = occupiedRamRegIdx
      BY <2>2, <3>2 DEF Taken
    <3>3. CASE o > occupiedRamRegIdx
      BY <2>1, <2>4, <3>3 DEF Sorted, Taken
    <3> QED
      BY <2>1, <3>1, <3>2, <3>3
  <2>5. /\ CoresUnoccupied' /\ CoresDisjoint'
        /\ \A f \in 1 .. Len(free') :
             \/ f \in 1 .. Len(free) /\ free'[f] = free[f]
             \/ /\ free'[f].size >= 8 /\ free'[f].baseAddr \in Nat /\ free'[f].size \in Nat
                /\ Region.baseAddr <= free'[f].baseAddr
                /\ free'[f].baseAddr + free'[f].size - Slack <= Taken.baseAddr
    <3>1. Taken.baseAddr \in U64
      BY <2>2 DEF Block
    <3> QED
      BY <2>1, <2>3, <2>4, <3>1, CoreEmit
  <2>6. currentStart <= currentStart' /\ Taken.baseAddr <= currentStart'
    BY <2>1, <2>2, <2>3
  <2>7. CoresBehind'
    BY <2>1, <2>2, <2>3, <2>5, <2>6, CoresMove
  <2>8. StartOfRest'
    <3>1. StartsAligned => End(Taken) % 8 = 0
      BY <2>1, <2>2 DEF StartsAligned, Taken
    <3>2. Region.baseAddr <= currentStart
      BY <1>1, <2>1 DEF StartOfRest
    <3>3. Region.baseAddr <= End(Taken)
      BY <1>7, <2>2, <2>3, <3>2
    <3> QED
      BY <1>2, <2>1, <2>2, <3>1, <3>3 DEF StartOfRest
  <2>9. LookedAt'
    <3> SUFFICES ASSUME NEW o \in 1 .. occupiedRamRegIdx
                 PROVE  \/ occupied[o].baseAddr + occupied[o].size <= End(Taken)
                        \/ Region.baseAddr + Region.size <= occupied[o].baseAddr
      BY <1>2, <2>1 DEF LookedAt
    <3>1. CASE o = occupiedRamRegIdx
      BY <2>2, <3>1 DEF Taken
    <3>2. CASE o # occupiedRamRegIdx
      <4>1. o \in 1 .. occupiedRamRegIdx - 1 /\ o \in 1 .. Len(occupied)
        BY <2>1, <3>2
      <4>2. \/ occupied[o].baseAddr + occupied[o].size <= currentStart
            \/ Region.baseAddr + Region.size <= occupied[o].baseAddr
        BY <1>1, <2>1, <4>1 DEF LookedAt
      <4>3. occupied[o].baseAddr \in Nat /\ occupied[o].size \in Nat
        BY <1>6, <4>1
      <4>4. occupied[o].baseAddr + occupied[o].size <= currentStart
              => occupied[o].baseAddr + occupied[o].size <= Taken.baseAddr + Taken.size
        BY <1>7, <2>2, <2>3, <4>3
      <4> QED
        BY <2>2, <4>2, <4>4
    <3> QED
      BY <3>1, <3>2
  <2> QED
    BY <2>5, <2>7, <2>8, <2>9
<1>11. CASE LeaveRegion
  <2>1. /\ ramRegIdx \in 1 .. Len(ram) /\ occupiedRamRegIdx = Len(occupied) + 1
        /\ pc = "occupied" /\ pc' = "region" /\ ramRegIdx' = ramRegIdx + 1
        /\ free' = Emitted(currentStart, End(Region))
    BY <1>1, <1>11 DEF LeaveRegion, TypeOK
  <2>2. /\ End(Region) = Region.baseAddr + Region.size /\ Region \in Block
        /\ Region.baseAddr \in Nat /\ Region.size \in Nat /\ Len(occupied) \in Nat
    BY <1>1, <1>5, <2>1 DEF Region, TypeOK
  <2>3. \A o \in 1 .. Len(occupied) :
          \/ occupied[o].baseAddr + occupied[o].size <= currentStart
          \/ End(Region) <= occupied[o].baseAddr
    <3>1. 1 .. occupiedRamRegIdx - 1 = 1 .. Len(occupied)
      BY <2>1, <2>2
    <3> QED
      BY <1>1, <2>1, <2>2, <3>1 DEF LookedAt
  <2>4. End(Region) \in U64 /\ End(Region) \in Nat /\ End(Region) <= Region.baseAddr + Region.size
    BY <2>2, EndOfBlock
  <2>5. /\ CoresUnoccupied' /\ CoresDisjoint'
        /\ \A f \in 1 .. Len(free') :
             \/ f \in 1 .. Len(free) /\ free'[f] = free[f]
             \/ /\ free'[f].size >= 8 /\ free'[f].baseAddr \in Nat /\ free'[f].size \in Nat
                /\ Region.baseAddr <= free'[f].baseAddr
                /\ free'[f].baseAddr + free'[f].size - Slack <= End(Region)
    BY <2>1, <2>3, <2>4, CoreEmit
  <2>6. CoresBehind'
    BY <2>1, <2>4, <2>5, CoresMove
  <2> QED
    BY <2>1, <2>5, <2>6 DEF StartOfRest, LookedAt
<1>12. CASE Return
  BY <1>1, <1>2, <1>3, <1>12
     DEF Return, StartOfRest, LookedAt, CoresBehind, Behind, Core, Within
<1>13. CASE UNCHANGED vars
  BY <1>1, <1>2, <1>3, <1>4, <1>13 DEF vars, StartOfRest, LookedAt, Region
<1> QED
  BY <1>8, <1>9, <1>10, <1>11, <1>12, <1>13 DEF Next

LEMMA CoreInvariant == Spec => []CoreInv
BY CoreInit, CoreStep, PTL DEF Spec

\* What is handed out whatever the addresses, but for the last seven bytes of a block.
OverhangsByLessThanAWord ==
  NoWrap =>
    /\ \A f \in 1 .. Len(free) : \E r \in 1 .. Len(ram) : Within(Core(free[f]), ram[r])
    /\ CoresUnoccupied /\ CoresDisjoint

\* The promises of the header with only the starts of the gaps on the word grid.
ExactFromAlignedStarts ==
  NoWrap /\ StartsAligned =>
    /\ \A f \in 1 .. Len(free) : \E r \in 1 .. Len(ram) : Within(free[f], ram[r])
    /\ Sorted =>
         \A f \in 1 .. Len(free), o \in 1 .. Len(occupied) : ~Overlap(free[f], occupied[o])
    /\ RamDisjoint =>
         \A f, g \in 1 .. Len(free) : f # g => ~Overlap(free[f], free[g])

\* On addresses of any alignment rounding puts at most the last seven bytes of a block
\* where they do not belong: without them it is RAM, unoccupied, and its own.
THEOREM Overhang == Spec => []OverhangsByLessThanAWord
<1>1. CoreInv => OverhangsByLessThanAWord
  BY DEF CoreInv, OverhangsByLessThanAWord, CoresBehind
<1> QED
  BY <1>1, CoreInvariant, PTL

\* Half of the alignment is enough: the starts of the occupied regions and the ends of
\* RAM may be anywhere if the others are on the word grid.
THEOREM StartsSuffice == Spec => []ExactFromAlignedStarts
<1>1. CoreInv => ExactFromAlignedStarts
  <2> SUFFICES ASSUME CoreInv, NoWrap, StartsAligned
               PROVE  ExactFromAlignedStarts
    BY DEF ExactFromAlignedStarts
  <2>1. ASSUME NEW f \in 1 .. Len(free)
        PROVE  Core(free[f]).baseAddr = free[f].baseAddr /\ Core(free[f]).size = free[f].size
    <3>1. free[f] \in Block
      BY DEF CoreInv, TypeOK
    <3>2. free[f].size \in Nat
      BY <3>1, BlockNat
    <3> QED
      BY <3>2, SlackSize DEF Core
  <2> QED
    BY <2>1 DEF CoreInv, ExactFromAlignedStarts, CoresBehind, CoresUnoccupied, CoresDisjoint,
                Within, Overlap
<1> QED
  BY <1>1, CoreInvariant, PTL
=============================================================================
