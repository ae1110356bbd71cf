------------------------- MODULE DeviceTree_proofs --------------------------
(***************************************************************************)
(* What the walk guarantees on every device tree: of any size and shape,   *)
(* with cells of any width.                                                *)
(***************************************************************************)
EXTENDS DeviceTree, SequenceTheorems, TLAPS
-----------------------------------------------------------------------------
(* Nodes.                                                                   *)

\* Where in the walk the processor is: its node has a place, and so has the parent.
Placed(t) ==
  /\ t \in Seq(Node) /\ Len(t) \in Nat \ {0}
  /\ \A k \in 1 .. Len(t) : t[k] \in Node /\ t[k].parent \in Nat /\ t[k].parent < k

LEMMA TreesPlaced == \A t \in Trees : Placed(t)
<1> SUFFICES ASSUME NEW t \in Trees PROVE Placed(t)
  OBVIOUS
<1>1. t \in Seq(Node) /\ t # << >> /\ \A k \in 1 .. Len(t) : t[k].parent < k
  BY TreesAssumption
<1>2. \A k \in 1 .. Len(t) : t[k] \in Node
  BY <1>1, ElementOfSeq
<1>3. \A k \in 1 .. Len(t) : t[k].parent \in Nat
  BY <1>2 DEF Node
<1> QED
  BY <1>1, <1>2, <1>3, EmptySeq DEF Placed

LEMMA NodeFields ==
  ASSUME NEW node \in Node
  PROVE  /\ node.parent \in Nat /\ node.compatible \in Seq(STRING) /\ node.isController \in BOOLEAN
         /\ node.status \in {"okay", "ok", "disabled", NULL}
         /\ node.addressCells \in -1 .. 4 /\ node.sizeCells \in -1 .. 4 /\ node.reg \in Seq(Cell)
         /\ node.phandle \in Cell \cup {NULL} /\ node.regShift \in Cell \cup {NULL}
         /\ node.regIOWidth \in Cell \cup {NULL}
BY DEF Node

\* The two chains of comparisons take exactly the devices the kernel is after.
LEMMA TakenAreWanted ==
  ASSUME NEW node \in Node
  PROVE  /\ IsController(node) \/ IsUsedUart(node) <=> Wanted(node)
         /\ IsController(node) => ~WantedUart(node)
         /\ IsUsedUart(node) => WantedUart(node)
<1>1. node.compatible # << >> => Head(node.compatible) = node.compatible[1]
  BY NodeFields
<1>2. GetIntCtrlTypeFromDtbCompat(node.compatible) # "INC_INVALID"
        <=> Head(node.compatible) \in Controllers
  BY DEF GetIntCtrlTypeFromDtbCompat, Controllers
<1>3. GetUartStdFromDtbCompat(node.compatible) # "UART_STD_INVALID"
        <=> Head(node.compatible) \in Uarts
  BY DEF GetUartStdFromDtbCompat, Uarts
<1>4. CheckOkFdtNodeStatus(node) <=> node.status # "disabled"
  BY NodeFields, NullAssumption DEF CheckOkFdtNodeStatus
<1>5. \A c \in Controllers : c \notin Uarts
  BY DEF Controllers, Uarts
<1> QED
  BY <1>1, <1>2, <1>3, <1>4, <1>5 DEF IsController, IsUsedUart, IsUart, Wanted, WantedUart

\* One cell, within the property or past its end.
LEMMA PRegType ==
  ASSUME NEW reg \in Seq(Cell), NEW beyond \in [0 .. 3 -> Cell], NEW k \in 0 .. 3
  PROVE  PReg(reg, beyond, k) \in Nat
<1>1. CellLimit \in Nat /\ \A c \in Cell : c \in Nat
  BY LimitsAssumption DEF Cell
<1>2. CASE k < Len(reg)
  <2>1. k + 1 \in 1 .. Len(reg)
    BY <1>2, LenProperties
  <2> QED
    BY <1>1, <1>2, <2>1, ElementOfSeq DEF PReg
<1>3. CASE ~(k < Len(reg))
  BY <1>1, <1>3 DEF PReg
<1> QED
  BY <1>2, <1>3

LEMMA CellValueType ==
  ASSUME NEW reg \in Seq(Cell), NEW beyond \in [0 .. 3 -> Cell],
         NEW first \in 0 .. 2, NEW cells \in 0 .. 4
  PROVE  CellValue(reg, beyond, first, cells) \in Nat
<1>1. PReg(reg, beyond, first) \in Nat /\ PReg(reg, beyond, first + 1) \in Nat
  BY PRegType
<1>2. PReg(reg, beyond, first) * CellLimit + PReg(reg, beyond, first + 1) \in Nat
  BY <1>1, LimitsAssumption
<1>3. CASE cells = 0
  BY <1>3 DEF CellValue
<1>4. CASE cells = 2
  BY <1>2, <1>4 DEF CellValue
<1>5. CASE cells \in {1, 3, 4}
  BY <1>1, <1>5 DEF CellValue
<1> QED
  BY <1>3, <1>4, <1>5

LEMMA SizeFieldOffsetType ==
  ASSUME NEW cells \in 0 .. 4
  PROVE  SizeFieldOffset(cells) \in 0 .. 2
<1>1. CASE cells = 0
  BY <1>1 DEF SizeFieldOffset
<1>2. CASE cells = 2
  BY <1>2 DEF SizeFieldOffset
<1>3. CASE cells \in {1, 3, 4}
  BY <1>3 DEF SizeFieldOffset
<1> QED
  BY <1>1, <1>2, <1>3
-----------------------------------------------------------------------------
(* The invariant.                                                           *)

Record == ControllerRecord \cup UartRecord

TreeInv == tree \in Trees /\ TypeOK

\* The nodes the walk has been through.
Passed == 1 .. nodeOffset - 1

\* Halfway: what has been found so far are the wanted devices among the nodes
\* passed, all of them complete; and how the walk stopped.
HalfWay ==
  /\ {found[k].node : k \in 1 .. Len(found)} = {k \in Passed : Wanted(tree[k])}
  /\ \A k, l \in 1 .. Len(found) : found[k].node = found[l].node => k = l
  /\ \A k \in Passed : Wanted(tree[k]) => Complete(tree[k])
  /\ pc = "done" => nodeOffset = Len(tree) + 1
  /\ pc \in {"hcf", "fault"} => Wanted(n) /\ ~Complete(n)

\* A record holds what the cells spell, but for the size of a serial port, which is cut
\* to the 32 bits of its member.
Cut(record) ==
  LET node == tree[record.node] IN
    RegHolds(node) =>
      /\ record.baseAddr = SpelledAddr(node)
      /\ IF WantedUart(node)
         THEN record.size = SpelledSize(node) % CellLimit
         ELSE record.regSize = SpelledSize(node)

RegistersCut == \A k \in 1 .. Len(found) : Cut(found[k])

IInv == TreeInv /\ HalfWay /\ RegistersCut

LEMMA TreeFacts ==
  ASSUME TreeInv
  PROVE  /\ Placed(tree) /\ nodeOffset \in 1 .. Len(tree) + 1 /\ found \in Seq(Record)
         /\ Len(found) \in Nat
         /\ \A k \in 1 .. Len(found) : found[k] \in Record /\ found[k].node \in 1 .. Len(tree)
BY TreesPlaced, LenProperties, ElementOfSeq DEF TreeInv, TypeOK, Record

LEMMA NodeHere ==
  ASSUME TreeInv, Walking
  PROVE  /\ n \in Node /\ nodeOffset \in 1 .. Len(tree) /\ Len(tree) \in Nat
         /\ ~RegisterFails(n) =>
              /\ n.parent \in 1 .. Len(tree) /\ ParentOf(n) \in Node
              /\ ParentOf(n).addressCells \in 0 .. 4 /\ ParentOf(n).sizeCells \in 0 .. 4
<1>1. nodeOffset \in 1 .. Len(tree) /\ Len(tree) \in Nat
  BY TreeFacts DEF Walking, Placed
<1>2. n \in Node /\ n.parent \in Nat /\ n.parent < nodeOffset
  BY <1>1, TreeFacts DEF Placed, n
<1>3. ASSUME ~RegisterFails(n)
      PROVE  /\ n.parent \in 1 .. Len(tree) /\ ParentOf(n) \in Node
             /\ ParentOf(n).addressCells \in 0 .. 4 /\ ParentOf(n).sizeCells \in 0 .. 4
  <2>1. n.parent \in 1 .. Len(tree)
    BY <1>1, <1>2, <1>3 DEF RegisterFails
  <2>2. ParentOf(n) \in Node
    BY <2>1, TreeFacts DEF Placed, ParentOf
  <2>3. ParentOf(n).addressCells \in -1 .. 4 /\ ParentOf(n).sizeCells \in -1 .. 4
    BY <2>2, NodeFields
  <2>4. ~(ParentOf(n).addressCells < 0) /\ ~(ParentOf(n).sizeCells < 0)
    BY <1>3 DEF RegisterFails
  <2> QED
    BY <2>1, <2>2, <2>3, <2>4
<1> QED
  BY <1>1, <1>2, <1>3

LEMMA RegistersType ==
  ASSUME TreeInv, Walking, ~RegisterFails(n), NEW r \in Registers(n)
  PROVE  r.addr \in Nat /\ r.size \in Nat
<1>1. PICK beyond \in [0 .. 3 -> Cell] :
        r = [ addr |-> CellValue(n.reg, beyond, 0, ParentOf(n).addressCells),
              size |-> CellValue(n.reg, beyond, SizeFieldOffset(ParentOf(n).addressCells),
                                 ParentOf(n).sizeCells) ]
  BY DEF Registers
<1>2. /\ n.reg \in Seq(Cell)
      /\ ParentOf(n).addressCells \in 0 .. 4 /\ ParentOf(n).sizeCells \in 0 .. 4
  BY NodeHere, NodeFields
<1>3. CellValue(n.reg, beyond, 0, ParentOf(n).addressCells) \in Nat
  <2>1. 0 \in 0 .. 2
    OBVIOUS
  <2> QED
    BY <1>2, <2>1, CellValueType
<1>4. CellValue(n.reg, beyond, SizeFieldOffset(ParentOf(n).addressCells), ParentOf(n).sizeCells) \in Nat
  BY <1>2, SizeFieldOffsetType, CellValueType
<1> QED
  BY <1>1, <1>3, <1>4

\* Cells that are there, from any place in the property, are read as they spell.
LEMMA CellsSpell ==
  ASSUME NEW reg \in Seq(Cell), NEW beyond \in [0 .. 3 -> Cell],
         NEW first \in 0 .. 2, NEW cells \in 0 .. 2, Len(reg) >= first + cells
  PROVE  CellValue(reg, beyond, first, cells) = NumberOf(SubSeq(reg, first + 1, first + cells))
<1> DEFINE part == SubSeq(reg, first + 1, first + cells)
<1>1. Len(reg) \in Nat /\ \A i \in 1 .. Len(reg) : reg[i] \in Cell
  BY LenProperties, ElementOfSeq
<1>2. \A i \in first + 1 .. first + cells : reg[i] \in Cell
  BY <1>1
<1>3. /\ Len(part) = IF first + 1 <= first + cells THEN (first + cells) - (first + 1) + 1 ELSE 0
      /\ \A i \in 1 .. (first + cells) - (first + 1) + 1 : part[i] = reg[(first + 1) + i - 1]
  BY <1>2, SubSeqProperties
<1> HIDE DEF part
<1>4. CASE cells = 0
  <2>1. Len(part) = 0
    BY <1>3, <1>4
  <2> QED
    BY <1>4, <2>1 DEF CellValue, NumberOf, part
<1>5. CASE cells = 1
  <2>1. Len(part) = 1 /\ part[1] = reg[first + 1]
    BY <1>3, <1>5
  <2>2. PReg(reg, beyond, first) = reg[first + 1]
    BY <1>1, <1>5 DEF PReg
  <2>3. CellValue(reg, beyond, first, cells) = reg[first + 1]
    BY <1>5, <2>2 DEF CellValue
  <2>4. NumberOf(part) = part[1]
    BY <2>1 DEF NumberOf
  <2> QED
    BY <2>1, <2>3, <2>4 DEF part
<1>6. CASE cells = 2
  <2>1. Len(part) = 2 /\ part[1] = reg[first + 1] /\ part[2] = reg[first + 2]
    BY <1>3, <1>6
  <2>2. PReg(reg, beyond, first) = reg[first + 1] /\ PReg(reg, beyond, first + 1) = reg[first + 2]
    BY <1>1, <1>6 DEF PReg
  <2>3. CellValue(reg, beyond, first, cells) = reg[first + 1] * CellLimit + reg[first + 2]
    BY <1>6, <2>2 DEF CellValue
  <2>4. NumberOf(part) = part[1] * CellLimit + part[2]
    BY <2>1 DEF NumberOf
  <2> QED
    BY <2>1, <2>3, <2>4 DEF part
<1> QED
  BY <1>4, <1>5, <1>6

\* So the two numbers of a register are those its first and its next cells spell.
LEMMA RegistersSpell ==
  ASSUME TreeInv, Walking, ~RegisterFails(n), NEW r \in Registers(n),
         ParentOf(n).addressCells <= 2, ParentOf(n).sizeCells <= 2,
         Len(n.reg) >= ParentOf(n).addressCells + ParentOf(n).sizeCells
  PROVE  LET a == ParentOf(n).addressCells
             s == ParentOf(n).sizeCells
         IN  /\ r.addr = NumberOf(SubSeq(n.reg, 1, a))
             /\ r.size = NumberOf(SubSeq(n.reg, a + 1, a + s))
<1>1. PICK beyond \in [0 .. 3 -> Cell] :
        r = [ addr |-> CellValue(n.reg, beyond, 0, ParentOf(n).addressCells),
              size |-> CellValue(n.reg, beyond, SizeFieldOffset(ParentOf(n).addressCells),
                                 ParentOf(n).sizeCells) ]
  BY DEF Registers
<1>2. PICK a \in 0 .. 2 : a = ParentOf(n).addressCells
  BY NodeHere
<1>3. PICK s \in 0 .. 2 : s = ParentOf(n).sizeCells
  BY NodeHere
<1>4. n.reg \in Seq(Cell) /\ Len(n.reg) >= a + s /\ Len(n.reg) >= 0 + a
  BY <1>2, <1>3, NodeHere, NodeFields, LenProperties, SMTT(30)
<1>5. SizeFieldOffset(a) = a
  <2>1. CASE a = 0
    BY <2>1 DEF SizeFieldOffset
  <2>2. CASE a = 1
    BY <2>2 DEF SizeFieldOffset
  <2>3. CASE a = 2
    BY <2>3 DEF SizeFieldOffset
  <2> QED
    BY <2>1, <2>2, <2>3
<1>6. CellValue(n.reg, beyond, 0, a) = NumberOf(SubSeq(n.reg, 1, a))
  <2>1. 0 \in 0 .. 2 /\ 0 + 1 = 1 /\ 0 + a = a
    OBVIOUS
  <2> QED
    BY <1>4, <2>1, CellsSpell
<1>7. CellValue(n.reg, beyond, a, s) = NumberOf(SubSeq(n.reg, a + 1, a + s))
  BY <1>4, CellsSpell
<1> QED
  BY <1>1, <1>2, <1>3, <1>5, <1>6, <1>7
-----------------------------------------------------------------------------
(* The steps.                                                               *)

LEMMA InvInit == Init => IInv
<1> SUFFICES ASSUME Init PROVE IInv
  OBVIOUS
<1>1. tree \in Trees /\ pc = "walk" /\ nodeOffset = 1 /\ found = << >>
  BY DEF Init
<1>2. << >> \in Seq(Record) /\ Len(found) = 0
  BY <1>1, EmptySeq
<1>3. Placed(tree)
  BY <1>1, TreesPlaced
<1>4. TreeInv
  BY <1>1, <1>2, <1>3 DEF TreeInv, TypeOK, Record, Placed
<1>5. HalfWay
  BY <1>1, <1>2 DEF HalfWay, Passed
<1>6. RegistersCut
  BY <1>2 DEF RegistersCut
<1> QED
  BY <1>4, <1>5, <1>6 DEF IInv

\* A wanted, complete device is recorded with what its register says.
LEMMA RecordStep ==
  ASSUME IInv, Walking, NEW rec \in Record, rec.node = nodeOffset,
         Wanted(n), Complete(n), Cut(rec), found' = Append(found, rec), Continue
  PROVE  IInv'
<1>1. TreeInv /\ HalfWay /\ RegistersCut
  BY DEF IInv
<1>2. nodeOffset \in 1 .. Len(tree) /\ Len(tree) \in Nat
  BY <1>1, NodeHere
<1>3. tree' = tree /\ pc' = pc /\ pc = "walk" /\ nodeOffset' = nodeOffset + 1
  BY DEF Continue, Walking
<1>4. /\ found' \in Seq(Record) /\ Len(found') = Len(found) + 1 /\ Len(found) \in Nat
      /\ found'[Len(found) + 1] = rec
      /\ \A k \in 1 .. Len(found) : found'[k] = found[k]
  BY <1>1, TreeFacts, AppendProperties
<1>5. \A k \in 1 .. Len(found) : found[k].node \in 1 .. Len(tree)
  BY <1>1, TreeFacts
<1>6. TreeInv'
  <2>1. \A k \in 1 .. Len(found') : found'[k].node \in 1 .. Len(tree)
    BY <1>2, <1>4, <1>5
  <2> QED
    BY <1>1, <1>2, <1>3, <1>4, <2>1 DEF TreeInv, TypeOK, Record
<1>7. Passed' = Passed \cup {nodeOffset} /\ nodeOffset \notin Passed
  BY <1>2, <1>3 DEF Passed
<1>8. {found'[k].node : k \in 1 .. Len(found')} = {found[k].node : k \in 1 .. Len(found)} \cup {nodeOffset}
  BY <1>4
<1>9. {k \in Passed' : Wanted(tree[k])} = {k \in Passed : Wanted(tree[k])} \cup {nodeOffset}
  BY <1>7 DEF n
<1>10. \A k, l \in 1 .. Len(found') : found'[k].node = found'[l].node => k = l
  <2>1. \A k \in 1 .. Len(found) : found[k].node # nodeOffset
    BY <1>1, <1>7 DEF HalfWay
  <2> QED
    BY <1>1, <1>4, <2>1 DEF HalfWay
<1>11. \A k \in Passed' : Wanted(tree[k]) => Complete(tree[k])
  BY <1>1, <1>7 DEF HalfWay, n
<1>12. HalfWay'
  <2>1. \A k \in Passed' : Wanted(tree'[k]) => Complete(tree[k])'
    BY <1>3, <1>11 DEF Complete, ParentOf
  <2> QED
    BY <1>1, <1>3, <1>8, <1>9, <1>10, <2>1 DEF HalfWay
<1>13. RegistersCut'
  <2>1. \A k \in 1 .. Len(found') : Cut(found'[k])
    BY <1>1, <1>4 DEF RegistersCut
  <2> QED
    BY <1>3, <2>1 DEF RegistersCut, Cut, RegHolds, SpelledAddr, SpelledSize, ParentOf
<1> QED
  BY <1>6, <1>12, <1>13 DEF IInv

\* What the two recording actions and the two stopping ones test is Complete.
LEMMA ReadableIsComplete ==
  ASSUME TreeInv, Walking, Wanted(n)
  PROVE  Complete(n)
           <=> /\ ~RegisterFails(n) /\ ~RegisterFaults(n) /\ n.phandle # NULL
               /\ WantedUart(n) => NULL \notin {n.regShift, n.regIOWidth}
<1>1. n \in Node
  BY NodeHere
<1>2. /\ n.parent = 0 \/ ~(n.parent = 0)
      /\ ~RegisterFails(n) => ParentOf(n).addressCells \in 0 .. 4 /\ ParentOf(n).sizeCells \in 0 .. 4
  BY NodeHere
<1>3. ASSUME ~RegisterFails(n)
      PROVE  n.parent # 0 /\ ParentOf(n).addressCells >= 0 /\ ParentOf(n).sizeCells >= 0
  BY <1>2, <1>3 DEF RegisterFails
<1>4. ASSUME n.parent # 0, ParentOf(n).addressCells >= 0, ParentOf(n).sizeCells >= 0
      PROVE  ~RegisterFails(n)
  <2>1. n.parent \in 1 .. Len(tree)
    BY <1>1, <1>4, NodeFields, NodeHere, TreeFacts DEF Placed, n
  <2>2. ParentOf(n) \in Node
    BY <2>1, TreeFacts DEF Placed, ParentOf
  <2>3. ParentOf(n).addressCells \in Int /\ ParentOf(n).sizeCells \in Int
    BY <2>2, NodeFields
  <2> QED
    BY <1>4, <2>3 DEF RegisterFails
<1> QED
  BY <1>3, <1>4 DEF Complete, RegisterFaults

LEMMA RecordControllerStep == ASSUME IInv, RecordController PROVE IInv'
<1>1. TreeInv /\ Walking /\ IsController(n)
  BY DEF IInv, RecordController
<1>2. n \in Node /\ Wanted(n) /\ ~WantedUart(n)
  BY <1>1, NodeHere, TakenAreWanted
<1>3. Complete(n)
  BY <1>1, <1>2, ReadableIsComplete DEF RecordController
<1>4. PICK r \in Registers(n) :
        found' = Append(found,
          [ node |-> nodeOffset, type |-> GetIntCtrlTypeFromDtbCompat(n.compatible),
            baseAddr |-> r.addr, regSize |-> r.size, phandle |-> n.phandle ])
  BY DEF RecordController
<1>5. PICK rec :
        rec = [ node |-> nodeOffset, type |-> GetIntCtrlTypeFromDtbCompat(n.compatible),
                baseAddr |-> r.addr, regSize |-> r.size, phandle |-> n.phandle ]
  OBVIOUS
<1>6. ~RegisterFails(n) /\ n.phandle # NULL /\ Continue
  BY DEF RecordController
<1>7. rec \in Record
  <2>1. nodeOffset \in Nat /\ r.addr \in Nat /\ r.size \in Nat
    BY <1>1, <1>6, NodeHere, RegistersType
  <2>2. n.phandle \in Cell
    BY <1>2, <1>6, NodeFields
  <2>3. GetIntCtrlTypeFromDtbCompat(n.compatible) \in {"INC_PLIC", "INC_CLINT", "INC_CPU_INC", "INC_GPIO"}
    BY <1>1 DEF IsController, GetIntCtrlTypeFromDtbCompat
  <2> QED
    BY <1>5, <2>1, <2>2, <2>3 DEF Record, ControllerRecord
<1>8. Cut(rec)
  <2>1. rec.node = nodeOffset /\ rec.baseAddr = r.addr /\ rec.regSize = r.size
    BY <1>5
  <2>2. tree[rec.node] = n
    BY <2>1 DEF n
  <2> QED
    BY <1>1, <1>2, <1>6, <2>1, <2>2, RegistersSpell DEF Cut, RegHolds, SpelledAddr, SpelledSize
<1> QED
  BY <1>1, <1>2, <1>3, <1>4, <1>5, <1>6, <1>7, <1>8, RecordStep

LEMMA RecordUartStep == ASSUME IInv, RecordUart PROVE IInv'
<1>1. TreeInv /\ Walking /\ IsUsedUart(n)
  BY DEF IInv, RecordUart
<1>2. n \in Node /\ Wanted(n) /\ WantedUart(n)
  BY <1>1, NodeHere, TakenAreWanted
<1>3. Complete(n)
  BY <1>1, <1>2, ReadableIsComplete DEF RecordUart
<1>4. PICK r \in Registers(n) :
        found' = Append(found,
          [ node |-> nodeOffset, std |-> GetUartStdFromDtbCompat(n.compatible),
            baseAddr |-> r.addr, size |-> r.size % CellLimit, phandle |-> n.phandle,
            regShift |-> n.regShift % U8Limit, regIOWidthInBytes |-> n.regIOWidth % U8Limit ])
  BY DEF RecordUart
<1>5. PICK rec :
        rec = [ node |-> nodeOffset, std |-> GetUartStdFromDtbCompat(n.compatible),
                baseAddr |-> r.addr, size |-> r.size % CellLimit, phandle |-> n.phandle,
                regShift |-> n.regShift % U8Limit, regIOWidthInBytes |-> n.regIOWidth % U8Limit ]
  OBVIOUS
<1>6. ~RegisterFails(n) /\ NULL \notin {n.phandle, n.regShift, n.regIOWidth} /\ Continue
  BY DEF RecordUart
<1>7. rec \in Record
  <2>1. nodeOffset \in Nat /\ r.addr \in Nat /\ r.size \in Nat
    BY <1>1, <1>6, NodeHere, RegistersType
  <2>2. n.phandle \in Cell /\ n.regShift \in Cell /\ n.regIOWidth \in Cell
    BY <1>2, <1>6, NodeFields
  <2>3. GetUartStdFromDtbCompat(n.compatible) = "UART_STD_16550A"
    BY <1>1 DEF IsUsedUart, IsUart, GetUartStdFromDtbCompat
  <2>4. r.size % CellLimit \in Cell
    BY <2>1, LimitsAssumption DEF Cell
  <2>5. n.regShift % U8Limit \in 0 .. U8Limit - 1 /\ n.regIOWidth % U8Limit \in 0 .. U8Limit - 1
    BY <2>2, LimitsAssumption DEF Cell
  <2> QED
    BY <1>5, <2>1, <2>2, <2>3, <2>4, <2>5 DEF Record, UartRecord
<1>8. Cut(rec)
  <2>1. rec.node = nodeOffset /\ rec.baseAddr = r.addr /\ rec.size = r.size % CellLimit
    BY <1>5
  <2>2. tree[rec.node] = n
    BY <2>1 DEF n
  <2> QED
    BY <1>1, <1>2, <1>6, <2>1, <2>2, RegistersSpell DEF Cut, RegHolds, SpelledAddr, SpelledSize
<1> QED
  BY <1>1, <1>2, <1>3, <1>4, <1>5, <1>6, <1>7, <1>8, RecordStep

LEMMA PassNodeStep == ASSUME IInv, PassNode PROVE IInv'
<1>1. TreeInv /\ HalfWay /\ RegistersCut /\ Walking
  BY DEF IInv, PassNode
<1>2. n \in Node /\ nodeOffset \in 1 .. Len(tree) /\ Len(tree) \in Nat
  BY <1>1, NodeHere
<1>3. ~Wanted(tree[nodeOffset])
  BY <1>2, TakenAreWanted DEF PassNode, n
<1>4. tree' = tree /\ pc' = pc /\ pc = "walk" /\ nodeOffset' = nodeOffset + 1 /\ found' = found
  BY DEF PassNode, Continue, Walking
<1>5. TreeInv'
  BY <1>1, <1>2, <1>4 DEF TreeInv, TypeOK
<1>6. Passed' = Passed \cup {nodeOffset}
  BY <1>2, <1>4 DEF Passed
<1>7. HalfWay'
  <2>1. {k \in Passed' : Wanted(tree[k])} = {k \in Passed : Wanted(tree[k])}
    BY <1>3, <1>6
  <2>2. \A k \in Passed' : Wanted(tree'[k]) => Complete(tree[k])'
    BY <1>1, <1>3, <1>4, <1>6 DEF HalfWay, Complete, ParentOf
  <2> QED
    BY <1>1, <1>4, <2>1, <2>2 DEF HalfWay
<1>8. RegistersCut'
  BY <1>1, <1>4 DEF RegistersCut, Cut, RegHolds, SpelledAddr, SpelledSize, ParentOf
<1> QED
  BY <1>5, <1>7, <1>8 DEF IInv

\* A stop changes nothing but pc.
LEMMA StopStep ==
  ASSUME IInv, NEW how \in {"done", "hcf", "fault"}, Stop(how),
         how = "done" => nodeOffset = Len(tree) + 1,
         how # "done" => Wanted(n) /\ ~Complete(n)
  PROVE  IInv'
<1>1. TreeInv /\ HalfWay /\ RegistersCut
  BY DEF IInv
<1>2. tree' = tree /\ nodeOffset' = nodeOffset /\ found' = found /\ pc' = how
  BY DEF Stop
<1>3. TreeInv'
  BY <1>1, <1>2 DEF TreeInv, TypeOK
<1>4. HalfWay'
  BY <1>1, <1>2 DEF HalfWay, Passed, Complete, ParentOf, n
<1>5. RegistersCut'
  BY <1>1, <1>2 DEF RegistersCut, Cut, RegHolds, SpelledAddr, SpelledSize, ParentOf
<1> QED
  BY <1>3, <1>4, <1>5 DEF IInv

LEMMA InvStep == IInv /\ [Next]_vars => IInv'
<1> SUFFICES ASSUME IInv, [Next]_vars PROVE IInv'
  OBVIOUS
<1>1. TreeInv
  BY DEF IInv
<1>2. CASE RecordController
  BY <1>2, RecordControllerStep
<1>3. CASE RecordUart
  BY <1>3, RecordUartStep
<1>4. CASE PassNode
  BY <1>4, PassNodeStep
<1>5. CASE HaltOnRegister \/ ReadThroughNull
  <2>1. Walking /\ (IsController(n) \/ IsUsedUart(n)) /\ n \in Node
    BY <1>1, <1>5, NodeHere DEF HaltOnRegister, ReadThroughNull
  <2>2. Wanted(n) /\ (IsUsedUart(n) => WantedUart(n))
    BY <2>1, TakenAreWanted
  <2>3. ~Complete(n)
    BY <1>1, <1>5, <2>1, <2>2, ReadableIsComplete DEF HaltOnRegister, ReadThroughNull
  <2>4. Stop("hcf") \/ Stop("fault")
    BY <1>5 DEF HaltOnRegister, ReadThroughNull
  <2> QED
    BY <2>2, <2>3, <2>4, StopStep
<1>6. CASE EndOfTree
  <2>1. nodeOffset = Len(tree) + 1
    BY <1>1, <1>6, TreeFacts DEF EndOfTree, Placed
  <2> QED
    BY <1>6, <2>1, StopStep DEF EndOfTree
<1>7. CASE UNCHANGED vars
  <2>1. tree' = tree /\ nodeOffset' = nodeOffset /\ found' = found /\ pc' = pc
    BY <1>7 DEF vars
  <2>2. TreeInv'
    BY <1>1, <2>1 DEF TreeInv, TypeOK
  <2>3. HalfWay'
    BY <2>1 DEF IInv, HalfWay, Passed, Complete, ParentOf, n
  <2>4. RegistersCut'
    BY <2>1 DEF IInv, RegistersCut, Cut, RegHolds, SpelledAddr, SpelledSize, ParentOf
  <2> QED
    BY <2>2, <2>3, <2>4 DEF IInv
<1> QED
  BY <1>2, <1>3, <1>4, <1>5, <1>6, <1>7 DEF Next

LEMMA Invariant == Spec => []IInv
BY InvInit, InvStep, PTL DEF Spec
-----------------------------------------------------------------------------
(* The theorems.                                                            *)

\* The walk stays in the tree, and every record fits the members of its struct.
THEOREM TypeCorrect == Spec => []TypeOK
<1>1. IInv => TypeOK
  BY DEF IInv, TreeInv
<1> QED
  BY <1>1, Invariant, PTL

\* A walk that ends has recorded every wanted device of the tree exactly once.
THEOREM AllFoundOnce == Spec => []FoundAllOnce
<1>1. IInv => FoundAllOnce
  <2> SUFFICES ASSUME IInv, pc = "done" PROVE FoundAllOnce
    BY DEF FoundAllOnce
  <2>1. nodeOffset = Len(tree) + 1 /\ Len(tree) \in Nat
    BY TreeFacts DEF IInv, HalfWay, Placed
  <2>2. Passed = 1 .. Len(tree)
    BY <2>1 DEF Passed
  <2> QED
    BY <2>2 DEF IInv, HalfWay, FoundAllOnce
<1> QED
  BY <1>1, Invariant, PTL

\* What one or two cells spell is a number.
LEMMA NumberOfType ==
  ASSUME NEW cells \in Seq(Cell), Len(cells) <= 2
  PROVE  NumberOf(cells) \in Nat
<1>1. Len(cells) \in Nat /\ \A i \in 1 .. Len(cells) : cells[i] \in Nat
  <2>1. \A c \in Cell : c \in Nat
    BY LimitsAssumption DEF Cell
  <2> QED
    BY <2>1, LenProperties, ElementOfSeq
<1>2. CASE Len(cells) = 0
  BY <1>2 DEF NumberOf
<1>3. CASE Len(cells) = 1
  BY <1>1, <1>3 DEF NumberOf
<1>4. CASE Len(cells) = 2
  <2>1. cells[1] \in Nat /\ cells[2] \in Nat
    BY <1>1, <1>4
  <2>2. cells[1] * CellLimit + cells[2] \in Nat
    BY <2>1, LimitsAssumption
  <2> QED
    BY <1>4, <2>2 DEF NumberOf
<1>5. Len(cells) = 0 \/ Len(cells) = 1 \/ Len(cells) = 2
  <2> DEFINE l == Len(cells)
  <2>1. l \in Nat /\ l <= 2
    BY <1>1
  <2> HIDE DEF l
  <2>2. l = 0 \/ l = 1 \/ l = 2
    BY <2>1
  <2> QED
    BY <2>2 DEF l
<1> QED
  BY <1>2, <1>3, <1>4, <1>5

\* So is the size of every device that was recorded.
LEMMA SizeType ==
  ASSUME IInv, NEW k \in 1 .. Len(found), RegHolds(tree[found[k].node])
  PROVE  SpelledSize(tree[found[k].node]) \in Nat
<1> DEFINE node == tree[found[k].node]
<1>1. Placed(tree) /\ found[k].node \in 1 .. Len(tree)
  BY TreeFacts DEF IInv
<1>2. node \in Node
  BY <1>1 DEF Placed
<1>3. Complete(node)
  BY DEF IInv, HalfWay
<1> HIDE DEF node
<1>4. node.parent \in 1 .. Len(tree)
  <2>1. node.parent \in Nat /\ node.parent < found[k].node /\ node.parent # 0
    BY <1>1, <1>3 DEF Placed, Complete, node
  <2> QED
    BY <1>1, <2>1 DEF Placed
<1>5. ParentOf(node) \in Node
  BY <1>1, <1>4 DEF Placed, ParentOf
<1>6. /\ ParentOf(node).addressCells <= 2 /\ ParentOf(node).sizeCells <= 2
      /\ Len(node.reg) >= ParentOf(node).addressCells + ParentOf(node).sizeCells
  BY DEF RegHolds, node
<1>7. /\ ParentOf(node).addressCells \in Int /\ ParentOf(node).addressCells >= 0
      /\ ParentOf(node).sizeCells \in Int /\ ParentOf(node).sizeCells >= 0
  <2>1. ParentOf(node).addressCells \in -1 .. 4 /\ ParentOf(node).sizeCells \in -1 .. 4
    BY <1>5, NodeFields
  <2>2. ParentOf(node).addressCells >= 0 /\ ParentOf(node).sizeCells >= 0
    BY <1>3 DEF Complete
  <2> QED
    BY <2>1, <2>2
<1>8. PICK a \in 0 .. 2, s \in 0 .. 2 :
        a = ParentOf(node).addressCells /\ s = ParentOf(node).sizeCells
  BY <1>6, <1>7
<1>9. node.reg \in Seq(Cell) /\ Len(node.reg) \in Nat /\ Len(node.reg) >= a + s
  BY <1>2, <1>6, <1>8, NodeFields, LenProperties
<1>10. \A i \in a + 1 .. a + s : node.reg[i] \in Cell
  BY <1>9, ElementOfSeq
<1>11. /\ SubSeq(node.reg, a + 1, a + s) \in Seq(Cell)
       /\ Len(SubSeq(node.reg, a + 1, a + s)) =
            IF a + 1 <= a + s THEN (a + s) - (a + 1) + 1 ELSE 0
  BY <1>10, SubSeqProperties
<1>12. Len(SubSeq(node.reg, a + 1, a + s)) <= 2
  BY <1>11
<1>13. NumberOf(SubSeq(node.reg, a + 1, a + s)) \in Nat
  BY <1>11, <1>12, NumberOfType
<1> QED
  BY <1>8, <1>13 DEF SpelledSize, node

\* Addresses and sizes of one and two cells are what the tree spells, whatever the
\* width of a cell and whichever of the two is the wider; of a serial port's sizes
\* those that the 32 bits of uart_port can hold.
THEOREM RegistersRight == Spec => []RegistersDecoded
<1>1. IInv => RegistersDecoded
  <2> SUFFICES ASSUME IInv, NEW k \in 1 .. Len(found) PROVE Decoded(found[k])
    BY DEF RegistersDecoded
  <2> DEFINE node == tree[found[k].node]
             size == SpelledSize(node)
  <2>1. Cut(found[k])
    BY DEF IInv, RegistersCut
  <2>2. RegHolds(node) => size \in Nat
    BY SizeType
  <2>3. size \in Nat /\ size < CellLimit => size % CellLimit = size
    <3> HIDE DEF size
    <3> QED
      BY LimitsAssumption
  <2> QED
    BY <2>1, <2>2, <2>3 DEF Cut, Decoded
<1> QED
  BY <1>1, Invariant, PTL

\* The size of a serial port is right just where it is less than 2^32.
PortSizesAreCut ==
  \A k \in 1 .. Len(found) :
    LET node == tree[found[k].node] IN
      RegHolds(node) /\ WantedUart(node) =>
        /\ found[k].size = SpelledSize(node) % CellLimit
        /\ found[k].size = SpelledSize(node) <=> SpelledSize(node) < CellLimit

\* A register region of 4 GiB or more, whose size takes two cells, is recorded modulo
\* 2^32 (dtb_parse.c:178, uart.h:16 "Size of the entire MMIO region"), never right.
THEOREM SizesCut == Spec => []PortSizesAreCut
<1>1. IInv => PortSizesAreCut
  <2> SUFFICES ASSUME IInv, NEW k \in 1 .. Len(found), RegHolds(tree[found[k].node]),
                      WantedUart(tree[found[k].node])
               PROVE  LET node == tree[found[k].node] IN
                        /\ found[k].size = SpelledSize(node) % CellLimit
                        /\ found[k].size = SpelledSize(node) <=> SpelledSize(node) < CellLimit
    BY DEF PortSizesAreCut
  <2> DEFINE size == SpelledSize(tree[found[k].node])
  <2>1. found[k].size = size % CellLimit
    BY DEF IInv, RegistersCut, Cut
  <2>2. size \in Nat
    BY SizeType
  <2>3. size % CellLimit = size <=> size < CellLimit
    <3> HIDE DEF size
    <3> QED
      BY <2>2, LimitsAssumption
  <2> QED
    BY <2>1, <2>3
<1> QED
  BY <1>1, Invariant, PTL

\* Only a wanted device with something missing stops the walk, and none such is
\* passed over.
THEOREM StopsRightly == Spec => []StopsForWantedOnly
<1>1. IInv => StopsForWantedOnly
  <2> SUFFICES ASSUME IInv PROVE StopsForWantedOnly
    OBVIOUS
  <2>1. Len(tree) \in Nat
    BY TreeFacts DEF IInv, Placed
  <2>2. pc = "done" => Passed = 1 .. Len(tree)
    BY <2>1 DEF IInv, HalfWay, Passed
  <2> QED
    BY <2>2 DEF IInv, HalfWay, StopsForWantedOnly
<1> QED
  BY <1>1, Invariant, PTL
=============================================================================
