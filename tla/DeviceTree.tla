----------------------------- MODULE DeviceTree -----------------------------
(***************************************************************************)
(* ParseDtb (kernel/src/device/dtb_parse.c): the walk over the nodes of a  *)
(* device tree that finds interrupt controllers and serial ports.  libfdt  *)
(* is external: a tree is the sequence of its nodes in the order in which  *)
(* fdt_next_node visits them, and a node says what libfdt returns for it.  *)
(***************************************************************************)
EXTENDS Integers, Sequences

CONSTANTS
  Trees,      (* the device trees explored                                 *)
  CellLimit,  (* 2^32 in the code: cells hold less                         *)
  U8Limit,    (* 2^8 in the code                                           *)
  NULL        (* a property that fdt_getprop does not find                 *)

ASSUME LimitsAssumption == CellLimit \in Nat \ {0} /\ U8Limit \in Nat \ {0}

Cell == 0 .. CellLimit - 1

ASSUME NullAssumption == NULL \notin Cell /\ NULL \notin {"okay", "ok", "disabled"}

Node ==
  [ parent       : Nat,                 \* its position; 0 for the root
    compatible   : Seq(STRING),         \* its strings; none: no such property
    isController : BOOLEAN,             \* has "interrupt-controller"
    status       : {"okay", "ok", "disabled", NULL},
    addressCells : -1 .. 4,             \* what libfdt says of its children;
    sizeCells    : -1 .. 4,             \* negative: an error
    reg          : Seq(Cell),           \* none: no such property
    phandle      : Cell \cup {NULL},
    regShift     : Cell \cup {NULL},
    regIOWidth   : Cell \cup {NULL} ]

ASSUME TreesAssumption ==
  \A t \in Trees :
    t \in Seq(Node) /\ t # << >> /\ \A k \in 1 .. Len(t) : t[k].parent < k

VARIABLES
  tree,
  pc,          (* "walk", "done", "hcf", or "fault": read through NULL     *)
  nodeOffset,  (* currentNodeOffest, as a position in the walk             *)
  found        (* history: the interrupt_controller and uart_port records  *)
               (* built.  Each is a local variable of one iteration; the   *)
               (* code keeps none, and no guard here reads them            *)

vars == <<tree, pc, nodeOffset, found>>

n == tree[nodeOffset]

Init ==
  /\ tree \in Trees
  /\ pc = "walk" /\ nodeOffset = 1 /\ found = << >>
-----------------------------------------------------------------------------
(* The parts of a node.                                                     *)

\* strncmp over the name and its terminator: the first string, as a whole.
GetIntCtrlTypeFromDtbCompat(compat) ==
  CASE Head(compat) = "riscv,plic0"    -> "INC_PLIC"
    [] Head(compat) = "riscv,clint0"   -> "INC_CLINT"
    [] Head(compat) = "riscv,cpu-intc" -> "INC_CPU_INC"
    [] Head(compat) = "ky,x1-gpio"     -> "INC_GPIO"
    [] OTHER                           -> "INC_INVALID"

GetUartStdFromDtbCompat(compat) ==
  IF Head(compat) \in {"ns16550a", "ky,pxa-uart"} THEN "UART_STD_16550A" ELSE "UART_STD_INVALID"

\* Faults for the mutation runs: a missing status is "disabled"; it is not looked at.
StatusMustBeThere(node) == node.status \in {"okay", "ok"}
StatusNotLookedAt(node) == TRUE

CheckOkFdtNodeStatus(node) == node.status = NULL \/ node.status \in {"okay", "ok"}

\* pReg[k]; past the end of the property it is whatever follows.
PReg(reg, beyond, k) == IF k < Len(reg) THEN reg[k + 1] ELSE beyond[k]

\* The number at pReg[first]: two cells when there are two, else one.
CellValue(reg, beyond, first, cells) ==
  CASE cells = 0         -> 0
    [] cells = 2         -> PReg(reg, beyond, first) * CellLimit + PReg(reg, beyond, first + 1)
    [] cells \in {1, 3, 4} -> PReg(reg, beyond, first)

\* Fault: the size is taken from the second cell, however wide the address is.
SizeFieldAlwaysOne(addrCells) == IF addrCells = 0 THEN 0 ELSE 1

SizeFieldOffset(addrCells) ==
  CASE addrCells = 0         -> 0
    [] addrCells = 2         -> 2
    [] addrCells \in {1, 3, 4} -> 1

ParentOf(node) == tree[node.parent]

\* ParseNodeRegister returns a negative code ...
RegisterFails(node) ==
  node.parent = 0 \/ ParentOf(node).addressCells < 0 \/ ParentOf(node).sizeCells < 0

\* ... or reads through a missing "reg" ...
RegisterFaults(node) ==
  /\ ~RegisterFails(node)
  /\ node.reg = << >>
  /\ ParentOf(node).addressCells # 0 \/ ParentOf(node).sizeCells # 0

\* ... or stores one of these.
Registers(node) ==
  LET addrCells == ParentOf(node).addressCells
      sizeCells == ParentOf(node).sizeCells
  IN  {[ addr |-> CellValue(node.reg, beyond, 0, addrCells),
         size |-> CellValue(node.reg, beyond, SizeFieldOffset(addrCells), sizeCells) ] :
         beyond \in [0 .. 3 -> Cell]}
-----------------------------------------------------------------------------
(* The walk, one action per way a node is dealt with.                       *)

Continue ==
  /\ nodeOffset' = nodeOffset + 1
  /\ UNCHANGED <<tree, pc>>

Stop(how) ==
  /\ pc' = how
  /\ UNCHANGED <<tree, nodeOffset, found>>

Walking == pc = "walk" /\ nodeOffset <= Len(tree)

IsController(node) ==
  /\ node.compatible # << >> /\ node.isController
  /\ GetIntCtrlTypeFromDtbCompat(node.compatible) # "INC_INVALID"

IsUart(node) ==
  /\ node.compatible # << >> /\ ~IsController(node)
  /\ GetUartStdFromDtbCompat(node.compatible) # "UART_STD_INVALID"

IsUsedUart(node) == IsUart(node) /\ CheckOkFdtNodeStatus(node)

\* intCtl is filled in, and gone when the iteration ends.
RecordController ==
  /\ Walking /\ IsController(n)
  /\ ~RegisterFails(n) /\ ~RegisterFaults(n) /\ n.phandle # NULL
  /\ \E r \in Registers(n) :
       found' = Append(found,
         [ node |-> nodeOffset, type |-> GetIntCtrlTypeFromDtbCompat(n.compatible),
           baseAddr |-> r.addr, regSize |-> r.size, phandle |-> n.phandle ])
  /\ Continue

\* So is serialComPort: its size is cut to 32 bits, regShift and regIOWidthInBytes to 8.
RecordUart ==
  /\ Walking /\ IsUsedUart(n)
  /\ ~RegisterFails(n) /\ ~RegisterFaults(n)
  /\ NULL \notin {n.phandle, n.regShift, n.regIOWidth}
  /\ \E r \in Registers(n) :
       found' = Append(found,
         [ node |-> nodeOffset, std |-> GetUartStdFromDtbCompat(n.compatible),
           baseAddr |-> r.addr, size |-> r.size % CellLimit, phandle |-> n.phandle,
           regShift |-> n.regShift % U8Limit, regIOWidthInBytes |-> n.regIOWidth % U8Limit ])
  /\ Continue

\* Fault: the node after is skipped too.
PassNodeSkipsNext ==
  /\ Walking /\ ~IsController(n) /\ ~IsUsedUart(n)
  /\ nodeOffset' = nodeOffset + 2
  /\ UNCHANGED <<tree, pc, found>>

\* Nodes without "compatible", serial ports that are off, and all others: what the
\* code looks up of these it does not use.
PassNode ==
  /\ Walking /\ ~IsController(n) /\ ~IsUsedUart(n)
  /\ UNCHANGED found
  /\ Continue

HaltOnRegister ==
  /\ Walking /\ (IsController(n) \/ IsUsedUart(n))
  /\ RegisterFails(n)
  /\ Stop("hcf")

\* A property that is not there is read: "err lenOrErrCodeHolder" is a comment.
ReadThroughNull ==
  /\ Walking /\ (IsController(n) \/ IsUsedUart(n))
  /\ ~RegisterFails(n)
  /\ \/ RegisterFaults(n)
     \/ n.phandle = NULL
     \/ IsUsedUart(n) /\ NULL \in {n.regShift, n.regIOWidth}
  /\ Stop("fault")

EndOfTree ==
  /\ pc = "walk" /\ nodeOffset > Len(tree)
  /\ Stop("done")

Next ==
  RecordController \/ RecordUart \/ PassNode \/ HaltOnRegister \/ ReadThroughNull \/ EndOfTree

Spec == Init /\ [][Next]_vars

-----------------------------------------------------------------------------
(* Properties.                                                              *)

\* The members of an interrupt_controller and of a uart_port, with the place of
\* the node they come from.
ControllerRecord ==
  [ node : Nat, type : {"INC_PLIC", "INC_CLINT", "INC_CPU_INC", "INC_GPIO"},
    baseAddr : Nat, regSize : Nat, phandle : Cell ]

UartRecord ==
  [ node : Nat, std : {"UART_STD_16550A"}, baseAddr : Nat, size : Cell, phandle : Cell,
    regShift : 0 .. U8Limit - 1, regIOWidthInBytes : 0 .. U8Limit - 1 ]

TypeOK ==
  /\ tree \in Seq(Node)
  /\ pc \in {"walk", "done", "hcf", "fault"}
  /\ nodeOffset \in 1 .. Len(tree) + 1
  /\ found \in Seq(ControllerRecord \cup UartRecord)
  /\ \A k \in 1 .. Len(found) : found[k].node \in 1 .. Len(tree)

Controllers == {"riscv,plic0", "riscv,clint0", "riscv,cpu-intc", "ky,x1-gpio"}
Uarts       == {"ns16550a", "ky,pxa-uart"}

\* The devices the kernel is after: dtb_parse.c:20 "treat missing status as
\* enabled" for serial ports; controllers are never off.
Wanted(node) ==
  /\ node.compatible # << >>
  /\ \/ node.isController /\ node.compatible[1] \in Controllers
     \/ node.compatible[1] \in Uarts /\ node.status # "disabled"

WantedUart(node) == Wanted(node) /\ node.compatible[1] \in Uarts

\* When the walk ends every wanted device has been recorded once, and nothing else.
FoundAllOnce ==
  pc = "done" =>
    /\ {found[k].node : k \in 1 .. Len(found)} = {k \in 1 .. Len(tree) : Wanted(tree[k])}
    /\ \A k, l \in 1 .. Len(found) : found[k].node = found[l].node => k = l

\* What up to two cells spell out, most significant first.
NumberOf(cells) ==
  CASE Len(cells) = 0 -> 0
    [] Len(cells) = 1 -> cells[1]
    [] Len(cells) = 2 -> cells[1] * CellLimit + cells[2]

\* "reg" holds the cells of an address and a size, each of at most two cells.
RegHolds(node) ==
  /\ ParentOf(node).addressCells <= 2 /\ ParentOf(node).sizeCells <= 2
  /\ Len(node.reg) >= ParentOf(node).addressCells + ParentOf(node).sizeCells

\* The numbers that the first cells, and the next ones, spell out.
SpelledAddr(node) == NumberOf(SubSeq(node.reg, 1, ParentOf(node).addressCells))

SpelledSize(node) ==
  LET addrCells == ParentOf(node).addressCells
  IN  NumberOf(SubSeq(node.reg, addrCells + 1, addrCells + ParentOf(node).sizeCells))

Decoded(record) ==
  LET node == tree[record.node] IN
    RegHolds(node) =>
      /\ record.baseAddr = SpelledAddr(node)
      /\ IF WantedUart(node)
         THEN SpelledSize(node) < CellLimit => record.size = SpelledSize(node)
         ELSE record.regSize = SpelledSize(node)

\* Where addresses and sizes take at most two cells and "reg" holds them, what is
\* recorded is the number that the first cells, and the number that the next cells,
\* spell out, for every combination of the two widths; the size of a serial port where
\* it is less than 2^32, since uart_port has 32 bits for it (uart.h:16).
RegistersDecoded == \A k \in 1 .. Len(found) : Decoded(found[k])

\* A wanted device that lacks nothing the kernel reads.
Complete(node) ==
  /\ node.parent # 0
  /\ ParentOf(node).addressCells >= 0 /\ ParentOf(node).sizeCells >= 0
  /\ node.reg # << >> \/ (ParentOf(node).addressCells = 0 /\ ParentOf(node).sizeCells = 0)
  /\ node.phandle # NULL
  /\ WantedUart(node) => node.regShift # NULL /\ node.regIOWidth # NULL

\* The walk is cut short by incomplete wanted devices only: never by a device that
\* is off or unknown, whatever it lacks.
StopsForWantedOnly ==
  /\ pc \in {"hcf", "fault"} => Wanted(n) /\ ~Complete(n)
  /\ pc = "done" => \A k \in 1 .. Len(tree) : Wanted(tree[k]) => Complete(tree[k])
=============================================================================
