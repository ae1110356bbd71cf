---------------------------- MODULE MCDeviceTree ----------------------------
(***************************************************************************)
(* Trees of a root and up to two more nodes, the second below the root or  *)
(* below the first.                                                        *)
(***************************************************************************)
EXTENDS DeviceTree

CONSTANT Phandle

Plain ==
  [ parent |-> 1, compatible |-> << >>, isController |-> FALSE, status |-> NULL,
    addressCells |-> 2, sizeCells |-> 1, reg |-> <<1, 0, 1, 1>>,
    phandle |-> Phandle, regShift |-> 1, regIOWidth |-> 1 ]

\* Roots with every pair of cell counts that libfdt may report.
Roots ==
  {[Plain EXCEPT !.parent = 0, !.compatible = <<"board">>, !.addressCells = a, !.sizeCells = s] :
     a \in -1 .. 3, s \in -1 .. 2}

\* Every kind of node ...
Kinds ==
  { Plain,
    [Plain EXCEPT !.compatible = <<"sensor">>, !.status = "okay"],
    [Plain EXCEPT !.compatible = <<"riscv,plic0", "plic">>, !.isController = TRUE],
    [Plain EXCEPT !.compatible = <<"vendor,plic", "riscv,plic0">>, !.isController = TRUE],
    [Plain EXCEPT !.compatible = <<"ky,x1-gpio">>],
    [Plain EXCEPT !.compatible = <<"ns16550a">>],
    [Plain EXCEPT !.compatible = <<"ky,pxa-uart">>, !.status = "ok"],
    [Plain EXCEPT !.compatible = <<"ns16550a">>, !.status = "disabled"] }

\* ... complete, or with a property missing or short.
Nodes ==
  Kinds
    \cup {[k EXCEPT !.reg = << >>] : k \in Kinds}
    \cup {[k EXCEPT !.reg = <<1>>] : k \in Kinds}
    \cup {[k EXCEPT !.phandle = NULL] : k \in Kinds}
    \cup {[k EXCEPT !.regShift = NULL] : k \in Kinds}
    \cup {[k EXCEPT !.regIOWidth = NULL] : k \in Kinds}

Placed(node, parent) == [node EXCEPT !.parent = parent]

SmallTrees ==
  {<<r, m>> : r \in Roots, m \in Nodes}
    \cup {<<r, m, Placed(k, p)>> : r \in Roots, m \in Nodes, k \in Kinds, p \in {1, 2}}
=============================================================================
