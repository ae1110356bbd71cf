--------------------------- MODULE MCUart16550A -----------------------------
(***************************************************************************)
(* A port that works, one whose device tree gives a width that no accessor *)
(* knows, and one of another standard.                                     *)
(***************************************************************************)
EXTENDS Uart16550A

Port(std, width) == [std |-> std, regIOWidthInBytes |-> width]

WorkingPort == {Port("UART_STD_16550A", 4)}

BothSizes == {1, 2}

AllPorts == WorkingPort \cup {Port("UART_STD_16550A", 0), Port("UART_STD_INVALID", 1)}
=============================================================================
