------------------------------ MODULE TextGrid ------------------------------
(***************************************************************************)
(* What the framebuffer console is to those who print on it: a grid of     *)
(* character cells filled in reading order.  A line break, or a full line, *)
(* moves to the next line; past the last line the text goes on at the top. *)
(* A grid too low for a line (rows = 0) keeps the newest character only.   *)
(***************************************************************************)
EXTENDS Naturals, Sequences

CONSTANTS Newline, Messages

VARIABLES
  cols, rows,  (* the size of the grid                                     *)
  row, col,    (* where the next character goes; col >= cols: nowhere  *)
  page,        (* the characters since the text was last at the top        *)
  rest         (* the characters of the current call still to be printed   *)

vars == <<cols, rows, row, col, page, rest>>

Init ==
  /\ cols \in Nat /\ rows \in Nat
  /\ row = 0 /\ col = 0
  /\ page = << >> /\ rest = << >>

Call == rest = << >> /\ rest' \in Messages /\ UNCHANGED <<cols, rows, row, col, page>>

Put(c, atRow, atCol, before) ==
  /\ page' = Append(before, [char |-> c, row |-> atRow, col |-> atCol])
  /\ row' = atRow /\ col' = atCol + 1
  /\ rest' = Tail(rest)
  /\ UNCHANGED <<cols, rows>>

Breaks(c) == c = Newline \/ col >= cols

OnThisLine(c) == ~Breaks(c) /\ Put(c, row, col, IF rows = 0 THEN << >> ELSE page)

OnNextLine(c) == Breaks(c) /\ row + 1 < rows /\ Put(c, row + 1, 0, page)

OnTopLine(c) == Breaks(c) /\ row + 1 >= rows /\ Put(c, 0, 0, << >>)

Next ==
  \/ Call
  \/ rest # << >> /\ (OnThisLine(Head(rest)) \/ OnNextLine(Head(rest)) \/ OnTopLine(Head(rest)))

Spec == Init /\ [][Next]_vars
=============================================================================
