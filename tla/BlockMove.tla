------------------------------ MODULE BlockMove -----------------------------
(***************************************************************************)
(* What string.h promises of memmove, and of memcpy wherever it says       *)
(* anything: the bytes of one range of memory appear in another, whether   *)
(* or not the two overlap, and no other byte changes.                      *)
(***************************************************************************)
EXTENDS Integers

VARIABLES
  mem,
  asked,     (* the call: what memory held, dst, src and length            *)
  returned

vars == <<mem, asked, returned>>

Init == mem = asked.mem /\ returned = FALSE

Moved(call) ==
  [a \in DOMAIN call.mem |->
     IF a \in call.dst .. call.dst + call.length - 1
     THEN call.mem[call.src + (a - call.dst)]
     ELSE call.mem[a]]

Move ==
  /\ ~returned
  /\ mem' = Moved(asked) /\ returned' = TRUE
  /\ UNCHANGED asked

Spec == Init /\ [][Move]_vars /\ WF_vars(Move)
=============================================================================
