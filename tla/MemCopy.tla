------------------------------- MODULE MemCopy ------------------------------
(***************************************************************************)
(* memcpy (nolibc/src/string/memcpy.c), which is memmove too: bytes up to  *)
(* a word boundary, whole words, the bytes left over; upwards when the     *)
(* destination lies below the source, downwards otherwise.  One action per *)
(* iteration of a loop.                                                    *)
(***************************************************************************)
EXTENDS ByteMemory

\* What memory holds when the call is made, and its arguments: both ranges lie in it.
Call ==
  {c \in [mem : Memory, dst : Nat, src : Nat, length : Nat] :
     c.dst + c.length <= MemSize /\ c.src + c.length <= MemSize}

VARIABLES
  mem,
  asked,     (* the call: what memory held, dst0, src0 and length           *)
  pc,        (* "call", "align", "words", "tail", "done"                   *)
  dst,
  src,
  length,
  t

vars == <<mem, asked, pc, dst, src, length, t>>

wsize == 4  \* sizeof( int )

Init ==
  /\ asked \in Call /\ mem = asked.mem
  /\ pc = "call"
  /\ dst = asked.dst /\ src = asked.src /\ length = asked.length
  /\ t = 0  \* uninitialised, and not read before it is set

\* Fault for the mutation runs: every call copies upwards.
AlwaysForward == TRUE

Forward == asked.dst < asked.src

\* Faults: only the source's alignment counts; the few bytes of a short call are
\* forgotten.
SourceToBoundary(d, s, n) ==
  LET few == IF Forward THEN n < wsize ELSE n <= wsize IN
  IF s % wsize = 0 THEN 0 ELSE IF few THEN n ELSE IF Forward THEN wsize - (s % wsize) ELSE s % wsize

BoundaryBeyondEnd(d, s, n) ==
  CASE d % wsize = 0 /\ s % wsize = 0         -> 0
    [] d % wsize # s % wsize                  -> n
    [] d % wsize = s % wsize /\ s % wsize # 0 -> IF Forward THEN wsize - (s % wsize) ELSE s % wsize

\* How many bytes to copy one at a time first: all, when the low bits of the two
\* pointers differ or no whole word is left after them.
BytesToBoundary(d, s, n) ==
  LET few == IF Forward THEN n < wsize ELSE n <= wsize IN
  CASE d % wsize = 0 /\ s % wsize = 0         -> 0
    [] d % wsize # s % wsize                  -> n
    [] d % wsize = s % wsize /\ s % wsize # 0 ->
         IF few THEN n ELSE IF Forward THEN wsize - (s % wsize) ELSE s % wsize

\* Up to the first loop.
Begin ==
  /\ pc = "call" /\ length # 0 /\ dst # src
  /\ LET d == IF Forward THEN dst ELSE dst + length
         s == IF Forward THEN src ELSE src + length
     IN  /\ dst' = d /\ src' = s
         /\ t' = BytesToBoundary(d, s, length)
         /\ length' = length - t'
  /\ pc' = "align"
  /\ UNCHANGED <<mem, asked>>

NothingToDo ==
  /\ pc = "call" /\ (length = 0 \/ dst = src)
  /\ pc' = "done"
  /\ UNCHANGED <<mem, asked, dst, src, length, t>>

\* n bytes from address s, read together and then stored at d.
Stored(d, s, n) ==
  [a \in Address |-> IF a \in d .. d + n - 1 THEN mem[s + (a - d)] ELSE mem[a]]

\* The body of the loops: n bytes and both pointers.
Copy(n) ==
  IF Forward
  THEN mem' = Stored(dst, src, n) /\ dst' = dst + n /\ src' = src + n
  ELSE mem' = Stored(dst - n, src - n, n) /\ dst' = dst - n /\ src' = src - n

CopyByte ==
  /\ pc \in {"align", "tail"} /\ t > 0
  /\ Copy(1)
  /\ t' = t - 1
  /\ UNCHANGED <<asked, pc, length>>

CopyWord ==
  /\ pc = "words" /\ t > 0
  /\ Copy(wsize)
  /\ t' = t - 1
  /\ UNCHANGED <<asked, pc, length>>

StartWords ==
  /\ pc = "align" /\ t = 0
  /\ pc' = "words" /\ t' = length \div wsize
  /\ UNCHANGED <<mem, asked, dst, src, length>>

StartTail ==
  /\ pc = "words" /\ t = 0
  /\ pc' = "tail" /\ t' = length % wsize
  /\ UNCHANGED <<mem, asked, dst, src, length>>

Return ==
  /\ pc = "tail" /\ t = 0
  /\ pc' = "done"
  /\ UNCHANGED <<mem, asked, dst, src, length, t>>

Next == Begin \/ NothingToDo \/ CopyByte \/ CopyWord \/ StartWords \/ StartTail \/ Return

Spec == Init /\ [][Next]_vars

\* One processor that keeps executing the call.
FairSpec == Spec /\ WF_vars(Next)
-----------------------------------------------------------------------------
(* Properties.                                                              *)

TypeOK ==
  /\ mem \in Memory
  /\ pc \in {"call", "align", "words", "tail", "done"}
  /\ dst \in asked.dst .. asked.dst + asked.length
  /\ src \in asked.src .. asked.src + asked.length
  /\ length \in 0 .. asked.length /\ t \in 0 .. asked.length

\* How many bytes the loops still have to copy.
ToCopy ==
  CASE pc = "call"  -> length
    [] pc = "align" -> t + length
    [] pc = "words" -> (t * wsize) + (length % wsize)
    [] pc = "tail"  -> t
    [] pc = "done"  -> 0

\* A word is read and stored at word boundaries only, on whatever addresses the
\* call was made: elsewhere the access may trap (memcpy.c:78 "Try to align
\* operands").
WordsAligned ==
  pc = "words" /\ t > 0 => dst % wsize = 0 /\ src % wsize = 0

\* memcpy.c:45 "handling overlap": no byte of the source is overwritten while it is
\* still to be copied, a word at a time too.
SourceIntact ==
  LET first == IF Forward THEN asked.src + asked.length - ToCopy ELSE asked.src IN
  \A k \in 0 .. ToCopy - 1 : mem[first + k] = asked.mem[first + k]

\* Outside the destination nothing changes, at any moment.
OthersUntouched ==
  \A a \in Address \ (asked.dst .. asked.dst + asked.length - 1) : mem[a] = asked.mem[a]

\* The call does what BlockMove does in one step, and returns.
Abstract == INSTANCE BlockMove WITH
  mem      <- IF pc = "done" THEN mem ELSE asked.mem,
  returned <- pc = "done"

ImplementsBlockMove == Abstract!Spec
=============================================================================
