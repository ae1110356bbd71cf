---------------------------- MODULE Nolibc_proofs ----------------------------
(***************************************************************************)
(* nolibc's memory, string and token functions, for memories of every      *)
(* size, all blocks and every program that keeps to the functions'         *)
(* contracts.  The parts, in order:                                        *)
(*   - the block copy: every call of memcpy and memmove, for all lengths,  *)
(*     overlaps and alignments, and that it implements BlockMove;          *)
(*   - loops: what the recursive functions of CStrings compute, by the     *)
(*     least counterexample, since the library's induction theorems take   *)
(*     operators as parameters;                                            *)
(*   - the searching functions, then what they answer about a block that   *)
(*     was copied before (Searching, Finding);                             *)
(*   - the writing functions, and strtok's calls one after the other       *)
(*     (Writing);                                                          *)
(*   - the numbers: the limits, the loop over the digits, the parts of the *)
(*     text, the results (ReadingBack).                                    *)
(***************************************************************************)
EXTENDS Nolibc, WellFoundedInduction, FiniteSetTheorems, SequenceTheorems, TLAPS

(***************************************************************************)
(* The block copy.                                                         *)
(***************************************************************************)

\* The part of the destination that holds its new bytes.
CopiedPart ==
  IF Forward
  THEN asked.dst .. asked.dst + asked.length - ToCopy - 1
  ELSE asked.dst + ToCopy .. asked.dst + asked.length - 1

\* Memory is what it was, but for that part.
HalfWay ==
  mem = [a \in Address |->
           IF a \in CopiedPart THEN asked.mem[asked.src + (a - asked.dst)] ELSE asked.mem[a]]

\* The pointers stand where the copied part ends.
PointersInStep ==
  /\ pc = "call" => dst = asked.dst /\ src = asked.src /\ length = asked.length
  /\ pc \in {"align", "words", "tail"} =>
       IF Forward
       THEN dst = asked.dst + asked.length - ToCopy /\ src = asked.src + asked.length - ToCopy
       ELSE dst = asked.dst + ToCopy /\ src = asked.src + ToCopy

\* After the single bytes both pointers are at a word boundary, if any word is left.
AlignedAfterBytes ==
  pc = "align" /\ length >= wsize =>
    IF Forward
    THEN (dst + t) % wsize = 0 /\ (src + t) % wsize = 0
    ELSE (dst - t) % wsize = 0 /\ (src - t) % wsize = 0

IInv ==
  /\ asked \in Call
  /\ TypeOK
  /\ ToCopy \in 0 .. asked.length
  /\ PointersInStep /\ AlignedAfterBytes /\ WordsAligned
  /\ HalfWay

LEMMA CallFacts ==
  ASSUME NEW c \in Call
  PROVE  /\ c.mem \in Memory /\ c.dst \in Nat /\ c.src \in Nat /\ c.length \in Nat
         /\ c.dst + c.length <= MemSize /\ c.src + c.length <= MemSize
BY DEF Call

LEMMA WordsOf ==
  ASSUME NEW n \in Nat
  PROVE  /\ n \div 4 \in Nat /\ n % 4 \in 0 .. 3 /\ n = ((n \div 4) * 4) + (n % 4)
         /\ n \div 4 <= n
OBVIOUS

\* What is still to be copied has not been overwritten.
LEMMA StillThere ==
  ASSUME IInv
  PROVE  SourceIntact
<1> DEFINE first == IF Forward THEN asked.src + asked.length - ToCopy ELSE asked.src
<1>1. asked \in Call /\ HalfWay /\ ToCopy \in 0 .. asked.length
  BY DEF IInv
<1>2. SUFFICES ASSUME NEW k \in 0 .. ToCopy - 1
               PROVE  mem[first + k] = asked.mem[first + k]
  BY DEF SourceIntact
<1>3. first + k \in Address
  BY <1>1, CallFacts, MemoryAssumption DEF Address
<1>4. asked.dst \in Nat /\ asked.src \in Nat /\ asked.length \in Nat
  BY <1>1, CallFacts
<1>5. first + k \notin CopiedPart
  <2>1. CASE Forward
    BY <1>1, <1>4, <2>1 DEF CopiedPart, Forward
  <2>2. CASE ~Forward
    BY <1>1, <1>4, <2>2 DEF CopiedPart, Forward
  <2> QED
    BY <2>1, <2>2
<1> QED
  BY <1>1, <1>3, <1>5 DEF HalfWay

\* n more bytes, n = 1 or a word: the copied part grows by them.
LEMMA Advance ==
  ASSUME IInv, pc \in {"align", "words", "tail"},
         NEW n \in Nat \ {0}, n <= ToCopy,
         Copy(n), asked' = asked, ToCopy' = ToCopy - n
  PROVE  /\ mem' \in Memory /\ HalfWay'
         /\ IF Forward
            THEN /\ dst' = asked.dst + asked.length - ToCopy'
                 /\ src' = asked.src + asked.length - ToCopy'
            ELSE dst' = asked.dst + ToCopy' /\ src' = asked.src + ToCopy'
<1> DEFINE d == IF Forward THEN dst ELSE dst - n
           s == IF Forward THEN src ELSE src - n
           new(a) == IF a \in CopiedPart' THEN asked.mem[asked.src + (a - asked.dst)] ELSE asked.mem[a]
<1>1. /\ asked \in Call /\ HalfWay /\ ToCopy \in 0 .. asked.length
      /\ mem \in Memory
  BY DEF IInv, TypeOK
<1>2. IF Forward
      THEN dst = asked.dst + asked.length - ToCopy /\ src = asked.src + asked.length - ToCopy
      ELSE dst = asked.dst + ToCopy /\ src = asked.src + ToCopy
  BY DEF IInv, PointersInStep
<1>3. Forward' <=> Forward
  BY DEF Forward
<1>4. mem' = Stored(d, s, n)
  BY DEF Copy
<1>5. \A a \in d .. d + n - 1 : s + (a - d) \in Address /\ mem[s + (a - d)] = asked.mem[s + (a - d)]
  <2>1. SUFFICES ASSUME NEW a \in d .. d + n - 1
                 PROVE  s + (a - d) \in Address /\ mem[s + (a - d)] = asked.mem[s + (a - d)]
    OBVIOUS
  <2>2. s + (a - d) \in Address
    BY <1>1, <1>2, CallFacts, MemoryAssumption DEF Address
  <2>3. s + (a - d) \notin CopiedPart
    <3>1. asked.dst \in Nat /\ asked.src \in Nat /\ asked.length \in Nat
      BY <1>1, CallFacts
    <3>2. CASE Forward
      BY <1>1, <1>2, <3>1, <3>2 DEF CopiedPart, Forward
    <3>3. CASE ~Forward
      BY <1>1, <1>2, <3>1, <3>3 DEF CopiedPart, Forward
    <3> QED
      BY <3>2, <3>3
  <2> QED
    BY <1>1, <2>2, <2>3 DEF HalfWay
<1>6. \A a \in Address : Stored(d, s, n)[a] = new(a)
  <2>1. SUFFICES ASSUME NEW a \in Address
                 PROVE  Stored(d, s, n)[a] = new(a)
    OBVIOUS
  <2>2. CASE a \in d .. d + n - 1
    <3>1. a \in CopiedPart' /\ s + (a - d) = asked.src + (a - asked.dst)
      BY <1>1, <1>2, <1>3, <2>2, CallFacts DEF CopiedPart, Address
    <3>2. Stored(d, s, n)[a] = mem[s + (a - d)]
      BY <2>2 DEF Stored
    <3> QED
      BY <1>5, <2>2, <3>1, <3>2
  <2>3. CASE a \notin d .. d + n - 1
    <3>1. a \in CopiedPart' <=> a \in CopiedPart
      BY <1>1, <1>2, <1>3, <2>3, CallFacts, MemoryAssumption DEF CopiedPart, Address
    <3>2. Stored(d, s, n)[a] = mem[a]
      BY <2>3 DEF Stored
    <3> QED
      BY <1>1, <3>1, <3>2 DEF HalfWay
  <2> QED
    BY <2>2, <2>3
<1>7. HalfWay'
  BY <1>4, <1>6 DEF HalfWay, Stored
<1>8. mem' \in Memory
  <2>1. \A a \in Address : new(a) \in Byte
    <3>1. \A a \in Address : a \in CopiedPart' => asked.src + (a - asked.dst) \in Address
      BY <1>1, <1>3, CallFacts, MemoryAssumption DEF CopiedPart, Address
    <3> QED
      BY <1>1, <3>1, CallFacts DEF Memory
  <2> QED
    BY <1>4, <1>6, <2>1 DEF Memory, Stored
<1>9. IF Forward
      THEN /\ dst' = asked.dst + asked.length - ToCopy'
           /\ src' = asked.src + asked.length - ToCopy'
      ELSE dst' = asked.dst + ToCopy' /\ src' = asked.src + ToCopy'
  BY <1>1, <1>2, CallFacts DEF Copy
<1> QED
  BY <1>7, <1>8, <1>9

LEMMA Initially == Init => IInv
<1> SUFFICES ASSUME Init PROVE IInv
  OBVIOUS
<1>1. asked \in Call /\ mem = asked.mem /\ pc = "call" /\ t = 0
      /\ dst = asked.dst /\ src = asked.src /\ length = asked.length
  BY DEF Init
<1>2. ToCopy = asked.length
  BY <1>1 DEF ToCopy
<1>3. TypeOK /\ PointersInStep /\ AlignedAfterBytes /\ WordsAligned
  BY <1>1, CallFacts DEF TypeOK, PointersInStep, AlignedAfterBytes, WordsAligned
<1>4. HalfWay
  BY <1>1, <1>2, CallFacts DEF HalfWay, CopiedPart, Memory
<1> QED
  BY <1>1, <1>2, <1>3, <1>4, CallFacts DEF IInv

LEMMA BeginKeeps == IInv /\ Begin => IInv'
<1> SUFFICES ASSUME IInv, Begin PROVE IInv'
  OBVIOUS
<1> DEFINE d == IF Forward THEN dst ELSE dst + length
           s == IF Forward THEN src ELSE src + length
<1>1. /\ asked \in Call /\ asked' = asked /\ mem' = mem /\ mem \in Memory
      /\ pc = "call" /\ pc' = "align"
      /\ dst = asked.dst /\ src = asked.src /\ length = asked.length
      /\ dst' = d /\ src' = s /\ t' = BytesToBoundary(d, s, length) /\ length' = length - t'
  BY DEF Begin, IInv, TypeOK, PointersInStep
<1>2. asked.dst \in Nat /\ asked.src \in Nat /\ asked.length \in Nat /\ d \in Nat /\ s \in Nat
  BY <1>1, CallFacts
<1> HIDE DEF d, s
<1>3. /\ t' \in 0 .. asked.length
      /\ asked.length - t' >= 4 =>
           IF Forward THEN (d + t') % 4 = 0 /\ (s + t') % 4 = 0
           ELSE (d - t') % 4 = 0 /\ (s - t') % 4 = 0
  <2>1. CASE d % 4 = 0 /\ s % 4 = 0
    <3>1. t' = 0
      BY <1>1, <2>1 DEF BytesToBoundary, wsize
    <3>2. d + 0 = d /\ s + 0 = s /\ d - 0 = d /\ s - 0 = s
      BY <1>2
    <3> QED
      BY <1>2, <2>1, <3>1, <3>2
  <2>2. CASE d % 4 # s % 4
    BY <1>1, <1>2, <2>2 DEF BytesToBoundary, wsize
  <2>3. CASE d % 4 = s % 4 /\ s % 4 # 0
    BY <1>1, <1>2, <2>3 DEF BytesToBoundary, wsize
  <2> QED
    BY <1>2, <2>1, <2>2, <2>3
<1>4. ToCopy = asked.length /\ ToCopy' = asked.length
  BY <1>1, <1>2, <1>3 DEF ToCopy
<1>5. Forward' <=> Forward
  BY <1>1 DEF Forward
<1>6. TypeOK'
  BY <1>1, <1>2, <1>3 DEF TypeOK, d, s
<1>7. PointersInStep'
  BY <1>1, <1>2, <1>4, <1>5 DEF PointersInStep, d, s
<1>8. AlignedAfterBytes' /\ WordsAligned'
  BY <1>1, <1>2, <1>3, <1>5 DEF AlignedAfterBytes, WordsAligned, wsize
<1>9. CopiedPart' = CopiedPart
  BY <1>1, <1>4, <1>5 DEF CopiedPart
<1>10. HalfWay'
  BY <1>1, <1>9 DEF HalfWay, IInv
<1> QED
  BY <1>1, <1>2, <1>4, <1>6, <1>7, <1>8, <1>10 DEF IInv

LEMMA NothingToDoKeeps == IInv /\ NothingToDo => IInv'
<1> SUFFICES ASSUME IInv, NothingToDo PROVE IInv'
  OBVIOUS
<1>1. /\ asked \in Call /\ asked' = asked /\ mem' = mem /\ mem \in Memory
      /\ pc = "call" /\ pc' = "done"
      /\ dst = asked.dst /\ src = asked.src /\ length = asked.length
      /\ dst' = dst /\ src' = src /\ length' = length /\ t' = t
      /\ length = 0 \/ dst = src
      /\ TypeOK /\ HalfWay
  BY DEF NothingToDo, IInv, TypeOK, PointersInStep
<1>2. asked.dst \in Nat /\ asked.src \in Nat /\ asked.length \in Nat
  BY <1>1, CallFacts
<1>3. ToCopy = asked.length /\ ToCopy' = 0
  BY <1>1 DEF ToCopy
<1>4. TypeOK' /\ PointersInStep' /\ AlignedAfterBytes' /\ WordsAligned'
  BY <1>1 DEF TypeOK, PointersInStep, AlignedAfterBytes, WordsAligned
<1>5. HalfWay'
  <2>1. CopiedPart = {}
    BY <1>1, <1>2, <1>3 DEF CopiedPart
  <2>2. \A a \in CopiedPart' : asked.src + (a - asked.dst) = a
    BY <1>1, <1>2, <1>3 DEF CopiedPart
  <2>3. asked' = asked
    BY <1>1
  <2> QED
    BY <1>1, <2>1, <2>2, <2>3 DEF HalfWay
<1> QED
  BY <1>1, <1>2, <1>3, <1>4, <1>5 DEF IInv
LEMMA CopyByteKeeps == IInv /\ CopyByte => IInv'
<1> SUFFICES ASSUME IInv, CopyByte PROVE IInv'
  OBVIOUS
<1>1. /\ asked \in Call /\ asked' = asked /\ TypeOK /\ PointersInStep /\ AlignedAfterBytes
      /\ pc \in {"align", "tail"} /\ pc' = pc /\ length' = length
      /\ t' = t - 1 /\ t > 0 /\ Copy(1)
      /\ ToCopy \in 0 .. asked.length
  BY DEF CopyByte, IInv
<1>2. asked.dst \in Nat /\ asked.src \in Nat /\ asked.length \in Nat
  BY <1>1, CallFacts
<1>3. dst \in Nat /\ src \in Nat /\ length \in Nat /\ t \in Nat /\ t <= asked.length
  BY <1>1, <1>2 DEF TypeOK
<1>4. ToCopy >= 1 /\ ToCopy' = ToCopy - 1
  BY <1>1, <1>3 DEF ToCopy
<1>5. /\ mem' \in Memory /\ HalfWay'
      /\ IF Forward
         THEN dst' = asked.dst + asked.length - ToCopy' /\ src' = asked.src + asked.length - ToCopy'
         ELSE dst' = asked.dst + ToCopy' /\ src' = asked.src + ToCopy'
  BY <1>1, <1>4, Advance
<1>6. Forward' <=> Forward
  BY <1>1 DEF Forward
<1>7. TypeOK'
  BY <1>1, <1>2, <1>3, <1>4, <1>5 DEF TypeOK
<1>8. PointersInStep'
  BY <1>1, <1>5, <1>6 DEF PointersInStep
<1>9. AlignedAfterBytes'
  <2>1. IF Forward
        THEN dst' = dst + 1 /\ src' = src + 1
        ELSE dst' = dst - 1 /\ src' = src - 1
    BY <1>1 DEF Copy
  <2>2. IF Forward
        THEN dst' + t' = dst + t /\ src' + t' = src + t
        ELSE dst' - t' = dst - t /\ src' - t' = src - t
    BY <1>1, <1>3, <2>1
  <2> QED
    BY <1>1, <1>6, <2>2 DEF AlignedAfterBytes, wsize
<1>10. WordsAligned'
  BY <1>1 DEF WordsAligned
<1> QED
  BY <1>1, <1>2, <1>4, <1>5, <1>7, <1>8, <1>9, <1>10 DEF IInv

LEMMA CopyWordKeeps == IInv /\ CopyWord => IInv'
<1> SUFFICES ASSUME IInv, CopyWord PROVE IInv'
  OBVIOUS
<1>1. /\ asked \in Call /\ asked' = asked /\ TypeOK /\ WordsAligned
      /\ pc = "words" /\ pc' = pc /\ length' = length
      /\ t' = t - 1 /\ t > 0 /\ Copy(4)
      /\ ToCopy \in 0 .. asked.length
  BY DEF CopyWord, IInv, wsize
<1>2. asked.dst \in Nat /\ asked.src \in Nat /\ asked.length \in Nat
  BY <1>1, CallFacts
<1>3. dst \in Nat /\ src \in Nat /\ length \in Nat /\ t \in Nat /\ t <= asked.length
  BY <1>1, <1>2 DEF TypeOK
<1>4. ToCopy >= 4 /\ ToCopy' = ToCopy - 4
  BY <1>1, <1>3, WordsOf DEF ToCopy, wsize
<1>5. /\ mem' \in Memory /\ HalfWay'
      /\ IF Forward
         THEN dst' = asked.dst + asked.length - ToCopy' /\ src' = asked.src + asked.length - ToCopy'
         ELSE dst' = asked.dst + ToCopy' /\ src' = asked.src + ToCopy'
  BY <1>1, <1>4, Advance
<1>6. Forward' <=> Forward
  BY <1>1 DEF Forward
<1>7. TypeOK'
  BY <1>1, <1>2, <1>3, <1>4, <1>5 DEF TypeOK
<1>8. PointersInStep'
  BY <1>1, <1>5, <1>6 DEF PointersInStep
<1>9. WordsAligned'
  <2>1. dst % 4 = 0 /\ src % 4 = 0
    BY <1>1 DEF WordsAligned, wsize
  <2>2. IF Forward
        THEN dst' = dst + 4 /\ src' = src + 4
        ELSE dst' = dst - 4 /\ src' = src - 4
    BY <1>1 DEF Copy
  <2>3. dst' % 4 = 0 /\ src' % 4 = 0
    BY <1>3, <2>1, <2>2
  <2> QED
    BY <2>3 DEF WordsAligned, wsize
<1>10. AlignedAfterBytes'
  BY <1>1 DEF AlignedAfterBytes
<1> QED
  BY <1>1, <1>2, <1>4, <1>5, <1>7, <1>8, <1>9, <1>10 DEF IInv

\* The steps between the loops: none of the bytes still to be copied is forgotten.
LEMMA SwitchKeeps == IInv /\ (StartWords \/ StartTail \/ Return) => IInv'
<1> SUFFICES ASSUME IInv, StartWords \/ StartTail \/ Return PROVE IInv'
  OBVIOUS
<1>1. /\ asked \in Call /\ asked' = asked /\ TypeOK /\ PointersInStep /\ AlignedAfterBytes /\ HalfWay
      /\ mem' = mem /\ dst' = dst /\ src' = src /\ length' = length
      /\ ToCopy \in 0 .. asked.length
      /\ t = 0
  BY DEF StartWords, StartTail, Return, IInv
<1>2. asked.dst \in Nat /\ asked.src \in Nat /\ asked.length \in Nat
  BY <1>1, CallFacts
<1>3. dst \in Nat /\ src \in Nat /\ length \in Nat /\ length <= asked.length
  BY <1>1, <1>2 DEF TypeOK
<1>4. /\ ToCopy' = ToCopy
      /\ pc \in {"align", "words", "tail"} /\ pc' \in {"words", "tail", "done"}
      /\ t' \in 0 .. asked.length
      /\ pc' = "words" => pc = "align" /\ t' = length \div 4
  <2>1. CASE StartWords
    <3>1. pc = "align" /\ pc' = "words" /\ t' = length \div 4
      BY <2>1 DEF StartWords, wsize
    <3>2. ToCopy = length
      BY <1>1, <1>3, <3>1 DEF ToCopy
    <3>3. ToCopy' = ((length \div 4) * 4) + (length % 4)
      BY <1>1, <3>1 DEF ToCopy, wsize
    <3>4. length = ((length \div 4) * 4) + (length % 4) /\ length \div 4 \in 0 .. length
      BY <1>3, WordsOf
    <3>5. length \div 4 \in 0 .. asked.length
      BY <1>2, <1>3, <3>4
    <3> QED
      BY <3>1, <3>2, <3>3, <3>4, <3>5
  <2>2. CASE StartTail
    BY <1>1, <1>3, <2>2, WordsOf DEF StartTail, ToCopy, wsize
  <2>3. CASE Return
    BY <1>1, <1>2, <2>3 DEF Return, ToCopy
  <2> QED
    BY <2>1, <2>2, <2>3
<1>5. Forward' <=> Forward
  BY <1>1 DEF Forward
<1>6. TypeOK'
  BY <1>1, <1>4 DEF TypeOK
<1>7. PointersInStep'
  BY <1>1, <1>4, <1>5 DEF PointersInStep
<1>8. AlignedAfterBytes'
  BY <1>4 DEF AlignedAfterBytes
<1>9. WordsAligned'
  <2>1. SUFFICES ASSUME pc' = "words", t' > 0
                 PROVE  dst % 4 = 0 /\ src % 4 = 0
    BY <1>1 DEF WordsAligned, wsize
  <2>2. length >= 4
    BY <1>3, <1>4, <2>1
  <2>3. dst + t = dst /\ src + t = src /\ dst - t = dst /\ src - t = src
    BY <1>1, <1>3
  <2> QED
    BY <1>1, <1>4, <2>1, <2>2, <2>3 DEF AlignedAfterBytes, wsize
<1>10. HalfWay'
  <2>1. CopiedPart' = CopiedPart
    BY <1>1, <1>4, <1>5 DEF CopiedPart
  <2> QED
    BY <1>1, <2>1 DEF HalfWay
<1> QED
  BY <1>1, <1>4, <1>6, <1>7, <1>8, <1>9, <1>10 DEF IInv

LEMMA StutterKeeps == IInv /\ UNCHANGED vars => IInv'
BY DEF IInv, vars, Call, TypeOK, ToCopy, PointersInStep, AlignedAfterBytes, WordsAligned, HalfWay,
       CopiedPart, Forward, Memory, Address

LEMMA Inductive == IInv /\ [Next]_vars => IInv'
BY BeginKeeps, NothingToDoKeeps, CopyByteKeeps, CopyWordKeeps, SwitchKeeps, StutterKeeps DEF Next

\* The pointers and counters stay in the ranges of the call.
THEOREM TypeCorrect == Spec => []TypeOK
<1>1. IInv => TypeOK
  BY DEF IInv
<1> QED
  BY Initially, Inductive, <1>1, PTL DEF Spec

\* Whole words are read and stored at word boundaries only.
THEOREM WordAccessesAligned == Spec => []WordsAligned
<1>1. IInv => WordsAligned
  BY DEF IInv
<1> QED
  BY Initially, Inductive, <1>1, PTL DEF Spec

\* However the ranges overlap, source bytes are read before they are overwritten.
THEOREM SourceReadFirst == Spec => []SourceIntact
BY Initially, Inductive, StillThere, PTL DEF Spec

\* No byte outside the destination ever changes.
THEOREM NoOtherByteWritten == Spec => []OthersUntouched
<1>1. IInv => OthersUntouched
  <2> SUFFICES ASSUME IInv, NEW a \in Address, a \notin asked.dst .. asked.dst + asked.length - 1
               PROVE  mem[a] = asked.mem[a]
    BY DEF OthersUntouched
  <2>1. asked \in Call /\ HalfWay /\ ToCopy \in 0 .. asked.length
    BY DEF IInv
  <2>2. asked.dst \in Nat /\ asked.length \in Nat
    BY <2>1, CallFacts
  <2>3. a \notin CopiedPart
    <3>1. CASE Forward
      BY <2>1, <2>2, <3>1 DEF CopiedPart, Address
    <3>2. CASE ~Forward
      BY <2>1, <2>2, <3>2 DEF CopiedPart, Address
    <3> QED
      BY <3>1, <3>2
  <2> QED
    BY <2>1, <2>3 DEF HalfWay
<1> QED
  BY Initially, Inductive, <1>1, PTL DEF Spec

\* When everything is copied memory is what BlockMove says.
LEMMA DoneIsMoved == IInv /\ pc = "done" => mem = Abstract!Moved(asked)
<1> SUFFICES ASSUME IInv, pc = "done" PROVE mem = Abstract!Moved(asked)
  OBVIOUS
<1>1. asked \in Call /\ HalfWay /\ ToCopy = 0
  BY DEF IInv, ToCopy
<1>2. DOMAIN asked.mem = Address /\ asked.dst \in Nat /\ asked.length \in Nat
  BY <1>1, CallFacts DEF Memory
<1>3. \A a \in Address : a \in CopiedPart <=> a \in asked.dst .. asked.dst + asked.length - 1
  <2>1. CASE Forward
    BY <1>1, <1>2, <2>1 DEF CopiedPart, Address
  <2>2. CASE ~Forward
    BY <1>1, <1>2, <2>2 DEF CopiedPart, Address
  <2> QED
    BY <2>1, <2>2
<1> QED
  BY <1>1, <1>2, <1>3 DEF HalfWay, Abstract!Moved

\* The copy loops implement BlockMove, their fairness aside: the call changes memory
\* as one move of the whole block does.
THEOREM Refinement == Spec => Abstract!Init /\ [][Abstract!Move]_(Abstract!vars)
<1>1. Init => Abstract!Init
  BY DEF Init, Abstract!Init
<1>2. (IInv /\ pc = "done")' => (mem = Abstract!Moved(asked))'
  BY DoneIsMoved, PTL
<1>3. IInv /\ IInv' /\ [Next]_vars => [Abstract!Move]_(Abstract!vars)
  <2> SUFFICES ASSUME IInv, IInv', [Next]_vars PROVE [Abstract!Move]_(Abstract!vars)
    OBVIOUS
  <2>1. CASE NothingToDo \/ Return
    <3>1. pc # "done" /\ pc' = "done" /\ asked' = asked
      BY <2>1 DEF NothingToDo, Return
    <3>2. mem' = Abstract!Moved(asked)'
      BY <1>2, <3>1
    <3> QED
      BY <3>1, <3>2 DEF Abstract!Move, Abstract!Moved
  <2>2. CASE Begin \/ CopyByte \/ CopyWord \/ StartWords \/ StartTail
    <3>1. pc # "done" /\ pc' # "done" /\ asked' = asked
      BY <2>2 DEF Begin, CopyByte, CopyWord, StartWords, StartTail
    <3> QED
      BY <3>1 DEF Abstract!vars
  <2>3. CASE UNCHANGED vars
    BY <2>3 DEF vars, Abstract!vars
  <2> QED
    BY <2>1, <2>2, <2>3 DEF Next
<1> QED
  BY Initially, Inductive, <1>1, <1>3, PTL DEF Spec

(***************************************************************************)
(* Numbers and loops.                                                      *)
(***************************************************************************)

\* A set of natural numbers that has an element has a least one: what the proofs
\* about recursive functions use for induction.
LEMMA Smallest ==
  ASSUME NEW T \in SUBSET Nat, T # {}
  PROVE  \E x \in T : \A y \in T : x <= y
<1> DEFINE R == {r \in Nat \X Nat : r[1] < r[2]}
<1>1. IsWellFoundedOn(R, Nat)
  BY NatLessThanWellFounded DEF OpToRel
<1> HIDE DEF R
<1>2. PICK x \in T : \A y \in T : ~ (<<y, x>> \in R)
  BY <1>1, WFMin
<1>3. ASSUME NEW y \in T
      PROVE  x <= y
  <2>1. ~(<<y, x>> \in R)
    BY <1>2
  <2>2. x \in Nat /\ y \in Nat
    OBVIOUS
  <2>3. ~(y < x)
    BY <2>1, <2>2 DEF R
  <2> QED
    BY <2>2, <2>3
<1> QED
  BY <1>3

\* One of Min and Max.
LEMMA MinIs ==
  ASSUME NEW T, T \subseteq Int, NEW x \in T, \A y \in T : x <= y
  PROVE  Min(T) = x
<1>1. Min(T) \in T /\ \A y \in T : Min(T) <= y
  BY DEF Min
<1>2. Min(T) <= x /\ x <= Min(T) /\ Min(T) \in Int /\ x \in Int
  BY <1>1
<1> QED
  BY <1>2

LEMMA MaxIs ==
  ASSUME NEW T, T \subseteq Int, NEW x \in T, \A y \in T : y <= x
  PROVE  Max(T) = x
<1>1. Max(T) \in T /\ \A y \in T : y <= Max(T)
  BY DEF Max
<1>2. Max(T) <= x /\ x <= Max(T) /\ Max(T) \in Int /\ x \in Int
  BY <1>1
<1> QED
  BY <1>2

LEMMA MinOf ==
  ASSUME NEW T \in SUBSET Nat, T # {}
  PROVE  Min(T) \in T /\ \A y \in T : Min(T) <= y
BY Smallest DEF Min

\* The recursive function of LoopEnd.
IsWalk(f, step, Stops) ==
  f = [a \in Nat |-> IF a >= MemSize \/ a \in Stops THEN a ELSE f[a + step]]

\* Where a loop may end that comes by the address a.
EndsOfLoop(a, step, Stops) ==
  {b \in Nat : a <= b /\ (b - a) % step = 0 /\ (b >= MemSize \/ b \in Stops)}

LEMMA EndsBelow ==
  ASSUME NEW a \in Nat, NEW step \in {1, WORD}, NEW Stops
  PROVE  /\ EndsOfLoop(a, step, Stops) \in SUBSET Nat
         /\ EndsOfLoop(a, step, Stops) # {}
<1>1. CASE step = 1
  <2>1. a + MemSize \in EndsOfLoop(a, 1, Stops)
    <3>1. (a + MemSize) - a = MemSize /\ MemSize % 1 = 0
      BY MemoryAssumption
    <3> QED
      BY <3>1, MemoryAssumption DEF EndsOfLoop
  <2> QED
    BY <1>1, <2>1 DEF EndsOfLoop
<1>2. CASE step = 8
  <2>1. a + (8 * MemSize) \in EndsOfLoop(a, 8, Stops)
    <3>1. (a + (8 * MemSize)) - a = 8 * MemSize /\ (8 * MemSize) % 8 = 0
      BY MemoryAssumption
    <3> QED
      BY <3>1, MemoryAssumption DEF EndsOfLoop
  <2> QED
    BY <1>2, <2>1 DEF EndsOfLoop
<1> QED
  BY <1>1, <1>2 DEF WORD

\* There is one: it maps every address to the first end of its loop.
LEMMA WalkExists ==
  ASSUME NEW step \in {1, WORD}, NEW Stops
  PROVE  \E f : IsWalk(f, step, Stops)
<1> DEFINE E(a) == EndsOfLoop(a, step, Stops)
           f == [a \in Nat |-> Min(E(a))]
<1>1. step \in {1, 8}
  BY DEF WORD
<1>2. ASSUME NEW a \in Nat
      PROVE  Min(E(a)) = IF a >= MemSize \/ a \in Stops THEN a ELSE Min(E(a + step))
  <2>1. CASE a >= MemSize \/ a \in Stops
    <3>1. a \in E(a)
      <4>1. (a - a) % step = 0
        BY <1>1
      <4> QED
        BY <2>1, <4>1 DEF EndsOfLoop
    <3>2. \A b \in E(a) : a <= b
      BY DEF EndsOfLoop
    <3>3. E(a) \subseteq Int
      BY DEF EndsOfLoop
    <3> QED
      BY <2>1, <3>1, <3>2, <3>3, MinIs
  <2>2. CASE ~(a >= MemSize \/ a \in Stops)
    <3>1. E(a) = E(a + step)
      <4>1. ASSUME NEW b \in Nat
            PROVE  b \in E(a) <=> b \in E(a + step)
        <5>1. b # a => ((a <= b /\ (b - a) % step = 0) <=> (a + step <= b /\ (b - (a + step)) % step = 0))
          <6>1. CASE step = 1
            BY <6>1
          <6>2. CASE step = 8
            BY <6>2
          <6> QED
            BY <1>1, <6>1, <6>2
        <5>2. ~(a + step <= a)
          BY <1>1
        <5> QED
          BY <2>2, <5>1, <5>2 DEF EndsOfLoop
      <4>2. E(a) \subseteq Nat /\ E(a + step) \subseteq Nat
        BY DEF EndsOfLoop
      <4> QED
        BY <4>1, <4>2
    <3> QED
      BY <2>2, <3>1
  <2> QED
    BY <2>1, <2>2
<1>3. \A a \in Nat : a + step \in Nat
  BY <1>1
<1> HIDE DEF E
<1>4. f = [a \in Nat |-> IF a >= MemSize \/ a \in Stops THEN a ELSE f[a + step]]
  BY <1>2, <1>3
<1>5. IsWalk(f, step, Stops)
  BY <1>4 DEF IsWalk
<1> QED
  BY <1>5

LEMMA LoopEndWalks ==
  ASSUME NEW first \in Nat, NEW step \in {1, WORD}, NEW Stops
  PROVE  \E f : IsWalk(f, step, Stops) /\ LoopEnd(first, step, Stops) = f[first]
<1>1. PICK g : IsWalk(g, step, Stops)
  BY WalkExists
<1> QED
  BY <1>1 DEF LoopEnd, IsWalk

\* LoopEnd is the first address, counted from first in steps, that is in Stops or
\* beyond the memory.
LEMMA LoopEndIsMin ==
  ASSUME NEW first \in Nat, NEW step \in {1, WORD}, NEW Stops
  PROVE  LoopEnd(first, step, Stops) = Min(EndsOfLoop(first, step, Stops))
<1> DEFINE E == EndsOfLoop(first, step, Stops)
           e == Min(E)
<1>1. step \in {1, 8}
  BY DEF WORD
<1>2. PICK f : IsWalk(f, step, Stops) /\ LoopEnd(first, step, Stops) = f[first]
  BY LoopEndWalks
<1>3. e \in E /\ \A b \in E : e <= b
  BY EndsBelow, MinOf
<1>4. e \in Nat /\ first <= e /\ (e - first) % step = 0 /\ (e >= MemSize \/ e \in Stops)
  BY <1>3 DEF EndsOfLoop
<1> DEFINE S == {a \in Nat : first <= a /\ a <= e /\ (a - first) % step = 0 /\ f[a] = e}
<1>5. \A a \in Nat : f[a] = IF a >= MemSize \/ a \in Stops THEN a ELSE f[a + step]
  BY <1>2 DEF IsWalk
<1> HIDE DEF e
<1>6. e \in S
  BY <1>4, <1>5
<1>7. PICK d \in S : \A y \in S : d <= y
  BY <1>6, Smallest
<1>8. d \in Nat /\ first <= d /\ d <= e /\ (d - first) % step = 0 /\ f[d] = e
  OBVIOUS
<1>9. ASSUME d # first
      PROVE  FALSE
  <2>1. d - step \in Nat /\ first <= d - step /\ d - step <= e /\ ((d - step) - first) % step = 0
        /\ d - step < e /\ d - step < d /\ (d - step) + step = d
    <3>1. CASE step = 1
      BY <1>4, <1>8, <1>9, <3>1
    <3>2. CASE step = 8
      BY <1>4, <1>8, <1>9, <3>2
    <3> QED
      BY <1>1, <3>1, <3>2
  <2>2. d - step \notin E
    BY <1>3, <1>4, <2>1
  <2>3. ~(d - step >= MemSize \/ d - step \in Stops)
    BY <2>1, <2>2 DEF EndsOfLoop
  <2>4. f[d - step] = e
    BY <1>5, <1>8, <2>1, <2>3
  <2>5. d - step \in S
    BY <2>1, <2>4
  <2> QED
    BY <1>7, <1>8, <2>1, <2>5
<1> QED
  BY <1>2, <1>8, <1>9 DEF e

\* The same in parts.
LEMMA LoopEnds ==
  ASSUME NEW first \in Nat, NEW step \in {1, WORD}, NEW Stops
  PROVE  LET e == LoopEnd(first, step, Stops) IN
         /\ e \in Nat /\ first <= e /\ (e - first) % step = 0
         /\ e >= MemSize \/ e \in Stops
         /\ \A a \in Nat : first <= a /\ a < e /\ (a - first) % step = 0 =>
              a < MemSize /\ a \notin Stops
<1> DEFINE E == EndsOfLoop(first, step, Stops)
<1>1. LoopEnd(first, step, Stops) = Min(E)
  BY LoopEndIsMin
<1>2. Min(E) \in E /\ \A b \in E : Min(E) <= b
  BY EndsBelow, MinOf
<1>3. ASSUME NEW a \in Nat, first <= a, a < Min(E), (a - first) % step = 0
      PROVE  a < MemSize /\ a \notin Stops
  <2>1. Min(E) \in Nat
    BY <1>2 DEF EndsOfLoop
  <2>2. a \notin E
    BY <1>2, <1>3, <2>1
  <2> QED
    BY <1>3, <2>2, MemoryAssumption DEF EndsOfLoop
<1> QED
  BY <1>1, <1>2, <1>3 DEF EndsOfLoop

\* A loop by single steps ends at the first of its stops.
LEMMA LoopEndIs ==
  ASSUME NEW first \in Nat, NEW end \in Nat, NEW Stops,
         first <= end, end <= MemSize, end \in Stops,
         \A a \in first .. end - 1 : a \notin Stops
  PROVE  LoopEnd(first, 1, Stops) = end
<1> DEFINE e == LoopEnd(first, 1, Stops)
<1>1. /\ e \in Nat /\ first <= e
      /\ e >= MemSize \/ e \in Stops
      /\ \A a \in Nat : first <= a /\ a < e /\ (a - first) % 1 = 0 => a < MemSize /\ a \notin Stops
  BY LoopEnds
<1> HIDE DEF e
<1>2. ~(end < e)
  <2>1. (end - first) % 1 = 0
    OBVIOUS
  <2> QED
    BY <1>1, <2>1
<1>3. ~(e < end)
  BY <1>1, MemoryAssumption
<1> QED
  BY <1>1, <1>2, <1>3 DEF e

(***************************************************************************)
(* The searching functions.                                                *)
(***************************************************************************)

\* The string at address a ends at e.
EndsAt(m, a, e) ==
  /\ a \in Nat /\ e \in Nat /\ a <= e /\ e < MemSize
  /\ m[e] = 0 /\ \A b \in a .. e - 1 : m[b] # 0

\* strlen tests the byte at e, where it comes from a.
Seen(a, e) == (e \div WORD = a \div WORD /\ a % WORD # 0) \/ e % WORD < 4 \/ LongBit >= 64

LEMMA StrlenIs ==
  ASSUME NEW m, NEW a, NEW e, EndsAt(m, a, e), Seen(a, e)
  PROVE  strlen(m, a) = e - a
<1> DEFINE Stops == {b \in Nat : b % 8 = 0 \/ m[b] = 0}
           p == LoopEnd(a, 1, Stops)
           Zeros == {b \in Nat : b % 8 \in Tested /\ m[b] = 0}
<1>1. /\ a \in Nat /\ e \in Nat /\ a <= e /\ e < MemSize
      /\ m[e] = 0 /\ \A b \in a .. e - 1 : m[b] # 0
  BY DEF EndsAt
<1>2. /\ p \in Nat /\ a <= p
      /\ p >= MemSize \/ p \in Stops
      /\ \A b \in Nat : a <= b /\ b < p /\ (b - a) % 1 = 0 => b < MemSize /\ b \notin Stops
  BY <1>1, LoopEnds
<1> HIDE DEF p
<1>3. p <= e
  <2>1. e \in Stops /\ (e - a) % 1 = 0
    BY <1>1
  <2> QED
    BY <1>1, <1>2, <2>1
<1>4. p % 8 = 0 \/ m[p] = 0
  BY <1>1, <1>2, <1>3, MemoryAssumption
<1>5. strlen(m, a) = IF p % 8 # 0 THEN p - a ELSE LoopEnd(p, 1, Zeros) - a
  BY DEF strlen, p, WORD
<1>6. CASE p % 8 # 0
  <2>1. p = e
    BY <1>1, <1>2, <1>3, <1>4, <1>6
  <2> QED
    BY <1>5, <1>6, <2>1
<1>7. CASE p % 8 = 0
  <2>1. e % 8 \in Tested
    <3>1. CASE e \div 8 = a \div 8 /\ a % 8 # 0
      BY <1>1, <1>2, <1>3, <1>7, <3>1
    <3>2. CASE e % 8 < 4
      BY <1>1, <3>2 DEF Tested
    <3>3. CASE LongBit >= 64
      BY <1>1, <3>3 DEF Tested
    <3> QED
      BY <3>1, <3>2, <3>3 DEF Seen, WORD
  <2>2. e \in Zeros /\ \A b \in p .. e - 1 : b \notin Zeros
    BY <1>1, <1>2, <2>1
  <2> HIDE DEF Zeros
  <2>3. LoopEnd(p, 1, Zeros) = e
    BY <1>1, <1>2, <1>3, <2>2, LoopEndIs, MemoryAssumption
  <2> QED
    BY <1>5, <1>7, <2>3
<1> QED
  BY <1>2, <1>6, <1>7

LEMMA StrnlenIs ==
  ASSUME NEW m, NEW a \in Nat, NEW n \in Nat, NEW l \in 0 .. n, a + l <= MemSize,
         l = n \/ m[a + l] = 0, \A k \in 0 .. l - 1 : m[a + k] # 0
  PROVE  strnlen(m, a, n) = l
<1> DEFINE Stops == {b \in Nat : b = a + n \/ m[b] = 0}
<1>1. a + l \in Stops
  OBVIOUS
<1>2. \A b \in a .. a + l - 1 : b \notin Stops
  <2> SUFFICES ASSUME NEW b \in a .. a + l - 1 PROVE b # a + n /\ m[b] # 0
    OBVIOUS
  <2>1. b - a \in 0 .. l - 1 /\ a + (b - a) = b
    OBVIOUS
  <2> QED
    BY <2>1
<1> HIDE DEF Stops
<1>3. LoopEnd(a, 1, Stops) = a + l
  BY <1>1, <1>2, LoopEndIs
<1>4. strnlen(m, a, n) = LoopEnd(a, 1, Stops) - a
  BY DEF strnlen, Stops
<1> QED
  BY <1>3, <1>4

\* The search by whole words from head on passes over no byte that is c.
NoneIn(m, cs, head, body) ==
  \A b \in Nat : head <= b /\ b < body /\ (b - head) % 8 = 0 =>
    \A x \in WordAt(b) \cap DOMAIN m : m[x] \notin cs

LEMMA WordsPassed ==
  ASSUME NEW m, DOMAIN m = Address, NEW cs,
         NEW head \in Nat, NEW body \in Nat, NEW end \in Nat, end <= MemSize,
         head <= body, body <= end, (body - head) % 8 = 0,
         NoneIn(m, cs, head, body)
  PROVE  \A x \in head .. body - 1 : m[x] \notin cs
<1> SUFFICES ASSUME NEW x \in head .. body - 1 PROVE m[x] \notin cs
  OBVIOUS
<1> DEFINE b == x - ((x - head) % 8)
<1>1. b \in Nat /\ head <= b /\ b < body /\ (b - head) % 8 = 0 /\ x \in b .. b + 7
  OBVIOUS
<1>2. x \in WordAt(b) \cap DOMAIN m
  BY <1>1, MemoryAssumption DEF WordAt, WORD, Address
<1> QED
  BY <1>1, <1>2 DEF NoneIn

\* r is the first, or the last, place of c in a .. z.
FirstHit(m, c, a, z, r) ==
  \/ r = NULL /\ \A b \in a .. z : m[b] # c
  \/ r \in a .. z /\ m[r] = c /\ \A b \in a .. r - 1 : m[b] # c

LastHit(m, c, a, z, r) ==
  \/ r = NULL /\ \A b \in a .. z : m[b] # c
  \/ r \in a .. z /\ m[r] = c /\ \A b \in r + 1 .. z : m[b] # c

LEMMA MemchrFinds ==
  ASSUME NEW m, DOMAIN m = Address, NEW c, NEW a \in Nat, NEW n \in Nat, a + n <= MemSize
  PROVE  FirstHit(m, c, a, a + n - 1, memchr(m, a, c, n))
<1> DEFINE end == a + n
           HeadStops == {b \in Nat : b % 8 = 0 \/ b = end \/ m[b] = c}
           head == LoopEnd(a, 1, HeadStops)
           BodyStops == {b \in Nat : ~MoreWords(m, c, b, end - b)}
           body == IF head # end /\ m[head] # c THEN LoopEnd(head, 8, BodyStops) ELSE head
           TailStops == {b \in Nat : b = end \/ m[b] = c}
           tail == LoopEnd(body, 1, TailStops)
<1>1. memchr(m, a, c, n) = IF tail = end THEN NULL ELSE tail
  BY DEF memchr, WORD
<1>2. end \in Nat /\ end <= MemSize /\ a <= end
  OBVIOUS
<1>3. head \in a .. end /\ \A b \in a .. head - 1 : m[b] # c
  <2>1. /\ head \in Nat /\ a <= head
        /\ \A b \in Nat : a <= b /\ b < head /\ (b - a) % 1 = 0 => b \notin HeadStops
    BY LoopEnds
  <2> HIDE DEF head
  <2>2. head <= end
    <3>1. end \in HeadStops /\ (end - a) % 1 = 0
      OBVIOUS
    <3> QED
      BY <2>1, <3>1
  <2> QED
    BY <2>1, <2>2
<1> HIDE DEF head
<1>4. body \in head .. end /\ \A b \in head .. body - 1 : m[b] # c
  <2>1. CASE head # end /\ m[head] # c
    <3>1. /\ body \in Nat /\ head <= body /\ (body - head) % 8 = 0
          /\ \A b \in Nat : head <= b /\ b < body /\ (b - head) % 8 = 0 => b \notin BodyStops
      BY <1>3, <2>1, LoopEnds DEF WORD
    <3> HIDE DEF body
    <3>2. \A b \in Nat : head <= b /\ b < body /\ (b - head) % 8 = 0 =>
             end - b >= 8 /\ \A x \in WordAt(b) \cap DOMAIN m : m[x] \notin {c}
      BY <3>1 DEF MoreWords, HasByte, WORD
    <3>3. body <= end
      <4>1. CASE body = head
        BY <1>3, <4>1
      <4>2. CASE body # head
        <5>1. body - 8 \in Nat /\ head <= body - 8 /\ ((body - 8) - head) % 8 = 0
          BY <1>3, <3>1, <4>2
        <5>2. end - (body - 8) >= 8
          BY <3>1, <3>2, <5>1
        <5> QED
          BY <1>3, <3>1, <5>2
      <4> QED
        BY <4>1, <4>2
    <3>4. \A x \in head .. body - 1 : m[x] \notin {c}
      <4>1. NoneIn(m, {c}, head, body)
        BY <3>2 DEF NoneIn
      <4>2. head \in Nat
        BY <1>3
      <4> QED
        BY <1>2, <3>1, <3>3, <4>1, <4>2, WordsPassed
    <3> QED
      BY <3>1, <3>3, <3>4
  <2>2. CASE ~(head # end /\ m[head] # c)
    BY <1>3, <2>2
  <2> QED
    BY <2>1, <2>2
<1> HIDE DEF body
<1>5. /\ tail \in body .. end /\ (tail = end \/ m[tail] = c)
      /\ \A b \in body .. tail - 1 : m[b] # c
  <2>1. /\ tail \in Nat /\ body <= tail
        /\ tail >= MemSize \/ tail \in TailStops
        /\ \A b \in Nat : body <= b /\ b < tail /\ (b - body) % 1 = 0 => b \notin TailStops
    BY <1>3, <1>4, LoopEnds
  <2> HIDE DEF tail
  <2>2. tail <= end
    <3>1. end \in TailStops /\ (end - body) % 1 = 0
      BY <1>3, <1>4
    <3> QED
      BY <1>3, <1>4, <2>1, <3>1
  <2> QED
    BY <1>3, <1>4, <2>1, <2>2, MemoryAssumption
<1> HIDE DEF tail
<1>6. \A b \in a .. tail - 1 : m[b] # c
  BY <1>3, <1>4, <1>5
<1> QED
  BY <1>1, <1>3, <1>4, <1>5, <1>6 DEF FirstHit

\* The first byte of the string that is c or its terminator.
LEMMA StrchrnulFinds ==
  ASSUME NEW m, DOMAIN m = Address, NEW c, NEW a, NEW e, EndsAt(m, a, e), c = 0 => Seen(a, e)
  PROVE  LET r == strchrnul(m, a, c) IN
         r \in a .. e /\ m[r] \in {0, c} /\ \A b \in a .. r - 1 : m[b] \notin {0, c}
<1>1. /\ a \in Nat /\ e \in Nat /\ a <= e /\ e < MemSize
      /\ m[e] = 0 /\ \A b \in a .. e - 1 : m[b] # 0
  BY DEF EndsAt
<1>2. CASE c = 0
  <2>1. strchrnul(m, a, c) = e
    BY <1>1, <1>2, StrlenIs DEF strchrnul
  <2> QED
    BY <1>1, <1>2, <2>1
<1>3. CASE c # 0
  <2> DEFINE HeadStops == {b \in Nat : b % 8 = 0 \/ m[b] \in {0, c}}
             head == LoopEnd(a, 1, HeadStops)
             BodyStops == {b \in Nat : WordEnds(m, c, b)}
             body == LoopEnd(head, 8, BodyStops)
             TailStops == {b \in Nat : m[b] \in {0, c}}
             tail == LoopEnd(body, 1, TailStops)
  <2>1. strchrnul(m, a, c) = IF head % 8 # 0 THEN head ELSE tail
    BY <1>3 DEF strchrnul, WORD
  <2>2. /\ head \in a .. e /\ (head % 8 = 0 \/ m[head] \in {0, c})
        /\ \A b \in a .. head - 1 : m[b] \notin {0, c}
    <3>1. /\ head \in Nat /\ a <= head
          /\ head >= MemSize \/ head \in HeadStops
          /\ \A b \in Nat : a <= b /\ b < head /\ (b - a) % 1 = 0 => b \notin HeadStops
      BY <1>1, LoopEnds
    <3> HIDE DEF head
    <3>2. head <= e
      <4>1. e \in HeadStops /\ (e - a) % 1 = 0
        BY <1>1
      <4> QED
        BY <1>1, <3>1, <4>1
    <3> QED
      BY <1>1, <3>1, <3>2, MemoryAssumption
  <2> HIDE DEF head
  <2>3. CASE head % 8 # 0
    BY <2>1, <2>2, <2>3
  <2>4. CASE head % 8 = 0
    <3>1. body \in head .. e /\ \A b \in head .. body - 1 : m[b] \notin {0, c}
      <4>1. /\ body \in Nat /\ head <= body /\ (body - head) % 8 = 0
            /\ \A b \in Nat : head <= b /\ b < body /\ (b - head) % 8 = 0 => b \notin BodyStops
        BY <1>1, <2>2, LoopEnds DEF WORD
      <4> HIDE DEF body
      <4>2. \A b \in Nat : head <= b /\ b < body /\ (b - head) % 8 = 0 =>
               \A x \in WordAt(b) \cap DOMAIN m : m[x] \notin {0, c}
        BY <4>1 DEF WordEnds, HasByte
      <4>3. body <= e
        <5> DEFINE b == e - ((e - head) % 8)
        <5>1. b \in Nat /\ head <= b /\ b <= e /\ (b - head) % 8 = 0 /\ e \in b .. b + 7
          BY <1>1, <2>2
        <5>2. e \in WordAt(b) \cap DOMAIN m
          BY <1>1, <5>1, MemoryAssumption DEF WordAt, WORD, Address
        <5>3. ~(b < body)
          BY <1>1, <4>2, <5>1, <5>2
        <5> QED
          BY <1>1, <4>1, <5>1, <5>3
      <4>4. \A x \in head .. body - 1 : m[x] \notin {0, c}
        <5>1. NoneIn(m, {0, c}, head, body)
          BY <4>2 DEF NoneIn
        <5>2. head \in Nat /\ e <= MemSize
          BY <1>1, <2>2, MemoryAssumption
        <5> QED
          BY <1>1, <4>1, <4>3, <5>1, <5>2, WordsPassed
      <4> QED
        BY <2>2, <4>1, <4>3, <4>4
    <3> HIDE DEF body
    <3>2. /\ tail \in body .. e /\ m[tail] \in {0, c}
          /\ \A b \in body .. tail - 1 : m[b] \notin {0, c}
      <4>1. /\ tail \in Nat /\ body <= tail
            /\ tail >= MemSize \/ tail \in TailStops
            /\ \A b \in Nat : body <= b /\ b < tail /\ (b - body) % 1 = 0 => b \notin TailStops
        BY <1>1, <2>2, <3>1, LoopEnds
      <4> HIDE DEF tail
      <4>2. tail <= e
        <5>1. e \in TailStops /\ (e - body) % 1 = 0
          BY <1>1, <2>2, <3>1
        <5> QED
          BY <1>1, <2>2, <3>1, <4>1, <5>1
      <4> QED
        BY <1>1, <2>2, <3>1, <4>1, <4>2, MemoryAssumption
    <3> HIDE DEF tail
    <3> QED
      BY <1>1, <2>1, <2>2, <2>4, <3>1, <3>2
  <2> QED
    BY <2>3, <2>4
<1> QED
  BY <1>2, <1>3

LEMMA BytesAreNumbers ==
  ASSUME NEW m \in Memory, NEW a \in Address
  PROVE  m[a] \in 0 .. 127
BY ByteAssumption DEF Memory

LEMMA Differences ==
  ASSUME NEW x \in 0 .. 127, NEW y \in 0 .. 127
  PROVE  (x - y = 0 <=> x = y) /\ (x - y < 0 <=> x < y)
OBVIOUS

LEMMA StringAddresses ==
  ASSUME NEW m \in Memory, NEW a, NEW e, EndsAt(m, a, e)
  PROVE  \A b \in a .. e : b \in Address /\ m[b] \in 0 .. 127
BY BytesAreNumbers, MemoryAssumption DEF EndsAt, Address

LEMMA StrchrIs ==
  ASSUME NEW m \in Memory, NEW c, NEW a, NEW e, EndsAt(m, a, e), c = 0 => Seen(a, e)
  PROVE  FirstHit(m, c, a, e, strchr(m, a, c))
<1> DEFINE r == strchrnul(m, a, c)
<1>1. DOMAIN m = Address
  BY DEF Memory
<1>2. r \in a .. e /\ m[r] \in {0, c} /\ \A b \in a .. r - 1 : m[b] \notin {0, c}
  BY <1>1, StrchrnulFinds
<1>3. r \in Address
  BY <1>2, StringAddresses
<1>4. strchr(m, a, c) = IF r \in DOMAIN m /\ m[r] = c THEN r ELSE NULL
  BY DEF strchr
<1>5. a \in Nat /\ e \in Nat /\ \A b \in a .. e - 1 : m[b] # 0
  BY DEF EndsAt
<1> HIDE DEF r
<1>6. CASE m[r] = c
  BY <1>1, <1>2, <1>3, <1>4, <1>6 DEF FirstHit
<1>7. CASE m[r] # c
  <2>1. r = e
    BY <1>2, <1>5, <1>7
  <2>2. \A b \in a .. e : m[b] # c
    BY <1>2, <1>5, <1>7, <2>1
  <2> QED
    BY <1>4, <1>7, <2>2 DEF FirstHit
<1> QED
  BY <1>6, <1>7

LEMMA StrrchrIs ==
  ASSUME NEW m \in Memory, NEW c, NEW a, NEW e, EndsAt(m, a, e), Seen(a, e)
  PROVE  LastHit(m, c, a, e, strrchr(m, a, c))
<1> DEFINE hits == {b \in DOMAIN m : b \in a .. a + (e - a + 1) - 1 /\ m[b] = c}
<1>1. DOMAIN m = Address /\ a \in Nat /\ e \in Nat /\ a <= e
  BY DEF Memory, EndsAt
<1>2. strrchr(m, a, c) = IF hits = {} THEN NULL ELSE Max(hits)
  BY <1>1, StrlenIs DEF strrchr, memrchr
<1>3. \A b : b \in hits <=> b \in a .. e /\ m[b] = c
  BY <1>1, StringAddresses
<1> HIDE DEF hits
<1>4. CASE hits = {}
  BY <1>2, <1>3, <1>4 DEF LastHit
<1>5. CASE hits # {}
  <2> DEFINE down == {e - b : b \in hits}
  <2>1. down \in SUBSET Nat /\ down # {}
    BY <1>1, <1>3, <1>5
  <2>2. PICK d \in down : \A x \in down : d <= x
    BY <2>1, Smallest
  <2>3. PICK r \in hits : d = e - r
    OBVIOUS
  <2>4. r \in a .. e /\ \A b \in hits : b <= r
    <3>1. \A b \in hits : b \in a .. e /\ e - r <= e - b
      BY <1>3, <2>2, <2>3
    <3> QED
      BY <1>1, <3>1
  <2>5. Max(hits) = r
    <3>1. hits \subseteq Int
      BY <1>1, <1>3
    <3> QED
      BY <2>4, <3>1, MaxIs
  <2>6. \A b \in r + 1 .. e : m[b] # c
    BY <1>1, <1>3, <2>4
  <2> QED
    BY <1>2, <1>3, <1>5, <2>4, <2>5, <2>6 DEF LastHit
<1> QED
  BY <1>4, <1>5

\* The first place where two strings differ.
DifferAt(m, a, e, b, f, i) ==
  /\ i \in Nat /\ a + i <= e /\ b + i <= f /\ m[a + i] # m[b + i]
  /\ \A k \in 0 .. i - 1 : m[a + k] = m[b + k]

\* Up to their first difference neither ends.
LEMMA BothGoOn ==
  ASSUME NEW m, NEW a, NEW e, NEW b, NEW f, NEW i, EndsAt(m, a, e), EndsAt(m, b, f),
         DifferAt(m, a, e, b, f, i)
  PROVE  \A k \in 0 .. i - 1 : m[a + k] # 0 /\ m[a + k] = m[b + k]
BY DEF EndsAt, DifferAt

LEMMA StrncmpDiffers ==
  ASSUME NEW m, NEW a, NEW e, NEW b, NEW f, EndsAt(m, a, e), EndsAt(m, b, f),
         NEW i, DifferAt(m, a, e, b, f, i), NEW n \in Nat, i < n
  PROVE  strncmp(m, a, b, n) = m[a + i] - m[b + i]
<1> DEFINE Stops == {k \in Nat : k = n \/ m[a + k] # m[b + k] \/ m[a + k] = 0}
<1>1. i \in Nat /\ i <= MemSize /\ m[a + i] # m[b + i] /\ a # b
  BY MemoryAssumption DEF DifferAt, EndsAt
<1>2. i \in Stops
  BY <1>1
<1>3. \A k \in 0 .. i - 1 : k \notin Stops
  BY <1>1, BothGoOn
<1>4. strncmp(m, a, b, n) = LET j == LoopEnd(0, 1, Stops) IN IF a = b \/ j = n THEN 0 ELSE m[a + j] - m[b + j]
  <2>1. a # NULL /\ b # NULL
    BY PointerAssumption DEF EndsAt
  <2> QED
    BY <2>1 DEF strncmp
<1> HIDE DEF Stops
<1>5. LoopEnd(0, 1, Stops) = i
  BY <1>1, <1>2, <1>3, LoopEndIs
<1> QED
  BY <1>1, <1>4, <1>5

LEMMA StrncmpSame ==
  ASSUME NEW m \in Memory, NEW a, NEW e, NEW b, NEW f, EndsAt(m, a, e), EndsAt(m, b, f),
         NEW n \in Nat,
         \A k \in 0 .. n - 1 : a + k <= e /\ b + k <= f => m[a + k] = m[b + k]
  PROVE  strncmp(m, a, b, n) = 0
<1> DEFINE Stops == {k \in Nat : k = n \/ m[a + k] # m[b + k] \/ m[a + k] = 0}
           i == LoopEnd(0, 1, Stops)
<1>1. /\ a \in Nat /\ e \in Nat /\ a <= e /\ e < MemSize /\ m[e] = 0
      /\ b \in Nat /\ f \in Nat /\ b <= f /\ f < MemSize /\ m[f] = 0
  BY DEF EndsAt
<1>2. /\ i \in Nat
      /\ i >= MemSize \/ i \in Stops
      /\ \A k \in Nat : 0 <= k /\ k < i /\ (k - 0) % 1 = 0 => k \notin Stops
  BY LoopEnds
<1>3. strncmp(m, a, b, n) = IF a = b \/ i = n THEN 0 ELSE m[a + i] - m[b + i]
  <2>1. a # NULL /\ b # NULL
    BY PointerAssumption DEF EndsAt
  <2> QED
    BY <2>1 DEF strncmp
<1> HIDE DEF i
<1>4. i <= n
  BY <1>2
<1>5. a + i <= e
  <2>1. e - a \in Nat /\ a + (e - a) = e /\ (e - a) - 0 = e - a
    BY <1>1
  <2>2. e - a \in Stops
    BY <1>1, <2>1
  <2>3. ~(e - a < i)
    BY <1>2, <2>1, <2>2
  <2> QED
    BY <1>1, <1>2, <2>3
<1>6. b + i <= f
  <2> SUFFICES ASSUME f < b + i PROVE FALSE
    BY <1>1, <1>2
  <2>1. f - b \in 0 .. n - 1 /\ b + (f - b) = f /\ a + (f - b) <= e /\ f - b < i /\ f - b \in Nat
    BY <1>1, <1>2, <1>4, <1>5
  <2>2. m[a + (f - b)] = 0
    BY <1>1, <2>1
  <2>3. f - b \in Stops
    BY <2>1, <2>2
  <2> QED
    BY <1>2, <2>1, <2>3
<1>7. CASE i = n
  BY <1>3, <1>7
<1>8. CASE i # n
  <2>1. m[a + i] = m[b + i]
    BY <1>2, <1>4, <1>5, <1>6, <1>8
  <2>2. m[b + i] \in 0 .. 127
    <3>1. b + i \in b .. f
      BY <1>1, <1>2, <1>6
    <3> QED
      BY <3>1, StringAddresses
  <2>3. m[b + i] - m[b + i] = 0
    BY <2>2
  <2> QED
    BY <1>3, <2>1, <2>3
<1> QED
  BY <1>7, <1>8

LEMMA StrcmpDiffers ==
  ASSUME NEW m, NEW a, NEW e, NEW b, NEW f, EndsAt(m, a, e), EndsAt(m, b, f),
         NEW i, DifferAt(m, a, e, b, f, i)
  PROVE  strcmp(m, a, b) = m[a + i] - m[b + i]
<1> DEFINE Stops == {k \in Nat : m[a + k] # m[b + k] \/ m[a + k] = 0}
<1>1. i \in Nat /\ i <= MemSize /\ m[a + i] # m[b + i] /\ a # b
  BY MemoryAssumption DEF DifferAt, EndsAt
<1>2. i \in Stops
  BY <1>1
<1>3. \A k \in 0 .. i - 1 : k \notin Stops
  BY <1>1, BothGoOn
<1>4. strcmp(m, a, b) = LET j == LoopEnd(0, 1, Stops) IN IF a = b THEN 0 ELSE m[a + j] - m[b + j]
  <2>1. a # NULL /\ b # NULL
    BY PointerAssumption DEF EndsAt
  <2> QED
    BY <2>1 DEF strcmp
<1> HIDE DEF Stops
<1>5. LoopEnd(0, 1, Stops) = i
  BY <1>1, <1>2, <1>3, LoopEndIs
<1> QED
  BY <1>1, <1>4, <1>5

LEMMA StrcmpSame ==
  ASSUME NEW m \in Memory, NEW a, NEW e, NEW b, NEW f, EndsAt(m, a, e), EndsAt(m, b, f),
         \A k \in Nat : a + k <= e /\ b + k <= f => m[a + k] = m[b + k]
  PROVE  strcmp(m, a, b) = 0
<1> DEFINE Stops == {k \in Nat : m[a + k] # m[b + k] \/ m[a + k] = 0}
<1>1. /\ a \in Nat /\ e \in Nat /\ a <= e /\ e < MemSize /\ m[e] = 0
      /\ b \in Nat /\ f \in Nat /\ b <= f /\ f < MemSize /\ m[f] = 0
      /\ \A k \in a .. e - 1 : m[k] # 0
  BY DEF EndsAt
<1> DEFINE l == e - a
<1>2. l \in Nat /\ a + l = e /\ l <= MemSize
  BY <1>1, MemoryAssumption
<1> HIDE DEF l
<1>3. b + l <= f
  <2> SUFFICES ASSUME f < b + l PROVE FALSE
    BY <1>1, <1>2
  <2>1. f - b \in Nat /\ b + (f - b) = f /\ a + (f - b) \in a .. e - 1
    BY <1>1, <1>2
  <2>2. m[a + (f - b)] = 0
    BY <1>1, <2>1
  <2> QED
    BY <1>1, <2>1, <2>2
<1>4. m[b + l] = 0
  BY <1>1, <1>2, <1>3
<1>5. l \in Stops
  BY <1>1, <1>2
<1>6. \A k \in 0 .. l - 1 : k \notin Stops
  <2> SUFFICES ASSUME NEW k \in 0 .. l - 1 PROVE m[a + k] = m[b + k] /\ m[a + k] # 0
    OBVIOUS
  <2>1. k \in Nat /\ a + k \in a .. e - 1 /\ b + k <= f
    BY <1>1, <1>2, <1>3
  <2> QED
    BY <1>1, <2>1
<1>7. strcmp(m, a, b) = LET j == LoopEnd(0, 1, Stops) IN IF a = b THEN 0 ELSE m[a + j] - m[b + j]
  <2>1. a # NULL /\ b # NULL
    BY PointerAssumption DEF EndsAt
  <2> QED
    BY <2>1 DEF strcmp
<1> HIDE DEF Stops
<1>8. LoopEnd(0, 1, Stops) = l
  BY <1>2, <1>5, <1>6, LoopEndIs
<1>9. m[a + l] - m[b + l] = 0
  BY <1>1, <1>2, <1>4
<1> QED
  BY <1>7, <1>8, <1>9

\* n bytes are the same.
SameBytes(m, a, b, n) == \A k \in 0 .. n - 1 : m[a + k] = m[b + k]

LEMMA MemcmpTells ==
  ASSUME NEW m \in Memory, NEW a \in Nat, NEW b \in Nat, NEW n \in Nat,
         a + n <= MemSize, b + n <= MemSize
  PROVE  memcmp(m, a, b, n) = 0 <=> SameBytes(m, a, b, n)
<1> DEFINE Stops == {k \in Nat : k = n \/ m[a + k] # m[b + k]}
           i == LoopEnd(0, 1, Stops)
<1>1. /\ i \in Nat
      /\ i >= MemSize \/ i \in Stops
      /\ \A k \in Nat : 0 <= k /\ k < i /\ (k - 0) % 1 = 0 => k \notin Stops
  BY LoopEnds
<1>2. memcmp(m, a, b, n) = IF a = b \/ i = n THEN 0 ELSE m[a + i] - m[b + i]
  <2>1. a # NULL /\ b # NULL
    BY PointerAssumption
  <2> QED
    BY <2>1 DEF memcmp
<1> HIDE DEF i
<1>3. i <= n /\ \A k \in 0 .. i - 1 : m[a + k] = m[b + k]
  BY <1>1
<1>4. CASE a = b \/ i = n
  BY <1>2, <1>3, <1>4 DEF SameBytes
<1>5. CASE a # b /\ i # n
  <2>1. i \in 0 .. n - 1 /\ m[a + i] # m[b + i]
    BY <1>1, <1>3, <1>5, MemoryAssumption
  <2>2. a + i \in Address /\ b + i \in Address
    BY <2>1, MemoryAssumption DEF Address
  <2>3. m[a + i] \in 0 .. 127 /\ m[b + i] \in 0 .. 127
    BY <2>2, BytesAreNumbers
  <2>4. m[a + i] - m[b + i] # 0
    BY <2>1, <2>3, Differences
  <2> QED
    BY <1>2, <1>5, <2>1, <2>4 DEF SameBytes
<1> QED
  BY <1>4, <1>5

\* The characters at the addresses from c to f.
CharsFrom(m, c, f) == {m[x] : x \in c .. f}

\* Of the string from a to e, n characters are none of chars, and the next one is.
SpanEnds(m, a, e, chars, n) ==
  /\ n \in Nat /\ a + n <= e /\ m[a + n] \in chars
  /\ \A b \in a .. a + n - 1 : m[b] \notin chars

LEMMA StrcspnIs ==
  ASSUME NEW m \in Memory, NEW a, NEW e, NEW c, NEW f, EndsAt(m, a, e), EndsAt(m, c, f),
         m[c] # 0 \/ Seen(a, e)
  PROVE  SpanEnds(m, a, e, CharsFrom(m, c, f), strcspn(m, a, c))
<1> DEFINE Zeros == {x \in Nat : m[x] = 0}
           chars == CharsFrom(m, c, f)
           byWords == strchrnul(m, a, m[c])
           byBytes == LoopEnd(a, 1, {x \in Nat : m[x] \in chars})
<1>1. /\ a \in Nat /\ e \in Nat /\ a <= e /\ e < MemSize /\ m[e] = 0
      /\ c \in Nat /\ f \in Nat /\ c <= f /\ f < MemSize /\ m[f] = 0
      /\ (\A x \in c .. f - 1 : m[x] # 0)
      /\ DOMAIN m = Address
  BY DEF EndsAt, Memory
<1>2. LoopEnd(c, 1, Zeros) = f
  <2>1. f \in Zeros /\ \A x \in c .. f - 1 : x \notin Zeros
    BY <1>1
  <2> HIDE DEF Zeros
  <2> QED
    BY <1>1, <2>1, LoopEndIs, MemoryAssumption
<1>3. strcspn(m, a, c) = IF 0 \in {m[c], m[c + 1]} THEN byWords - a ELSE byBytes - a
  BY <1>2 DEF strcspn, CharsFrom
<1>4. CASE 0 \in {m[c], m[c + 1]}
  <2>1. byWords \in a .. e /\ m[byWords] \in {0, m[c]} /\ \A b \in a .. byWords - 1 : m[b] \notin {0, m[c]}
    BY <1>1, StrchrnulFinds
  <2>2. chars = {0, m[c]}
    <3>1. f = c \/ f = c + 1
      BY <1>1, <1>4
    <3>2. \A x \in c .. f : x = c \/ x = f
      BY <1>1, <3>1
    <3>3. c \in c .. f /\ f \in c .. f
      BY <1>1
    <3> QED
      BY <1>1, <3>2, <3>3 DEF CharsFrom
  <2> HIDE DEF byWords, byBytes, chars
  <2>3. a + strcspn(m, a, c) = byWords /\ strcspn(m, a, c) \in Nat /\ byWords = a + (byWords - a)
        /\ strcspn(m, a, c) = byWords - a
    BY <1>1, <1>3, <1>4, <2>1
  <2>4. SpanEnds(m, a, e, chars, strcspn(m, a, c))
    <3> DEFINE n == strcspn(m, a, c)
    <3>1. n \in Nat /\ a + n = byWords
      BY <2>3
    <3> HIDE DEF n
    <3>2. n \in Nat /\ a + n <= e /\ m[a + n] \in chars
      BY <2>1, <2>2, <3>1
    <3>3. a .. a + n - 1 = a .. byWords - 1
      BY <1>1, <2>1, <3>1
    <3>4. \A b \in a .. a + n - 1 : m[b] \notin chars
      BY <2>1, <2>2, <3>3
    <3> QED
      BY <3>2, <3>4 DEF SpanEnds, n
  <2> QED
    BY <2>4 DEF chars
<1>5. CASE ~(0 \in {m[c], m[c + 1]})
  <2> DEFINE Stops == {x \in Nat : m[x] \in chars}
  <2>1. /\ byBytes \in Nat /\ a <= byBytes
        /\ byBytes >= MemSize \/ byBytes \in Stops
        /\ \A b \in Nat : a <= b /\ b < byBytes /\ (b - a) % 1 = 0 => b \notin Stops
    BY <1>1, LoopEnds
  <2> HIDE DEF byBytes
  <2>2. e \in Stops
    BY <1>1 DEF CharsFrom
  <2> HIDE DEF chars
  <2>3. byBytes <= e
    <3>1. (e - a) % 1 = 0
      BY <1>1
    <3> QED
      BY <1>1, <2>1, <2>2, <3>1
  <2>4. m[byBytes] \in chars
    BY <1>1, <2>1, <2>3, MemoryAssumption
  <2>5. \A b \in a .. byBytes - 1 : m[b] \notin chars
    BY <1>1, <2>1
  <2>6. a + strcspn(m, a, c) = byBytes /\ strcspn(m, a, c) \in Nat
    BY <1>1, <1>3, <1>5, <2>1
  <2> QED
    BY <1>1, <2>1, <2>3, <2>4, <2>5, <2>6 DEF chars, SpanEnds
<1> QED
  BY <1>4, <1>5

\* The bytes from b to f - 1 are at a too.
IsCopy(m, a, b, f) == \A k \in 0 .. f - b - 1 : m[a + k] = m[b + k]

\* strncmp with the length of the second string: whether it begins the first one.
LEMMA StrncmpPrefix ==
  ASSUME NEW m \in Memory, NEW a, NEW e, NEW b, NEW f, EndsAt(m, a, e), EndsAt(m, b, f)
  PROVE  strncmp(m, a, b, f - b) = 0 <=> a + (f - b) <= e /\ IsCopy(m, a, b, f)
<1>1. /\ a \in Nat /\ e \in Nat /\ a <= e /\ e < MemSize /\ m[e] = 0
      /\ b \in Nat /\ f \in Nat /\ b <= f /\ f < MemSize
      /\ \A x \in b .. f - 1 : m[x] # 0
  BY DEF EndsAt
<1> DEFINE T == {i \in Nat : i < f - b /\ a + i <= e /\ m[a + i] # m[b + i]}
<1>2. CASE T = {}
  <2>1. \A k \in 0 .. (f - b) - 1 : a + k <= e => m[a + k] = m[b + k]
    <3> SUFFICES ASSUME NEW k \in 0 .. (f - b) - 1, a + k <= e, m[a + k] # m[b + k] PROVE FALSE
      OBVIOUS
    <3>1. k \in T
      BY <1>1
    <3> QED
      BY <1>2, <3>1
  <2>2. strncmp(m, a, b, f - b) = 0
    <3>1. f - b \in Nat
      BY <1>1
    <3> QED
      BY <2>1, <3>1, StrncmpSame
  <2>3. a + (f - b) <= e
    <3> SUFFICES ASSUME e < a + (f - b) PROVE FALSE
      BY <1>1
    <3>1. e - a \in 0 .. (f - b) - 1 /\ a + (e - a) = e /\ b + (e - a) \in b .. f - 1
      BY <1>1
    <3>2. a + (e - a) <= e
      BY <1>1
    <3>3. m[a + (e - a)] = m[b + (e - a)]
      BY <2>1, <3>1, <3>2
    <3>4. m[b + (e - a)] = 0
      BY <1>1, <3>1, <3>3
    <3> QED
      BY <1>1, <3>1, <3>4
  <2>4. IsCopy(m, a, b, f)
    BY <1>1, <2>1, <2>3 DEF IsCopy
  <2> QED
    BY <2>2, <2>3, <2>4
<1>3. CASE T # {}
  <2>1. PICK i \in T : \A x \in T : i <= x
    BY <1>3, Smallest
  <2>2. i \in Nat /\ i < f - b /\ a + i <= e /\ m[a + i] # m[b + i] /\ b + i <= f /\ f - b \in Nat
    BY <1>1
  <2>3. \A k \in 0 .. i - 1 : m[a + k] = m[b + k]
    BY <1>1, <2>1, <2>2
  <2>4. strncmp(m, a, b, f - b) = m[a + i] - m[b + i]
    BY <2>2, <2>3, StrncmpDiffers DEF DifferAt
  <2>5. m[a + i] \in 0 .. 127 /\ m[b + i] \in 0 .. 127
    <3>1. a + i \in a .. e /\ b + i \in b .. f
      BY <1>1, <2>2
    <3> QED
      BY <3>1, StringAddresses
  <2>6. m[a + i] - m[b + i] # 0
    BY <2>2, <2>5, Differences
  <2>7. ~IsCopy(m, a, b, f)
    BY <1>1, <2>2 DEF IsCopy
  <2> QED
    BY <2>4, <2>6, <2>7
<1> QED
  BY <1>2, <1>3

\* find occurs at p, within its slen characters.
FoundAt(m, p, end, find, f) == p + (f - find) <= end /\ IsCopy(m, p, find, f)

\* r is the first place from a on where it is found.
FirstFound(m, a, end, find, f, r) ==
  \/ r = NULL /\ \A p \in Nat : a <= p => ~FoundAt(m, p, end, find, f)
  \/ /\ r \in Nat /\ a <= r /\ FoundAt(m, r, end, find, f)
     /\ \A p \in a .. r - 1 : ~FoundAt(m, p, end, find, f)

LEMMA StrnstrIs ==
  ASSUME NEW m \in Memory, NEW s, NEW e, NEW find, NEW f, EndsAt(m, s, e), EndsAt(m, find, f),
         find # f, Seen(find + 1, f), NEW slen \in Nat,
         NEW end \in Nat, end = IF s + slen < e THEN s + slen ELSE e
  PROVE  FirstFound(m, s, end, find, f, strnstr(m, s, find, slen))
<1>1. /\ s \in Nat /\ e \in Nat /\ s <= e /\ e < MemSize /\ m[e] = 0
      /\ find \in Nat /\ f \in Nat /\ find < f /\ f < MemSize /\ m[f] = 0
      /\ (\A x \in s .. e - 1 : m[x] # 0)
      /\ (\A x \in find .. f - 1 : m[x] # 0)
  BY DEF EndsAt
<1> DEFINE len == f - (find + 1)
           over == {a \in s .. s + slen : a = s + slen \/ m[a] = 0}
           left(a) == s + slen - a - 1
           Matches(a) == /\ m[a] = m[find]
                         /\ RoomFor(len, left(a)) => strncmp(m, a + 1, find + 1, len) = 0
           Stops == {a \in Nat : a \in over \/ Matches(a)}
           at == LoopEnd(s, 1, Stops)
<1>2. EndsAt(m, find + 1, f)
  BY <1>1 DEF EndsAt
<1>3. m[find] # 0
  BY <1>1
<1>4. strlen(m, find + 1) = len
  BY <1>2, StrlenIs
<1>5. strnstr(m, s, find, slen) = IF at \in over \/ ~RoomFor(len, left(at)) THEN NULL ELSE at
  BY <1>3, <1>4 DEF strnstr
<1>6. /\ at \in Nat /\ s <= at
      /\ at >= MemSize \/ at \in Stops
      /\ \A b \in Nat : s <= b /\ b < at /\ (b - s) % 1 = 0 => b \notin Stops
  BY <1>1, LoopEnds
<1> HIDE DEF at
<1>7. end \in over /\ end <= e
  BY <1>1
<1>8. at <= end
  <2>1. end \in Stops /\ (end - s) % 1 = 0
    BY <1>1, <1>7
  <2> QED
    BY <1>1, <1>6, <2>1
<1>9. at \in over => at = end
  BY <1>1, <1>6, <1>8
<1>10. ASSUME NEW p \in s .. end - 1
       PROVE  /\ m[p] # 0 /\ m[p + 0] = m[p]
              /\ strncmp(m, p + 1, find + 1, len) = 0 <=> (p + 1) + len <= e /\ IsCopy(m, p + 1, find + 1, f)
  <2>1. p \in s .. e - 1 /\ p + 0 = p
    BY <1>1, <1>7
  <2>2. EndsAt(m, p + 1, e)
    BY <1>1, <2>1 DEF EndsAt
  <2> QED
    BY <1>1, <1>2, <2>1, <2>2, StrncmpPrefix
<1>11. ASSUME NEW p \in s .. end - 1
       PROVE  FoundAt(m, p, end, find, f) <=> Matches(p) /\ RoomFor(len, left(p))
  <2>1. IsCopy(m, p, find, f) <=> m[p] = m[find] /\ IsCopy(m, p + 1, find + 1, f)
    <3>1. ASSUME IsCopy(m, p, find, f)
          PROVE  m[p] = m[find] /\ IsCopy(m, p + 1, find + 1, f)
      <4>1. 0 \in 0 .. f - find - 1 /\ p + 0 = p /\ find + 0 = find
        BY <1>1
      <4>2. ASSUME NEW k \in 0 .. f - (find + 1) - 1
            PROVE  m[p + 1 + k] = m[find + 1 + k]
        <5>1. k + 1 \in 0 .. f - find - 1 /\ p + (k + 1) = p + 1 + k /\ find + (k + 1) = find + 1 + k
          BY <1>1
        <5> QED
          BY <3>1, <5>1 DEF IsCopy
      <4> QED
        BY <3>1, <4>1, <4>2 DEF IsCopy
    <3>2. ASSUME m[p] = m[find], IsCopy(m, p + 1, find + 1, f)
          PROVE  IsCopy(m, p, find, f)
      <4>1. ASSUME NEW k \in 0 .. f - find - 1
            PROVE  m[p + k] = m[find + k]
        <5>1. CASE k = 0
          BY <1>1, <3>2, <5>1
        <5>2. CASE k # 0
          <6>1. k - 1 \in 0 .. f - (find + 1) - 1 /\ p + 1 + (k - 1) = p + k /\ find + 1 + (k - 1) = find + k
            BY <1>1, <5>2
          <6> QED
            BY <3>2, <6>1 DEF IsCopy
        <5> QED
          BY <5>1, <5>2
      <4> QED
        BY <4>1 DEF IsCopy
    <3> QED
      BY <3>1, <3>2
  <2>2. p + (f - find) <= end <=> (p + 1) + len <= e /\ RoomFor(len, left(p))
    BY <1>1, <1>7 DEF RoomFor
  <2>3. RoomFor(len, left(p)) \in BOOLEAN
    BY DEF RoomFor
  <2> QED
    BY <1>10, <2>1, <2>2, <2>3 DEF FoundAt
<1>12. \A p \in s .. at - 1 : ~FoundAt(m, p, end, find, f)
  <2> SUFFICES ASSUME NEW p \in s .. at - 1 PROVE ~FoundAt(m, p, end, find, f)
    OBVIOUS
  <2>1. p \in Nat /\ s <= p /\ p < at /\ (p - s) % 1 = 0 /\ p \in s .. end - 1
    BY <1>1, <1>6, <1>8
  <2>2. ~Matches(p)
    BY <1>6, <2>1
  <2> QED
    BY <1>11, <2>1, <2>2
<1>13. \A p \in Nat : end <= p => ~FoundAt(m, p, end, find, f)
  BY <1>1 DEF FoundAt
<1>14. CASE at \in over
  <2>1. \A p \in Nat : s <= p => ~FoundAt(m, p, end, find, f)
    BY <1>1, <1>9, <1>12, <1>13, <1>14
  <2> QED
    BY <1>5, <1>14, <2>1 DEF FirstFound
<1>15. CASE at \notin over
  <2>1. at \in s .. end - 1 /\ Matches(at)
    BY <1>1, <1>6, <1>7, <1>8, <1>15, MemoryAssumption
  <2>2. CASE RoomFor(len, left(at))
    <3>1. FoundAt(m, at, end, find, f)
      BY <1>11, <2>1, <2>2
    <3> QED
      BY <1>5, <1>6, <1>12, <1>15, <2>2, <3>1 DEF FirstFound
  <2>3. CASE ~RoomFor(len, left(at))
    <3>1. \A p \in Nat : at <= p => ~FoundAt(m, p, end, find, f)
      BY <1>1, <1>6, <1>7, <2>3 DEF FoundAt, RoomFor
    <3>2. \A p \in Nat : s <= p => ~FoundAt(m, p, end, find, f)
      BY <1>1, <1>6, <1>12, <3>1
    <3> QED
      BY <1>5, <2>3, <3>2 DEF FirstFound
  <2> QED
    BY <2>2, <2>3
<1> QED
  BY <1>14, <1>15

LEMMA MemmemIs ==
  ASSUME NEW m \in Memory, NEW l \in Nat, NEW n \in Nat, NEW s \in Nat, NEW len \in Nat \ {0},
         l + n <= MemSize, s + len <= MemSize
  PROVE  FirstFound(m, l, l + n, s, s + len, memmem(m, l, n, s, len))
<1> DEFINE Found(p) == FoundAt(m, p, l + n, s, s + len)
           Stops == {a \in Nat : a + len > l + n \/ memcmp(m, a, s, len) = 0}
           at == LoopEnd(l, 1, Stops)
           one == memchr(m, l, m[s], n)
<1>1. memmem(m, l, n, s, len) =
        IF n = 0 THEN NULL
        ELSE IF len = 1 THEN one
        ELSE IF at + len > l + n THEN NULL ELSE at
  BY DEF memmem
<1>2. (s + len) - s = len
  OBVIOUS
<1>3. CASE n = 0
  <2>1. \A p \in Nat : l <= p => ~Found(p)
    BY <1>2, <1>3 DEF FoundAt
  <2> QED
    BY <1>1, <1>3, <2>1 DEF FirstFound
<1>4. CASE n # 0 /\ len = 1
  <2>1. \/ one = NULL /\ \A b \in l .. l + n - 1 : m[b] # m[s]
        \/ one \in l .. l + n - 1 /\ m[one] = m[s] /\ \A b \in l .. one - 1 : m[b] # m[s]
    BY MemchrFinds DEF Memory, FirstHit
  <2>2. ASSUME NEW p \in Nat, l <= p
        PROVE  Found(p) <=> p <= l + n - 1 /\ m[p] = m[s]
    <3>1. (s + len) - s - 1 = 0 /\ p + 0 = p /\ s + 0 = s
      BY <1>4
    <3>2. \A k : k \in 0 .. 0 <=> k = 0
      OBVIOUS
    <3>3. IsCopy(m, p, s, s + len) <=> m[p] = m[s]
      BY <3>1, <3>2 DEF IsCopy
    <3> QED
      BY <1>2, <1>4, <3>3 DEF FoundAt
  <2> HIDE DEF one, Found
  <2>3. CASE one = NULL /\ \A b \in l .. l + n - 1 : m[b] # m[s]
    <3>1. \A p \in Nat : l <= p => ~Found(p)
      BY <2>2, <2>3
    <3> QED
      BY <1>1, <1>4, <2>3, <3>1 DEF Found, FirstFound
  <2>4. CASE one \in l .. l + n - 1 /\ m[one] = m[s] /\ \A b \in l .. one - 1 : m[b] # m[s]
    <3>1. one \in Nat /\ l <= one /\ Found(one) /\ \A p \in l .. one - 1 : ~Found(p)
      BY <2>2, <2>4
    <3> QED
      BY <1>1, <1>4, <3>1 DEF Found, FirstFound
  <2> QED
    BY <2>1, <2>3, <2>4
<1>5. CASE n # 0 /\ len # 1
  <2>1. /\ at \in Nat /\ l <= at
        /\ at >= MemSize \/ at \in Stops
        /\ \A b \in Nat : l <= b /\ b < at /\ (b - l) % 1 = 0 => b \notin Stops
    BY LoopEnds
  <2>2. ASSUME NEW p \in Nat, l <= p
        PROVE  Found(p) <=> p + len <= l + n /\ p \in Stops
    <3>1. CASE p + len <= l + n
      <4>1. memcmp(m, p, s, len) = 0 <=> SameBytes(m, p, s, len)
        <5>1. p + len <= MemSize /\ s + len <= MemSize /\ len \in Nat
          BY <3>1, MemoryAssumption
        <5> QED
          BY <5>1, MemcmpTells
      <4> QED
        BY <1>2, <3>1, <4>1 DEF FoundAt, IsCopy, SameBytes
    <3>2. CASE ~(p + len <= l + n)
      BY <1>2, <3>2 DEF FoundAt
    <3> QED
      BY <3>1, <3>2
  <2> HIDE DEF at, Found
  <2>3. \A p \in l .. at - 1 : ~Found(p)
    <3> SUFFICES ASSUME NEW p \in l .. at - 1 PROVE ~Found(p)
      OBVIOUS
    <3>1. p \in Nat /\ l <= p /\ p < at /\ (p - l) % 1 = 0
      BY <2>1
    <3> QED
      BY <2>1, <2>2, <3>1
  <2>4. CASE at + len > l + n
    <3>1. \A p \in Nat : l <= p => ~Found(p)
      BY <2>1, <2>2, <2>3, <2>4
    <3> QED
      BY <1>1, <1>5, <2>4, <3>1 DEF Found, FirstFound
  <2>5. CASE ~(at + len > l + n)
    <3>1. at < MemSize
      BY <2>1, <2>5, MemoryAssumption
    <3>2. Found(at)
      BY <2>1, <2>2, <2>5, <3>1, MemoryAssumption
    <3> QED
      BY <1>1, <1>5, <2>1, <2>3, <2>5, <3>2 DEF Found, FirstFound
  <2> QED
    BY <2>4, <2>5
<1> QED
  BY <1>3, <1>4, <1>5

(***************************************************************************)
(* The library: a program's call, and its question about the block.        *)
(***************************************************************************)

\* What was answered is what the function computes of the moved block.
QuestionAnswered ==
  answer # UNASKED => pc = "done" /\ answer = Answer(mem, asked.dst, question)

LibInv == IInv /\ KeepsContract(asked, question) /\ QuestionAnswered

LEMMA LibInitially == LibInit => LibInv
<1> SUFFICES ASSUME LibInit PROVE LibInv
  OBVIOUS
<1>1. PICK kind \in Programs : \E p \in kind : Runs(p.call, p.question)
  BY DEF LibInit
<1>2. PICK p \in kind : Runs(p.call, p.question)
  BY <1>1
<1>3. p.call \in Call /\ KeepsContract(p.call, p.question)
  BY ProgramsAssumption
<1>4. asked = p.call /\ question = p.question /\ answer = UNASKED
  BY <1>2 DEF Runs
<1>5. Init
  BY <1>2, <1>3 DEF Runs, Init
<1> QED
  BY <1>3, <1>4, <1>5, Initially DEF LibInv, QuestionAnswered

LEMMA CopyStepKeeps == LibInv /\ CopyStep => LibInv'
<1> SUFFICES ASSUME LibInv, CopyStep PROVE LibInv'
  OBVIOUS
<1>1. IInv' /\ question' = question /\ answer' = answer
  BY Inductive DEF LibInv, CopyStep
<1>2. Next
  BY DEF CopyStep
<1>3. asked' = asked /\ pc # "done"
  BY <1>2 DEF Next, Begin, NothingToDo, CopyByte, CopyWord, StartWords, StartTail, Return
<1>4. answer = UNASKED
  BY <1>3 DEF LibInv, QuestionAnswered
<1> QED
  BY <1>1, <1>3, <1>4 DEF LibInv, QuestionAnswered

LEMMA AskKeeps == LibInv /\ Ask => LibInv'
<1> SUFFICES ASSUME LibInv, Ask PROVE LibInv'
  OBVIOUS
<1>1. /\ UNCHANGED vars /\ question' = question /\ pc = "done"
      /\ answer' = Answer(mem, asked.dst, question)
  BY DEF Ask
<1>2. IInv'
  BY <1>1, Inductive DEF LibInv
<1>3. mem' = mem /\ asked' = asked /\ pc' = pc
  BY <1>1 DEF vars
<1> QED
  BY <1>1, <1>2, <1>3 DEF LibInv, QuestionAnswered

LEMMA LibInductive == LibInv /\ [LibNext]_libVars => LibInv'
<1> SUFFICES ASSUME LibInv, [LibNext]_libVars PROVE LibInv'
  OBVIOUS
<1>1. CASE UNCHANGED libVars
  <2>1. UNCHANGED vars /\ question' = question /\ answer' = answer
    BY <1>1 DEF libVars
  <2>2. IInv'
    BY <2>1, Inductive DEF LibInv
  <2>3. mem' = mem /\ asked' = asked /\ pc' = pc
    BY <2>1 DEF vars
  <2> QED
    BY <2>1, <2>2, <2>3 DEF LibInv, QuestionAnswered
<1> QED
  BY <1>1, CopyStepKeeps, AskKeeps DEF LibNext

\* The library's programs call memcpy as MemCopy says.
THEOREM LibraryCopies == LibSpec => Spec
<1>1. LibInit => Init
  <2> SUFFICES ASSUME LibInit PROVE Init
    OBVIOUS
  <2>1. PICK kind \in Programs : \E p \in kind : Runs(p.call, p.question)
    BY DEF LibInit
  <2>2. PICK p \in kind : Runs(p.call, p.question)
    BY <2>1
  <2>3. p.call \in Call
    BY ProgramsAssumption
  <2> QED
    BY <2>2, <2>3 DEF Runs, Init
<1>2. [LibNext]_libVars => [Next]_vars
  BY DEF LibNext, libVars, CopyStep, Ask
<1> QED
  BY <1>1, <1>2, PTL DEF LibSpec, Spec

LEMMA TextFacts ==
  ASSUME NEW c \in Call, NEW k, TextIn(c, k)
  PROVE  /\ k \in Nat /\ EndIn(c, k) \in k .. c.length - 1 /\ ByteIn(c, EndIn(c, k)) = 0
         /\ \A i \in k .. EndIn(c, k) - 1 : ByteIn(c, i) # 0
<1> DEFINE T == {e \in k .. c.length - 1 : ByteIn(c, e) = 0}
<1>1. k \in Nat /\ c.length \in Nat /\ T # {}
  BY CallFacts DEF TextIn
<1>2. T \in SUBSET Nat
  BY <1>1
<1>3. Min(T) \in T /\ \A y \in T : Min(T) <= y
  BY <1>1, <1>2, MinOf
<1>4. \A i \in k .. Min(T) - 1 : ByteIn(c, i) # 0
  BY <1>1, <1>3
<1> QED
  BY <1>1, <1>3, <1>4 DEF EndIn

\* When the copy is done the block is in its new place.
LEMMA BlockMoved ==
  ASSUME LibInv, pc = "done"
  PROVE  /\ asked.dst \in Nat /\ asked.src \in Nat /\ asked.length \in Nat
         /\ asked.dst + asked.length <= MemSize
         /\ mem \in Memory
         /\ \A k \in 0 .. asked.length - 1 :
              asked.dst + k \in Address /\ mem[asked.dst + k] = BlockByte(k)
<1>1. IInv /\ asked \in Call
  BY DEF LibInv, IInv
<1>2. /\ asked.dst \in Nat /\ asked.src \in Nat /\ asked.length \in Nat
      /\ asked.dst + asked.length <= MemSize /\ asked.mem \in Memory
  BY <1>1, CallFacts
<1>3. mem = Abstract!Moved(asked)
  BY <1>1, DoneIsMoved
<1>4. mem \in Memory
  BY <1>1 DEF IInv, TypeOK
<1>5. ASSUME NEW k \in 0 .. asked.length - 1
      PROVE  asked.dst + k \in Address /\ mem[asked.dst + k] = BlockByte(k)
  <2>1. /\ asked.dst + k \in Address /\ asked.dst + k \in asked.dst .. asked.dst + asked.length - 1
        /\ (asked.dst + k) - asked.dst = k
    BY <1>2, MemoryAssumption DEF Address
  <2>2. asked.dst + k \in DOMAIN asked.mem
    BY <1>2, <2>1 DEF Memory
  <2>3. mem[asked.dst + k] = asked.mem[asked.src + ((asked.dst + k) - asked.dst)]
    BY <1>3, <2>1, <2>2 DEF Abstract!Moved
  <2> QED
    BY <2>1, <2>3 DEF BlockByte, ByteIn
<1> QED
  BY <1>2, <1>4, <1>5

\* A string of the block is a string there.
LEMMA MovedText ==
  ASSUME LibInv, pc = "done", NEW k, TextIn(asked, k)
  PROVE  /\ k \in Nat /\ EndOf(k) \in k .. asked.length - 1
         /\ BlockByte(EndOf(k)) = 0 /\ \A i \in k .. EndOf(k) - 1 : BlockByte(i) # 0
         /\ EndsAt(mem, asked.dst + k, asked.dst + EndOf(k))
         /\ Measured(k) <=> Seen(asked.dst + k, asked.dst + EndOf(k))
<1>1. asked \in Call
  BY DEF LibInv, IInv
<1>2. /\ k \in Nat /\ EndOf(k) \in k .. asked.length - 1
      /\ BlockByte(EndOf(k)) = 0 /\ \A i \in k .. EndOf(k) - 1 : BlockByte(i) # 0
  BY <1>1, TextFacts DEF EndOf, BlockByte
<1>3. /\ asked.dst \in Nat /\ asked.length \in Nat /\ asked.dst + asked.length <= MemSize
      /\ \A i \in 0 .. asked.length - 1 : mem[asked.dst + i] = BlockByte(i)
  BY BlockMoved
<1>4. \A b \in asked.dst + k .. asked.dst + EndOf(k) - 1 : mem[b] # 0
  <2> SUFFICES ASSUME NEW b \in asked.dst + k .. asked.dst + EndOf(k) - 1 PROVE mem[b] # 0
    OBVIOUS
  <2>1. b - asked.dst \in k .. EndOf(k) - 1 /\ b - asked.dst \in 0 .. asked.length - 1
        /\ asked.dst + (b - asked.dst) = b
    BY <1>2, <1>3
  <2> QED
    BY <1>2, <1>3, <2>1
<1>5. EndOf(k) \in 0 .. asked.length - 1
  BY <1>2
<1>6. mem[asked.dst + EndOf(k)] = 0
  BY <1>2, <1>3, <1>5
<1>7. EndsAt(mem, asked.dst + k, asked.dst + EndOf(k))
  BY <1>2, <1>3, <1>4, <1>6, MemoryAssumption DEF EndsAt
<1>8. Measured(k) <=> Seen(asked.dst + k, asked.dst + EndOf(k))
  BY DEF Measured, Seen
<1> QED
  BY <1>2, <1>7, <1>8

LEMMA AnsweredFacts ==
  ASSUME LibInv, NEW fns, Answered(fns)
  PROVE  /\ pc = "done" /\ asked.dst \in Nat /\ question.fn \in fns
         /\ answer = Answer(mem, asked.dst, question)
         /\ KeepsContract(asked, question)
BY BlockMoved DEF LibInv, QuestionAnswered, Answered

\* The least of a set of offsets.
LEMMA LeastOfIs ==
  ASSUME NEW ks, ks \subseteq Int, NEW x \in ks, \A y \in ks : x <= y
  PROVE  LeastOf(ks) = x
<1>1. ks # {}
  OBVIOUS
<1> QED
  BY <1>1, MinIs DEF LeastOf

LEMMA LeastOfNone == LeastOf({}) = NULL
BY DEF LeastOf

LEMMA StrlenRight ==
  ASSUME LibInv, Answered({"strlen"}), Measured(0)
  PROVE  answer = LengthAt(0)
<1>1. pc = "done" /\ asked.dst \in Nat /\ answer = strlen(mem, asked.dst) /\ TextIn(asked, 0)
  BY AnsweredFacts DEF Answer, KeepsContract
<1>2. EndsAt(mem, asked.dst + 0, asked.dst + EndOf(0)) /\ Seen(asked.dst + 0, asked.dst + EndOf(0))
      /\ EndOf(0) \in 0 .. asked.length - 1
  BY <1>1, MovedText
<1>3. strlen(mem, asked.dst + 0) = (asked.dst + EndOf(0)) - (asked.dst + 0)
  BY <1>2, StrlenIs
<1>4. asked.dst + 0 = asked.dst /\ (asked.dst + EndOf(0)) - (asked.dst + 0) = EndOf(0) - 0
  BY <1>1, <1>2
<1> QED
  BY <1>1, <1>3, <1>4 DEF LengthAt

LEMMA StrnlenRight ==
  ASSUME LibInv, Answered({"strnlen"})
  PROVE  answer = Min({question.n} \cup {k \in 0 .. asked.length - 1 : BlockByte(k) = 0})
<1> DEFINE n == question.n
           T == {n} \cup {k \in 0 .. asked.length - 1 : BlockByte(k) = 0}
           l == Min(T)
<1>1. /\ pc = "done" /\ asked.dst \in Nat /\ answer = strnlen(mem, asked.dst, n) /\ n \in Nat
      /\ TextIn(asked, 0) \/ n <= asked.length
  BY AnsweredFacts DEF Answer, KeepsContract
<1>2. T \in SUBSET Nat /\ T # {}
  BY <1>1
<1>3. l \in T /\ \A y \in T : l <= y
  BY <1>2, MinOf
<1> HIDE DEF l
<1>4. asked.length \in Nat /\ asked.dst + asked.length <= MemSize /\ mem \in Memory
      /\ \A k \in 0 .. asked.length - 1 : mem[asked.dst + k] = BlockByte(k)
  BY <1>1, BlockMoved
<1>5. l \in 0 .. n
  BY <1>1, <1>2, <1>3
<1>6. l <= asked.length
  <2>1. CASE n <= asked.length
    BY <1>1, <1>4, <1>5, <2>1
  <2>2. CASE TextIn(asked, 0)
    <3>1. EndOf(0) \in 0 .. asked.length - 1 /\ BlockByte(EndOf(0)) = 0
      BY <1>1, <2>2, MovedText
    <3> QED
      BY <1>3, <1>4, <1>5, <3>1
  <2> QED
    BY <1>1, <2>1, <2>2
<1>7. l = n \/ mem[asked.dst + l] = 0
  BY <1>3, <1>4
<1>8. \A k \in 0 .. l - 1 : mem[asked.dst + k] # 0
  <2> SUFFICES ASSUME NEW k \in 0 .. l - 1 PROVE mem[asked.dst + k] # 0
    OBVIOUS
  <2>1. k \in 0 .. asked.length - 1 /\ ~(l <= k)
    BY <1>4, <1>5, <1>6
  <2> QED
    BY <1>3, <1>4, <2>1
<1>9. asked.dst + l <= MemSize
  BY <1>1, <1>4, <1>5, <1>6, MemoryAssumption
<1>10. strnlen(mem, asked.dst, n) = l
  BY <1>1, <1>5, <1>7, <1>8, <1>9, StrnlenIs
<1> QED
  BY <1>1, <1>10 DEF l

\* The answer of a search that returns an address.
LEMMA OffsetOf ==
  ASSUME NEW r \in Int, answer = r, asked.dst \in Nat
  PROVE  Offset = r - asked.dst
BY PointerAssumption DEF Offset

LEMMA FirstHitOffset ==
  ASSUME NEW c, NEW l \in Nat, asked.dst \in Nat,
         \A k \in 0 .. l - 1 : mem[asked.dst + k] = BlockByte(k),
         FirstHit(mem, c, asked.dst, asked.dst + l - 1, answer)
  PROVE  Offset = LeastOf({k \in 0 .. l - 1 : BlockByte(k) = c})
<1> DEFINE T == {k \in 0 .. l - 1 : BlockByte(k) = c}
           d == asked.dst
<1>1. d \in Nat /\ \A k \in 0 .. l - 1 : mem[d + k] = BlockByte(k)
  OBVIOUS
<1>2. CASE answer = NULL /\ \A b \in d .. d + l - 1 : mem[b] # c
  <2>1. \A k \in 0 .. l - 1 : d + k \in d .. d + l - 1
    BY <1>1
  <2>2. T = {}
    BY <1>1, <1>2, <2>1
  <2> QED
    BY <1>2, <2>2, LeastOfNone DEF Offset
<1>3. CASE answer \in d .. d + l - 1 /\ mem[answer] = c /\ \A b \in d .. answer - 1 : mem[b] # c
  <2>1. Offset = answer - d
    BY <1>1, <1>3, OffsetOf
  <2>2. answer - d \in 0 .. l - 1 /\ d + (answer - d) = answer
    BY <1>1, <1>3
  <2>3. answer - d \in T
    BY <1>1, <1>3, <2>2
  <2>4. \A y \in T : answer - d <= y
    <3> SUFFICES ASSUME NEW y \in T, y < answer - d PROVE FALSE
      BY <1>1, <1>3
    <3>1. d + y \in d .. answer - 1
      BY <1>1, <1>3
    <3> QED
      BY <1>1, <1>3, <3>1
  <2>5. T \subseteq Int
    OBVIOUS
  <2> QED
    BY <2>1, <2>3, <2>4, <2>5, LeastOfIs
<1> QED
  BY <1>2, <1>3 DEF FirstHit

LEMMA MemchrRight ==
  ASSUME LibInv, Answered({"memchr"})
  PROVE  Offset = LeastOf({k \in 0 .. question.n - 1 : BlockByte(k) = question.c})
<1> DEFINE n == question.n
           d == asked.dst
<1>1. pc = "done" /\ d \in Nat /\ answer = memchr(mem, d, question.c, n) /\ n \in 0 .. asked.length
  BY AnsweredFacts DEF Answer, KeepsContract
<1>2. asked.length \in Nat /\ d + asked.length <= MemSize /\ DOMAIN mem = Address
      /\ \A k \in 0 .. asked.length - 1 : mem[d + k] = BlockByte(k)
  BY <1>1, BlockMoved DEF Memory
<1>3. /\ n \in Nat /\ d + n <= MemSize
      /\ \A k \in 0 .. n - 1 : mem[d + k] = BlockByte(k)
  BY <1>1, <1>2, MemoryAssumption
<1>4. FirstHit(mem, question.c, d, d + n - 1, answer)
  BY <1>1, <1>2, <1>3, MemchrFinds
<1> QED
  BY <1>1, <1>3, <1>4, FirstHitOffset

LEMMA StrchrRight ==
  ASSUME LibInv, Answered({"strchr"}), question.c = 0 => Measured(0)
  PROVE  Offset = LeastOf({k \in 0 .. EndOf(0) : BlockByte(k) = question.c})
<1> DEFINE c == question.c
           d == asked.dst
           e == d + EndOf(0)
           l == EndOf(0) + 1
<1>1. pc = "done" /\ d \in Nat /\ answer = strchr(mem, d, c) /\ TextIn(asked, 0)
  BY AnsweredFacts DEF Answer, KeepsContract
<1>2. /\ EndsAt(mem, d, e) /\ (c = 0 => Seen(d, e))
      /\ EndOf(0) \in 0 .. asked.length - 1
  <2>1. d + 0 = d
    BY <1>1
  <2> QED
    BY <1>1, <2>1, MovedText
<1>3. asked.length \in Nat /\ mem \in Memory
      /\ \A k \in 0 .. asked.length - 1 : mem[d + k] = BlockByte(k)
  BY <1>1, BlockMoved
<1>4. FirstHit(mem, c, d, e, answer)
  BY <1>1, <1>2, <1>3, StrchrIs
<1>5. /\ l \in Nat /\ d + l - 1 = e /\ l - 1 = EndOf(0)
      /\ \A k \in 0 .. l - 1 : mem[d + k] = BlockByte(k)
  BY <1>1, <1>2, <1>3
<1> HIDE DEF l
<1>6. Offset = LeastOf({k \in 0 .. l - 1 : BlockByte(k) = c})
  BY <1>1, <1>4, <1>5, FirstHitOffset
<1> QED
  BY <1>5, <1>6

LEMMA StrrchrRight ==
  ASSUME LibInv, Answered({"strrchr"}), Measured(0)
  PROVE  LET inString == {k \in 0 .. EndOf(0) : BlockByte(k) = question.c} IN
         Offset = IF inString = {} THEN NULL ELSE Max(inString)
<1> DEFINE c == question.c
           T == {k \in 0 .. EndOf(0) : BlockByte(k) = c}
           d == asked.dst
           e == d + EndOf(0)
<1>1. pc = "done" /\ d \in Nat /\ answer = strrchr(mem, d, c) /\ TextIn(asked, 0)
  BY AnsweredFacts DEF Answer, KeepsContract
<1>2. /\ EndsAt(mem, d, e) /\ Seen(d, e)
      /\ EndOf(0) \in 0 .. asked.length - 1
  <2>1. d + 0 = d
    BY <1>1
  <2> QED
    BY <1>1, <2>1, MovedText
<1>3. asked.length \in Nat /\ mem \in Memory
      /\ \A k \in 0 .. asked.length - 1 : mem[d + k] = BlockByte(k)
  BY <1>1, BlockMoved
<1>4. LastHit(mem, c, d, e, answer)
  BY <1>1, <1>2, <1>3, StrrchrIs
<1>5. \A k \in 0 .. EndOf(0) : d + k \in d .. e /\ mem[d + k] = BlockByte(k)
  BY <1>1, <1>2, <1>3
<1>6. CASE answer = NULL /\ \A b \in d .. e : mem[b] # c
  <2>1. T = {}
    BY <1>5, <1>6
  <2> QED
    BY <1>6, <2>1 DEF Offset
<1>7. CASE answer \in d .. e /\ mem[answer] = c /\ \A b \in answer + 1 .. e : mem[b] # c
  <2>1. Offset = answer - d
    BY <1>1, <1>2, <1>7, OffsetOf
  <2>2. answer - d \in 0 .. EndOf(0) /\ d + (answer - d) = answer
    BY <1>1, <1>2, <1>7
  <2>3. answer - d \in T
    BY <1>5, <1>7, <2>2
  <2>4. \A y \in T : y <= answer - d
    <3> SUFFICES ASSUME NEW y \in T, answer - d < y PROVE FALSE
      BY <1>1, <1>2, <1>7
    <3>1. d + y \in answer + 1 .. e
      BY <1>1, <1>2, <1>7
    <3> QED
      BY <1>5, <1>7, <3>1
  <2>5. T \subseteq Int
    BY <1>1, <1>2
  <2>6. Max(T) = answer - d
    BY <2>3, <2>4, <2>5, MaxIs
  <2> QED
    BY <2>1, <2>3, <2>6
<1> QED
  BY <1>4, <1>6, <1>7 DEF LastHit

\* The searches end at the first, or last, place of their character.
THEOREM Searching == LibSpec => []SearchesRight
<1>1. LibInv => SearchesRight
  BY StrlenRight, StrnlenRight, MemchrRight, StrchrRight, StrrchrRight DEF SearchesRight
<1> QED
  BY LibInitially, LibInductive, <1>1, PTL DEF LibSpec

\* Where the byte at the end of the string is not tested strlen goes past it.
LEMMA StrlenPasses ==
  ASSUME NEW m, NEW a, NEW e, EndsAt(m, a, e), ~Seen(a, e)
  PROVE  strlen(m, a) \in Nat /\ strlen(m, a) > e - a
<1> DEFINE Stops == {b \in Nat : b % 8 = 0 \/ m[b] = 0}
           p == LoopEnd(a, 1, Stops)
           Zeros == {b \in Nat : b % 8 \in Tested /\ m[b] = 0}
           last == LoopEnd(p, 1, Zeros)
<1>1. /\ a \in Nat /\ e \in Nat /\ a <= e /\ e < MemSize
      /\ m[e] = 0 /\ \A b \in a .. e - 1 : m[b] # 0
  BY DEF EndsAt
<1>2. /\ p \in Nat /\ a <= p
      /\ p >= MemSize \/ p \in Stops
      /\ \A b \in Nat : a <= b /\ b < p /\ (b - a) % 1 = 0 => b < MemSize /\ b \notin Stops
  BY <1>1, LoopEnds
<1>3. strlen(m, a) = IF p % 8 # 0 THEN p - a ELSE last - a
  BY DEF strlen, WORD
<1> HIDE DEF p
<1>4. p <= e
  <2>1. e \in Stops /\ (e - a) % 1 = 0
    BY <1>1
  <2> QED
    BY <1>1, <1>2, <2>1
<1>5. ~(LongBit >= 64) /\ e % 8 >= 4 /\ ~(e \div 8 = a \div 8 /\ a % 8 # 0)
  BY <1>1 DEF Seen, WORD
<1>6. p % 8 = 0
  <2> SUFFICES ASSUME p % 8 # 0 PROVE FALSE
    OBVIOUS
  <2>1. p \in Stops
    BY <1>1, <1>2, <1>4, MemoryAssumption
  <2>2. p = e
    BY <1>1, <1>2, <1>4, <2>1
  <2>3. \A b \in Nat : a <= b /\ b < e => b % 8 # 0
    <3> SUFFICES ASSUME NEW b \in Nat, a <= b, b < e PROVE b % 8 # 0
      OBVIOUS
    <3>1. (b - a) % 1 = 0
      BY <1>1
    <3> QED
      BY <1>2, <2>2, <3>1
  <2>4. a % 8 # 0
    BY <1>1, <2>2, <2>3
  <2>5. PICK b \in Nat : b = 8 * (e \div 8)
    BY <1>1
  <2>6. b <= e /\ b % 8 = 0 /\ e < b + 8
    BY <1>1, <2>5
  <2>7. b # e /\ ~(a <= b)
    BY <1>1, <2>2, <2>3, <2>6
  <2>8. e \div 8 = a \div 8
    BY <1>1, <2>5, <2>6, <2>7
  <2> QED
    BY <1>5, <2>4, <2>8
<1>7. e \notin Zeros /\ \A b \in p .. e - 1 : b \notin Zeros
  <2>1. e % 8 \notin Tested
    BY <1>1, <1>5, LongBitAssumption DEF Tested
  <2> QED
    BY <1>1, <1>2, <2>1
<1>8. last \in Nat /\ p <= last /\ (last >= MemSize \/ last \in Zeros)
  BY <1>2, LoopEnds
<1> HIDE DEF Zeros, last
<1>9. last > e
  BY <1>1, <1>2, <1>4, <1>7, <1>8, MemoryAssumption
<1> QED
  BY <1>1, <1>3, <1>6, <1>8, <1>9

\* What strlen answers to every string within its contract.
MeasuresOrPasses ==
  Answered({"strlen"}) =>
    /\ Measured(0)  => answer = LengthAt(0)
    /\ ~Measured(0) => answer > LengthAt(0)

\* Where strlen stops at the terminator is known exactly: everywhere with LONG_BIT 64;
\* otherwise a terminator in the upper half of any word but an unaligned first one is
\* passed over, and the answer is too large.
THEOREM MeasuredExactly == LibSpec => []MeasuresOrPasses
<1>1. LibInv => MeasuresOrPasses
  <2> SUFFICES ASSUME LibInv, Answered({"strlen"}), ~Measured(0)
               PROVE  answer > LengthAt(0)
    BY StrlenRight DEF MeasuresOrPasses
  <2>1. pc = "done" /\ asked.dst \in Nat /\ answer = strlen(mem, asked.dst) /\ TextIn(asked, 0)
    BY AnsweredFacts DEF Answer, KeepsContract
  <2>2. EndsAt(mem, asked.dst + 0, asked.dst + EndOf(0)) /\ ~Seen(asked.dst + 0, asked.dst + EndOf(0))
        /\ EndOf(0) \in 0 .. asked.length - 1
    BY <2>1, MovedText
  <2>3. strlen(mem, asked.dst + 0) > (asked.dst + EndOf(0)) - (asked.dst + 0)
    BY <2>2, StrlenPasses
  <2>4. asked.dst + 0 = asked.dst /\ (asked.dst + EndOf(0)) - (asked.dst + 0) = EndOf(0) - 0
    BY <2>1, <2>2
  <2> QED
    BY <2>1, <2>3, <2>4 DEF LengthAt
<1> QED
  BY LibInitially, LibInductive, <1>1, PTL DEF LibSpec

(***************************************************************************)
(* Comparisons and searches for a text, asked about the block.             *)
(***************************************************************************)

\* What the comparisons are about: the two strings of the block in their new place.
LEMMA TwoTexts ==
  ASSUME LibInv, pc = "done", NEW o, TextIn(asked, 0), TextIn(asked, o),
         NEW a, a = asked.dst, NEW b, b = asked.dst + o,
         NEW e, e = asked.dst + EndOf(0), NEW f, f = asked.dst + EndOf(o)
  PROVE  /\ EndsAt(mem, a, e) /\ EndsAt(mem, b, f) /\ mem \in Memory
         /\ LengthAt(0) \in Nat /\ LengthAt(o) \in Nat /\ LengthAt(0) < asked.length
         /\ a \in Nat /\ b \in Nat /\ e \in Nat /\ f \in Nat
         /\ \A k \in Nat : a + k <= e <=> k <= LengthAt(0)
         /\ \A k \in Nat : b + k <= f <=> k <= LengthAt(o)
         /\ \A k \in Nat : k <= LengthAt(0) => mem[a + k] = BlockByte(k)
         /\ \A k \in Nat : k <= LengthAt(o) => mem[b + k] = BlockByte(o + k)
<1>1. /\ asked.dst \in Nat /\ asked.length \in Nat /\ mem \in Memory
      /\ \A k \in 0 .. asked.length - 1 : mem[asked.dst + k] = BlockByte(k)
  BY BlockMoved
<1>2. /\ EndOf(0) \in 0 .. asked.length - 1
      /\ EndsAt(mem, asked.dst + 0, asked.dst + EndOf(0))
  BY MovedText
<1>3. /\ o \in Nat /\ EndOf(o) \in o .. asked.length - 1
      /\ EndsAt(mem, asked.dst + o, asked.dst + EndOf(o))
  BY MovedText
<1>4. asked.dst + 0 = asked.dst
  BY <1>1
<1>5. \A k \in Nat : k <= EndOf(0) => mem[asked.dst + k] = BlockByte(k)
  BY <1>1, <1>2
<1>6. \A k \in Nat : k <= EndOf(o) - o => mem[asked.dst + o + k] = BlockByte(o + k)
  <2> SUFFICES ASSUME NEW k \in Nat, k <= EndOf(o) - o
               PROVE  mem[asked.dst + o + k] = BlockByte(o + k)
    OBVIOUS
  <2>1. o + k \in 0 .. asked.length - 1 /\ asked.dst + (o + k) = asked.dst + o + k
    BY <1>1, <1>3
  <2> QED
    BY <1>1, <2>1
<1> QED
  BY <1>1, <1>2, <1>3, <1>4, <1>5, <1>6 DEF LengthAt

\* A comparison of the two strings up to reach, by what it returns at the first
\* difference and without one.
LEMMA ComparesBy ==
  ASSUME LibInv, pc = "done", NEW reach \in Nat, TextIn(asked, 0), TextIn(asked, question.other),
         NEW a, a = asked.dst, NEW b, b = asked.dst + question.other,
         NEW e, e = asked.dst + EndOf(0), NEW f, f = asked.dst + EndOf(question.other),
         \A i \in 0 .. reach - 1 : DifferAt(mem, a, e, b, f, i) => answer = mem[a + i] - mem[b + i],
         (\A k \in 0 .. reach - 1 : a + k <= e /\ b + k <= f => mem[a + k] = mem[b + k]) => answer = 0
  PROVE  Compares(reach)
<1> DEFINE o == question.other
           D == {k \in 0 .. reach - 1 :
                   /\ k <= LengthAt(0) /\ k <= LengthAt(o)
                   /\ BlockByte(k) # BlockByte(o + k)}
<1>1. /\ EndsAt(mem, a, e) /\ EndsAt(mem, b, f) /\ mem \in Memory
      /\ LengthAt(0) \in Nat /\ LengthAt(o) \in Nat
      /\ a \in Nat /\ b \in Nat /\ e \in Nat /\ f \in Nat
      /\ \A k \in Nat : a + k <= e <=> k <= LengthAt(0)
      /\ \A k \in Nat : b + k <= f <=> k <= LengthAt(o)
      /\ \A k \in Nat : k <= LengthAt(0) => mem[a + k] = BlockByte(k)
      /\ \A k \in Nat : k <= LengthAt(o) => mem[b + k] = BlockByte(o + k)
  BY TwoTexts
<1>2. Difference(reach) = LeastOf(D)
  BY DEF Difference
<1>3. D \subseteq Nat
  OBVIOUS
<1>4. CASE D = {}
  <2>1. \A k \in 0 .. reach - 1 : a + k <= e /\ b + k <= f => mem[a + k] = mem[b + k]
    <3> SUFFICES ASSUME NEW k \in 0 .. reach - 1, a + k <= e, b + k <= f PROVE mem[a + k] = mem[b + k]
      OBVIOUS
    <3>1. k \in Nat /\ k <= LengthAt(0) /\ k <= LengthAt(o)
      BY <1>1
    <3>2. BlockByte(k) = BlockByte(o + k)
      BY <1>4, <3>1
    <3> QED
      BY <1>1, <3>1, <3>2
  <2>2. answer = 0
    BY <2>1
  <2>3. Difference(reach) = NULL
    BY <1>2, <1>4, LeastOfNone
  <2> QED
    BY <2>2, <2>3 DEF Compares
<1>5. CASE D # {}
  <2>1. PICK k \in D : \A y \in D : k <= y
    BY <1>3, <1>5, Smallest
  <2>2. Difference(reach) = k
    <3>1. D \subseteq Int
      BY <1>3
    <3> QED
      BY <1>2, <2>1, <3>1, LeastOfIs
  <2>3. k \in Nat /\ k \in 0 .. reach - 1 /\ k <= LengthAt(0) /\ k <= LengthAt(o)
        /\ BlockByte(k) # BlockByte(o + k)
    OBVIOUS
  <2>4. mem[a + k] = BlockByte(k) /\ mem[b + k] = BlockByte(o + k) /\ a + k <= e /\ b + k <= f
    BY <1>1, <2>3
  <2>5. \A j \in 0 .. k - 1 : mem[a + j] = mem[b + j]
    <3> SUFFICES ASSUME NEW j \in 0 .. k - 1 PROVE mem[a + j] = mem[b + j]
      OBVIOUS
    <3>1. j \in Nat /\ j \in 0 .. reach - 1 /\ j <= LengthAt(0) /\ j <= LengthAt(o) /\ ~(k <= j)
      BY <1>1, <2>3
    <3>2. BlockByte(j) = BlockByte(o + j)
      BY <2>1, <3>1
    <3> QED
      BY <1>1, <3>1, <3>2
  <2>6. DifferAt(mem, a, e, b, f, k)
    BY <2>3, <2>4, <2>5 DEF DifferAt
  <2>7. answer = BlockByte(k) - BlockByte(o + k)
    BY <2>3, <2>4, <2>6
  <2>8. BlockByte(k) \in 0 .. 127 /\ BlockByte(o + k) \in 0 .. 127
    <3>1. a + k \in a .. e /\ b + k \in b .. f
      BY <1>1, <2>3, <2>4
    <3>2. mem[a + k] \in 0 .. 127 /\ mem[b + k] \in 0 .. 127
      BY <1>1, <3>1, StringAddresses
    <3> QED
      BY <2>4, <3>2
  <2>9. answer # 0 /\ ((answer < 0) <=> (BlockByte(k) < BlockByte(o + k)))
    BY <2>3, <2>7, <2>8, Differences
  <2>10. k # NULL
    BY <2>3, PointerAssumption
  <2> QED
    BY <2>2, <2>9, <2>10 DEF Compares
<1> QED
  BY <1>4, <1>5

LEMMA StrncmpRight ==
  ASSUME LibInv, Answered({"strncmp"})
  PROVE  Compares(question.n)
<1> DEFINE n == question.n
           a == asked.dst
           b == asked.dst + question.other
           e == asked.dst + EndOf(0)
           f == asked.dst + EndOf(question.other)
<1>1. /\ pc = "done" /\ answer = strncmp(mem, a, b, n) /\ n \in Nat
      /\ TextIn(asked, 0) /\ TextIn(asked, question.other)
  BY AnsweredFacts DEF Answer, KeepsContract
<1>2. EndsAt(mem, a, e) /\ EndsAt(mem, b, f) /\ mem \in Memory
  BY <1>1, TwoTexts
<1> HIDE DEF a, b, e, f
<1>3. \A i \in 0 .. n - 1 : DifferAt(mem, a, e, b, f, i) => answer = mem[a + i] - mem[b + i]
  BY <1>1, <1>2, StrncmpDiffers
<1>4. (\A k \in 0 .. n - 1 : a + k <= e /\ b + k <= f => mem[a + k] = mem[b + k]) => answer = 0
  BY <1>1, <1>2, StrncmpSame
<1> QED
  BY <1>1, <1>3, <1>4, ComparesBy DEF a, b, e, f

LEMMA StrcmpRight ==
  ASSUME LibInv, Answered({"strcmp"})
  PROVE  Compares(asked.length)
<1> DEFINE n == asked.length
           a == asked.dst
           b == asked.dst + question.other
           e == asked.dst + EndOf(0)
           f == asked.dst + EndOf(question.other)
<1>1. /\ pc = "done" /\ answer = strcmp(mem, a, b)
      /\ TextIn(asked, 0) /\ TextIn(asked, question.other)
  BY AnsweredFacts DEF Answer, KeepsContract
<1>2. /\ EndsAt(mem, a, e) /\ EndsAt(mem, b, f) /\ mem \in Memory
      /\ LengthAt(0) \in Nat /\ LengthAt(0) < asked.length
      /\ \A k \in Nat : a + k <= e <=> k <= LengthAt(0)
  BY <1>1, TwoTexts
<1>3. n \in Nat
  BY <1>1, BlockMoved
<1> HIDE DEF a, b, e, f
<1>4. \A i \in 0 .. n - 1 : DifferAt(mem, a, e, b, f, i) => answer = mem[a + i] - mem[b + i]
  BY <1>1, <1>2, StrcmpDiffers
<1>5. (\A k \in 0 .. n - 1 : a + k <= e /\ b + k <= f => mem[a + k] = mem[b + k]) => answer = 0
  <2> SUFFICES ASSUME \A k \in 0 .. n - 1 : a + k <= e /\ b + k <= f => mem[a + k] = mem[b + k]
               PROVE  answer = 0
    OBVIOUS
  <2>1. \A k \in Nat : a + k <= e /\ b + k <= f => mem[a + k] = mem[b + k]
    <3> SUFFICES ASSUME NEW k \in Nat, a + k <= e, b + k <= f PROVE mem[a + k] = mem[b + k]
      OBVIOUS
    <3>1. k \in 0 .. n - 1
      BY <1>2, <1>3
    <3> QED
      BY <3>1
  <2> QED
    BY <1>1, <1>2, <2>1, StrcmpSame
<1> QED
  BY <1>1, <1>3, <1>4, <1>5, ComparesBy DEF a, b, e, f

LEMMA StrcspnRight ==
  ASSUME LibInv, Answered({"strcspn"}), LengthAt(question.other) = 0 => Measured(0)
  PROVE  answer = Min({k \in 0 .. EndOf(0) : k = EndOf(0) \/ BlockByte(k) \in CharsAt(question.other)})
<1> DEFINE o == question.other
           a == asked.dst
           c == asked.dst + o
           e == asked.dst + EndOf(0)
           f == asked.dst + EndOf(o)
           chars == CharsFrom(mem, c, f)
           T == {k \in 0 .. EndOf(0) : k = EndOf(0) \/ BlockByte(k) \in CharsAt(o)}
           r == a + strcspn(mem, a, c)
<1>1. /\ pc = "done" /\ answer = strcspn(mem, a, c)
      /\ TextIn(asked, 0) /\ TextIn(asked, o)
  BY AnsweredFacts DEF Answer, KeepsContract
<1>2. /\ EndsAt(mem, a, e) /\ EndsAt(mem, c, f) /\ mem \in Memory
      /\ LengthAt(0) \in Nat /\ LengthAt(o) \in Nat
      /\ a \in Nat /\ c \in Nat /\ e \in Nat /\ f \in Nat
      /\ \A k \in Nat : a + k <= e <=> k <= LengthAt(0)
      /\ \A k \in Nat : c + k <= f <=> k <= LengthAt(o)
      /\ \A k \in Nat : k <= LengthAt(0) => mem[a + k] = BlockByte(k)
      /\ \A k \in Nat : k <= LengthAt(o) => mem[c + k] = BlockByte(o + k)
  BY <1>1, TwoTexts
<1>3. /\ EndOf(0) \in 0 .. asked.length - 1 /\ o \in Nat /\ EndOf(o) \in o .. asked.length - 1
      /\ asked.dst \in Nat
      /\ BlockByte(EndOf(0)) = 0 /\ \A k \in 0 .. EndOf(0) - 1 : BlockByte(k) # 0
      /\ BlockByte(EndOf(o)) = 0
      /\ Measured(0) <=> Seen(a + 0, e)
  BY <1>1, MovedText, BlockMoved
<1>4. mem[c] # 0 \/ Seen(a, e)
  <2>1. a + 0 = a
    BY <1>2
  <2>2. CASE LengthAt(o) = 0
    BY <1>3, <2>1, <2>2
  <2>3. CASE LengthAt(o) # 0
    <3>1. c \in c .. f - 1
      BY <1>2, <1>3, <2>3 DEF LengthAt
    <3> QED
      BY <1>2, <3>1 DEF EndsAt
  <2> QED
    BY <2>2, <2>3
<1>5. strcspn(mem, a, c) \in Nat /\ r \in a .. e /\ mem[r] \in chars /\ \A x \in a .. r - 1 : mem[x] \notin chars
  <2>1. SpanEnds(mem, a, e, chars, strcspn(mem, a, c))
    BY <1>2, <1>4, StrcspnIs
  <2> QED
    BY <1>2, <2>1 DEF SpanEnds
<1>6. \A k \in 0 .. EndOf(0) : mem[a + k] \in chars <=> k = EndOf(0) \/ BlockByte(k) \in CharsAt(o)
  <2>1. \A y : y \in chars <=> \E i \in o .. EndOf(o) : y = BlockByte(i)
    <3> SUFFICES ASSUME NEW y PROVE y \in chars <=> \E i \in o .. EndOf(o) : y = BlockByte(i)
      OBVIOUS
    <3> USE DEF CharsFrom
    <3>1. ASSUME NEW x \in c .. f, y = mem[x]
          PROVE  \E i \in o .. EndOf(o) : y = BlockByte(i)
      <4>1. x - c \in Nat /\ x - c <= LengthAt(o) /\ c + (x - c) = x /\ o + (x - c) \in o .. EndOf(o)
        BY <1>2, <1>3 DEF LengthAt
      <4> QED
        BY <1>2, <3>1, <4>1
    <3>2. ASSUME NEW i \in o .. EndOf(o), y = BlockByte(i)
          PROVE  y \in chars
      <4>1. i - o \in Nat /\ i - o <= LengthAt(o) /\ o + (i - o) = i /\ c + (i - o) \in c .. f
        BY <1>2, <1>3 DEF LengthAt
      <4>2. mem[c + (i - o)] = BlockByte(i)
        BY <1>2, <4>1
      <4> QED
        BY <3>2, <4>1, <4>2
    <3> QED
      BY <3>1, <3>2
  <2>2. \A y : y \in chars <=> y = 0 \/ y \in CharsAt(o)
    <3>1. \A i \in o .. EndOf(o) : i = EndOf(o) \/ i \in o .. EndOf(o) - 1
      BY <1>3
    <3>2. EndOf(o) \in o .. EndOf(o) /\ \A i \in o .. EndOf(o) - 1 : i \in o .. EndOf(o)
      BY <1>3
    <3> HIDE DEF chars
    <3> QED
      BY <1>3, <2>1, <3>1, <3>2 DEF CharsAt
  <2> HIDE DEF chars
  <2> SUFFICES ASSUME NEW k \in 0 .. EndOf(0)
               PROVE  mem[a + k] \in chars <=> k = EndOf(0) \/ BlockByte(k) \in CharsAt(o)
    OBVIOUS
  <2>3. mem[a + k] = BlockByte(k) /\ (BlockByte(k) = 0 <=> k = EndOf(0))
    BY <1>2, <1>3 DEF LengthAt
  <2> QED
    BY <2>2, <2>3
<1> HIDE DEF chars
<1>7. answer = r - a /\ answer \in 0 .. EndOf(0) /\ a + answer = r
  <2>1. strcspn(mem, a, c) = r - a
    BY <1>2, <1>5
  <2> QED
    BY <1>1, <1>2, <1>3, <1>5, <2>1
<1> HIDE DEF r
<1>8. answer \in T
  BY <1>5, <1>6, <1>7
<1>9. \A k \in T : answer <= k
  <2> SUFFICES ASSUME NEW k \in T, k < answer PROVE FALSE
    BY <1>3, <1>7
  <2>1. a + k \in a .. r - 1
    BY <1>2, <1>3, <1>7
  <2> QED
    BY <1>5, <1>6, <2>1
<1>10. T \subseteq Int
  BY <1>3
<1>11. Min(T) = answer
  BY <1>8, <1>9, <1>10, MinIs
<1> QED
  BY <1>11

\* A pattern's places in the moved block, as offsets.
LEMMA FoundOffset ==
  ASSUME NEW d \in Nat, NEW o \in Nat, NEW len \in Nat, NEW z \in Nat, NEW l \in Nat, z <= l, o + len <= l,
         \A k \in 0 .. l - 1 : mem[d + k] = BlockByte(k), NEW k \in Nat
  PROVE  FoundAt(mem, d + k, d + z, d + o, d + o + len) <=> k + len <= z /\ OccursAt(k, o, len)
<1>1. (d + o + len) - (d + o) = len
  OBVIOUS
<1>2. d + k + len <= d + z <=> k + len <= z
  OBVIOUS
<1>3. ASSUME k + len <= z
      PROVE  IsCopy(mem, d + k, d + o, d + o + len) <=> OccursAt(k, o, len)
  <2>1. ASSUME NEW i \in 0 .. len - 1
        PROVE  mem[d + k + i] = BlockByte(k + i) /\ mem[d + o + i] = BlockByte(o + i)
    <3>1. /\ k + i \in 0 .. l - 1 /\ d + (k + i) = d + k + i
          /\ o + i \in 0 .. l - 1 /\ d + (o + i) = d + o + i
      BY <1>3
    <3> QED
      BY <3>1
  <2> QED
    BY <1>1, <2>1 DEF IsCopy, OccursAt
<1> QED
  BY <1>1, <1>2, <1>3 DEF FoundAt

\* The offsets where the len bytes at o are found among the first z.
Places(z, o, len) == {k \in 0 .. z - len : OccursAt(k, o, len)}

LEMMA FirstFoundOffset ==
  ASSUME NEW o \in Nat, NEW len \in Nat, NEW z \in Nat, NEW l \in Nat, z <= l, o + len <= l,
         NEW d \in Nat, d = asked.dst,
         \A k \in 0 .. l - 1 : mem[d + k] = BlockByte(k),
         FirstFound(mem, d, d + z, d + o, d + o + len, answer)
  PROVE  Offset = LeastOf(Places(z, o, len))
<1> DEFINE T == Places(z, o, len)
           Found(p) == FoundAt(mem, p, d + z, d + o, d + o + len)
<1>1. \A k \in Nat : Found(d + k) <=> k \in T
  <2> SUFFICES ASSUME NEW k \in Nat PROVE Found(d + k) <=> k \in T
    OBVIOUS
  <2>1. Found(d + k) <=> k + len <= z /\ OccursAt(k, o, len)
    BY FoundOffset
  <2>2. k + len <= z <=> k \in 0 .. z - len
    OBVIOUS
  <2> QED
    BY <2>1, <2>2 DEF Places
<1>2. \/ answer = NULL /\ \A p \in Nat : d <= p => ~Found(p)
      \/ /\ answer \in Nat /\ d <= answer /\ Found(answer)
         /\ \A p \in d .. answer - 1 : ~Found(p)
  BY DEF FirstFound
<1>3. T \subseteq Nat /\ T \subseteq Int
  BY DEF Places
<1> HIDE DEF T, Found
<1>4. CASE answer = NULL /\ \A p \in Nat : d <= p => ~Found(p)
  <2>1. ASSUME NEW k \in T PROVE FALSE
    <3>1. k \in Nat /\ d + k \in Nat /\ d <= d + k
      BY <1>3
    <3> QED
      BY <1>1, <1>4, <2>1, <3>1
  <2>2. T = {}
    BY <2>1
  <2>3. Offset = NULL
    BY <1>4 DEF Offset
  <2>4. LeastOf(T) = NULL
    BY <2>2 DEF LeastOf
  <2> QED
    BY <2>3, <2>4 DEF T
<1>5. CASE /\ answer \in Nat /\ d <= answer /\ Found(answer)
           /\ \A p \in d .. answer - 1 : ~Found(p)
  <2>1. Offset = answer - d
    BY <1>5, OffsetOf
  <2>2. answer - d \in Nat /\ d + (answer - d) = answer
    BY <1>5
  <2>3. answer - d \in T
    BY <1>1, <1>5, <2>2
  <2>4. \A k \in T : answer - d <= k
    <3> SUFFICES ASSUME NEW k \in T, k < answer - d PROVE FALSE
      BY <1>3, <1>5
    <3>1. k \in Nat /\ d + k \in d .. answer - 1
      BY <1>3, <1>5
    <3> QED
      BY <1>1, <1>5, <3>1
  <2>5. LeastOf(T) = answer - d
    BY <1>3, <2>3, <2>4, LeastOfIs
  <2> QED
    BY <2>1, <2>5 DEF T
<1> QED
  BY <1>2, <1>4, <1>5

LEMMA MemmemRight ==
  ASSUME LibInv, Answered({"memmem"}), question.len > 0
  PROVE  Offset = LeastOf({k \in 0 .. question.n - question.len :
                             OccursAt(k, question.other, question.len)})
<1> DEFINE n == question.n
           o == question.other
           len == question.len
           d == asked.dst
           l == asked.length
<1>1. /\ pc = "done" /\ d \in Nat /\ answer = memmem(mem, d, n, d + o, len)
      /\ n \in 0 .. l /\ o \in Nat /\ len \in Nat /\ o + len <= l
  BY AnsweredFacts DEF Answer, KeepsContract
<1>2. l \in Nat /\ d + l <= MemSize /\ mem \in Memory
      /\ \A k \in 0 .. l - 1 : mem[d + k] = BlockByte(k)
  BY <1>1, BlockMoved
<1> HIDE DEF n, o, len, d, l
<1>3. n \in Nat /\ d + n <= MemSize /\ d + o \in Nat /\ d + o + len <= MemSize /\ n <= l
      /\ len \in Nat \ {0}
  BY <1>1, <1>2, MemoryAssumption DEF len
<1>4. FirstFound(mem, d, d + n, d + o, d + o + len, answer)
  BY <1>1, <1>2, <1>3, MemmemIs
<1>5. Offset = LeastOf(Places(n, o, len))
  BY <1>1, <1>2, <1>3, <1>4, FirstFoundOffset DEF d
<1> QED
  BY <1>5 DEF n, len, o, Places

\* A string without its first character ends where it does.
LEMMA TextBehind ==
  ASSUME NEW c \in Call, NEW k, TextIn(c, k), EndIn(c, k) # k
  PROVE  TextIn(c, k + 1) /\ EndIn(c, k + 1) = EndIn(c, k)
<1> DEFINE T == {e \in k + 1 .. c.length - 1 : ByteIn(c, e) = 0}
           z == EndIn(c, k)
<1>1. /\ k \in Nat /\ z \in k .. c.length - 1 /\ ByteIn(c, z) = 0 /\ c.length \in Nat
      /\ \A i \in k .. z - 1 : ByteIn(c, i) # 0
  BY TextFacts, CallFacts
<1> HIDE DEF z
<1>2. z \in k + 1 .. c.length - 1 /\ z # k
  BY <1>1 DEF z
<1>3. z \in T /\ T \subseteq Int
  BY <1>1, <1>2
<1>4. \A y \in T : z <= y
  <2> SUFFICES ASSUME NEW y \in T, y < z PROVE FALSE
    BY <1>1
  <2>1. y \in k .. z - 1 /\ ByteIn(c, y) = 0
    BY <1>1
  <2> QED
    BY <1>1, <2>1
<1>5. Min(T) = z
  BY <1>3, <1>4, MinIs
<1>6. EndIn(c, k + 1) = z
  BY <1>5 DEF EndIn
<1>7. TextIn(c, k + 1)
  BY <1>1, <1>3 DEF TextIn
<1> QED
  BY <1>6, <1>7 DEF z

LEMMA StrnstrRight ==
  ASSUME LibInv, Answered({"strnstr"}), LengthAt(question.other) > 0 => Measured(question.other + 1)
  PROVE  LET len == LengthAt(question.other)
             end == Min({question.n, LengthAt(0)})
         IN  Offset = IF len = 0 THEN 0
                      ELSE LeastOf({k \in 0 .. end - len : OccursAt(k, question.other, len)})
<1> DEFINE n == question.n
           o == question.other
           len == LengthAt(o)
           z == Min({n, LengthAt(0)})
           d == asked.dst
           e == d + EndOf(0)
           find == d + o
           f == d + EndOf(o)
<1>1. /\ pc = "done" /\ d \in Nat /\ answer = strnstr(mem, d, find, n) /\ n \in Nat
      /\ TextIn(asked, 0) /\ TextIn(asked, o)
  BY AnsweredFacts DEF Answer, KeepsContract
<1>2. /\ EndsAt(mem, d, e) /\ EndsAt(mem, find, f) /\ mem \in Memory
      /\ LengthAt(0) \in Nat /\ len \in Nat
  BY <1>1, TwoTexts
<1>3. /\ EndOf(0) \in 0 .. asked.length - 1 /\ o \in Nat /\ EndOf(o) \in o .. asked.length - 1
      /\ asked.length \in Nat /\ LengthAt(0) = EndOf(0) /\ len = EndOf(o) - o
      /\ \A k \in 0 .. asked.length - 1 : mem[d + k] = BlockByte(k)
      /\ BlockByte(EndOf(o)) = 0
  <2>1. /\ EndOf(0) \in 0 .. asked.length - 1 /\ o \in Nat /\ EndOf(o) \in o .. asked.length - 1
        /\ BlockByte(EndOf(o)) = 0
    BY <1>1, MovedText
  <2>2. /\ asked.length \in Nat
        /\ \A k \in 0 .. asked.length - 1 : mem[d + k] = BlockByte(k)
    BY <1>1, BlockMoved
  <2>3. LengthAt(0) = EndOf(0)
    BY <2>1, <2>2 DEF LengthAt
  <2> QED
    BY <2>1, <2>2, <2>3 DEF LengthAt
<1>4. z = IF n < LengthAt(0) THEN n ELSE LengthAt(0)
  <2> DEFINE x == IF n < LengthAt(0) THEN n ELSE LengthAt(0)
  <2>1. x \in {n, LengthAt(0)} /\ (\A y \in {n, LengthAt(0)} : x <= y) /\ {n, LengthAt(0)} \subseteq Int
    BY <1>1, <1>2
  <2> QED
    BY <2>1, MinIs
<1> HIDE DEF z
<1>5. CASE len = 0
  <2>1. f = find /\ find \in Nat /\ mem[f] = 0
    BY <1>1, <1>2, <1>3, <1>5 DEF EndsAt
  <2>2. answer = d
    BY <1>1, <2>1 DEF strnstr
  <2>3. Offset = d - d
    BY <1>1, <2>2, OffsetOf
  <2>4. d - d = 0
    BY <1>1
  <2> QED
    BY <1>5, <2>3, <2>4
<1>6. CASE len # 0
  <2>1. asked \in Call
    BY DEF LibInv, IInv
  <2>2. TextIn(asked, o + 1) /\ EndOf(o + 1) = EndOf(o)
    <3>1. EndIn(asked, o) # o
      BY <1>3, <1>6 DEF EndOf
    <3> QED
      BY <1>1, <2>1, <3>1, TextBehind DEF EndOf
  <2>3. Measured(o + 1)
    BY <1>2, <1>6
  <2>4. Seen(d + (o + 1), f)
    BY <1>1, <2>2, <2>3, MovedText
  <2>5. d + (o + 1) = find + 1 /\ find # f /\ d + z \in Nat /\ find + len = f
        /\ d + z = IF d + n < e THEN d + n ELSE e
    BY <1>1, <1>2, <1>3, <1>4, <1>6
  <2>6. FirstFound(mem, d, d + z, find, f, answer)
    <3> HIDE DEF e, f, find, len, n, d
    <3> QED
      BY <1>1, <1>2, <2>4, <2>5, StrnstrIs
  <2>7. z \in Nat /\ z <= asked.length /\ o + len <= asked.length
    BY <1>1, <1>2, <1>3, <1>4
  <2>8. FirstFound(mem, d, d + z, d + o, d + o + len, answer)
    BY <2>5, <2>6
  <2>9. Offset = LeastOf(Places(z, o, len))
    <3> DEFINE l == asked.length
    <3>1. l \in Nat /\ (\A k \in 0 .. l - 1 : mem[d + k] = BlockByte(k)) /\ d = asked.dst
          /\ z <= l /\ o + len <= l /\ d \in Nat /\ o \in Nat /\ len \in Nat /\ z \in Nat
          /\ FirstFound(mem, d, d + z, d + o, d + o + len, answer)
      BY <1>1, <1>2, <1>3, <2>7, <2>8
    <3> HIDE DEF len, n, o, d, l
    <3> QED
      BY <3>1, FirstFoundOffset
  <2> QED
    BY <1>6, <2>9 DEF z, Places
<1> QED
  BY <1>5, <1>6 DEF z

\* The comparisons answer by the first difference; the searches for a text, or for one
\* of several characters, find the first place.
THEOREM Finding == LibSpec => []TextsFound
<1>1. LibInv => TextsFound
  BY StrncmpRight, StrcmpRight, StrcspnRight, StrnstrRight, MemmemRight DEF TextsFound
<1> QED
  BY LibInitially, LibInductive, <1>1, PTL DEF LibSpec

(***************************************************************************)
(* The writing functions.                                                  *)
(***************************************************************************)

\* r is memory m with the n bytes from s on at d too.
HasCopy(r, m, d, s, n) ==
  r = [a \in Address |-> IF a \in d .. d + n - 1 THEN m[s + (a - d)] ELSE m[a]]

LEMMA MemcpyIs ==
  ASSUME NEW m \in Memory, NEW d \in Nat, NEW s \in Nat, NEW n \in Nat, s + n <= MemSize
  PROVE  HasCopy(memcpy(m, d, s, n), m, d, s, n)
<1> DEFINE w == [k \in Nat |-> IF s + k \in DOMAIN m THEN m[s + k] ELSE m[d + k]]
<1>1. DOMAIN m = Address
  BY DEF Memory
<1>2. memcpy(m, d, s, n) = [a \in Address |-> IF a \in d .. d + n - 1 THEN w[a - d] ELSE m[a]]
  BY <1>1 DEF memcpy, With
<1>3. ASSUME NEW a \in Address, a \in d .. d + n - 1
      PROVE  w[a - d] = m[s + (a - d)]
  <2>1. a - d \in Nat /\ s + (a - d) \in Address
    BY <1>3, MemoryAssumption DEF Address
  <2> QED
    BY <1>1, <2>1
<1> HIDE DEF w
<1> QED
  BY <1>2, <1>3 DEF HasCopy

\* The bytes that memset sets one by one and by words are all n.
LEMMA AllAreSet ==
  ASSUME NEW dest \in Nat, NEW n \in Nat
  PROVE  Ends(n) \cup Middle(dest, n) = 0 .. n - 1
<1> DEFINE k == (-dest) % 4
           r == (n - k) % 4
<1>1. k \in 0 .. 3 /\ r \in 0 .. 3
  OBVIOUS
<1>2. Middle(dest, n) = IF n <= 8 THEN {} ELSE k .. k + (n - k) - r - 1
  BY DEF Middle
<1> HIDE DEF k, r
<1>3. ASSUME NEW x PROVE x \in Ends(n) => x \in 0 .. n - 1
  BY <1>3 DEF Ends
<1>4. ASSUME NEW x PROVE x \in Middle(dest, n) => x \in 0 .. n - 1
  BY <1>1, <1>2
<1>5. ASSUME NEW x \in 0 .. n - 1 PROVE x \in Ends(n) \/ x \in Middle(dest, n)
  <2>1. CASE n <= 8
    <3>1. n = 0 \/ n = 1 \/ n = 2 \/ n = 3 \/ n = 4 \/ n = 5 \/ n = 6 \/ n = 7 \/ n = 8
      BY <2>1
    <3> QED
      BY <3>1 DEF Ends
  <2>2. CASE n > 8
    <3>1. x <= 3 => x = 0 \/ x = 1 \/ x = 2 \/ x = 3
      OBVIOUS
    <3>2. x >= n - 4 => x = n - 1 \/ x = n - 2 \/ x = n - 3 \/ x = n - 4
      OBVIOUS
    <3>3. x <= 3 \/ x >= n - 4 => x \in Ends(n)
      BY <2>2, <3>1, <3>2 DEF Ends
    <3>4. x > 3 /\ x < n - 4 => x \in Middle(dest, n)
      BY <1>1, <1>2, <2>2
    <3> QED
      BY <3>3, <3>4
  <2> QED
    BY <2>1, <2>2
<1> QED
  BY <1>3, <1>4, <1>5

LEMMA MemsetIs ==
  ASSUME NEW m \in Memory, NEW d \in Nat, NEW c \in Byte, NEW n \in Nat
  PROVE  memset(m, d, c, n) = [a \in Address |-> IF a \in d .. d + n - 1 THEN c ELSE m[a]]
<1>1. DOMAIN m = Address
  BY DEF Memory
<1>2. c \in 0 .. 127
  BY ByteAssumption
<1>3. c % 256 = c
  BY <1>2
<1>4. memset(m, d, c, n) = [a \in Address |-> IF a - d \in 0 .. n - 1 THEN c ELSE m[a]]
  BY <1>1, <1>3, AllAreSet DEF memset
<1>5. \A a \in Address : a - d \in 0 .. n - 1 <=> a \in d .. d + n - 1
  BY MemoryAssumption DEF Address
<1> QED
  BY <1>4, <1>5

\* What the memory holds once bytes are written at offset o of the block.
Leaves(o, bytes) ==
  [a \in Address |-> IF a - (asked.dst + o) + 1 \in DOMAIN bytes
                     THEN bytes[a - (asked.dst + o) + 1] ELSE mem[a]]

\* m is mem with bytes at the addresses from f on.
WrittenAt(m, f, n, bytes) ==
  /\ DOMAIN bytes = 1 .. n
  /\ m = [a \in Address |-> IF a \in f .. f + n - 1 THEN m[a] ELSE mem[a]]
  /\ \A k \in 0 .. n - 1 : f + k \in Address => m[f + k] = bytes[k + 1]

LEMMA LeavesBy ==
  ASSUME NEW o \in Nat, NEW n \in Nat, NEW bytes, NEW d \in Nat, d = asked.dst,
         NEW m, WrittenAt(m, d + o, n, bytes)
  PROVE  m = Leaves(o, bytes)
<1> DEFINE f == d + o
<1>1. f \in Nat
  OBVIOUS
<1>2. /\ DOMAIN bytes = 1 .. n
      /\ m = [a \in Address |-> IF a \in f .. f + n - 1 THEN m[a] ELSE mem[a]]
      /\ \A k \in 0 .. n - 1 : f + k \in Address => m[f + k] = bytes[k + 1]
  BY DEF WrittenAt
<1> HIDE DEF f
<1>3. ASSUME NEW a \in Address
      PROVE  m[a] = IF a - f + 1 \in DOMAIN bytes THEN bytes[a - f + 1] ELSE mem[a]
  <2>1. a \in Int
    BY MemoryAssumption DEF Address
  <2>2. a - f + 1 \in 1 .. n <=> a \in f .. f + n - 1
    BY <1>1, <2>1
  <2>3. CASE a \in f .. f + n - 1
    <3>1. a - f \in 0 .. n - 1 /\ f + (a - f) = a
      BY <1>1, <2>1, <2>3
    <3>2. m[a] = bytes[(a - f) + 1]
      BY <1>2, <3>1
    <3> QED
      BY <1>2, <2>2, <2>3, <3>2
  <2>4. CASE a \notin f .. f + n - 1
    <3>1. m[a] = mem[a]
      BY <1>2, <2>4
    <3> QED
      BY <1>2, <2>2, <2>4, <3>1
  <2> QED
    BY <2>3, <2>4
<1> QED
  BY <1>2, <1>3 DEF Leaves, f

\* The first n bytes of a string of the block.
LEMMA TextBytes ==
  ASSUME LibInv, pc = "done", NEW o, TextIn(asked, o)
  PROVE  /\ LengthAt(o) \in Nat /\ o \in Nat /\ o + LengthAt(o) < asked.length
         /\ Text(o) \in Seq(Int) /\ Len(Text(o)) = LengthAt(o) /\ DOMAIN Text(o) = 1 .. LengthAt(o)
         /\ \A i \in 1 .. LengthAt(o) : Text(o)[i] = BlockByte(o + (i - 1))
         /\ \A k \in 0 .. LengthAt(o) : mem[asked.dst + o + k] = BlockByte(o + k) /\ BlockByte(o + k) \in 0 .. 127
         /\ BlockByte(o + LengthAt(o)) = 0
<1> DEFINE n == LengthAt(o)
<1>1. /\ o \in Nat /\ EndOf(o) \in o .. asked.length - 1 /\ BlockByte(EndOf(o)) = 0
  BY MovedText
<1>2. /\ asked.dst \in Nat /\ asked.length \in Nat /\ mem \in Memory
      /\ \A k \in 0 .. asked.length - 1 : asked.dst + k \in Address /\ mem[asked.dst + k] = BlockByte(k)
  BY BlockMoved
<1>3. n \in Nat /\ o + n = EndOf(o) /\ o + n < asked.length
  BY <1>1, <1>2 DEF LengthAt
<1> HIDE DEF n
<1>4. ASSUME NEW k \in 0 .. n
      PROVE  mem[asked.dst + o + k] = BlockByte(o + k) /\ BlockByte(o + k) \in 0 .. 127
  <2>1. o + k \in 0 .. asked.length - 1 /\ asked.dst + (o + k) = asked.dst + o + k
    BY <1>1, <1>2, <1>3
  <2>2. mem[asked.dst + (o + k)] = BlockByte(o + k) /\ asked.dst + (o + k) \in Address
    BY <1>2, <2>1
  <2> QED
    BY <1>2, <2>1, <2>2, BytesAreNumbers
<1>5. Text(o) = [i \in 1 .. n |-> BlockByte(o + i - 1)]
  BY DEF Text, n
<1>6. ASSUME NEW i \in 1 .. n
      PROVE  BlockByte(o + i - 1) = BlockByte(o + (i - 1)) /\ BlockByte(o + (i - 1)) \in Int
  <2>1. i - 1 \in 0 .. n /\ o + i - 1 = o + (i - 1)
    BY <1>1, <1>3
  <2> QED
    BY <1>4, <2>1
<1>7. Text(o) \in Seq(Int) /\ Len(Text(o)) = n /\ DOMAIN Text(o) = 1 .. n
  BY <1>3, <1>5, <1>6
<1>8. \A i \in 1 .. n : Text(o)[i] = BlockByte(o + (i - 1))
  BY <1>5, <1>6
<1>9. \A k \in 0 .. n : mem[asked.dst + o + k] = BlockByte(o + k) /\ BlockByte(o + k) \in 0 .. 127
  BY <1>4
<1> QED
  BY <1>1, <1>3, <1>7, <1>8, <1>9 DEF n

LEMMA MemsetRight ==
  ASSUME LibInv, Answered({"memset"})
  PROVE  answer = Leaves(question.from, [k \in 1 .. question.n |-> question.c])
<1> DEFINE d == asked.dst
           o == question.from
           n == question.n
           f == d + o
           c == question.c
           bytes == [k \in 1 .. n |-> c]
<1>1. d \in Nat /\ o \in Nat /\ n \in Nat /\ c \in Byte /\ answer = memset(mem, f, c, n) /\ mem \in Memory
  BY AnsweredFacts, BlockMoved DEF Answer, KeepsContract, RoomIn
<1>2. f \in Nat /\ f = asked.dst + o /\ asked.dst \in Nat
  BY <1>1
<1> HIDE DEF f, o, n, c
<1>3. answer = [a \in Address |-> IF a \in f .. f + n - 1 THEN c ELSE mem[a]]
  BY <1>1, <1>2, MemsetIs
<1>4. answer = [a \in Address |-> IF a \in f .. f + n - 1 THEN answer[a] ELSE mem[a]]
  BY <1>3
<1>5. \A k \in 0 .. n - 1 : f + k \in Address => answer[f + k] = bytes[k + 1]
  BY <1>1, <1>2, <1>3, SMTT(30)
<1>6. DOMAIN bytes = 1 .. n
  OBVIOUS
<1> HIDE DEF bytes
<1>7. WrittenAt(answer, f, n, bytes)
  BY <1>4, <1>5, <1>6 DEF WrittenAt
<1>8. answer = Leaves(o, bytes)
  BY <1>1, <1>7, LeavesBy DEF f
<1> QED
  BY <1>8 DEF bytes, o, n, c

\* memcpy of the beginning of a string of the block, with or without its terminator.
LEMMA CopyWrites ==
  ASSUME LibInv, pc = "done", NEW o, TextIn(asked, o), NEW n \in 0 .. LengthAt(o) + 1,
         NEW f \in Nat, NEW s, s = asked.dst + o,
         NEW bytes, DOMAIN bytes = 1 .. n, \A k \in 0 .. n - 1 : bytes[k + 1] = BlockByte(o + k)
  PROVE  /\ WrittenAt(memcpy(mem, f, s, n), f, n, bytes)
         /\ memcpy(mem, f, s, n) \in Memory
<1> DEFINE r == memcpy(mem, f, s, n)
<1>1. /\ o \in Nat /\ LengthAt(o) \in Nat /\ o + LengthAt(o) < asked.length
      /\ \A k \in 0 .. LengthAt(o) : mem[asked.dst + o + k] = BlockByte(o + k)
  BY TextBytes
<1>2. asked.dst \in Nat /\ asked.length \in Nat /\ asked.dst + asked.length <= MemSize /\ mem \in Memory
  BY BlockMoved
<1>3. n \in Nat /\ s \in Nat /\ s + n <= MemSize
  BY <1>1, <1>2, MemoryAssumption, SMTT(30)
<1>4. r = [a \in Address |-> IF a \in f .. f + n - 1 THEN mem[s + (a - f)] ELSE mem[a]]
  <2>1. HasCopy(r, mem, f, s, n)
    BY <1>2, <1>3, MemcpyIs
  <2> QED
    BY <2>1 DEF HasCopy
<1> HIDE DEF r
<1>5. ASSUME NEW k \in 0 .. n - 1, f + k \in Address
      PROVE  r[f + k] = bytes[k + 1]
  <2>1. f + k \in f .. f + n - 1 /\ (f + k) - f = k /\ k \in 0 .. LengthAt(o)
    BY <1>1, <1>3
  <2>2. r[f + k] = mem[s + k]
    BY <1>4, <1>5, <2>1
  <2> QED
    BY <1>1, <2>1, <2>2
<1>6. r = [a \in Address |-> IF a \in f .. f + n - 1 THEN r[a] ELSE mem[a]]
  BY <1>4
<1>7. \A k \in 0 .. n - 1 : f + k \in Address => r[f + k] = bytes[k + 1]
  BY <1>5
<1>8. WrittenAt(r, f, n, bytes)
  BY <1>6, <1>7 DEF WrittenAt
<1>9. r \in Memory
  <2>1. ASSUME NEW a \in Address
        PROVE  (IF a \in f .. f + n - 1 THEN mem[s + (a - f)] ELSE mem[a]) \in Byte
    <3>1. CASE a \in f .. f + n - 1
      <4>1. s + (a - f) \in Address
        BY <1>3, <3>1, MemoryAssumption DEF Address
      <4> QED
        BY <1>2, <3>1, <4>1 DEF Memory
    <3>2. CASE a \notin f .. f + n - 1
      BY <1>2, <3>2 DEF Memory
    <3> QED
      BY <3>1, <3>2
  <2> QED
    BY <1>4, <2>1 DEF Memory
<1> QED
  BY <1>8, <1>9 DEF r

\* The first n characters of a string of the block, and a zero.
LEMMA Terminated ==
  ASSUME LibInv, pc = "done", NEW o, TextIn(asked, o), NEW n \in 0 .. LengthAt(o),
         NEW bytes, bytes = SubSeq(Text(o), 1, n) \o << 0 >>
  PROVE  /\ DOMAIN bytes = 1 .. n + 1 /\ bytes[n + 1] = 0
         /\ \A k \in 0 .. n - 1 : bytes[k + 1] = BlockByte(o + k)
<1> DEFINE x == Text(o)
           y == SubSeq(x, 1, n)
<1>1. /\ LengthAt(o) \in Nat /\ x \in Seq(Int) /\ Len(x) = LengthAt(o)
      /\ \A i \in 1 .. LengthAt(o) : x[i] = BlockByte(o + (i - 1))
  BY TextBytes
<1>2. y \in Seq(Int) /\ Len(y) = n /\ \A i \in 1 .. n : y[i] = x[i]
  BY <1>1
<1> HIDE DEF x, y
<1>3. << 0 >> \in Seq(Int) /\ Len(<< 0 >>) = 1 /\ << 0 >>[1] = 0
  OBVIOUS
<1>4. DOMAIN bytes = 1 .. n + 1 /\ bytes[n + 1] = 0 /\ \A i \in 1 .. n : bytes[i] = y[i]
  BY <1>2, <1>3 DEF x, y
<1>5. ASSUME NEW k \in 0 .. n - 1
      PROVE  bytes[k + 1] = BlockByte(o + k)
  <2>1. k + 1 \in 1 .. n /\ k + 1 \in 1 .. LengthAt(o) /\ (k + 1) - 1 = k
    BY <1>1
  <2> QED
    BY <1>1, <1>2, <1>4, <2>1
<1> QED
  BY <1>4, <1>5

\* The whole string with its terminator.
LEMMA WholeText ==
  ASSUME LibInv, pc = "done", NEW o, TextIn(asked, o), NEW bytes, bytes = Text(o) \o << 0 >>
  PROVE  /\ DOMAIN bytes = 1 .. LengthAt(o) + 1
         /\ \A k \in 0 .. LengthAt(o) : bytes[k + 1] = BlockByte(o + k)
<1> DEFINE n == LengthAt(o)
           x == Text(o)
<1>1. /\ n \in Nat /\ x \in Seq(Int) /\ Len(x) = n /\ BlockByte(o + n) = 0
  BY TextBytes
<1>2. SubSeq(x, 1, n) = x
  BY <1>1, SubSeqFull
<1>3. /\ DOMAIN bytes = 1 .. n + 1 /\ bytes[n + 1] = 0
      /\ \A k \in 0 .. n - 1 : bytes[k + 1] = BlockByte(o + k)
  <2>1. n \in 0 .. LengthAt(o)
    BY <1>1
  <2>2. bytes = SubSeq(Text(o), 1, n) \o << 0 >>
    BY <1>2
  <2> QED
    BY <2>1, <2>2, Terminated
<1>4. ASSUME NEW k \in 0 .. n
      PROVE  bytes[k + 1] = BlockByte(o + k)
  <2>1. k = n \/ k \in 0 .. n - 1
    BY <1>1
  <2> QED
    BY <1>1, <1>3, <2>1
<1> QED
  BY <1>3, <1>4

\* strcpy and strcat: strlen measures the source.
LEMMA StrlenOf ==
  ASSUME LibInv, pc = "done", NEW o, TextIn(asked, o), Measured(o)
  PROVE  strlen(mem, asked.dst + o) = LengthAt(o)
<1>1. /\ o \in Nat /\ EndOf(o) \in o .. asked.length - 1 /\ asked.dst \in Nat /\ asked.length \in Nat
      /\ EndsAt(mem, asked.dst + o, asked.dst + EndOf(o)) /\ Seen(asked.dst + o, asked.dst + EndOf(o))
  BY MovedText, BlockMoved
<1>2. strlen(mem, asked.dst + o) = (asked.dst + EndOf(o)) - (asked.dst + o)
  BY <1>1, StrlenIs
<1>3. (asked.dst + EndOf(o)) - (asked.dst + o) = EndOf(o) - o
  BY <1>1
<1> QED
  BY <1>2, <1>3 DEF LengthAt

LEMMA StrcpyRight ==
  ASSUME LibInv, Answered({"strcpy"}), Measured(question.other)
  PROVE  answer = Leaves(0, Text(question.other) \o << 0 >>)
<1> DEFINE d == asked.dst
           o == question.other
           n == LengthAt(o)
           bytes == Text(o) \o << 0 >>
<1>1. pc = "done" /\ d \in Nat /\ TextIn(asked, o) /\ answer = strcpy(mem, d, d + o)
  BY AnsweredFacts DEF Answer, KeepsContract
<1>2. n \in Nat /\ DOMAIN bytes = 1 .. n + 1 /\ \A k \in 0 .. n : bytes[k + 1] = BlockByte(o + k)
  BY <1>1, WholeText, TextBytes
<1>3. answer = memcpy(mem, d, d + o, n + 1)
  BY <1>1, StrlenOf DEF strcpy
<1> HIDE DEF n, bytes, d
<1>4. WrittenAt(answer, d, n + 1, bytes)
  <2>1. n + 1 \in 0 .. n + 1 /\ (n + 1) - 1 = n
    BY <1>2
  <2> QED
    BY <1>1, <1>2, <1>3, <2>1, CopyWrites DEF n, d
<1>5. WrittenAt(answer, d + 0, n + 1, bytes) /\ n + 1 \in Nat
  BY <1>1, <1>2, <1>4
<1>6. answer = Leaves(0, bytes)
  BY <1>1, <1>5, LeavesBy DEF d
<1> QED
  BY <1>6 DEF bytes

LEMMA StrcatRight ==
  ASSUME LibInv, Answered({"strcat"}), Measured(0), Measured(question.other)
  PROVE  answer = Leaves(LengthAt(0), Text(question.other) \o << 0 >>)
<1> DEFINE d == asked.dst
           o == question.other
           n == LengthAt(o)
           z == LengthAt(0)
           bytes == Text(o) \o << 0 >>
<1>1. /\ pc = "done" /\ d \in Nat /\ TextIn(asked, o) /\ TextIn(asked, 0)
      /\ answer = strcat(mem, d, d + o)
  BY AnsweredFacts DEF Answer, KeepsContract
<1>2. /\ n \in Nat /\ DOMAIN bytes = 1 .. n + 1 /\ \A k \in 0 .. n : bytes[k + 1] = BlockByte(o + k)
      /\ z \in Nat
  BY <1>1, WholeText, TextBytes
<1>3. answer = memcpy(mem, d + z, d + o, n + 1)
  <2>1. d + 0 = d
    BY <1>1
  <2>2. strlen(mem, d) = z
    BY <1>1, <2>1, StrlenOf
  <2> QED
    BY <1>1, <2>2, StrlenOf DEF strcat
<1> HIDE DEF n, bytes, d, z
<1>4. WrittenAt(answer, d + z, n + 1, bytes)
  <2>1. n + 1 \in 0 .. n + 1 /\ (n + 1) - 1 = n /\ d + z \in Nat
    BY <1>1, <1>2
  <2> QED
    BY <1>1, <1>2, <1>3, <2>1, CopyWrites DEF n, d
<1>5. answer = Leaves(z, bytes)
  BY <1>1, <1>2, <1>4, LeavesBy DEF d
<1> QED
  BY <1>5 DEF bytes, z

\* strnlen of a string of the block.
LEMMA StrnlenOf ==
  ASSUME LibInv, pc = "done", NEW o, TextIn(asked, o), NEW n \in Nat
  PROVE  strnlen(mem, asked.dst + o, n) = IF n < LengthAt(o) THEN n ELSE LengthAt(o)
<1> DEFINE a == asked.dst + o
           l == IF n < LengthAt(o) THEN n ELSE LengthAt(o)
<1>1. /\ LengthAt(o) \in Nat /\ o \in Nat /\ o + LengthAt(o) < asked.length
      /\ \A k \in 0 .. LengthAt(o) : mem[asked.dst + o + k] = BlockByte(o + k)
      /\ BlockByte(o + LengthAt(o)) = 0
  BY TextBytes
<1>2. asked.dst \in Nat /\ asked.length \in Nat /\ asked.dst + asked.length <= MemSize
  BY BlockMoved
<1>3. EndOf(o) \in o .. asked.length - 1 /\ \A i \in o .. EndOf(o) - 1 : BlockByte(i) # 0
  BY MovedText
<1>4. l \in 0 .. n /\ l <= LengthAt(o) /\ a \in Nat /\ a + l <= MemSize /\ (l = n \/ l = LengthAt(o))
  BY <1>1, <1>2, MemoryAssumption
<1> HIDE DEF l
<1>5. l = n \/ mem[a + l] = 0
  <2>1. LengthAt(o) \in 0 .. LengthAt(o)
    BY <1>1
  <2> QED
    BY <1>1, <1>4, <2>1
<1>6. \A k \in 0 .. l - 1 : mem[a + k] # 0
  <2> SUFFICES ASSUME NEW k \in 0 .. l - 1 PROVE mem[a + k] # 0
    OBVIOUS
  <2>1. k \in 0 .. LengthAt(o) /\ o + k \in o .. EndOf(o) - 1
    BY <1>1, <1>3, <1>4 DEF LengthAt
  <2> QED
    BY <1>1, <1>3, <2>1
<1> HIDE DEF a
<1>7. strnlen(mem, a, n) = l
  BY <1>4, <1>5, <1>6, StrnlenIs
<1> QED
  BY <1>7 DEF a, l

\* r is r1 with zeros at the addresses from f to g - 1.
HasZeros(r, r1, f, g) == r = [a \in Address |-> IF a \in f .. g - 1 THEN 0 ELSE r1[a]]

\* Zeros right behind what was written.
LEMMA WrittenBehind ==
  ASSUME NEW f \in Nat, NEW l \in Nat, NEW n \in Nat, l <= n, NEW bytes, DOMAIN bytes = 1 .. n,
         NEW first, NEW r1, WrittenAt(r1, f, l, first), \A k \in 1 .. l : first[k] = bytes[k],
         NEW r, HasZeros(r, r1, f + l, f + n),
         \A k \in l + 1 .. n : bytes[k] = 0
  PROVE  WrittenAt(r, f, n, bytes)
<1>1. /\ r1 = [a \in Address |-> IF a \in f .. f + l - 1 THEN r1[a] ELSE mem[a]]
      /\ \A k \in 0 .. l - 1 : f + k \in Address => r1[f + k] = first[k + 1]
  BY DEF WrittenAt
<1>2. r = [a \in Address |-> IF a \in f + l .. f + n - 1 THEN 0 ELSE r1[a]]
  <2>1. f + n - 1 = (f + n) - 1
    OBVIOUS
  <2> QED
    BY <2>1 DEF HasZeros
<1>3. ASSUME NEW a \in Address
      PROVE  r[a] = IF a \in f .. f + n - 1 THEN r[a] ELSE mem[a]
  <2>1. a \in Int
    BY MemoryAssumption DEF Address
  <2>2. CASE a \notin f .. f + n - 1
    <3>1. a \notin f + l .. f + n - 1 /\ a \notin f .. f + l - 1
      BY <2>1, <2>2
    <3>2. r[a] = r1[a] /\ r1[a] = mem[a]
      BY <1>2, <1>1, <3>1
    <3> QED
      BY <2>2, <3>2
  <2>3. CASE a \in f .. f + n - 1
    BY <2>3
  <2> QED
    BY <2>2, <2>3
<1>4. ASSUME NEW k \in 0 .. n - 1, f + k \in Address
      PROVE  r[f + k] = bytes[k + 1]
  <2>1. CASE k < l
    <3>1. k \in 0 .. l - 1 /\ k + 1 \in 1 .. l /\ f + k \notin f + l .. f + n - 1
      BY <2>1
    <3>2. r[f + k] = r1[f + k] /\ r1[f + k] = first[k + 1]
      BY <1>2, <1>1, <1>4, <3>1
    <3> QED
      BY <3>1, <3>2
  <2>2. CASE k >= l
    <3>1. k + 1 \in l + 1 .. n /\ f + k \in f + l .. f + n - 1
      BY <2>2
    <3> QED
      BY <1>2, <1>4, <3>1
  <2> QED
    BY <2>1, <2>2
<1>5. r = [a \in Address |-> IF a \in f .. f + n - 1 THEN r[a] ELSE mem[a]]
  BY <1>2, <1>3
<1> QED
  BY <1>4, <1>5 DEF WrittenAt

LEMMA StrncpyRight ==
  ASSUME LibInv, Answered({"strncpy"})
  PROVE  LET source == Text(question.other) IN
         answer = Leaves(0, [k \in 1 .. question.n |-> IF k \in DOMAIN source THEN source[k] ELSE 0])
<1> DEFINE d == asked.dst
           o == question.other
           s == d + o
           n == question.n
           z == LengthAt(o)
           source == Text(o)
           bytes == [k \in 1 .. n |-> IF k \in DOMAIN source THEN source[k] ELSE 0]
           l == strnlen(mem, s, n)
           first == [k \in 1 .. l |-> bytes[k]]
           r1 == memcpy(mem, d, s, l)
<1>1. pc = "done" /\ d \in Nat /\ TextIn(asked, o) /\ answer = strncpy(mem, d, s, n) /\ n \in Nat
  BY AnsweredFacts DEF Answer, KeepsContract, RoomIn
<1>2. /\ z \in Nat /\ DOMAIN source = 1 .. z
      /\ \A i \in 1 .. z : source[i] = BlockByte(o + (i - 1))
      /\ BlockByte(o + z) \in 0 .. 127 /\ BlockByte(o + z) = 0
  <2>1. z \in 0 .. z
    BY <1>1, TextBytes
  <2> QED
    BY <1>1, <2>1, TextBytes
<1>3. l = IF n < z THEN n ELSE z
  BY <1>1, StrnlenOf
<1>4. answer = IF l < n THEN memset(r1, d + l, 0, n - l) ELSE memcpy(mem, d, s, n)
  BY <1>1 DEF strncpy
<1> HIDE DEF l, z, source, n
<1>5. /\ l \in Nat /\ l <= n /\ l <= z /\ l \in 0 .. z + 1
      /\ DOMAIN bytes = 1 .. n /\ DOMAIN first = 1 .. l
      /\ \A k \in 1 .. l : first[k] = bytes[k]
  BY <1>1, <1>2, <1>3
<1>6. \A k \in 0 .. l - 1 : first[k + 1] = BlockByte(o + k)
  <2> SUFFICES ASSUME NEW k \in 0 .. l - 1 PROVE first[k + 1] = BlockByte(o + k)
    OBVIOUS
  <2>1. k + 1 \in 1 .. l /\ k + 1 \in 1 .. n /\ k + 1 \in 1 .. z /\ (k + 1) - 1 = k
    BY <1>1, <1>2, <1>5
  <2> QED
    BY <1>2, <2>1
<1>7. WrittenAt(r1, d, l, first) /\ r1 \in Memory
  <2>1. s = asked.dst + o
    OBVIOUS
  <2> HIDE DEF first, s, d
  <2> QED
    BY <1>1, <1>5, <1>6, <2>1, CopyWrites DEF z
<1>8. \A k \in l + 1 .. n : bytes[k] = 0
  <2> SUFFICES ASSUME NEW k \in l + 1 .. n PROVE bytes[k] = 0
    OBVIOUS
  <2>1. k \in 1 .. n /\ k \notin DOMAIN source
    BY <1>1, <1>2, <1>3, <1>5
  <2> QED
    BY <2>1
<1>9. WrittenAt(answer, d, n, bytes)
  <2>1. CASE l < n
    <3>1. 0 \in Byte
      <4>1. asked.mem \in Memory /\ asked.src + (o + z) \in Address
        <5>1. asked \in Call
          BY DEF LibInv, IInv
        <5>2. o \in Nat /\ o + z < asked.length
          BY <1>1, TextBytes DEF z
        <5> QED
          BY <1>2, <5>1, <5>2, CallFacts, MemoryAssumption DEF Address
      <4>2. BlockByte(o + z) \in Byte
        BY <4>1 DEF BlockByte, ByteIn, Memory
      <4> QED
        BY <1>2, <4>2
    <3>2. d + l \in Nat /\ n - l \in Nat
      BY <1>1, <1>5, <2>1
    <3>3. answer = [a \in Address |-> IF a \in d + l .. d + l + (n - l) - 1 THEN 0 ELSE r1[a]]
      <4> HIDE DEF r1, d
      <4> QED
        BY <1>4, <1>7, <2>1, <3>1, <3>2, MemsetIs
    <3>4. d + l + (n - l) - 1 = d + n - 1
      BY <1>1, <1>5
    <3>5. HasZeros(answer, r1, d + l, d + n)
      <4>1. (d + n) - 1 = d + n - 1
        BY <1>1
      <4> QED
        BY <3>3, <3>4, <4>1 DEF HasZeros
    <3> HIDE DEF r1, d, first, bytes
    <3> QED
      BY <1>1, <1>5, <1>7, <1>8, <3>5, WrittenBehind
  <2>2. CASE ~(l < n)
    <3>1. l = n
      BY <1>1, <1>5, <2>2
    <3>2. first = bytes
      BY <1>5, <3>1
    <3> QED
      BY <1>4, <1>7, <2>2, <3>1, <3>2
  <2> QED
    BY <2>1, <2>2
<1> HIDE DEF bytes, d
<1>10. answer = Leaves(0, bytes)
  <2>1. d + 0 = d
    BY <1>1
  <2> QED
    BY <1>1, <1>9, <2>1, LeavesBy DEF d
<1> QED
  BY <1>10 DEF bytes, source, n

LEMMA StrncatRight ==
  ASSUME LibInv, Answered({"strncat"}), Measured(0)
  PROVE  LET source == Text(question.other) IN
         answer = Leaves(LengthAt(0), SubSeq(source, 1, Min({question.n, Len(source)})) \o << 0 >>)
<1> DEFINE d == asked.dst
           o == question.other
           s == d + o
           n == question.n
           z == LengthAt(o)
           e == LengthAt(0)
           f == d + e
           l == strnlen(mem, s, n)
           bytes == SubSeq(Text(o), 1, l) \o << 0 >>
           first == [k \in 1 .. l |-> bytes[k]]
           r1 == memcpy(mem, f, s, l)
<1>1. /\ pc = "done" /\ d \in Nat /\ TextIn(asked, o) /\ TextIn(asked, 0)
      /\ answer = strncat(mem, d, s, n) /\ n \in Nat
  BY AnsweredFacts DEF Answer, KeepsContract
<1>2. z \in Nat /\ e \in Nat /\ Len(Text(o)) = z
  BY <1>1, TextBytes
<1>3. l = IF n < z THEN n ELSE z
  BY <1>1, StrnlenOf
<1>4. strlen(mem, d) = e
  <2>1. d + 0 = d
    BY <1>1
  <2> QED
    BY <1>1, <2>1, StrlenOf
<1>5. answer = With(r1, f + l, 1, [k \in {0} |-> 0])
  BY <1>1, <1>4 DEF strncat
<1> HIDE DEF l, n, e, z, o
<1>6. l = Min({n, Len(Text(o))})
  <2> DEFINE T == {n, Len(Text(o))}
  <2>1. l \in T /\ (\A y \in T : l <= y) /\ T \subseteq Int
    BY <1>1, <1>2, <1>3
  <2> HIDE DEF T
  <2>2. Min(T) = l
    BY <2>1, MinIs
  <2> QED
    BY <2>2 DEF T
<1>7. l \in Nat /\ l \in 0 .. z /\ l \in 0 .. z + 1
  BY <1>1, <1>2, <1>3
<1>8. DOMAIN bytes = 1 .. l + 1 /\ bytes[l + 1] = 0 /\ \A k \in 0 .. l - 1 : bytes[k + 1] = BlockByte(o + k)
  BY <1>1, <1>7, Terminated DEF z
<1> HIDE DEF bytes
<1>9. DOMAIN first = 1 .. l /\ (\A k \in 1 .. l : first[k] = bytes[k])
      /\ \A k \in 0 .. l - 1 : first[k + 1] = BlockByte(o + k)
  <2>1. \A k \in 0 .. l - 1 : k + 1 \in 1 .. l
    BY <1>7
  <2> QED
    BY <1>8, <2>1
<1>10. f \in Nat
  BY <1>1, <1>2
<1> HIDE DEF first, f
<1>11. WrittenAt(r1, f, l, first) /\ r1 \in Memory
  <2>1. s = asked.dst + o
    OBVIOUS
  <2> HIDE DEF s
  <2> QED
    BY <1>1, <1>7, <1>9, <1>10, <2>1, CopyWrites DEF z
<1> HIDE DEF r1
<1>12. HasZeros(answer, r1, f + l, f + (l + 1))
  <2>1. DOMAIN r1 = Address
    BY <1>11 DEF Memory
  <2> DEFINE zero == [k \in {0} |-> 0]
  <2>2. answer = [a \in Address |-> IF a \in f + l .. f + l + 1 - 1 THEN zero[a - (f + l)] ELSE r1[a]]
    BY <1>5, <2>1 DEF With
  <2>3. (f + (l + 1)) - 1 = f + l /\ f + l + 1 - 1 = f + l
    BY <1>7, <1>10
  <2>4. ASSUME NEW a \in Address, a \in f + l .. f + l
        PROVE  zero[a - (f + l)] = 0
    <3>1. a - (f + l) = 0
      BY <1>7, <1>10, <2>4
    <3> QED
      BY <3>1
  <2> HIDE DEF zero
  <2>5. answer = [a \in Address |-> IF a \in f + l .. f + l THEN 0 ELSE r1[a]]
    BY <2>2, <2>3, <2>4
  <2> QED
    BY <2>3, <2>5 DEF HasZeros
<1>13. \A k \in l + 1 .. l + 1 : bytes[k] = 0
  <2> SUFFICES ASSUME NEW k \in l + 1 .. l + 1 PROVE bytes[k] = 0
    OBVIOUS
  <2>1. k = l + 1
    BY <1>7
  <2> QED
    BY <1>8, <2>1
<1>14. WrittenAt(answer, f, l + 1, bytes)
  <2>1. l + 1 \in Nat /\ l <= l + 1
    BY <1>7
  <2> QED
    BY <1>7, <1>8, <1>9, <1>10, <1>11, <1>12, <1>13, <2>1, WrittenBehind
<1>15. answer = Leaves(e, bytes)
  <2>1. l + 1 \in Nat
    BY <1>7
  <2> QED
    BY <1>1, <1>2, <1>14, <2>1, LeavesBy DEF f
<1> QED
  BY <1>6, <1>15 DEF bytes, e, n, o

LEMMA WritersRight ==
  ASSUME LibInv, Answered({"memset", "strcpy", "strncpy", "strcat", "strncat"}),
         question.fn \in {"strcat", "strncat"} => Measured(0),
         question.fn \in {"strcpy", "strcat"} => Measured(question.other)
  PROVE  LET w == ToBeWritten
             at(a) == a - (asked.dst + w.at) + 1
         IN  answer = [a \in Address |-> IF at(a) \in DOMAIN w.bytes THEN w.bytes[at(a)] ELSE mem[a]]
<1> DEFINE w == ToBeWritten
<1>1. SUFFICES answer = Leaves(w.at, w.bytes)
  BY DEF Leaves
<1>2. question.fn \in {"memset", "strcpy", "strncpy", "strcat", "strncat"} /\ answer # UNASKED
  BY DEF Answered
<1>3. CASE question.fn = "memset"
  <2>1. Answered({"memset"})
    BY <1>2, <1>3 DEF Answered
  <2>2. w.at = question.from /\ w.bytes = [k \in 1 .. question.n |-> question.c]
    BY <1>3 DEF ToBeWritten
  <2> QED
    BY <2>1, <2>2, MemsetRight
<1>4. CASE question.fn = "strcpy"
  <2>1. Answered({"strcpy"}) /\ Measured(question.other)
    BY <1>2, <1>4 DEF Answered
  <2>2. w.at = 0 /\ w.bytes = Text(question.other) \o << 0 >>
    BY <1>4 DEF ToBeWritten
  <2> QED
    BY <2>1, <2>2, StrcpyRight
<1>5. CASE question.fn = "strncpy"
  <2> DEFINE source == Text(question.other)
  <2>1. Answered({"strncpy"})
    BY <1>2, <1>5 DEF Answered
  <2>2. w.at = 0 /\ w.bytes = [k \in 1 .. question.n |-> IF k \in DOMAIN source THEN source[k] ELSE 0]
    BY <1>5 DEF ToBeWritten
  <2> QED
    BY <2>1, <2>2, StrncpyRight
<1>6. CASE question.fn = "strcat"
  <2>1. Answered({"strcat"}) /\ Measured(0) /\ Measured(question.other)
    BY <1>2, <1>6 DEF Answered
  <2>2. w.at = LengthAt(0) /\ w.bytes = Text(question.other) \o << 0 >>
    BY <1>6 DEF ToBeWritten
  <2> QED
    BY <2>1, <2>2, StrcatRight
<1>7. CASE question.fn = "strncat"
  <2> DEFINE source == Text(question.other)
  <2>1. Answered({"strncat"}) /\ Measured(0)
    BY <1>2, <1>7 DEF Answered
  <2>2. w.at = LengthAt(0) /\ w.bytes = SubSeq(source, 1, Min({question.n, Len(source)})) \o << 0 >>
    BY <1>7 DEF ToBeWritten
  <2> QED
    BY <2>1, <2>2, StrncatRight
<1> QED
  BY <1>2, <1>3, <1>4, <1>5, <1>6, <1>7

(***************************************************************************)
(* The parts of a text.                                                    *)
(***************************************************************************)

\* The places where a part starts, and those up to one of them.
StartsOf(text, delims) ==
  {k \in DOMAIN text : text[k] \notin delims /\ (k = 1 \/ text[k - 1] \in delims)}

UpTo(starts, k) == {l \in starts : l <= k}

CountUpTo(starts, k) == Cardinality(UpTo(starts, k))

LEMMA StartsFinite ==
  ASSUME NEW n \in Nat, NEW starts, starts \subseteq 1 .. n, NEW k \in Int
  PROVE  /\ IsFiniteSet(starts) /\ Cardinality(starts) \in Nat
         /\ IsFiniteSet(UpTo(starts, k)) /\ CountUpTo(starts, k) \in Nat
         /\ CountUpTo(starts, k) <= Cardinality(starts)
<1>1. IsFiniteSet(starts)
  <2>1. 1 \in Int /\ n \in Int /\ starts \in SUBSET (1 .. n)
    OBVIOUS
  <2>2. IsFiniteSet(1 .. n)
    BY <2>1, FS_Interval
  <2> QED
    BY <2>1, <2>2, FS_Subset
<1>2. UpTo(starts, k) \in SUBSET starts
  BY DEF UpTo
<1> QED
  BY <1>1, <1>2, FS_Subset, FS_CardinalityType DEF CountUpTo

\* The next start counts one more.
LEMMA OneMore ==
  ASSUME NEW n \in Nat, NEW starts, starts \subseteq 1 .. n, NEW j \in Int, NEW k \in starts, j < k,
         \A l \in starts : ~(j < l /\ l < k)
  PROVE  CountUpTo(starts, k) = CountUpTo(starts, j) + 1
<1>1. starts \subseteq Int
  OBVIOUS
<1>2. UpTo(starts, k) = UpTo(starts, j) \cup {k}
  <2>1. \A x \in starts : x <= k <=> x <= j \/ x = k
    BY <1>1
  <2> QED
    BY <2>1 DEF UpTo
<1>3. k \notin UpTo(starts, j)
  BY <1>1 DEF UpTo
<1>4. IsFiniteSet(UpTo(starts, j))
  BY StartsFinite
<1> QED
  BY <1>2, <1>3, <1>4, FS_AddElement DEF CountUpTo

\* Without a start in between there are as many.
LEMMA NoMore ==
  ASSUME NEW n \in Nat, NEW starts, starts \subseteq 1 .. n, NEW j \in Int, NEW k \in Int, j <= k,
         \A l \in starts : ~(j < l /\ l <= k)
  PROVE  CountUpTo(starts, k) = CountUpTo(starts, j)
<1>1. UpTo(starts, k) = UpTo(starts, j)
  <2>1. \A x \in starts : x <= k <=> x <= j
    OBVIOUS
  <2> QED
    BY <2>1 DEF UpTo
<1> QED
  BY <1>1 DEF CountUpTo

LEMMA AllUpTo ==
  ASSUME NEW n \in Nat, NEW starts, starts \subseteq 1 .. n
  PROVE  CountUpTo(starts, n) = Cardinality(starts)
<1>1. UpTo(starts, n) = starts
  <2>1. \A x \in starts : x <= n
    OBVIOUS
  <2> QED
    BY <2>1 DEF UpTo
<1> QED
  BY <1>1 DEF CountUpTo

\* Each start has a count of its own.
LEMMA CountTells ==
  ASSUME NEW n \in Nat, NEW starts, starts \subseteq 1 .. n, NEW j \in starts, NEW k \in starts,
         CountUpTo(starts, j) = CountUpTo(starts, k)
  PROVE  j = k
<1>1. ASSUME NEW a \in starts, NEW b \in starts, a < b
      PROVE  CountUpTo(starts, a) # CountUpTo(starts, b)
  <2>1. UpTo(starts, a) \in SUBSET UpTo(starts, b)
    <3>1. a \in Int /\ b \in Int /\ \A x \in starts : x <= a => x <= b
      BY <1>1
    <3> QED
      BY <3>1 DEF UpTo
  <2>2. b \in UpTo(starts, b) /\ b \notin UpTo(starts, a)
    BY <1>1 DEF UpTo
  <2>3. IsFiniteSet(UpTo(starts, b))
    <3>1. b \in Int
      OBVIOUS
    <3> QED
      BY <3>1, StartsFinite
  <2> QED
    BY <2>1, <2>2, <2>3, FS_Subset DEF CountUpTo
<1> QED
  BY <1>1

LEMMA NoPart ==
  ASSUME NEW text, NEW delims, NEW r, Cardinality(StartsOf(text, delims)) \in Nat, r \in Nat,
         Cardinality(StartsOf(text, delims)) < r
  PROVE  Part(text, delims, r) = << >>
<1>1. r > Cardinality(StartsOf(text, delims))
  OBVIOUS
<1> QED
  BY <1>1 DEF Part, StartsOf

\* A part starts at k and ends at e.
PartAt(text, delims, k, e) ==
  /\ k \in StartsOf(text, delims) /\ e \in k .. Len(text)
  /\ \A l \in k .. e : text[l] \notin delims
  /\ e = Len(text) \/ text[e + 1] \in delims

LEMMA PartIs ==
  ASSUME NEW text \in Seq(Int), NEW delims, NEW k, NEW e, PartAt(text, delims, k, e)
  PROVE  Part(text, delims, CountUpTo(StartsOf(text, delims), k)) = SubSeq(text, k, e)
<1> DEFINE n == Len(text)
           starts == StartsOf(text, delims)
           r == CountUpTo(starts, k)
           first == CHOOSE j \in starts : CountUpTo(starts, j) = r
           within == {j \in first .. Len(text) : \A l \in first .. j : text[l] \notin delims}
<1>0. /\ n \in Nat /\ k \in StartsOf(text, delims) /\ e \in k .. n
      /\ \A l \in k .. e : text[l] \notin delims
      /\ e = n \/ text[e + 1] \in delims
  BY DEF PartAt
<1>1. DOMAIN text = 1 .. n /\ starts \subseteq 1 .. n
  BY DEF StartsOf
<1>2. Part(text, delims, r) =
        IF r > Cardinality(starts) THEN << >> ELSE SubSeq(text, first, Max(within))
  BY DEF Part, StartsOf, CountUpTo, UpTo
<1> HIDE DEF n
<1>3. first = k
  <2>1. first \in starts /\ CountUpTo(starts, first) = r
    BY <1>0
  <2> HIDE DEF first, starts
  <2> QED
    BY <1>0, <1>1, <2>1, CountTells DEF starts
<1>4. ~(r > Cardinality(starts))
  <2>1. k \in Int
    BY <1>0, <1>1
  <2> QED
    BY <1>0, <1>1, <2>1, StartsFinite, SMTT(30)
<1>5. Max(within) = e
  <2> DEFINE T == {j \in k .. n : \A l \in k .. j : text[l] \notin delims}
  <2>1. k \in 1 .. n /\ e \in Int /\ T \subseteq Int
    BY <1>0, <1>1
  <2>2. e \in T
    BY <1>0
  <2>3. \A j \in T : j <= e
    <3> SUFFICES ASSUME NEW j \in T, e < j PROVE FALSE
      BY <2>1
    <3>1. e + 1 \in k .. j /\ e # n
      BY <1>0, <2>1
    <3> QED
      BY <1>0, <3>1
  <2>4. Max(T) = e
    BY <2>1, <2>2, <2>3, MaxIs
  <2> QED
    BY <1>3, <2>4 DEF n
<1> QED
  BY <1>2, <1>3, <1>4, <1>5

(***************************************************************************)
(* One call of strtok.                                                     *)
(***************************************************************************)

\* The string from p to z, and where its parts start.
Chars(m, p, z) == [i \in 1 .. z - p |-> m[p + i - 1]]

Starts(m, p, z, delims) == StartsOf(Chars(m, p, z), delims)

\* The next part is looked for from s on, after n parts.
GoesOn(m, now, s, p, z, delims, n) ==
  /\ s \in p .. z /\ (s = p \/ m[s - 1] \in delims)
  /\ CountUpTo(Starts(m, p, z, delims), s - p) = n
  /\ \A x \in s .. z : now[x] = m[x]

\* What n calls on the string leave.
Remains(m, r, p, z, delims, n) ==
  \/ r.last = NULL /\ Cardinality(Starts(m, p, z, delims)) <= n
  \/ r.last \in Nat /\ GoesOn(m, r.mem, r.last, p, z, delims, n)

\* The characters from s to the delimiter or end at e: others up to tok, then a token.
Cut(m, s, tok, e, delims) ==
  /\ tok \in Nat /\ e \in Nat /\ s <= tok /\ tok <= e
  /\ \A x \in s .. tok - 1 : m[x] \in delims
  /\ m[tok] \notin delims
  /\ \A x \in tok .. e - 1 : m[x] \notin delims
  /\ m[e] \in delims \cup {0}

LEMMA StrtokCuts ==
  ASSUME NEW now, NEW z \in Nat, z < MemSize, NEW s \in 0 .. z,
         \A x \in s .. z - 1 : now[x] # 0, now[z] = 0, NEW delims, 0 \notin delims,
         NEW tok, tok = LoopEnd(s, 1, {a \in Nat : now[a] \notin delims}),
         NEW e, e = LoopEnd(tok, 1, {a \in Nat : now[a] \in delims \cup {0}})
  PROVE  /\ Cut(now, s, tok, e, delims) /\ e <= z
         /\ now[tok] = 0 <=> tok = z
         /\ now[e] = 0 <=> e = z
<1> DEFINE S1 == {a \in Nat : now[a] \notin delims}
           S2 == {a \in Nat : now[a] \in delims \cup {0}}
<1>1. s \in Nat /\ s <= z
  OBVIOUS
<1>2. /\ tok \in Nat /\ s <= tok /\ (tok >= MemSize \/ tok \in S1)
      /\ \A a \in Nat : s <= a /\ a < tok /\ (a - s) % 1 = 0 => a \notin S1
  BY <1>1, LoopEnds
<1>3. tok <= z
  <2>1. z \in S1 /\ (z - s) % 1 = 0
    OBVIOUS
  <2> QED
    BY <1>1, <1>2, <2>1
<1>4. now[tok] \notin delims /\ \A x \in s .. tok - 1 : now[x] \in delims
  <2>1. tok < MemSize
    BY <1>2, <1>3, MemoryAssumption
  <2>2. tok \in S1
    BY <1>2, <2>1, MemoryAssumption
  <2>3. ASSUME NEW x \in s .. tok - 1 PROVE now[x] \in delims
    <3>1. x \in Nat /\ s <= x /\ x < tok /\ (x - s) % 1 = 0
      BY <1>1, <1>2
    <3> QED
      BY <1>2, <3>1
  <2> QED
    BY <2>2, <2>3
<1>5. /\ e \in Nat /\ tok <= e /\ (e >= MemSize \/ e \in S2)
      /\ \A a \in Nat : tok <= a /\ a < e /\ (a - tok) % 1 = 0 => a \notin S2
  BY <1>2, LoopEnds
<1>6. e <= z
  <2>1. z \in S2 /\ (z - tok) % 1 = 0
    BY <1>2
  <2> QED
    BY <1>2, <1>3, <1>5, <2>1
<1>7. now[e] \in delims \cup {0} /\ \A x \in tok .. e - 1 : now[x] \notin delims
  <2>1. e < MemSize
    BY <1>5, <1>6, MemoryAssumption
  <2>2. e \in S2
    BY <1>5, <2>1, MemoryAssumption
  <2>3. ASSUME NEW x \in tok .. e - 1 PROVE now[x] \notin delims
    <3>1. x \in Nat /\ tok <= x /\ x < e /\ (x - tok) % 1 = 0
      BY <1>2, <1>5
    <3> QED
      BY <1>5, <3>1
  <2> QED
    BY <2>2, <2>3
<1>8. now[tok] = 0 <=> tok = z
  <2>1. tok # z => tok \in s .. z - 1
    BY <1>1, <1>2, <1>3
  <2> QED
    BY <2>1
<1>9. now[e] = 0 <=> e = z
  <2>1. e # z => e \in s .. z - 1
    BY <1>1, <1>2, <1>5, <1>6
  <2> QED
    BY <2>1
<1> QED
  BY <1>2, <1>4, <1>5, <1>6, <1>7, <1>8, <1>9 DEF Cut

\* Where the string's parts start, by address.
LEMMA StartsAt ==
  ASSUME NEW m, NEW p \in Nat, NEW z \in Nat, p <= z, NEW delims
  PROVE  /\ Starts(m, p, z, delims) \subseteq 1 .. z - p
         /\ \A x \in p .. z - 1 :
              x - p + 1 \in Starts(m, p, z, delims)
                <=> m[x] \notin delims /\ (x = p \/ m[x - 1] \in delims)
<1> DEFINE text == Chars(m, p, z)
<1>1. DOMAIN text = 1 .. z - p /\ \A i \in 1 .. z - p : text[i] = m[p + i - 1]
  BY DEF Chars
<1> HIDE DEF text
<1>2. ASSUME NEW x \in p .. z - 1
      PROVE  x - p + 1 \in Starts(m, p, z, delims)
                <=> m[x] \notin delims /\ (x = p \/ m[x - 1] \in delims)
  <2> DEFINE k == x - p + 1
  <2>1. k \in 1 .. z - p /\ p + k - 1 = x /\ (k = 1 <=> x = p)
    OBVIOUS
  <2>2. x # p => k - 1 \in 1 .. z - p /\ p + (k - 1) - 1 = x - 1
    OBVIOUS
  <2> HIDE DEF k
  <2>3. text[k] = m[x] /\ (x # p => text[k - 1] = m[x - 1])
    BY <1>1, <2>1, <2>2
  <2>4. k \in StartsOf(text, delims) <=> text[k] \notin delims /\ (k = 1 \/ text[k - 1] \in delims)
    BY <1>1, <2>1 DEF StartsOf
  <2> QED
    BY <2>1, <2>3, <2>4 DEF Starts, text, k
<1> QED
  BY <1>1, <1>2 DEF Starts, StartsOf, text

LEMMA NothingLeft ==
  ASSUME NEW m, NEW now, NEW p \in Nat, NEW z \in Nat, p <= z, NEW delims, NEW n, NEW s,
         GoesOn(m, now, s, p, z, delims, n), \A x \in s .. z - 1 : m[x] \in delims
  PROVE  Cardinality(Starts(m, p, z, delims)) = n
<1> DEFINE starts == Starts(m, p, z, delims)
<1>1. s \in p .. z /\ CountUpTo(starts, s - p) = n
  BY DEF GoesOn
<1>2. /\ starts \subseteq 1 .. z - p
      /\ \A x \in p .. z - 1 : x - p + 1 \in starts => m[x] \notin delims
  BY StartsAt
<1> HIDE DEF starts
<1>3. \A l \in starts : ~(s - p < l /\ l <= z - p)
  <2> SUFFICES ASSUME NEW l \in starts, s - p < l, l <= z - p PROVE FALSE
    OBVIOUS
  <2>1. l \in 1 .. z - p
    BY <1>2
  <2>2. l + p - 1 \in s .. z - 1 /\ l + p - 1 \in p .. z - 1 /\ (l + p - 1) - p + 1 = l
    BY <1>1, <2>1
  <2> QED
    BY <1>2, <2>2
<1>4. z - p \in Nat /\ s - p \in Int /\ z - p \in Int /\ s - p <= z - p
  BY <1>1
<1>5. CountUpTo(starts, z - p) = CountUpTo(starts, s - p)
  BY <1>2, <1>3, <1>4, NoMore
<1>6. CountUpTo(starts, z - p) = Cardinality(starts)
  BY <1>2, <1>4, AllUpTo
<1> QED
  BY <1>1, <1>5, <1>6 DEF starts

LEMMA TokenStarts ==
  ASSUME NEW m, NEW now, NEW p \in Nat, NEW z \in Nat, p <= z, NEW delims, NEW n, NEW s,
         GoesOn(m, now, s, p, z, delims, n), NEW tok, NEW e, Cut(m, s, tok, e, delims), tok < z
  PROVE  /\ tok - p + 1 \in Starts(m, p, z, delims)
         /\ CountUpTo(Starts(m, p, z, delims), tok - p + 1) = n + 1
<1> DEFINE starts == Starts(m, p, z, delims)
           k == tok - p + 1
<1>1. s \in p .. z /\ CountUpTo(starts, s - p) = n /\ (s = p \/ m[s - 1] \in delims)
  BY DEF GoesOn
<1>2. tok \in Nat /\ s <= tok /\ (\A x \in s .. tok - 1 : m[x] \in delims) /\ m[tok] \notin delims
  BY DEF Cut
<1>3. /\ starts \subseteq 1 .. z - p
      /\ \A x \in p .. z - 1 : x - p + 1 \in starts <=> m[x] \notin delims /\ (x = p \/ m[x - 1] \in delims)
  BY StartsAt
<1>4. k \in starts
  <2>1. tok \in p .. z - 1
    BY <1>1, <1>2
  <2>2. tok = p \/ m[tok - 1] \in delims
    <3>1. CASE tok = s
      BY <1>1, <3>1
    <3>2. CASE tok # s
      <4>1. tok - 1 \in s .. tok - 1
        BY <1>1, <1>2, <3>2
      <4> QED
        BY <1>2, <4>1
    <3> QED
      BY <3>1, <3>2
  <2> QED
    BY <1>2, <1>3, <2>1, <2>2
<1> HIDE DEF starts
<1>5. \A l \in starts : ~(s - p < l /\ l < k)
  <2> SUFFICES ASSUME NEW l \in starts, s - p < l, l < k PROVE FALSE
    OBVIOUS
  <2>1. l \in 1 .. z - p
    BY <1>3
  <2>2. l + p - 1 \in s .. tok - 1 /\ l + p - 1 \in p .. z - 1 /\ (l + p - 1) - p + 1 = l
    BY <1>1, <1>2, <2>1
  <2> QED
    BY <1>2, <1>3, <2>2
<1>6. z - p \in Nat /\ s - p \in Int /\ s - p < k
  BY <1>1, <1>2
<1> HIDE DEF k
<1>7. CountUpTo(starts, k) = CountUpTo(starts, s - p) + 1
  BY <1>3, <1>4, <1>5, <1>6, OneMore
<1> QED
  BY <1>1, <1>4, <1>7 DEF starts, k

LEMMA TokenEnds ==
  ASSUME NEW m, NEW p \in Nat, NEW z \in Nat, NEW delims, NEW s \in p .. z,
         NEW tok, NEW e, Cut(m, s, tok, e, delims), e <= z,
         NEW k \in tok - p + 1 .. e - p + 1, k <= z - p
  PROVE  CountUpTo(Starts(m, p, z, delims), k) = CountUpTo(Starts(m, p, z, delims), tok - p + 1)
<1> DEFINE starts == Starts(m, p, z, delims)
           j == tok - p + 1
<1>1. tok \in Nat /\ e \in Nat /\ s <= tok /\ tok <= e /\ \A x \in tok .. e - 1 : m[x] \notin delims
  BY DEF Cut
<1>2. p <= z
  OBVIOUS
<1>3. /\ starts \subseteq 1 .. z - p
      /\ \A x \in p .. z - 1 : x - p + 1 \in starts => x = p \/ m[x - 1] \in delims
  BY <1>2, StartsAt
<1> HIDE DEF starts
<1>4. \A l \in starts : ~(j < l /\ l <= k)
  <2> SUFFICES ASSUME NEW l \in starts, j < l, l <= k PROVE FALSE
    OBVIOUS
  <2>1. l \in 1 .. z - p
    BY <1>3
  <2> DEFINE x == l + p - 1
  <2>2. x \in p .. z - 1 /\ x - p + 1 = l /\ x # p /\ x - 1 \in tok .. e - 1
    BY <1>1, <2>1
  <2> HIDE DEF x
  <2> QED
    BY <1>1, <1>3, <2>2
<1>5. z - p \in Nat /\ j \in Int /\ k \in Int /\ j <= k
  BY <1>1
<1> HIDE DEF j
<1>6. CountUpTo(starts, k) = CountUpTo(starts, j)
  BY <1>3, <1>4, <1>5, NoMore
<1> QED
  BY <1>6 DEF starts, j

\* The token from tok to e is the part that starts there.
LEMMA TokenIsPart ==
  ASSUME NEW m \in Memory, NEW p, NEW z, EndsAt(m, p, z), NEW delims, NEW s \in p .. z,
         NEW tok, NEW e, Cut(m, s, tok, e, delims), tok < z, e <= z,
         tok - p + 1 \in Starts(m, p, z, delims)
  PROVE  Part(Chars(m, p, z), delims, CountUpTo(Starts(m, p, z, delims), tok - p + 1))
           = SubSeq(Chars(m, p, z), tok - p + 1, e - p)
<1> DEFINE text == Chars(m, p, z)
           k == tok - p + 1
           n == z - p
<1>1. p \in Nat /\ z \in Nat /\ p <= z /\ z < MemSize /\ m[z] = 0 /\ \A x \in p .. z - 1 : m[x] # 0
  BY DEF EndsAt
<1>2. /\ tok \in Nat /\ e \in Nat /\ s <= tok /\ tok <= e /\ (\A x \in tok .. e - 1 : m[x] \notin delims)
      /\ m[tok] \notin delims /\ m[e] \in delims \cup {0}
  BY DEF Cut
<1>3. tok # e
  <2> SUFFICES ASSUME tok = e PROVE FALSE
    OBVIOUS
  <2>1. m[tok] # 0
    BY <1>1, <1>2
  <2> QED
    BY <1>2, <2>1
<1>4. n \in Nat /\ k \in 1 .. n /\ e - p \in k .. n
  BY <1>1, <1>2, <1>3
<1>5. text \in Seq(Int) /\ Len(text) = n /\ \A i \in 1 .. n : text[i] = m[p + i - 1]
  <2>1. \A i \in 1 .. n : m[p + i - 1] \in Int
    <3> SUFFICES ASSUME NEW i \in 1 .. n PROVE m[p + i - 1] \in Int
      OBVIOUS
    <3>1. p + i - 1 \in p .. z
      BY <1>1
    <3> QED
      BY <3>1, StringAddresses
  <2>2. text = [i \in 1 .. n |-> m[p + i - 1]]
    BY DEF Chars
  <2> QED
    BY <1>4, <2>1, <2>2
<1> HIDE DEF text
<1>6. \A l \in k .. e - p : text[l] \notin delims
  <2> SUFFICES ASSUME NEW l \in k .. e - p PROVE text[l] \notin delims
    OBVIOUS
  <2>1. l \in 1 .. n /\ p + l - 1 \in tok .. e - 1
    BY <1>1, <1>2, <1>4
  <2> QED
    BY <1>2, <1>5, <2>1
<1>7. e - p = n \/ text[e - p + 1] \in delims
  <2>1. CASE e = z
    BY <2>1
  <2>2. CASE e # z
    <3>1. e - p + 1 \in 1 .. n /\ p + (e - p + 1) - 1 = e /\ e \in p .. z - 1
      BY <1>1, <1>2, <2>2
    <3>2. text[e - p + 1] = m[e]
      BY <1>5, <3>1
    <3> QED
      BY <1>1, <1>2, <3>1, <3>2
  <2> QED
    BY <2>1, <2>2
<1>8. k \in StartsOf(text, delims)
  BY DEF Starts, text
<1>9. Part(text, delims, CountUpTo(StartsOf(text, delims), k)) = SubSeq(text, k, e - p)
  <2> DEFINE last == e - p
  <2>1. PartAt(text, delims, k, last)
    BY <1>4, <1>5, <1>6, <1>7, <1>8 DEF PartAt
  <2> HIDE DEF n, k, last
  <2>2. Part(text, delims, CountUpTo(StartsOf(text, delims), k)) = SubSeq(text, k, last)
    BY <1>5, <2>1, PartIs
  <2> QED
    BY <2>2 DEF last
<1> QED
  BY <1>9 DEF text, k, Starts

LEMMA FunctionIsSeq ==
  ASSUME NEW n \in Nat, NEW h \in [1 .. n -> Int]
  PROVE  h \in Seq(Int) /\ Len(h) = n
OBVIOUS

\* The string that is left at tok once a zero is at e.
LEMMA TokenRead ==
  ASSUME NEW m \in Memory, NEW p, NEW z, EndsAt(m, p, z), NEW now,
         NEW tok \in p .. z, NEW e \in tok .. z,
         \A x \in tok .. e - 1 : now[x] = m[x], now[e] = 0
  PROVE  TextAt(now, tok) = SubSeq(Chars(m, p, z), tok - p + 1, e - p)
<1> DEFINE text == Chars(m, p, z)
           part == SubSeq(text, tok - p + 1, e - p)
           Zeros == {b \in Nat : now[b] = 0}
           here == TextAt(now, tok)
<1>1. p \in Nat /\ z \in Nat /\ p <= z /\ z < MemSize /\ \A x \in p .. z - 1 : m[x] # 0
  BY DEF EndsAt
<1>2. LoopEnd(tok, 1, Zeros) = e
  <2>1. e \in Zeros /\ tok \in Nat /\ e \in Nat /\ tok <= e /\ e <= MemSize
    BY <1>1, MemoryAssumption
  <2>2. \A x \in tok .. e - 1 : x \notin Zeros
    BY <1>1
  <2> HIDE DEF Zeros
  <2> QED
    BY <2>1, <2>2, LoopEndIs
<1>3. here = [k \in 1 .. e - tok |-> now[tok + k - 1]]
  BY <1>2 DEF TextAt
<1>4. ASSUME NEW i \in tok - p + 1 .. e - p
      PROVE  text[i] = m[p + i - 1] /\ text[i] \in Int
  <2>1. i \in 1 .. z - p /\ p + i - 1 \in p .. z
    BY <1>1
  <2>2. text[i] = m[p + i - 1]
    BY <2>1 DEF Chars
  <2> QED
    BY <2>1, <2>2, StringAddresses
<1>5. /\ part \in Seq(Int) /\ Len(part) = e - tok
      /\ \A i \in 1 .. e - tok : part[i] = text[tok - p + 1 + i - 1]
  <2> DEFINE a == tok - p + 1
             b == e - p
  <2>1. a \in Int /\ b \in Int /\ b - a + 1 = e - tok /\ (a > b => e - tok = 0)
    BY <1>1
  <2>2. \A i \in a .. b : text[i] \in Int
    BY <1>4
  <2>3. /\ SubSeq(text, a, b) \in Seq(Int)
        /\ Len(SubSeq(text, a, b)) = IF a <= b THEN b - a + 1 ELSE 0
        /\ \A i \in 1 .. b - a + 1 : SubSeq(text, a, b)[i] = text[a + i - 1]
    <3> HIDE DEF a, b
    <3> QED
      BY <2>1, <2>2, SubSeqProperties
  <2> QED
    BY <2>1, <2>3
<1> HIDE DEF part, text
<1>6. ASSUME NEW i \in 1 .. e - tok
      PROVE  now[tok + i - 1] = part[i] /\ part[i] \in Int
  <2> DEFINE j == tok - p + 1 + i - 1
  <2>1. j \in tok - p + 1 .. e - p /\ p + j - 1 = tok + i - 1 /\ tok + i - 1 \in tok .. e - 1
    BY <1>1
  <2>2. part[i] = text[j]
    BY <1>5
  <2> HIDE DEF j
  <2>3. text[j] = m[p + j - 1] /\ text[j] \in Int
    BY <1>4, <2>1
  <2>4. now[tok + i - 1] = m[tok + i - 1]
    BY <2>1
  <2> QED
    BY <2>1, <2>2, <2>3, <2>4
<1>7. here \in Seq(Int) /\ Len(here) = e - tok /\ \A i \in 1 .. e - tok : here[i] = part[i]
  <2>1. e - tok \in Nat
    BY <1>1
  <2>2. \A i \in 1 .. e - tok : now[tok + i - 1] = part[i] /\ now[tok + i - 1] \in Int
    BY <1>6
  <2>3. here \in Seq(Int) /\ Len(here) = e - tok
    <3> DEFINE N == e - tok
    <3>1. N \in Nat /\ here = [k \in 1 .. N |-> now[tok + k - 1]] /\ \A i \in 1 .. N : now[tok + i - 1] \in Int
      BY <1>3, <2>1, <2>2
    <3> HIDE DEF N
    <3>2. here \in [1 .. N -> Int]
      BY <3>1
    <3>3. here \in Seq(Int) /\ Len(here) = N
      BY <3>1, <3>2, FunctionIsSeq
    <3> QED
      BY <3>3 DEF N
  <2>4. \A i \in 1 .. e - tok : here[i] = now[tok + i - 1]
    BY <1>3
  <2> QED
    BY <2>2, <2>3, <2>4
<1> HIDE DEF here
<1>8. here = part
  BY <1>5, <1>7, SeqEqual
<1> QED
  BY <1>8 DEF here, part, text

\* The characters of a string before its end.
CharsIn(m, c, f) == {m[x] : x \in c .. f - 1}

TokenText(r) == IF r.token = NULL THEN << >> ELSE TextAt(r.mem, r.token)

\* r is what the n-th call on the string leaves, from memory now.
Taken(m, now, r, p, z, delims, n) ==
  /\ Remains(m, r, p, z, delims, n)
  /\ TokenText(r) = Part(Chars(m, p, z), delims, n)
  /\ DOMAIN r.mem = Address
  /\ \A x \in Address : x \notin p .. z => r.mem[x] = now[x]

\* What strtok returns where the token starts at tok and the next delimiter is at e.
Returned(now, tok, e) ==
  IF now[tok] = 0 THEN [mem |-> now, last |-> NULL, token |-> NULL]
  ELSE IF now[e] = 0 THEN [mem |-> now, last |-> NULL, token |-> tok]
  ELSE [mem |-> [now EXCEPT ![e] = 0], last |-> e + 1, token |-> tok]

LEMMA StrtokIs ==
  ASSUME NEW now, NEW c, NEW f, EndsAt(now, c, f), NEW last, NEW str,
         NEW s, s # NULL, s = (IF str = NULL THEN last ELSE str),
         NEW delims, delims = CharsIn(now, c, f),
         NEW tok, tok = LoopEnd(s, 1, {a \in Nat : now[a] \notin delims}),
         NEW e, e = LoopEnd(tok, 1, {a \in Nat : now[a] \in delims \cup {0}})
  PROVE  strtok(now, last, str, c) = Returned(now, tok, e)
<1> DEFINE Zeros == {a \in Nat : now[a] = 0}
<1>1. /\ c \in Nat /\ f \in Nat /\ c <= f /\ f < MemSize /\ now[f] = 0
      /\ \A x \in c .. f - 1 : now[x] # 0
  BY DEF EndsAt
<1>2. LoopEnd(c, 1, Zeros) = f
  <2>1. f \in Zeros /\ f <= MemSize /\ \A x \in c .. f - 1 : x \notin Zeros
    BY <1>1, MemoryAssumption
  <2> HIDE DEF Zeros
  <2> QED
    BY <1>1, <2>1, LoopEndIs
<1>3. delims = {now[x] : x \in c .. LoopEnd(c, 1, Zeros) - 1}
  BY <1>2 DEF CharsIn
<1> QED
  BY <1>3 DEF strtok, Returned

LEMMA StrtokTakes ==
  ASSUME NEW m \in Memory, NEW p, NEW z, EndsAt(m, p, z), NEW delims, 0 \notin delims, NEW n \in Nat,
         NEW now, DOMAIN now = Address, NEW s, GoesOn(m, now, s, p, z, delims, n),
         NEW c, NEW f, EndsAt(now, c, f), delims = CharsIn(now, c, f),
         NEW last, NEW str, s = (IF str = NULL THEN last ELSE str)
  PROVE  Taken(m, now, strtok(now, last, str, c), p, z, delims, n + 1)
<1> DEFINE tok == LoopEnd(s, 1, {a \in Nat : now[a] \notin delims})
           e == LoopEnd(tok, 1, {a \in Nat : now[a] \in delims \cup {0}})
           r == strtok(now, last, str, c)
           starts == Starts(m, p, z, delims)
           text == Chars(m, p, z)
<1>1. /\ p \in Nat /\ z \in Nat /\ p <= z /\ z < MemSize /\ m[z] = 0 /\ \A x \in p .. z - 1 : m[x] # 0
  BY DEF EndsAt
<1>2. s \in p .. z /\ s \in 0 .. z /\ s # NULL /\ \A x \in s .. z : now[x] = m[x]
  BY <1>1, PointerAssumption DEF GoesOn
<1>3. r = IF now[tok] = 0 THEN [mem |-> now, last |-> NULL, token |-> NULL]
          ELSE IF now[e] = 0 THEN [mem |-> now, last |-> NULL, token |-> tok]
          ELSE [mem |-> [now EXCEPT ![e] = 0], last |-> e + 1, token |-> tok]
  <2>1. r = Returned(now, tok, e)
    BY <1>2, StrtokIs
  <2> QED
    BY <2>1 DEF Returned
<1>4. /\ Cut(now, s, tok, e, delims) /\ e <= z
      /\ now[tok] = 0 <=> tok = z
      /\ now[e] = 0 <=> e = z
  <2>1. (\A x \in s .. z - 1 : now[x] # 0) /\ now[z] = 0
    BY <1>1, <1>2
  <2> QED
    BY <1>1, <1>2, <2>1, StrtokCuts
<1> HIDE DEF tok, e, r, starts, text
<1>5. /\ tok \in Nat /\ e \in Nat /\ s <= tok /\ tok <= e
      /\ Cut(m, s, tok, e, delims)
  <2>1. tok \in Nat /\ e \in Nat /\ s <= tok /\ tok <= e
    BY <1>4 DEF Cut
  <2>2. \A x \in s .. e : now[x] = m[x]
    BY <1>1, <1>2, <1>4, <2>1
  <2>3. tok \in s .. e /\ e \in s .. e /\ (\A x \in s .. tok - 1 : x \in s .. e)
        /\ \A x \in tok .. e - 1 : x \in s .. e
    BY <1>2, <2>1
  <2> QED
    BY <1>4, <2>2, <2>1, <2>3 DEF Cut
<1>6. CASE tok = z
  <2>1. r = [mem |-> now, last |-> NULL, token |-> NULL]
    BY <1>3, <1>4, <1>6
  <2>2. \A x \in s .. z - 1 : m[x] \in delims
    BY <1>5, <1>6 DEF Cut
  <2>3. Cardinality(starts) = n
    BY <1>1, <2>2, NothingLeft DEF starts
  <2>4. Remains(m, r, p, z, delims, n + 1)
    <3>1. Cardinality(starts) <= n + 1
      BY <2>3
    <3> QED
      BY <2>1, <3>1 DEF Remains, starts
  <2>5. Part(text, delims, n + 1) = << >>
    <3>1. n + 1 \in Nat /\ Cardinality(starts) \in Nat /\ Cardinality(starts) < n + 1
      BY <2>3
    <3> QED
      BY <3>1, NoPart DEF starts, Starts, text
  <2>6. TokenText(r) = << >>
    BY <2>1 DEF TokenText
  <2> QED
    BY <2>1, <2>4, <2>5, <2>6 DEF Taken, text, r
<1>7. CASE tok # z
  <2>1. tok < z /\ tok # NULL /\ tok \in p .. z /\ e \in tok .. z
    BY <1>1, <1>2, <1>4, <1>5, <1>7, PointerAssumption
  <2>2. tok - p + 1 \in starts /\ CountUpTo(starts, tok - p + 1) = n + 1
    BY <1>1, <1>5, <2>1, TokenStarts DEF starts
  <2>3. Part(text, delims, n + 1) = SubSeq(text, tok - p + 1, e - p)
    <3>1. tok - p + 1 \in Starts(m, p, z, delims)
      BY <2>2 DEF starts
    <3>2. Part(Chars(m, p, z), delims, CountUpTo(Starts(m, p, z, delims), tok - p + 1))
            = SubSeq(Chars(m, p, z), tok - p + 1, e - p)
      BY <1>2, <1>4, <1>5, <2>1, <3>1, TokenIsPart
    <3> QED
      BY <2>2, <3>2 DEF starts, text
  <2>4. \A k \in tok - p + 1 .. e - p + 1 : k <= z - p => CountUpTo(starts, k) = n + 1
    <3> SUFFICES ASSUME NEW k \in tok - p + 1 .. e - p + 1, k <= z - p
                 PROVE  CountUpTo(starts, k) = n + 1
      OBVIOUS
    <3>1. CountUpTo(Starts(m, p, z, delims), k) = CountUpTo(Starts(m, p, z, delims), tok - p + 1)
      BY <1>1, <1>2, <1>4, <1>5, TokenEnds
    <3> QED
      BY <2>2, <3>1 DEF starts
  <2>5. \A x \in tok .. e - 1 : now[x] = m[x]
    BY <1>1, <1>2, <1>4, <1>5
  <2>6. now[tok] # 0
    BY <1>4, <2>1
  <2>7. CASE e = z
    <3>1. r = [mem |-> now, last |-> NULL, token |-> tok]
      BY <1>3, <1>4, <2>6, <2>7
    <3>2. TextAt(now, tok) = SubSeq(text, tok - p + 1, e - p)
      <4>1. now[e] = 0
        BY <1>4, <2>7
      <4> QED
        BY <2>1, <2>5, <4>1, TokenRead DEF text
    <3>3. TokenText(r) = Part(text, delims, n + 1)
      BY <2>1, <2>3, <3>1, <3>2 DEF TokenText
    <3>4. Cardinality(starts) = n + 1
      <4>1. starts \subseteq 1 .. z - p /\ z - p \in Nat
        BY <1>1, StartsAt DEF starts
      <4>2. CountUpTo(starts, z - p) = n + 1
        <5>1. z - p \in tok - p + 1 .. e - p + 1 /\ z - p <= z - p
          BY <1>1, <2>1, <2>7
        <5> QED
          BY <2>4, <5>1
      <4> QED
        BY <4>1, <4>2, AllUpTo
    <3>5. Remains(m, r, p, z, delims, n + 1)
      <4>1. Cardinality(starts) <= n + 1
        BY <3>4
      <4> QED
        BY <3>1, <4>1 DEF Remains, starts
    <3> QED
      BY <3>1, <3>3, <3>5 DEF Taken, text, r
  <2>8. CASE e # z
    <3> DEFINE after == [now EXCEPT ![e] = 0]
    <3>1. r = [mem |-> after, last |-> e + 1, token |-> tok]
      BY <1>3, <1>4, <2>6, <2>8
    <3>2. e \in Address /\ e < z
      BY <1>1, <1>4, <1>5, <2>8, MemoryAssumption DEF Address
    <3>3. DOMAIN after = Address /\ after[e] = 0 /\ \A x \in Address : x # e => after[x] = now[x]
      BY <3>2
    <3> HIDE DEF after
    <3>4. \A x \in p .. z : x \in Address
      BY <1>1, MemoryAssumption DEF Address
    <3>5. \A x \in tok .. e - 1 : after[x] = m[x]
      <4> SUFFICES ASSUME NEW x \in tok .. e - 1 PROVE after[x] = m[x]
        OBVIOUS
      <4>1. x \in p .. z /\ x # e
        BY <1>1, <1>4, <1>5, <2>1
      <4> QED
        BY <2>5, <3>3, <3>4, <4>1
    <3>6. TextAt(after, tok) = SubSeq(text, tok - p + 1, e - p)
      BY <2>1, <3>3, <3>5, TokenRead DEF text
    <3>7. TokenText(r) = Part(text, delims, n + 1)
      BY <2>1, <2>3, <3>1, <3>6 DEF TokenText
    <3>8. GoesOn(m, after, e + 1, p, z, delims, n + 1)
      <4>1. e + 1 \in p .. z /\ (e + 1) - 1 = e
        BY <1>1, <2>1, <3>2
      <4>2. m[e] \in delims
        <5>1. m[e] \in delims \cup {0} /\ e \in p .. z - 1
          BY <1>1, <1>5, <2>1, <3>2 DEF Cut
        <5> QED
          BY <1>1, <5>1
      <4>3. CountUpTo(starts, (e + 1) - p) = n + 1
        <5>1. (e + 1) - p \in tok - p + 1 .. e - p + 1 /\ (e + 1) - p <= z - p
          BY <1>1, <1>5, <3>2
        <5> QED
          BY <2>4, <5>1
      <4>4. \A x \in e + 1 .. z : after[x] = m[x]
        <5> SUFFICES ASSUME NEW x \in e + 1 .. z PROVE after[x] = m[x]
          OBVIOUS
        <5>1. x \in p .. z /\ x # e /\ x \in s .. z
          BY <1>1, <1>2, <1>5, <2>1
        <5> QED
          BY <1>2, <3>3, <3>4, <5>1
      <4> QED
        BY <4>1, <4>2, <4>3, <4>4 DEF GoesOn, starts
    <3>9. Remains(m, r, p, z, delims, n + 1)
      BY <1>5, <3>1, <3>8 DEF Remains
    <3>10. \A x \in Address : x \notin p .. z => after[x] = now[x]
      BY <1>1, <2>1, <3>3
    <3> QED
      BY <3>1, <3>3, <3>7, <3>9, <3>10 DEF Taken, text, r
  <2> QED
    BY <2>7, <2>8
<1> QED
  BY <1>6, <1>7

(***************************************************************************)
(* The calls of strtok, one after the other.                               *)
(***************************************************************************)

\* The k-th call after r, in the block at address s, and what n calls leave.
CallOf(r, k, s, q) ==
  strtok(r.mem, r.last, IF q.calls[k] = NULL THEN NULL ELSE s + q.calls[k], s + q.delim)

Before(m) == [mem |-> m, last |-> NULL, token |-> NULL]

AreCalls(f, n, m, s, q) ==
  f = [k \in 0 .. n |-> IF k = 0 THEN Before(m) ELSE CallOf(f[k - 1], k, s, q)]

LEMMA CallsExist ==
  ASSUME NEW m, NEW s, NEW q, NEW n \in Nat
  PROVE  \E f : AreCalls(f, n, m, s, q)
<1> DEFINE T == {k \in Nat : ~\E f : AreCalls(f, k, m, s, q)}
<1>1. SUFFICES T = {}
  OBVIOUS
<1>2. SUFFICES ASSUME T # {} PROVE FALSE
  OBVIOUS
<1>3. PICK k \in T : \A j \in T : k <= j
  BY <1>2, Smallest
<1>4. k # 0
  <2> DEFINE f == [j \in 0 .. 0 |-> Before(m)]
  <2>1. AreCalls(f, 0, m, s, q)
    BY DEF AreCalls
  <2> QED
    BY <2>1
<1>5. k - 1 \in Nat /\ k \in Nat
  BY <1>4
<1>6. PICK f : AreCalls(f, k - 1, m, s, q)
  <2>1. k - 1 \notin T
    BY <1>3, <1>5
  <2> QED
    BY <1>5, <2>1
<1> DEFINE g == [j \in 0 .. k |-> IF j = k THEN CallOf(f[k - 1], k, s, q) ELSE f[j]]
<1>7. ASSUME NEW j \in 0 .. k
      PROVE  g[j] = IF j = 0 THEN Before(m) ELSE CallOf(g[j - 1], j, s, q)
  <2>1. CASE j = k
    <3>1. j - 1 \in 0 .. k /\ j - 1 # k
      BY <1>4, <1>5, <2>1
    <3>2. g[j - 1] = f[k - 1]
      BY <2>1, <3>1
    <3> QED
      BY <1>4, <2>1, <3>2
  <2>2. CASE j # k
    <3>1. j \in 0 .. k - 1
      BY <1>5, <2>2
    <3>2. f[j] = IF j = 0 THEN Before(m) ELSE CallOf(f[j - 1], j, s, q)
      BY <1>6, <3>1 DEF AreCalls
    <3>3. j # 0 => j - 1 \in 0 .. k /\ j - 1 # k
      BY <1>5
    <3>4. j # 0 => g[j - 1] = f[j - 1]
      BY <3>3
    <3> QED
      BY <2>2, <3>2, <3>4
  <2> QED
    BY <2>1, <2>2
<1>8. g = [j \in 0 .. k |-> IF j = 0 THEN Before(m) ELSE CallOf(g[j - 1], j, s, q)]
  <2>1. g = [j \in 0 .. k |-> g[j]]
    OBVIOUS
  <2> HIDE DEF g
  <2> QED
    BY <1>7, <2>1
<1>9. AreCalls(g, k, m, s, q)
  <2> HIDE DEF g
  <2> QED
    BY <1>8 DEF AreCalls
<1> QED
  BY <1>9

\* The tokens are those that the calls f return.
TokensBy(f, m, s, q) ==
  AreCalls(f, Len(q.calls), m, s, q) /\ Tokens(m, s, q) = [k \in 1 .. Len(q.calls) |-> TokenText(f[k])]

LEMMA TokensAre ==
  ASSUME NEW m, NEW s, NEW q, Len(q.calls) \in Nat
  PROVE  \E f : TokensBy(f, m, s, q)
<1>1. PICK g : AreCalls(g, Len(q.calls), m, s, q)
  BY CallsExist
<1> DEFINE Str(k) == IF q.calls[k] = NULL THEN NULL ELSE s + q.calls[k]
           f == CHOOSE h : h = [k \in 0 .. Len(q.calls) |->
                                  IF k = 0 THEN [mem |-> m, last |-> NULL, token |-> NULL]
                                  ELSE strtok(h[k - 1].mem, h[k - 1].last, Str(k), s + q.delim)]
<1>2. f = [k \in 0 .. Len(q.calls) |->
             IF k = 0 THEN [mem |-> m, last |-> NULL, token |-> NULL]
             ELSE strtok(f[k - 1].mem, f[k - 1].last, Str(k), s + q.delim)]
  <2>1. g = [k \in 0 .. Len(q.calls) |->
               IF k = 0 THEN [mem |-> m, last |-> NULL, token |-> NULL]
               ELSE strtok(g[k - 1].mem, g[k - 1].last, Str(k), s + q.delim)]
    BY <1>1 DEF AreCalls, CallOf, Before
  <2> QED
    BY <2>1
<1>3. Tokens(m, s, q) = [k \in 1 .. Len(q.calls) |->
                           IF f[k].token = NULL THEN << >> ELSE TextAt(f[k].mem, f[k].token)]
  BY DEF Tokens
<1> HIDE DEF f
<1>4. AreCalls(f, Len(q.calls), m, s, q)
  BY <1>2 DEF AreCalls, CallOf, Before
<1>5. Tokens(m, s, q) = [k \in 1 .. Len(q.calls) |-> TokenText(f[k])]
  BY <1>3 DEF TokenText
<1> QED
  BY <1>4, <1>5 DEF TokensBy

\* The strings that calls start, and the delimiters.
Begins(i) == question.calls[i] # NULL
TextStart(i) == asked.dst + question.calls[i]
TextStop(i) == asked.dst + EndOf(question.calls[i])
Delims == CharsAt(question.delim)

\* No call up to the k-th starts a string; the j-th is the last that does.
NoneUpTo(k) == \A i \in 1 .. k : ~Begins(i)
Current(j, k) == j \in 1 .. k /\ Begins(j) /\ \A i \in j + 1 .. k : ~Begins(i)

\* r is what the first k calls leave.
AfterCalls(r, k) ==
  /\ DOMAIN r.mem = Address
  /\ \A x \in Address :
       (\A i \in 1 .. k : Begins(i) => x \notin TextStart(i) .. TextStop(i)) => r.mem[x] = mem[x]
  /\ NoneUpTo(k) => r.last = NULL /\ r.token = NULL
  /\ \A j \in 1 .. k : Current(j, k) =>
       /\ Remains(mem, r, TextStart(j), TextStop(j), Delims, k - j + 1)
       /\ TokenText(r) = Part(Chars(mem, TextStart(j), TextStop(j)), Delims, k - j + 1)

LEMMA StrtokAsked ==
  ASSUME LibInv, Answered({"strtok"})
  PROVE  /\ pc = "done" /\ mem \in Memory /\ asked.dst \in Nat
         /\ answer = Tokens(mem, asked.dst, question)
         /\ TextIn(asked, question.delim) /\ Len(question.calls) \in Nat
         /\ DOMAIN question.calls = 1 .. Len(question.calls)
         /\ EndsAt(mem, asked.dst + question.delim, asked.dst + EndOf(question.delim))
         /\ Delims = CharsIn(mem, asked.dst + question.delim, asked.dst + EndOf(question.delim))
         /\ 0 \notin Delims
<1> DEFINE o == question.delim
           d == asked.dst
<1>1. /\ pc = "done" /\ d \in Nat /\ mem \in Memory /\ answer = Tokens(mem, d, question)
      /\ TextIn(asked, o) /\ question.calls \in Seq(Nat \cup {NULL})
  BY AnsweredFacts, BlockMoved DEF Answer, KeepsContract
<1>2. /\ o \in Nat /\ EndOf(o) \in o .. asked.length - 1 /\ \A i \in o .. EndOf(o) - 1 : BlockByte(i) # 0
      /\ EndsAt(mem, d + o, d + EndOf(o))
  BY <1>1, MovedText
<1>3. asked.length \in Nat /\ \A k \in 0 .. asked.length - 1 : mem[d + k] = BlockByte(k)
  BY <1>1, BlockMoved
<1>4. Delims = CharsIn(mem, d + o, d + EndOf(o))
  <2> SUFFICES ASSUME NEW c PROVE c \in Delims <=> c \in CharsIn(mem, d + o, d + EndOf(o))
    OBVIOUS
  <2>1. ASSUME NEW i \in o .. EndOf(o) - 1, c = BlockByte(i)
        PROVE  c \in CharsIn(mem, d + o, d + EndOf(o))
    <3>1. i \in 0 .. asked.length - 1 /\ d + i \in d + o .. (d + EndOf(o)) - 1
      BY <1>1, <1>2, <1>3, SMTT(30)
    <3> QED
      BY <1>3, <2>1, <3>1 DEF CharsIn
  <2>2. ASSUME NEW x \in d + o .. (d + EndOf(o)) - 1, c = mem[x]
        PROVE  c \in Delims
    <3>1. x - d \in o .. EndOf(o) - 1 /\ x - d \in 0 .. asked.length - 1 /\ d + (x - d) = x
      BY <1>1, <1>2, <1>3, SMTT(30)
    <3> QED
      BY <1>3, <2>2, <3>1 DEF Delims, CharsAt
  <2> QED
    BY <2>1, <2>2 DEF Delims, CharsAt, CharsIn
<1>5. 0 \notin Delims
  BY <1>2 DEF Delims, CharsAt
<1> QED
  BY <1>1, <1>2, <1>4, <1>5

\* A string that a call starts lies apart from those of the other calls, and from the
\* delimiters.
LEMMA StartedText ==
  ASSUME LibInv, Answered({"strtok"}), NEW i \in DOMAIN question.calls, Begins(i)
  PROVE  /\ EndsAt(mem, TextStart(i), TextStop(i))
         /\ Text(question.calls[i]) = Chars(mem, TextStart(i), TextStop(i))
         /\ \A x \in asked.dst + question.delim .. asked.dst + EndOf(question.delim) :
              x \notin TextStart(i) .. TextStop(i)
         /\ \A j \in DOMAIN question.calls \ {i} : Begins(j) =>
              \A x \in TextStart(i) .. TextStop(i) : x \notin TextStart(j) .. TextStop(j)
<1> DEFINE o == question.calls[i]
           d == asked.dst
<1>1. /\ pc = "done" /\ d \in Nat
      /\ TextIn(asked, o) /\ Apart(asked, o, question.delim) /\ TextIn(asked, question.delim)
      /\ \A j \in DOMAIN question.calls \ {i} :
           Begins(j) => Apart(asked, o, question.calls[j]) /\ TextIn(asked, question.calls[j])
  BY AnsweredFacts, BlockMoved DEF KeepsContract, Begins
<1>2. /\ o \in Nat /\ EndOf(o) \in o .. asked.length - 1 /\ EndsAt(mem, d + o, d + EndOf(o))
  BY <1>1, MovedText
<1>3. asked.length \in Nat /\ \A k \in 0 .. asked.length - 1 : mem[d + k] = BlockByte(k)
  BY <1>1, BlockMoved
<1>4. Text(o) = Chars(mem, d + o, d + EndOf(o))
  <2> DEFINE l == EndOf(o) - o
  <2>1. LengthAt(o) = l /\ (d + EndOf(o)) - (d + o) = l /\ l \in Nat
    BY <1>1, <1>2, <1>3 DEF LengthAt
  <2> HIDE DEF l
  <2>2. ASSUME NEW k \in 1 .. l
        PROVE  mem[d + o + k - 1] = BlockByte(o + k - 1)
    <3>1. o + k - 1 \in 0 .. asked.length - 1 /\ d + (o + k - 1) = d + o + k - 1
      BY <1>1, <1>2, <1>3, <2>1 DEF l
    <3> QED
      BY <1>3, <3>1
  <2>3. Text(o) = [k \in 1 .. l |-> BlockByte(o + k - 1)]
    BY <2>1 DEF Text
  <2>4. Chars(mem, d + o, d + EndOf(o)) = [k \in 1 .. l |-> mem[d + o + k - 1]]
    BY <2>1 DEF Chars
  <2> QED
    BY <2>2, <2>3, <2>4
<1>5. ASSUME NEW b, TextIn(asked, b), Apart(asked, o, b)
      PROVE  \A x \in d + o .. d + EndOf(o) : x \notin d + b .. d + EndOf(b)
  <2>1. b \in Nat /\ EndOf(b) \in b .. asked.length - 1
    BY <1>1, <1>5, MovedText
  <2>2. EndOf(o) < b \/ EndOf(b) < o
    BY <1>5 DEF Apart, EndOf
  <2> QED
    BY <1>1, <1>2, <1>3, <2>1, <2>2
<1>6. \A x \in d + question.delim .. d + EndOf(question.delim) : x \notin d + o .. d + EndOf(o)
  BY <1>1, <1>5
<1>7. ASSUME NEW j \in DOMAIN question.calls \ {i}, Begins(j)
      PROVE  \A x \in TextStart(i) .. TextStop(i) : x \notin TextStart(j) .. TextStop(j)
  BY <1>1, <1>5, <1>7 DEF TextStart, TextStop
<1> QED
  BY <1>2, <1>4, <1>6, <1>7 DEF TextStart, TextStop

\* A call with neither a string nor a place to go on from.
LEMMA StrtokOfNull ==
  ASSUME NEW now, NEW c
  PROVE  strtok(now, NULL, NULL, c) = [mem |-> now, last |-> NULL, token |-> NULL]
BY DEF strtok

\* No call has touched the delimiters.
LEMMA DelimsKept ==
  ASSUME LibInv, Answered({"strtok"}), NEW k \in 0 .. Len(question.calls), NEW r, AfterCalls(r, k),
         NEW c, c = asked.dst + question.delim, NEW f, f = asked.dst + EndOf(question.delim)
  PROVE  EndsAt(r.mem, c, f) /\ Delims = CharsIn(r.mem, c, f)
<1>1. /\ EndsAt(mem, c, f) /\ Delims = CharsIn(mem, c, f) /\ Len(question.calls) \in Nat
      /\ DOMAIN question.calls = 1 .. Len(question.calls)
  BY StrtokAsked
<1>2. /\ c \in Nat /\ f \in Nat /\ c <= f /\ f < MemSize /\ mem[f] = 0 /\ \A x \in c .. f - 1 : mem[x] # 0
  BY <1>1 DEF EndsAt
<1>3. \A x \in c .. f : r.mem[x] = mem[x]
  <2> SUFFICES ASSUME NEW x \in c .. f PROVE r.mem[x] = mem[x]
    OBVIOUS
  <2>1. x \in Address
    BY <1>2, MemoryAssumption DEF Address
  <2>2. \A i \in 1 .. k : Begins(i) => x \notin TextStart(i) .. TextStop(i)
    BY <1>1, StartedText
  <2> QED
    BY <2>1, <2>2 DEF AfterCalls
<1>4. f \in c .. f /\ \A x \in c .. f - 1 : x \in c .. f
  BY <1>2
<1>5. EndsAt(r.mem, c, f)
  BY <1>2, <1>3, <1>4 DEF EndsAt
<1>6. CharsIn(r.mem, c, f) = CharsIn(mem, c, f)
  BY <1>3, <1>4 DEF CharsIn
<1> QED
  BY <1>1, <1>5, <1>6

\* A call that starts a string.
LEMMA StartingCall ==
  ASSUME LibInv, Answered({"strtok"}), NEW k \in 1 .. Len(question.calls), Begins(k),
         NEW r, AfterCalls(r, k - 1)
  PROVE  Taken(mem, r.mem, CallOf(r, k, asked.dst, question), TextStart(k), TextStop(k), Delims, 1)
<1> DEFINE p == TextStart(k)
           z == TextStop(k)
           c == asked.dst + question.delim
           f == asked.dst + EndOf(question.delim)
<1>1. /\ mem \in Memory /\ Len(question.calls) \in Nat /\ DOMAIN question.calls = 1 .. Len(question.calls)
      /\ 0 \notin Delims
  BY StrtokAsked
<1>2. EndsAt(mem, p, z)
  BY <1>1, StartedText
<1>3. p \in Nat /\ z \in Nat /\ p <= z /\ z < MemSize
  BY <1>2 DEF EndsAt
<1>4. EndsAt(r.mem, c, f) /\ Delims = CharsIn(r.mem, c, f)
  <2>1. k - 1 \in 0 .. Len(question.calls)
    BY <1>1
  <2> QED
    BY <2>1, DelimsKept
<1>5. GoesOn(mem, r.mem, p, p, z, Delims, 0)
  <2>1. CountUpTo(Starts(mem, p, z, Delims), p - p) = 0
    <3>1. Starts(mem, p, z, Delims) \subseteq 1 .. z - p
      BY <1>3, StartsAt
    <3>2. p - p = 0
      BY <1>3
    <3>3. UpTo(Starts(mem, p, z, Delims), 0) = {}
      BY <3>1 DEF UpTo
    <3> QED
      BY <3>2, <3>3, FS_EmptySet DEF CountUpTo
  <2>2. \A x \in p .. z : r.mem[x] = mem[x]
    <3> SUFFICES ASSUME NEW x \in p .. z PROVE r.mem[x] = mem[x]
      OBVIOUS
    <3>1. x \in Address
      BY <1>3, MemoryAssumption DEF Address
    <3>2. \A i \in 1 .. k - 1 : Begins(i) => x \notin TextStart(i) .. TextStop(i)
      <4> SUFFICES ASSUME NEW i \in 1 .. k - 1, Begins(i) PROVE x \notin TextStart(i) .. TextStop(i)
        OBVIOUS
      <4>1. i \in DOMAIN question.calls \ {k} /\ k \in DOMAIN question.calls
        BY <1>1
      <4> QED
        BY <4>1, StartedText
    <3> QED
      BY <3>1, <3>2 DEF AfterCalls
  <2>3. p \in p .. z
    BY <1>3
  <2> HIDE DEF p, z
  <2> QED
    BY <2>1, <2>2, <2>3 DEF GoesOn
<1>6. CallOf(r, k, asked.dst, question) = strtok(r.mem, r.last, p, c)
  BY DEF CallOf, Begins, TextStart
<1>7. p = IF p = NULL THEN r.last ELSE p
  BY <1>3, PointerAssumption
<1>8. DOMAIN r.mem = Address /\ 0 \in Nat /\ 0 + 1 = 1
  BY DEF AfterCalls
<1> HIDE DEF p, z, c, f
<1>9. Taken(mem, r.mem, strtok(r.mem, r.last, p, c), p, z, Delims, 0 + 1)
  BY <1>1, <1>2, <1>4, <1>5, <1>7, <1>8, StrtokTakes
<1> QED
  BY <1>6, <1>8, <1>9 DEF p, z

\* A call that goes on with the string that the j-th call started.
LEMMA GoingOnCall ==
  ASSUME LibInv, Answered({"strtok"}), NEW k \in 1 .. Len(question.calls), ~Begins(k),
         NEW r, AfterCalls(r, k - 1), NEW j \in 1 .. k - 1, Current(j, k - 1)
  PROVE  Taken(mem, r.mem, CallOf(r, k, asked.dst, question), TextStart(j), TextStop(j), Delims, k - j + 1)
<1> DEFINE p == TextStart(j)
           z == TextStop(j)
           c == asked.dst + question.delim
           f == asked.dst + EndOf(question.delim)
           n == k - j
           starts == Starts(mem, p, z, Delims)
<1>1. /\ mem \in Memory /\ Len(question.calls) \in Nat /\ DOMAIN question.calls = 1 .. Len(question.calls)
      /\ 0 \notin Delims
  BY StrtokAsked
<1>2. EndsAt(mem, p, z)
  BY <1>1, StartedText DEF Current
<1>3. p \in Nat /\ z \in Nat /\ p <= z /\ z < MemSize
  BY <1>2 DEF EndsAt
<1>4. EndsAt(r.mem, c, f) /\ Delims = CharsIn(r.mem, c, f)
  <2>1. k - 1 \in 0 .. Len(question.calls)
    BY <1>1
  <2> QED
    BY <2>1, DelimsKept
<1>5. n \in Nat /\ (k - 1) - j + 1 = n /\ k - j + 1 = n + 1
  BY <1>1
<1>6. CallOf(r, k, asked.dst, question) = strtok(r.mem, r.last, NULL, c)
  BY DEF CallOf, Begins
<1>7. DOMAIN r.mem = Address /\ Remains(mem, r, p, z, Delims, n)
  BY <1>5 DEF AfterCalls
<1> HIDE DEF p, z, c, f, n, starts
<1>8. CASE r.last \in Nat /\ GoesOn(mem, r.mem, r.last, p, z, Delims, n)
  <2>1. r.last = IF NULL = NULL THEN r.last ELSE NULL
    OBVIOUS
  <2>2. Taken(mem, r.mem, strtok(r.mem, r.last, NULL, c), p, z, Delims, n + 1)
    BY <1>1, <1>2, <1>4, <1>5, <1>7, <1>8, <2>1, StrtokTakes
  <2> QED
    BY <1>5, <1>6, <2>2 DEF p, z
<1>9. CASE r.last = NULL /\ Cardinality(starts) <= n
  <2> DEFINE after == strtok(r.mem, r.last, NULL, c)
  <2>1. after = [mem |-> r.mem, last |-> NULL, token |-> NULL]
    BY <1>9, StrtokOfNull
  <2>2. Cardinality(starts) \in Nat
    <3>1. starts \subseteq 1 .. z - p
      BY <1>3, StartsAt DEF starts
    <3>2. z - p \in Nat /\ 0 \in Int
      BY <1>3
    <3> QED
      BY <3>1, <3>2, StartsFinite
  <2>3. Cardinality(starts) <= n + 1 /\ Cardinality(starts) < n + 1 /\ n + 1 \in Nat
    BY <1>5, <1>9, <2>2
  <2>4. Part(Chars(mem, p, z), Delims, n + 1) = << >>
    BY <2>2, <2>3, NoPart DEF starts, Starts
  <2> HIDE DEF after
  <2>5. Remains(mem, after, p, z, Delims, n + 1)
    BY <2>1, <2>3 DEF Remains, starts
  <2>6. TokenText(after) = << >>
    BY <2>1 DEF TokenText
  <2>7. Taken(mem, r.mem, after, p, z, Delims, n + 1)
    BY <1>7, <2>1, <2>4, <2>5, <2>6 DEF Taken
  <2> QED
    BY <1>5, <1>6, <2>7 DEF p, z, after
<1> QED
  BY <1>7, <1>8, <1>9 DEF Remains, starts

\* Where a call has started a string, there is a last one.
LEMMA CurrentExists ==
  ASSUME NEW k \in Nat, ~NoneUpTo(k)
  PROVE  \E j \in 1 .. k : Current(j, k)
<1> DEFINE T == {l \in Nat : k - l \in 1 .. k /\ Begins(k - l)}
<1>1. T # {}
  <2>1. PICK i \in 1 .. k : Begins(i)
    BY DEF NoneUpTo
  <2>2. k - i \in Nat /\ k - (k - i) = i
    OBVIOUS
  <2>3. k - i \in T
    BY <2>1, <2>2
  <2> QED
    BY <2>3
<1>2. PICK l \in T : \A h \in T : l <= h
  BY <1>1, Smallest
<1>3. l \in Nat /\ k - l \in 1 .. k /\ Begins(k - l)
  OBVIOUS
<1>4. ASSUME NEW i \in (k - l) + 1 .. k, Begins(i)
      PROVE  FALSE
  <2>1. k - i \in Nat /\ k - (k - i) = i /\ i \in 1 .. k /\ k - i < l
    BY <1>3
  <2>2. k - i \in T
    BY <1>4, <2>1
  <2> QED
    BY <1>2, <1>3, <2>1, <2>2
<1>5. Current(k - l, k)
  BY <1>3, <1>4 DEF Current
<1> QED
  BY <1>3, <1>5

LEMMA OneCurrent ==
  ASSUME NEW k \in Nat, NEW i \in 1 .. k, NEW j \in 1 .. k, Current(i, k), Current(j, k)
  PROVE  i = j
<1>1. ~(i < j) /\ ~(j < i)
  <2>1. i < j => j \in i + 1 .. k
    OBVIOUS
  <2>2. j < i => i \in j + 1 .. k
    OBVIOUS
  <2> QED
    BY <2>1, <2>2 DEF Current
<1> QED
  BY <1>1

LEMMA TakenKeeps ==
  ASSUME NEW k \in Nat \ {0}, NEW r, AfterCalls(r, k - 1), NEW j \in 1 .. k, Current(j, k), NEW after,
         Taken(mem, r.mem, after, TextStart(j), TextStop(j), Delims, k - j + 1)
  PROVE  AfterCalls(after, k)
<1>1. \A i \in 1 .. k - 1 : i \in 1 .. k
  OBVIOUS
<1>2. DOMAIN after.mem = Address
  BY DEF Taken
<1>3. ASSUME NEW x \in Address, \A i \in 1 .. k : Begins(i) => x \notin TextStart(i) .. TextStop(i)
      PROVE  after.mem[x] = mem[x]
  <2>1. r.mem[x] = mem[x]
    BY <1>1, <1>3 DEF AfterCalls
  <2>2. after.mem[x] = r.mem[x]
    BY <1>3 DEF Taken, Current
  <2> QED
    BY <2>1, <2>2
<1>4. ~NoneUpTo(k)
  BY DEF NoneUpTo, Current
<1>5. ASSUME NEW i \in 1 .. k, Current(i, k)
      PROVE  /\ Remains(mem, after, TextStart(i), TextStop(i), Delims, k - i + 1)
             /\ TokenText(after) = Part(Chars(mem, TextStart(i), TextStop(i)), Delims, k - i + 1)
  <2>1. i = j
    BY <1>5, OneCurrent
  <2> QED
    BY <2>1 DEF Taken
<1> QED
  BY <1>2, <1>3, <1>4, <1>5 DEF AfterCalls

LEMMA CallKeeps ==
  ASSUME LibInv, Answered({"strtok"}), NEW k \in 1 .. Len(question.calls), NEW r, AfterCalls(r, k - 1)
  PROVE  AfterCalls(CallOf(r, k, asked.dst, question), k)
<1> DEFINE after == CallOf(r, k, asked.dst, question)
<1>1. Len(question.calls) \in Nat
  BY StrtokAsked
<1>2. k \in Nat \ {0} /\ k \in 1 .. k /\ k - 1 \in Nat
  BY <1>1
<1>3. CASE Begins(k)
  <2>1. Current(k, k)
    BY <1>2, <1>3 DEF Current
  <2>2. Taken(mem, r.mem, after, TextStart(k), TextStop(k), Delims, 1)
    BY <1>3, StartingCall
  <2>3. k - k + 1 = 1
    BY <1>2
  <2> HIDE DEF after
  <2>4. Taken(mem, r.mem, after, TextStart(k), TextStop(k), Delims, k - k + 1)
    BY <2>2, <2>3
  <2>5. AfterCalls(after, k)
    BY <1>2, <2>1, <2>4, TakenKeeps
  <2> QED
    BY <2>5 DEF after
<1>4. CASE ~Begins(k) /\ ~NoneUpTo(k - 1)
  <2>1. PICK j \in 1 .. k - 1 : Current(j, k - 1)
    BY <1>2, <1>4, CurrentExists
  <2>2. Taken(mem, r.mem, after, TextStart(j), TextStop(j), Delims, k - j + 1)
    BY <1>4, <2>1, GoingOnCall
  <2>3. j \in 1 .. k /\ Current(j, k)
    <3>1. \A i \in j + 1 .. k : i = k \/ i \in j + 1 .. k - 1
      BY <1>2
    <3>2. j \in 1 .. k
      BY <1>2
    <3> QED
      BY <1>4, <2>1, <3>1, <3>2 DEF Current
  <2> HIDE DEF after
  <2>4. AfterCalls(after, k)
    BY <1>2, <2>2, <2>3, TakenKeeps
  <2> QED
    BY <2>4 DEF after
<1>5. CASE ~Begins(k) /\ NoneUpTo(k - 1)
  <2>1. r.last = NULL
    BY <1>5 DEF AfterCalls
  <2>2. after = strtok(r.mem, r.last, NULL, asked.dst + question.delim)
    BY <1>5 DEF CallOf, Begins
  <2>3. after = [mem |-> r.mem, last |-> NULL, token |-> NULL]
    BY <2>1, <2>2, StrtokOfNull
  <2>4. \A i \in 1 .. k : i = k \/ i \in 1 .. k - 1
    BY <1>2
  <2>5. \A j \in 1 .. k : ~Current(j, k)
    BY <1>5, <2>4 DEF Current, NoneUpTo
  <2>6. ASSUME NEW x \in Address, \A i \in 1 .. k : Begins(i) => x \notin TextStart(i) .. TextStop(i)
        PROVE  r.mem[x] = mem[x]
    <3>1. \A i \in 1 .. k - 1 : i \in 1 .. k
      BY <1>2
    <3> QED
      BY <2>6, <3>1 DEF AfterCalls
  <2>7. DOMAIN r.mem = Address
    BY DEF AfterCalls
  <2> HIDE DEF after
  <2>8. AfterCalls(after, k)
    BY <2>3, <2>5, <2>6, <2>7 DEF AfterCalls
  <2> QED
    BY <2>8 DEF after
<1> QED
  BY <1>3, <1>4, <1>5

LEMMA AllCalls ==
  ASSUME LibInv, Answered({"strtok"}), NEW f,
         AreCalls(f, Len(question.calls), mem, asked.dst, question), NEW i \in 0 .. Len(question.calls)
  PROVE  AfterCalls(f[i], i)
<1>1. Len(question.calls) \in Nat /\ mem \in Memory
  BY StrtokAsked
<1> DEFINE n == Len(question.calls)
           T == {k \in 0 .. n : ~AfterCalls(f[k], k)}
<1>2. SUFFICES ASSUME T # {} PROVE FALSE
  OBVIOUS
<1>3. PICK k \in T : \A j \in T : k <= j
  <2>1. T \in SUBSET Nat
    BY <1>1
  <2> HIDE DEF T
  <2> QED
    BY <1>2, <2>1, Smallest
<1>4. k \in 0 .. n /\ ~AfterCalls(f[k], k)
  OBVIOUS
<1>5. f[k] = IF k = 0 THEN Before(mem) ELSE CallOf(f[k - 1], k, asked.dst, question)
  BY <1>4 DEF AreCalls
<1>6. CASE k = 0
  <2>1. f[k].mem = mem /\ f[k].last = NULL /\ f[k].token = NULL
    BY <1>5, <1>6 DEF Before
  <2>2. DOMAIN mem = Address
    BY <1>1 DEF Memory
  <2>3. 1 .. k = {}
    BY <1>6
  <2>4. AfterCalls(f[k], k)
    BY <2>1, <2>2, <2>3 DEF AfterCalls
  <2> QED
    BY <1>4, <2>4
<1>7. CASE k # 0
  <2>1. k - 1 \in 0 .. n /\ k \in 1 .. n /\ ~(k <= k - 1)
    BY <1>1, <1>4, <1>7
  <2>2. AfterCalls(f[k - 1], k - 1)
    BY <1>3, <2>1
  <2>3. AfterCalls(f[k], k)
    BY <1>5, <1>7, <2>1, <2>2, CallKeeps
  <2> QED
    BY <1>4, <2>3
<1> QED
  BY <1>6, <1>7

\* What the i-th call returns.
Returns(i) ==
  LET started == {j \in 1 .. i : question.calls[j] # NULL} IN
  answer[i] =
    IF started = {} THEN << >>
    ELSE Part(Text(question.calls[Max(started)]), CharsAt(question.delim), i - Max(started) + 1)

LEMMA StrtokRight ==
  ASSUME LibInv, Answered({"strtok"}), NEW i \in DOMAIN question.calls
  PROVE  Returns(i)
<1> DEFINE started == {j \in 1 .. i : question.calls[j] # NULL}
<1>1. /\ Len(question.calls) \in Nat /\ DOMAIN question.calls = 1 .. Len(question.calls)
      /\ answer = Tokens(mem, asked.dst, question)
  BY StrtokAsked
<1>2. PICK f : TokensBy(f, mem, asked.dst, question)
  BY <1>1, TokensAre
<1>3. answer[i] = TokenText(f[i]) /\ i \in Nat
  BY <1>1, <1>2 DEF TokensBy
<1>4. AfterCalls(f[i], i)
  <2>1. i \in 0 .. Len(question.calls)
    BY <1>1
  <2> QED
    BY <1>2, <2>1, AllCalls DEF TokensBy
<1>5. CASE NoneUpTo(i)
  <2>1. started = {}
    BY <1>5 DEF NoneUpTo, Begins
  <2>2. TokenText(f[i]) = << >>
    BY <1>4, <1>5 DEF AfterCalls, TokenText
  <2> QED
    BY <1>3, <2>1, <2>2 DEF Returns
<1>6. CASE ~NoneUpTo(i)
  <2>1. PICK j \in 1 .. i : Current(j, i)
    BY <1>3, <1>6, CurrentExists
  <2>2. j \in started /\ started \subseteq Int /\ \A h \in started : h <= j
    <3>1. j \in started
      BY <2>1 DEF Current, Begins
    <3>2. ASSUME NEW h \in started PROVE h <= j
      <4>1. h \in 1 .. i /\ Begins(h)
        BY DEF Begins
      <4>2. h > j => h \in j + 1 .. i
        BY <4>1
      <4> QED
        BY <2>1, <4>1, <4>2 DEF Current
    <3> QED
      BY <3>1, <3>2
  <2>3. started # {}
    BY <2>2
  <2> HIDE DEF started
  <2>4. Max(started) = j
    BY <2>2, MaxIs
  <2>5. Text(question.calls[j]) = Chars(mem, TextStart(j), TextStop(j))
    <3>1. j \in DOMAIN question.calls /\ Begins(j)
      BY <1>1, <2>1 DEF Current
    <3> QED
      BY <3>1, StartedText
  <2>6. TokenText(f[i]) = Part(Chars(mem, TextStart(j), TextStop(j)), Delims, i - j + 1)
    BY <1>4, <2>1 DEF AfterCalls
  <2>7. answer[i] = Part(Text(question.calls[Max(started)]), CharsAt(question.delim), i - Max(started) + 1)
    BY <1>3, <2>4, <2>5, <2>6 DEF Delims
  <2> QED
    BY <2>3, <2>7 DEF Returns, started
<1> QED
  BY <1>5, <1>6

\* The writing functions and strtok do what string.h promises, in every run.
THEOREM Writing == LibSpec => []StringsWritten
<1>1. LibInv => StringsWritten
  <2> SUFFICES ASSUME LibInv PROVE StringsWritten
    OBVIOUS
  <2>1. ASSUME Answered({"memset", "strcpy", "strncpy", "strcat", "strncat"}),
               question.fn \in {"strcat", "strncat"} => Measured(0),
               question.fn \in {"strcpy", "strcat"} => Measured(question.other)
        PROVE  LET w == ToBeWritten
                   at(a) == a - (asked.dst + w.at) + 1
               IN  answer = [a \in Address |-> IF at(a) \in DOMAIN w.bytes THEN w.bytes[at(a)] ELSE mem[a]]
    BY <2>1, WritersRight
  <2>2. ASSUME Answered({"strtok"}), NEW i \in DOMAIN question.calls
        PROVE  LET started == {j \in 1 .. i : question.calls[j] # NULL} IN
               answer[i] =
                 IF started = {} THEN << >>
                 ELSE Part(Text(question.calls[Max(started)]), CharsAt(question.delim), i - Max(started) + 1)
    <3>1. Returns(i)
      BY <2>2, StrtokRight
    <3> QED
      BY <3>1 DEF Returns
  <2> QED
    BY <2>1, <2>2 DEF StringsWritten
<1> QED
  BY LibInitially, LibInductive, <1>1, PTL DEF LibSpec

(***************************************************************************)
(* Reading numbers: the limits.                                            *)
(***************************************************************************)

LEMMA Products ==
  ASSUME NEW a \in Nat, NEW b \in Nat, NEW s \in Nat, a <= b
  PROVE  a * s \in Nat /\ b * s \in Nat /\ a * s <= b * s
<1>1. PICK d \in Nat : b = a + d
  <2>1. b - a \in Nat /\ b = a + (b - a)
    OBVIOUS
  <2> QED
    BY <2>1
<1>2. b * s = (a * s) + (d * s) /\ d * s \in Nat /\ a * s \in Nat
  BY <1>1
<1> QED
  BY <1>2

LEMMA QuotientAndRest ==
  ASSUME NEW n \in Nat, NEW b \in Nat \ {0}
  PROVE  n \div b \in Nat /\ n % b \in 0 .. b - 1 /\ n = ((n \div b) * b) + (n % b)
OBVIOUS

\* The comparison of a value with cutoff and of a digit with cutlim: one more digit and
\* the value would exceed max.
LEMMA CutoffTells ==
  ASSUME NEW v \in Nat, NEW base \in Nat \ {0}, NEW c \in 0 .. base - 1, NEW max \in Nat
  PROVE  v > max \div base \/ (v = max \div base /\ c > max % base) <=> (v * base) + c > max
<1> DEFINE q == max \div base
           r == max % base
<1>1. q \in Nat /\ r \in 0 .. base - 1 /\ max = (q * base) + r
  BY QuotientAndRest
<1> HIDE DEF q, r
<1>2. v * base \in Nat /\ q * base \in Nat
  BY <1>1
<1>3. CASE v > q
  <2>1. (q + 1) * base <= v * base
    BY <1>1, <1>3, Products
  <2>2. (q + 1) * base = (q * base) + base
    BY <1>1
  <2>3. (v * base) + c > max
    BY <1>1, <1>2, <2>1, <2>2
  <2> QED
    BY <1>3, <2>3 DEF q
<1>4. CASE v = q
  <2>1. v * base = q * base
    BY <1>4
  <2>2. (v * base) + c > max <=> c > r
    BY <1>1, <1>2, <2>1
  <2> QED
    BY <1>1, <1>4, <2>2 DEF q, r
<1>5. CASE v < q
  <2>1. (v + 1) * base <= q * base
    BY <1>1, <1>5, Products
  <2>2. (v + 1) * base = (v * base) + base
    OBVIOUS
  <2>3. ~((v * base) + c > max)
    BY <1>1, <1>2, <2>1, <2>2
  <2>4. ~(v > q) /\ v # q
    BY <1>1, <1>5
  <2> QED
    BY <2>3, <2>4 DEF q
<1> QED
  BY <1>1, <1>3, <1>4, <1>5

\* r is what the loop has when it has read k digits, which spell out v, with this limit.
Most(limit) == IF limit < 0 THEN -limit ELSE limit

Counted(r, v, k, limit) ==
  /\ r \in [acc : Int, any : Int] /\ v \in Nat
  /\ r.any = IF v > Most(limit) THEN -1 ELSE IF k = 0 THEN 0 ELSE 1
  /\ v <= Most(limit) => r.acc = IF limit < 0 THEN -v ELSE v
  /\ limit < 0 /\ v > Most(limit) => r.acc = limit

LEMMA UpCounts ==
  ASSUME NEW max \in 0 .. ULONG_MAX, NEW base \in Nat \ {0}, NEW c \in 0 .. base - 1,
         NEW v, NEW r, NEW k \in Nat \ {0}, Counted(r, v, k - 1, max)
  PROVE  Counted(Up(r, c, base, max), (v * base) + c, k, max)
<1> DEFINE next == (v * base) + c
           after == Up(r, c, base, max)
<1>1. /\ r \in [acc : Int, any : Int] /\ v \in Nat /\ max \in Nat
      /\ (r.any < 0) <=> v > max
      /\ v <= max => r.acc = v
  BY DEF Counted, Most
<1>2. next \in Nat /\ v <= next
  <2>1. v * 1 <= base * v /\ base * v = v * base /\ base * v \in Nat
    <3>1. 1 <= base /\ 1 * v = v
      BY <1>1
    <3>2. 1 * v <= base * v
      BY <1>1, <3>1, Products
    <3> QED
      BY <1>1, <3>1, <3>2
  <2> QED
    BY <1>1, <2>1
<1>3. v <= max =>
        (r.acc > max \div base \/ (r.acc = max \div base /\ c > max % base) <=> next > max)
  <2> HIDE DEF after
  <2>1. v > max \div base \/ (v = max \div base /\ c > max % base) <=> next > max
    BY <1>1, CutoffTells
  <2> HIDE DEF next
  <2> QED
    BY <1>1, <2>1
<1> HIDE DEF next
<1>4. CASE next > max
  <2>1. r.any < 0 \/ r.acc > max \div base \/ (r.acc = max \div base /\ c > max % base)
    BY <1>1, <1>2, <1>3, <1>4
  <2>2. after = [r EXCEPT !.any = -1]
    BY <2>1 DEF Up
  <2>3. after \in [acc : Int, any : Int] /\ after.any = -1
    BY <1>1, <2>2
  <2> HIDE DEF after
  <2>4. Counted(after, next, k, max)
    BY <1>1, <1>2, <1>4, <2>3 DEF Counted, Most
  <2> QED
    BY <2>4 DEF after, next
<1>5. CASE next <= max
  <2>1. ~(r.any < 0) /\ ~(r.acc > max \div base \/ (r.acc = max \div base /\ c > max % base))
    BY <1>1, <1>2, <1>3, <1>5
  <2>2. after = [acc |-> U((r.acc * base) + c), any |-> 1]
    BY <2>1 DEF Up
  <2>3. r.acc = v
    BY <1>1, <1>2, <1>5
  <2>4. U(next) = next
    BY <1>2, <1>5, LongLimitAssumption DEF U, ULONG_MAX
  <2>5. after = [acc |-> next, any |-> 1]
    BY <2>2, <2>3, <2>4 DEF next
  <2> HIDE DEF after
  <2>6. Counted(after, next, k, max)
    BY <1>1, <1>2, <1>5, <2>5 DEF Counted, Most
  <2> QED
    BY <2>6 DEF after, next
<1> QED
  BY <1>1, <1>2, <1>4, <1>5

\* The cutoff and cutlim of strtoll for negative numbers.
LEMMA DownLimits ==
  ASSUME NEW base \in Nat \ {0}
  PROVE  /\ Quotient(LONG_MIN, base) = -(LongLimit \div base)
         /\ Remainder(LONG_MIN, base) = -(LongLimit % base)
         /\ LongLimit \div base \in Nat /\ LongLimit % base \in Nat
<1>1. /\ LongLimit \div base \in Nat /\ LongLimit % base \in Nat
      /\ LongLimit = ((LongLimit \div base) * base) + (LongLimit % base)
  BY LongLimitAssumption, QuotientAndRest
<1>2. LONG_MIN < 0 /\ -LONG_MIN = LongLimit
  BY LongLimitAssumption DEF LONG_MIN
<1>3. Quotient(LONG_MIN, base) = -(LongLimit \div base)
  BY <1>2 DEF Quotient
<1>4. Remainder(LONG_MIN, base) = LONG_MIN - (base * (-(LongLimit \div base)))
  BY <1>3 DEF Remainder
<1>5. base * (-(LongLimit \div base)) = -((LongLimit \div base) * base)
  BY <1>1
<1>6. Remainder(LONG_MIN, base) = -(LongLimit % base)
  <2>1. (LongLimit \div base) * base \in Int
    BY <1>1
  <2> QED
    BY <1>1, <1>4, <1>5, <2>1, LongLimitAssumption DEF LONG_MIN
<1> QED
  BY <1>1, <1>3, <1>6

LEMMA DownCounts ==
  ASSUME NEW base \in Nat \ {0}, NEW c \in 0 .. base - 1,
         NEW v, NEW r, NEW k \in Nat \ {0}, Counted(r, v, k - 1, LONG_MIN)
  PROVE  Counted(Down(r, c, base), (v * base) + c, k, LONG_MIN)
<1> DEFINE next == (v * base) + c
           after == Down(r, c, base)
           max == LongLimit
           q == max \div base
           l == max % base
<1>1. LONG_MIN < 0 /\ Most(LONG_MIN) = max /\ max \in Nat /\ LONG_MIN = -max /\ LONG_MIN \in Int
  BY LongLimitAssumption DEF LONG_MIN, Most
<1>2. /\ r \in [acc : Int, any : Int] /\ v \in Nat
      /\ (r.any < 0) <=> v > max
      /\ v <= max => r.acc = -v
      /\ v > max => r.acc = LONG_MIN /\ r.any = -1
  BY <1>1 DEF Counted
<1>3. next \in Nat /\ v <= next
  <2>1. v * 1 <= base * v /\ base * v = v * base /\ base * v \in Nat
    <3>1. 1 <= base /\ 1 * v = v
      BY <1>2
    <3>2. 1 * v <= base * v
      BY <1>2, <3>1, Products
    <3> QED
      BY <1>2, <3>1, <3>2
  <2> QED
    BY <1>2, <2>1
<1>4. v > q \/ (v = q /\ c > l) <=> next > max
  BY <1>1, <1>2, CutoffTells
<1>5. q \in Nat /\ l \in Nat /\ Quotient(LONG_MIN, base) = -q /\ Remainder(LONG_MIN, base) = -l
  BY DownLimits
<1>6. after = IF r.any < 0 THEN r
              ELSE IF r.acc < -q \/ (r.acc = -q /\ c > l) THEN [acc |-> LONG_MIN, any |-> -1]
              ELSE [acc |-> (r.acc * base) - c, any |-> 1]
  <2> DEFINE rest == Remainder(LONG_MIN, base)
             cutoff == Quotient(LONG_MIN, base) + (IF rest > 0 THEN 1 ELSE 0)
             cutlim == IF rest > 0 THEN base - rest ELSE -rest
  <2>1. cutoff = -q /\ cutlim = l
    BY <1>5
  <2>2. after = IF r.any < 0 THEN r
                ELSE IF r.acc < cutoff \/ (r.acc = cutoff /\ c > cutlim) THEN [acc |-> LONG_MIN, any |-> -1]
                ELSE [acc |-> (r.acc * base) - c, any |-> 1]
    BY DEF Down
  <2> HIDE DEF cutoff, cutlim, after
  <2> QED
    BY <2>1, <2>2
<1> HIDE DEF next, q, l, after, max
<1>7. v <= max => (r.acc < -q \/ (r.acc = -q /\ c > l) <=> next > max)
  BY <1>2, <1>4, <1>5
<1>8. CASE next > max
  <2>1. after = [acc |-> LONG_MIN, any |-> -1]
    <3>1. CASE v > max
      <4>1. r = [acc |-> LONG_MIN, any |-> -1]
        BY <1>2, <3>1
      <4> QED
        BY <1>2, <1>6, <3>1, <4>1
    <3>2. CASE v <= max
      BY <1>1, <1>2, <1>6, <1>7, <1>8, <3>2
    <3> QED
      BY <1>1, <1>2, <3>1, <3>2
  <2>2. Counted(after, next, k, LONG_MIN)
    BY <1>1, <1>3, <1>8, <2>1 DEF Counted
  <2> QED
    BY <2>2 DEF after, next
<1>9. CASE next <= max
  <2>1. v <= max
    BY <1>1, <1>2, <1>3, <1>9
  <2>2. after = [acc |-> (r.acc * base) - c, any |-> 1]
    BY <1>1, <1>2, <1>3, <1>6, <1>7, <1>9, <2>1
  <2>3. (r.acc * base) - c = -next
    <3>1. r.acc = -v /\ (-v) * base = -(v * base) /\ v * base \in Nat
      BY <1>2, <2>1
    <3> QED
      BY <3>1 DEF next
  <2>4. after = [acc |-> -next, any |-> 1]
    BY <2>2, <2>3
  <2>5. Counted(after, next, k, LONG_MIN)
    BY <1>1, <1>3, <1>9, <2>4 DEF Counted
  <2> QED
    BY <2>5 DEF after, next
<1> QED
  BY <1>1, <1>3, <1>8, <1>9

LEMMA TowardsCounts ==
  ASSUME NEW limit, limit = LONG_MIN \/ limit \in 0 .. ULONG_MAX,
         NEW base \in Nat \ {0}, NEW c \in 0 .. base - 1,
         NEW v, NEW r, NEW k \in Nat \ {0}, Counted(r, v, k - 1, limit)
  PROVE  Counted(Towards(limit, r, c, base), (v * base) + c, k, limit)
<1>1. CASE limit = LONG_MIN
  <2>1. LONG_MIN < 0
    BY LongLimitAssumption DEF LONG_MIN
  <2>2. Towards(limit, r, c, base) = Down(r, c, base)
    BY <1>1, <2>1 DEF Towards
  <2> QED
    BY <1>1, <2>2, DownCounts
<1>2. CASE limit \in 0 .. ULONG_MAX
  <2>1. Towards(limit, r, c, base) = Up(r, c, base, limit)
    BY <1>2 DEF Towards
  <2> QED
    BY <1>2, <2>1, UpCounts
<1> QED
  BY <1>1, <1>2

(***************************************************************************)
(* Reading numbers: the loop over the digits.                              *)
(***************************************************************************)

IsLoop(f, n, m, first, base, value, limit) ==
  f = [k \in 0 .. n |-> IF k = 0 THEN [acc |-> 0, any |-> 0]
                        ELSE Towards(limit, f[k - 1], value[m[first + k - 1]], base)]

\* The numbers that the first digits spell out.
AreValues(f, n, radix, digits) ==
  f = [k \in 0 .. n |-> IF k = 0 THEN 0 ELSE (f[k - 1] * radix) + digits[k]]

LEMMA LoopExists ==
  ASSUME NEW n \in Nat, NEW m, NEW first, NEW base, NEW value, NEW limit
  PROVE  \E f : IsLoop(f, n, m, first, base, value, limit)
<1> DEFINE T == {k \in Nat : ~\E f : IsLoop(f, k, m, first, base, value, limit)}
           Next1(r, k) == Towards(limit, r, value[m[first + k - 1]], base)
           Start == [acc |-> 0, any |-> 0]
<1>1. SUFFICES T = {}
  OBVIOUS
<1>2. SUFFICES ASSUME T # {} PROVE FALSE
  OBVIOUS
<1>3. PICK k \in T : \A j \in T : k <= j
  BY <1>2, Smallest
<1>4. k # 0
  <2> DEFINE f == [j \in 0 .. 0 |-> Start]
  <2>1. IsLoop(f, 0, m, first, base, value, limit)
    BY DEF IsLoop
  <2> QED
    BY <2>1
<1>5. k - 1 \in Nat /\ k \in Nat
  BY <1>4
<1>6. PICK f : IsLoop(f, k - 1, m, first, base, value, limit)
  <2>1. k - 1 \notin T
    BY <1>3, <1>5
  <2> QED
    BY <1>5, <2>1
<1> DEFINE g == [j \in 0 .. k |-> IF j = k THEN Next1(f[k - 1], k) ELSE f[j]]
<1> HIDE DEF Start
<1>7. ASSUME NEW j \in 0 .. k
      PROVE  g[j] = IF j = 0 THEN Start ELSE Next1(g[j - 1], j)
  <2>1. CASE j = k
    <3>1. j - 1 \in 0 .. k /\ j - 1 # k
      BY <1>4, <1>5, <2>1
    <3>2. g[j - 1] = f[k - 1]
      BY <2>1, <3>1
    <3> QED
      BY <1>4, <2>1, <3>2
  <2>2. CASE j # k
    <3>1. j \in 0 .. k - 1
      BY <1>5, <2>2
    <3>2. f[j] = IF j = 0 THEN Start ELSE Next1(f[j - 1], j)
      BY <1>6, <3>1 DEF IsLoop, Start
    <3>3. j # 0 => j - 1 \in 0 .. k /\ j - 1 # k
      BY <1>5
    <3>4. j # 0 => g[j - 1] = f[j - 1]
      BY <3>3
    <3> QED
      BY <2>2, <3>2, <3>4
  <2> QED
    BY <2>1, <2>2
<1>8. g = [j \in 0 .. k |-> IF j = 0 THEN Start ELSE Next1(g[j - 1], j)]
  <2>1. g = [j \in 0 .. k |-> g[j]]
    OBVIOUS
  <2> HIDE DEF g
  <2> QED
    BY <1>7, <2>1
<1>9. IsLoop(g, k, m, first, base, value, limit)
  <2> HIDE DEF g
  <2> QED
    BY <1>8 DEF IsLoop, Start
<1> QED
  BY <1>9

LEMMA ValuesExist ==
  ASSUME NEW n \in Nat, NEW radix, NEW digits
  PROVE  \E f : AreValues(f, n, radix, digits)
<1> DEFINE T == {k \in Nat : ~\E f : AreValues(f, k, radix, digits)}
<1>1. SUFFICES T = {}
  OBVIOUS
<1>2. SUFFICES ASSUME T # {} PROVE FALSE
  OBVIOUS
<1>3. PICK k \in T : \A j \in T : k <= j
  BY <1>2, Smallest
<1>4. k # 0
  <2> DEFINE f == [j \in 0 .. 0 |-> 0]
  <2>1. AreValues(f, 0, radix, digits)
    BY DEF AreValues
  <2> QED
    BY <2>1
<1>5. k - 1 \in Nat /\ k \in Nat
  BY <1>4
<1>6. PICK f : AreValues(f, k - 1, radix, digits)
  <2>1. k - 1 \notin T
    BY <1>3, <1>5
  <2> QED
    BY <1>5, <2>1
<1> DEFINE g == [j \in 0 .. k |-> IF j = k THEN (f[k - 1] * radix) + digits[k] ELSE f[j]]
<1>7. ASSUME NEW j \in 0 .. k
      PROVE  g[j] = IF j = 0 THEN 0 ELSE (g[j - 1] * radix) + digits[j]
  <2>1. CASE j = k
    <3>1. j - 1 \in 0 .. k /\ j - 1 # k
      BY <1>4, <1>5, <2>1
    <3>2. g[j - 1] = f[k - 1]
      BY <2>1, <3>1
    <3> QED
      BY <1>4, <2>1, <3>2
  <2>2. CASE j # k
    <3>1. j \in 0 .. k - 1
      BY <1>5, <2>2
    <3>2. f[j] = IF j = 0 THEN 0 ELSE (f[j - 1] * radix) + digits[j]
      BY <1>6, <3>1 DEF AreValues
    <3>3. j # 0 => j - 1 \in 0 .. k /\ j - 1 # k
      BY <1>5
    <3>4. j # 0 => g[j - 1] = f[j - 1]
      BY <3>3
    <3>5. g[j] = f[j]
      BY <2>2
    <3> HIDE DEF g
    <3> QED
      BY <3>2, <3>4, <3>5
  <2> QED
    BY <2>1, <2>2
<1>8. g = [j \in 0 .. k |-> IF j = 0 THEN 0 ELSE (g[j - 1] * radix) + digits[j]]
  <2>1. g = [j \in 0 .. k |-> g[j]]
    OBVIOUS
  <2> HIDE DEF g
  <2> QED
    BY <1>7, <2>1
<1>9. AreValues(g, k, radix, digits)
  <2> HIDE DEF g
  <2> QED
    BY <1>8 DEF AreValues
<1> QED
  BY <1>9

LEMMA SpeltIs ==
  ASSUME Len(question.digits) \in Nat
  PROVE  \E f : /\ AreValues(f, Len(question.digits), question.radix, question.digits)
                /\ Spelt = f[Len(question.digits)]
<1> DEFINE n == Len(question.digits)
           f == CHOOSE h : h = [k \in 0 .. n |->
                                  IF k = 0 THEN 0 ELSE (h[k - 1] * question.radix) + question.digits[k]]
<1>1. PICK g : AreValues(g, n, question.radix, question.digits)
  BY ValuesExist
<1>2. f = [k \in 0 .. n |-> IF k = 0 THEN 0 ELSE (f[k - 1] * question.radix) + question.digits[k]]
  <2>1. g = [k \in 0 .. n |-> IF k = 0 THEN 0 ELSE (g[k - 1] * question.radix) + question.digits[k]]
    BY <1>1 DEF AreValues
  <2> QED
    BY <2>1
<1>3. Spelt = f[n]
  BY DEF Spelt
<1> HIDE DEF f
<1>4. AreValues(f, n, question.radix, question.digits)
  BY <1>2 DEF AreValues
<1> QED
  BY <1>3, <1>4

\* What the loop returns that ends at end.
LoopGives(f, m, first, base, value, limit, end) ==
  /\ IsLoop(f, end - first, m, first, base, value, limit)
  /\ Digits(m, first, base, value, limit)
       = [acc |-> f[end - first].acc, any |-> f[end - first].any, end |-> end]

LEMMA DigitsIs ==
  ASSUME NEW m, NEW first \in Nat, NEW base, NEW value, NEW limit, NEW end \in Nat, first <= end,
         end = LoopEnd(first, 1, {a \in Nat : ~isalnum(m[a]) \/ value[m[a]] >= base})
  PROVE  \E f : LoopGives(f, m, first, base, value, limit, end)
<1> DEFINE n == end - first
           Rec(h) == [k \in 0 .. n |->
                        IF k = 0 THEN [acc |-> 0, any |-> 0]
                        ELSE Towards(limit, h[k - 1], value[m[first + k - 1]], base)]
           f == CHOOSE h : h = Rec(h)
<1>1. PICK g : IsLoop(g, n, m, first, base, value, limit)
  <2>1. n \in Nat
    OBVIOUS
  <2> QED
    BY <2>1, LoopExists
<1>2. f = Rec(f)
  <2>1. g = Rec(g)
    BY <1>1 DEF IsLoop
  <2> QED
    BY <2>1
<1>3. Digits(m, first, base, value, limit) = [acc |-> f[n].acc, any |-> f[n].any, end |-> end]
  BY DEF Digits
<1> HIDE DEF f
<1>4. IsLoop(f, n, m, first, base, value, limit)
  BY <1>2 DEF IsLoop
<1>5. LoopGives(f, m, first, base, value, limit, end)
  BY <1>3, <1>4 DEF LoopGives
<1> QED
  BY <1>5

\* The digits at first are those of the list.
Reads(m, first, value, digits) ==
  \A k \in 1 .. Len(digits) : value[m[first + k - 1]] = digits[k]

LEMMA LoopCounts ==
  ASSUME NEW limit, limit = LONG_MIN \/ limit \in 0 .. ULONG_MAX, NEW radix \in Nat \ {0},
         NEW digits \in Seq(0 .. radix - 1), NEW m, NEW first, NEW value, Reads(m, first, value, digits),
         NEW f, IsLoop(f, Len(digits), m, first, radix, value, limit),
         NEW g, AreValues(g, Len(digits), radix, digits)
  PROVE  Counted(f[Len(digits)], g[Len(digits)], Len(digits), limit)
<1> DEFINE n == Len(digits)
           T == {k \in 0 .. n : ~Counted(f[k], g[k], k, limit)}
<1>1. n \in Nat /\ \A k \in 1 .. n : digits[k] \in 0 .. radix - 1
  OBVIOUS
<1>2. SUFFICES ASSUME T # {} PROVE FALSE
  <2>1. n \in 0 .. n
    BY <1>1
  <2> QED
    BY <2>1
<1>3. PICK k \in T : \A j \in T : k <= j
  <2>1. T \in SUBSET Nat
    BY <1>1
  <2> HIDE DEF T
  <2> QED
    BY <1>2, <2>1, Smallest
<1>4. k \in 0 .. n /\ ~Counted(f[k], g[k], k, limit)
  OBVIOUS
<1>5. CASE k = 0
  <2>1. f[k] = [acc |-> 0, any |-> 0] /\ g[k] = 0
    BY <1>4, <1>5 DEF IsLoop, AreValues
  <2>2. 0 <= Most(limit)
    BY LongLimitAssumption DEF Most, LONG_MIN, ULONG_MAX
  <2>3. Most(limit) \in Int
    BY LongLimitAssumption DEF Most, LONG_MIN, ULONG_MAX
  <2>4. Counted(f[k], g[k], k, limit)
    BY <1>5, <2>1, <2>2, <2>3 DEF Counted
  <2> QED
    BY <1>4, <2>4
<1>6. CASE k # 0
  <2>1. k \in 1 .. n /\ k - 1 \in 0 .. n /\ ~(k <= k - 1) /\ k \in Nat \ {0}
    BY <1>1, <1>4, <1>6
  <2>2. Counted(f[k - 1], g[k - 1], k - 1, limit)
    BY <1>3, <2>1
  <2>3. f[k] = Towards(limit, f[k - 1], value[m[first + k - 1]], radix)
    BY <1>4, <1>6 DEF IsLoop
  <2>4. g[k] = (g[k - 1] * radix) + digits[k]
    BY <1>4, <1>6 DEF AreValues
  <2>5. value[m[first + k - 1]] = digits[k] /\ digits[k] \in 0 .. radix - 1
    BY <1>1, <2>1 DEF Reads
  <2>6. Counted(Towards(limit, f[k - 1], digits[k], radix), (g[k - 1] * radix) + digits[k], k, limit)
    BY <2>1, <2>2, <2>5, TowardsCounts
  <2>7. Counted(f[k], g[k], k, limit)
    BY <2>3, <2>4, <2>5, <2>6
  <2> QED
    BY <1>4, <2>7
<1> QED
  BY <1>5, <1>6

(***************************************************************************)
(* Reading numbers: where the parts of the text are.                       *)
(***************************************************************************)

NumberFunctions == {"strtol", "strtoul", "strtoll", "strtoull"}

\* The offset of the first digit.
FirstDigit ==
  IF PrefixesIn(asked, question) = {} THEN NumberIn(asked) ELSE NumberIn(asked) + 2

LEMMA NumberAsked ==
  ASSUME LibInv, Answered(NumberFunctions)
  PROVE  /\ pc = "done" /\ mem \in Memory /\ asked.dst \in Nat /\ asked.length \in Nat
         /\ asked.dst + asked.length <= MemSize
         /\ answer = Answer(mem, asked.dst, question) /\ question.fn \in NumberFunctions
         /\ Spells(asked, question) /\ TextIn(asked, 0)
         /\ EndOf(0) \in 0 .. asked.length - 1 /\ BlockByte(EndOf(0)) = 0
         /\ \A i \in 0 .. EndOf(0) - 1 : BlockByte(i) # 0
         /\ \A k \in 0 .. EndOf(0) :
              /\ asked.dst + k \in Address /\ mem[asked.dst + k] = BlockByte(k)
              /\ BlockByte(k) \in 0 .. 127
<1>1. /\ pc = "done" /\ question.fn \in NumberFunctions /\ answer = Answer(mem, asked.dst, question)
      /\ KeepsContract(asked, question)
  BY AnsweredFacts
<1>2. Spells(asked, question) /\ TextIn(asked, 0)
  BY <1>1 DEF KeepsContract, NumberFunctions
<1>3. /\ asked.dst \in Nat /\ asked.length \in Nat /\ mem \in Memory
      /\ asked.dst + asked.length <= MemSize
      /\ \A k \in 0 .. asked.length - 1 : asked.dst + k \in Address /\ mem[asked.dst + k] = BlockByte(k)
  BY <1>1, BlockMoved
<1>4. /\ EndOf(0) \in 0 .. asked.length - 1 /\ BlockByte(EndOf(0)) = 0
      /\ \A i \in 0 .. EndOf(0) - 1 : BlockByte(i) # 0
  BY <1>1, <1>2, MovedText
<1>5. ASSUME NEW k \in 0 .. EndOf(0)
      PROVE  /\ asked.dst + k \in Address /\ mem[asked.dst + k] = BlockByte(k)
             /\ BlockByte(k) \in 0 .. 127
  <2>1. k \in 0 .. asked.length - 1
    BY <1>3, <1>4
  <2>2. asked.dst + k \in Address /\ mem[asked.dst + k] = BlockByte(k)
    BY <1>3, <2>1
  <2> QED
    BY <1>3, <2>2, BytesAreNumbers
<1> QED
  BY <1>1, <1>2, <1>3, <1>4, <1>5

\* The white space and the sign.
LEMMA SignFound ==
  ASSUME LibInv, Answered(NumberFunctions)
  PROVE  /\ IsNegative(mem, asked.dst) = question.negative
         /\ NumberIn(asked) \in 0 .. EndOf(0)
         /\ AfterSign(mem, asked.dst) = asked.dst + NumberIn(asked)
<1> DEFINE d == asked.dst
           e == EndOf(0)
           w == SignIn(asked)
           T == {k \in 0 .. e : ~isspace(BlockByte(k))}
           Stops == {x \in Nat : ~isspace(mem[x])}
<1>1. /\ d \in Nat /\ asked.length \in Nat /\ e \in 0 .. asked.length - 1 /\ d + asked.length <= MemSize
      /\ BlockByte(e) = 0 /\ \A i \in 0 .. e - 1 : BlockByte(i) # 0
      /\ \A k \in 0 .. e : mem[d + k] = BlockByte(k)
  BY NumberAsked
<1>2. question.negative = (BlockByte(w) = MINUS)
  BY NumberAsked DEF Spells, BlockByte
<1>3. w \in T /\ \A k \in T : w <= k
  <2>1. e \in T
    BY <1>1 DEF isspace
  <2>2. T \in SUBSET Nat
    BY <1>1
  <2>3. w = Min(T)
    BY DEF SignIn, BlockByte, EndOf
  <2> HIDE DEF T, w
  <2> QED
    BY <2>1, <2>2, <2>3, MinOf
<1>4. w \in 0 .. e /\ ~isspace(BlockByte(w)) /\ \A k \in 0 .. w - 1 : isspace(BlockByte(k))
  <2>1. \A k \in 0 .. w - 1 : k \in 0 .. e /\ ~(w <= k)
    BY <1>1, <1>3
  <2> HIDE DEF w
  <2> QED
    BY <1>3, <2>1
<1> HIDE DEF T, w, e
<1>5. AfterSpace(mem, d) = d + w
  <2>1. d + w \in Nat /\ d <= d + w /\ d + w <= MemSize /\ d + w \in Stops
    BY <1>1, <1>4, MemoryAssumption
  <2>2. ASSUME NEW x \in d .. (d + w) - 1 PROVE x \notin Stops
    <3>1. x - d \in 0 .. w - 1 /\ x - d \in 0 .. e /\ d + (x - d) = x
      BY <1>1, <1>4
    <3>2. isspace(mem[x])
      BY <1>1, <1>4, <3>1
    <3> QED
      BY <3>2
  <2> HIDE DEF Stops
  <2>3. LoopEnd(d, 1, Stops) = d + w
    BY <1>1, <2>1, <2>2, LoopEndIs
  <2> QED
    BY <2>3 DEF AfterSpace, Stops
<1>6. mem[d + w] = BlockByte(w)
  BY <1>1, <1>4
<1>7. IsNegative(mem, d) = question.negative
  BY <1>2, <1>5, <1>6 DEF IsNegative
<1>8. NumberIn(asked) = IF BlockByte(w) \in {MINUS, PLUS} THEN w + 1 ELSE w
  BY DEF NumberIn, BlockByte, w
<1>9. AfterSign(mem, d) = d + NumberIn(asked)
  <2>1. AfterSign(mem, d) = IF BlockByte(w) \in {MINUS, PLUS} THEN (d + w) + 1 ELSE d + w
    BY <1>5, <1>6 DEF AfterSign
  <2> QED
    BY <1>1, <1>4, <1>8, <2>1
<1>10. NumberIn(asked) \in 0 .. e
  <2>1. w = e => BlockByte(w) \notin {MINUS, PLUS}
    BY <1>1 DEF MINUS, PLUS
  <2> QED
    BY <1>1, <1>4, <1>8, <2>1
<1> QED
  BY <1>7, <1>9, <1>10 DEF e

\* A function that knows a prefix finds it where the contract says that it is.
LEMMA PrefixFound ==
  ASSUME LibInv, Answered(NumberFunctions), NEW letters, 0 \notin letters
  PROVE  HasPrefix(mem, asked.dst + NumberIn(asked), letters)
           <=> ByteIn(asked, NumberIn(asked)) = ZERO /\ ByteIn(asked, NumberIn(asked) + 1) \in letters
<1> DEFINE d == asked.dst
           e == EndOf(0)
           a == NumberIn(asked)
<1>1. /\ d \in Nat /\ e \in Nat /\ BlockByte(e) = 0
      /\ \A k \in 0 .. e : mem[d + k] = BlockByte(k)
  BY NumberAsked
<1>2. a \in 0 .. e
  BY SignFound
<1> HIDE DEF a, e
<1>3. mem[d + a] = BlockByte(a)
  BY <1>1, <1>2
<1>4. BlockByte(a) = ZERO => mem[(d + a) + 1] = BlockByte(a + 1)
  <2> SUFFICES ASSUME BlockByte(a) = ZERO PROVE mem[(d + a) + 1] = BlockByte(a + 1)
    OBVIOUS
  <2>1. a # e
    BY <1>1 DEF ZERO
  <2>2. a + 1 \in 0 .. e /\ d + (a + 1) = (d + a) + 1
    BY <1>1, <1>2, <2>1
  <2> QED
    BY <1>1, <2>2
<1> QED
  BY <1>3, <1>4 DEF HasPrefix, BlockByte, a

LEMMA BaseFound ==
  ASSUME LibInv, Answered(NumberFunctions),
         NEW binary, binary = IF question.fn \in {"strtol", "strtoul"} THEN B ELSE {}
  PROVE  /\ question.radix \in 2 .. 36 /\ question.base \in 0 .. 36
         /\ BaseAndDigits(mem, AfterSign(mem, asked.dst), question.base, binary)
              = [base |-> question.radix, first |-> asked.dst + FirstDigit]
<1> DEFINE d == asked.dst
           a == NumberIn(asked)
           q == question
           knows == q.fn \in {"strtol", "strtoul"}
           Here(letters) == ByteIn(asked, a) = ZERO /\ ByteIn(asked, a + 1) \in letters
           hex == q.base \in {0, 16} /\ Here(X)
           bin == q.base \in {0, 2} /\ knows /\ Here(B)
           prefixes == PrefixesIn(asked, q)
<1>1. /\ Spells(asked, q) /\ d \in Nat
      /\ \A k \in 0 .. EndOf(0) : mem[d + k] = BlockByte(k)
  BY NumberAsked
<1>2. a \in Nat /\ AfterSign(mem, d) = d + a /\ mem[d + a] = BlockByte(a)
  BY <1>1, SignFound, NumberAsked
<1>3. /\ HasPrefix(mem, d + a, X) <=> Here(X)
      /\ HasPrefix(mem, d + a, binary) <=> knows /\ Here(B)
  <2>1. HasPrefix(mem, d + a, X) <=> Here(X)
    BY PrefixFound DEF X
  <2>2. HasPrefix(mem, d + a, B) <=> Here(B)
    BY PrefixFound DEF B
  <2>3. ~knows => ~HasPrefix(mem, d + a, binary)
    BY DEF HasPrefix
  <2> QED
    BY <2>1, <2>2, <2>3
<1>4. prefixes = (IF hex THEN {[radix |-> 16, letters |-> X]} ELSE {})
                   \cup (IF bin THEN {[radix |-> 2, letters |-> B]} ELSE {})
  BY DEF PrefixesIn, BasePrefixes
<1>5. ~(hex /\ bin)
  BY DEF X, B
<1>6. BaseAndDigits(mem, d + a, q.base, binary) =
        CASE q.base \in {0, 16} /\ HasPrefix(mem, d + a, X) -> [base |-> 16, first |-> (d + a) + 2]
          [] q.base \in {0, 2} /\ HasPrefix(mem, d + a, binary) -> [base |-> 2, first |-> (d + a) + 2]
          [] OTHER ->
               [base |-> IF q.base # 0 THEN q.base ELSE IF mem[d + a] = ZERO THEN 8 ELSE 10, first |-> d + a]
  BY DEF BaseAndDigits
<1>7. /\ q.base \in {0} \cup 2 .. 36
      /\ \/ q.base = 0 /\ prefixes = {} /\ q.radix = (IF ByteIn(asked, FirstDigit) = ZERO THEN 8 ELSE 10)
         \/ q.base # 0 /\ q.radix = q.base
         \/ \E p \in prefixes : q.radix = p.radix
  BY <1>1 DEF Spells, FirstDigit
<1> HIDE DEF prefixes, hex, bin, knows, Here, a
<1>8. CASE hex
  <2>1. prefixes = {[radix |-> 16, letters |-> X]} /\ q.base \in {0, 16}
    BY <1>4, <1>5, <1>8 DEF hex
  <2>2. q.radix = 16
    <3>1. prefixes # {} /\ \A p \in prefixes : p.radix = 16
      BY <2>1
    <3> QED
      BY <1>7, <2>1, <3>1
  <2>3. FirstDigit = a + 2
    BY <2>1 DEF FirstDigit, prefixes, a
  <2>4. BaseAndDigits(mem, d + a, q.base, binary) = [base |-> 16, first |-> (d + a) + 2]
    BY <1>3, <1>5, <1>6, <1>8 DEF bin, hex
  <2> QED
    BY <1>1, <1>2, <1>7, <2>2, <2>3, <2>4 DEF knows
<1>9. CASE bin
  <2>1. prefixes = {[radix |-> 2, letters |-> B]} /\ q.base \in {0, 2}
    BY <1>4, <1>5, <1>9 DEF bin
  <2>2. q.radix = 2
    <3>1. prefixes # {} /\ \A p \in prefixes : p.radix = 2
      BY <2>1
    <3> QED
      BY <1>7, <2>1, <3>1
  <2>3. FirstDigit = a + 2
    BY <2>1 DEF FirstDigit, prefixes, a
  <2>4. BaseAndDigits(mem, d + a, q.base, binary) = [base |-> 2, first |-> (d + a) + 2]
    BY <1>3, <1>5, <1>6, <1>9 DEF bin, hex
  <2> QED
    BY <1>1, <1>2, <1>7, <2>2, <2>3, <2>4 DEF knows
<1>10. CASE ~hex /\ ~bin
  <2>1. prefixes = {}
    BY <1>4, <1>10
  <2>2. FirstDigit = a
    BY <2>1 DEF FirstDigit, prefixes, a
  <2>3. q.radix = IF q.base # 0 THEN q.base ELSE IF mem[d + a] = ZERO THEN 8 ELSE 10
    BY <1>2, <1>7, <2>1, <2>2 DEF BlockByte
  <2>4. BaseAndDigits(mem, d + a, q.base, binary)
          = [base |-> IF q.base # 0 THEN q.base ELSE IF mem[d + a] = ZERO THEN 8 ELSE 10, first |-> d + a]
    BY <1>3, <1>6, <1>10 DEF hex, bin
  <2> QED
    BY <1>2, <1>7, <2>2, <2>3, <2>4 DEF knows
<1> QED
  BY <1>8, <1>9, <1>10

LEMMA RadixFound ==
  ASSUME LibInv, Answered(NumberFunctions)
  PROVE  question.radix \in 2 .. 36 /\ question.base \in 0 .. 36
<1>1. PICK binary : binary = IF question.fn \in {"strtol", "strtoul"} THEN B ELSE {}
  OBVIOUS
<1> QED
  BY <1>1, BaseFound

\* The digits that the question names, in the block.
LEMMA DigitsAsked ==
  ASSUME LibInv, Answered(NumberFunctions)
  PROVE  /\ question.digits \in Seq(0 .. question.radix - 1) /\ Len(question.digits) \in Nat
         /\ DOMAIN question.digits = 1 .. Len(question.digits)
         /\ question.end = FirstDigit + Len(question.digits)
         /\ \A k \in 1 .. Len(question.digits) :
              /\ question.digits[k] \in 0 .. question.radix - 1
              /\ BlockByte(FirstDigit + k - 1) \in Numerals(question.digits[k])
         /\ \A v \in 0 .. question.radix - 1 : BlockByte(question.end) \notin Numerals(v)
         /\ question.fn = "strtoull" =>
              /\ \A k \in 1 .. Len(question.digits) : question.digits[k] < 10
              /\ ~isupper(BlockByte(question.end)) /\ ~islower(BlockByte(question.end))
<1>1. Spells(asked, question)
  BY NumberAsked
<1>2. /\ question.digits \in Seq(0 .. question.radix - 1)
      /\ question.end = FirstDigit + Len(question.digits)
      /\ \A k \in DOMAIN question.digits :
           ByteIn(asked, FirstDigit + k - 1) \in Numerals(question.digits[k])
      /\ \A v \in 0 .. question.radix - 1 : ByteIn(asked, question.end) \notin Numerals(v)
      /\ question.fn = "strtoull" =>
           /\ \A k \in DOMAIN question.digits : question.digits[k] < 10
           /\ ~isupper(ByteIn(asked, question.end)) /\ ~islower(ByteIn(asked, question.end))
  BY <1>1 DEF Spells, FirstDigit
<1>3. /\ Len(question.digits) \in Nat /\ DOMAIN question.digits = 1 .. Len(question.digits)
      /\ \A k \in 1 .. Len(question.digits) : question.digits[k] \in 0 .. question.radix - 1
  <2> DEFINE S == 0 .. question.radix - 1
             s == question.digits
  <2>1. s \in Seq(S)
    BY <1>2
  <2> HIDE DEF S, s
  <2>2. Len(s) \in Nat /\ DOMAIN s = 1 .. Len(s) /\ \A k \in 1 .. Len(s) : s[k] \in S
    BY <2>1
  <2> QED
    BY <2>2 DEF S, s
<1> QED
  BY <1>2, <1>3 DEF BlockByte

\* Prefix and digits lie before the text's end.
LEMMA DigitsInText ==
  ASSUME LibInv, Answered(NumberFunctions)
  PROVE  FirstDigit \in Nat /\ question.end \in Nat /\ FirstDigit <= question.end /\ question.end <= EndOf(0)
<1> DEFINE e == EndOf(0)
           a == NumberIn(asked)
           n == Len(question.digits)
<1>1. e \in Nat /\ BlockByte(e) = 0 /\ a \in 0 .. e
  BY NumberAsked, SignFound
<1>2. n \in Nat /\ question.end = FirstDigit + n
  BY DigitsAsked
<1>3. /\ FirstDigit = a \/ FirstDigit = a + 2
      /\ FirstDigit = a + 2 => BlockByte(a) # 0 /\ BlockByte(a + 1) # 0
  <2>1. CASE PrefixesIn(asked, question) = {}
    <3>1. FirstDigit = a
      BY <2>1 DEF FirstDigit
    <3> HIDE DEF a
    <3> QED
      BY <1>1, <3>1
  <2>2. CASE PrefixesIn(asked, question) # {}
    <3>1. PICK p \in PrefixesIn(asked, question) : TRUE
      BY <2>2
    <3>2. ByteIn(asked, a) = ZERO /\ ByteIn(asked, a + 1) \in p.letters /\ p.letters \in {X, B}
      BY <3>1 DEF PrefixesIn, BasePrefixes
    <3>3. BlockByte(a) # 0 /\ BlockByte(a + 1) # 0
      BY <3>2 DEF BlockByte, ZERO, X, B
    <3> QED
      BY <2>2, <3>3 DEF FirstDigit
  <2> QED
    BY <2>1, <2>2
<1> HIDE DEF e, a, n
<1>4. ASSUME NEW x \in FirstDigit .. question.end - 1
      PROVE  BlockByte(x) # 0
  <2> DEFINE k == x - FirstDigit + 1
  <2>1. k \in 1 .. n /\ FirstDigit + k - 1 = x
    BY <1>1, <1>2, <1>3
  <2> HIDE DEF k
  <2>2. BlockByte(x) \in Numerals(question.digits[k]) /\ question.digits[k] \in 0 .. question.radix - 1
    BY <2>1, DigitsAsked DEF n
  <2>3. \A v \in Nat : 0 \notin Numerals(v)
    BY DEF Numerals, ZERO
  <2>4. question.digits[k] \in Nat
    BY <2>2, RadixFound
  <2> QED
    BY <2>2, <2>3, <2>4
<1>5. ASSUME NEW x \in a .. question.end - 1
      PROVE  x # e
  <2>1. x \in FirstDigit .. question.end - 1 \/ (FirstDigit = a + 2 /\ x \in {a, a + 1})
    BY <1>1, <1>2, <1>3, <1>5
  <2> QED
    BY <1>1, <1>3, <1>4, <2>1
<1>6. question.end <= e
  <2>1. question.end > e => e \in a .. question.end - 1
    BY <1>1, <1>2, <1>3
  <2> QED
    BY <1>1, <1>2, <1>3, <1>5, <2>1
<1> QED
  BY <1>1, <1>2, <1>3, <1>6 DEF e

\* A digit's value is what the code takes it for, in all functions but strtoull for
\* all digits.
LEMMA ValuesRight ==
  ASSUME NEW c \in Byte, NEW v \in 0 .. 35, c \in Numerals(v)
  PROVE  /\ isalnum(c) /\ DigitValue[c] = v
         /\ v < 10 => DigitValueUll[c] = v
BY ByteAssumption DEF Numerals, DigitValue, DigitValueUll, ZERO, isalnum, isdigit, isupper, islower

LEMMA NoDigit ==
  ASSUME NEW c \in Byte, NEW radix \in 2 .. 36, \A v \in 0 .. radix - 1 : c \notin Numerals(v)
  PROVE  /\ ~isalnum(c) \/ DigitValue[c] >= radix
         /\ ~isupper(c) /\ ~islower(c) => ~isalnum(c) \/ DigitValueUll[c] >= radix
<1>1. c \in 0 .. 127
  BY ByteAssumption
<1>2. ~isalnum(c) \/ DigitValue[c] >= radix
  <2> SUFFICES ASSUME isalnum(c), DigitValue[c] < radix PROVE FALSE
    <3>1. isalnum(c) => DigitValue[c] \in Int
      BY <1>1 DEF DigitValue, isdigit, isupper, ZERO
    <3> QED
      BY <3>1
  <2> DEFINE v == DigitValue[c]
  <2>1. v = IF isdigit(c) THEN c - ZERO ELSE IF isupper(c) THEN c - 65 + 10 ELSE c - 97 + 10
    BY DEF DigitValue
  <2>2. v \in Nat /\ c \in Numerals(v)
    BY <1>1, <2>1 DEF Numerals, isalnum, isdigit, isupper, islower, ZERO
  <2>3. v \in 0 .. radix - 1
    BY <2>2
  <2> QED
    BY <2>2, <2>3
<1>3. ASSUME ~isupper(c), ~islower(c)
      PROVE  ~isalnum(c) \/ DigitValueUll[c] >= radix
  <2>1. isalnum(c) => DigitValueUll[c] = DigitValue[c]
    BY <1>3 DEF DigitValueUll, DigitValue, isalnum
  <2> QED
    BY <1>2, <2>1
<1> QED
  BY <1>2, <1>3

\* Where a function's loop ends, and what it reads.
LEMMA DigitsFound ==
  ASSUME LibInv, Answered(NumberFunctions), NEW value,
         value = IF question.fn = "strtoull" THEN DigitValueUll ELSE DigitValue
  PROVE  /\ LoopEnd(asked.dst + FirstDigit, 1,
                    {a \in Nat : ~isalnum(mem[a]) \/ value[mem[a]] >= question.radix})
              = asked.dst + question.end
         /\ Reads(mem, asked.dst + FirstDigit, value, question.digits)
<1> DEFINE d == asked.dst
           f == FirstDigit
           n == Len(question.digits)
           Stops == {a \in Nat : ~isalnum(mem[a]) \/ value[mem[a]] >= question.radix}
<1>1. /\ d \in Nat /\ asked.length \in Nat /\ EndOf(0) \in 0 .. asked.length - 1 /\ mem \in Memory
      /\ d + asked.length <= MemSize
      /\ \A k \in 0 .. EndOf(0) : d + k \in Address /\ mem[d + k] = BlockByte(k)
  BY NumberAsked
<1>2. f \in Nat /\ question.end \in Nat /\ f <= question.end /\ question.end <= EndOf(0)
  BY DigitsInText
<1>3. question.radix \in 2 .. 36 /\ n \in Nat /\ question.end = f + n
  BY RadixFound, DigitsAsked
<1> HIDE DEF f, n
<1>4. \A k \in 0 .. EndOf(0) : BlockByte(k) \in Byte
  BY <1>1 DEF Memory
<1>5. ASSUME NEW k \in 1 .. n
      PROVE  /\ isalnum(mem[(d + f) + k - 1]) /\ value[mem[(d + f) + k - 1]] = question.digits[k]
             /\ question.digits[k] \in 0 .. question.radix - 1
  <2>1. f + k - 1 \in 0 .. EndOf(0) /\ d + (f + k - 1) = (d + f) + k - 1
    BY <1>1, <1>2, <1>3
  <2>2. mem[(d + f) + k - 1] = BlockByte(f + k - 1) /\ BlockByte(f + k - 1) \in Byte
    BY <1>1, <1>4, <2>1
  <2>3. /\ question.digits[k] \in 0 .. question.radix - 1
        /\ BlockByte(f + k - 1) \in Numerals(question.digits[k])
        /\ question.fn = "strtoull" => question.digits[k] < 10
    BY DigitsAsked DEF f, n
  <2>4. question.digits[k] \in 0 .. 35
    BY <1>3, <2>3
  <2>5. /\ isalnum(BlockByte(f + k - 1)) /\ DigitValue[BlockByte(f + k - 1)] = question.digits[k]
        /\ question.digits[k] < 10 => DigitValueUll[BlockByte(f + k - 1)] = question.digits[k]
    BY <2>2, <2>3, <2>4, ValuesRight
  <2> QED
    BY <2>2, <2>3, <2>5
<1>6. d + question.end \in Stops
  <2>1. question.end \in 0 .. EndOf(0)
    BY <1>2
  <2>2. mem[d + question.end] = BlockByte(question.end) /\ BlockByte(question.end) \in Byte
    BY <1>1, <1>4, <2>1
  <2>3. /\ \A v \in 0 .. question.radix - 1 : BlockByte(question.end) \notin Numerals(v)
        /\ question.fn = "strtoull" => ~isupper(BlockByte(question.end)) /\ ~islower(BlockByte(question.end))
    BY DigitsAsked
  <2>4. ~isalnum(BlockByte(question.end)) \/ value[BlockByte(question.end)] >= question.radix
    BY <1>3, <2>2, <2>3, NoDigit
  <2>5. d + question.end \in Nat
    BY <1>1, <1>2
  <2> QED
    BY <2>2, <2>4, <2>5
<1>7. ASSUME NEW x \in d + f .. (d + question.end) - 1
      PROVE  x \notin Stops
  <2> DEFINE k == x - (d + f) + 1
  <2>1. k \in 1 .. n /\ (d + f) + k - 1 = x
    BY <1>1, <1>2, <1>3
  <2> HIDE DEF k
  <2>2. isalnum(mem[x]) /\ value[mem[x]] \in 0 .. question.radix - 1
    BY <1>5, <2>1
  <2> QED
    BY <1>3, <2>2
<1>8. LoopEnd(d + f, 1, Stops) = d + question.end
  <2>1. d + f \in Nat /\ d + question.end \in Nat /\ d + f <= d + question.end /\ d + question.end <= MemSize
    BY <1>1, <1>2, MemoryAssumption
  <2> HIDE DEF Stops
  <2> QED
    BY <1>6, <1>7, <2>1, LoopEndIs
<1> QED
  BY <1>5, <1>8 DEF Reads, f, n

(***************************************************************************)
(* Reading numbers: the results.                                           *)
(***************************************************************************)

LEMMA ClampedIs ==
  ASSUME NEW low \in Int, NEW high \in Int, low <= high, NEW x \in Int
  PROVE  Clamped(low, x, high) = IF x < low THEN low ELSE IF x > high THEN high ELSE x
<1> DEFINE least == IF x < high THEN x ELSE high
<1>1. Min({x, high}) = least
  <2>1. {x, high} \subseteq Int /\ least \in {x, high} /\ \A y \in {x, high} : least <= y
    OBVIOUS
  <2> HIDE DEF least
  <2> QED
    BY <2>1, MinIs
<1> DEFINE most == IF least < low THEN low ELSE least
<1>2. Max({low, least}) = most
  <2>1. {low, least} \subseteq Int /\ most \in {low, least} /\ \A y \in {low, least} : y <= most
    OBVIOUS
  <2> HIDE DEF least, most
  <2> QED
    BY <2>1, MaxIs
<1>3. Clamped(low, x, high) = most
  BY <1>1, <1>2 DEF Clamped
<1> QED
  BY <1>3

\* Negation in words of the width of long.
LEMMA NegatedWord ==
  ASSUME NEW a \in 0 .. LongLimit
  PROVE  U(-a) = IF a = 0 THEN 0 ELSE (2 * LongLimit) - a
<1> DEFINE b == 2 * LongLimit
           n == -a
           q == n \div b
           r == n % b
<1>1. b \in Nat \ {0} /\ a < b /\ a \in Nat /\ n \in Int
  BY LongLimitAssumption
<1> HIDE DEF b
<1>2. q \in Int /\ r \in 0 .. b - 1 /\ n = (q * b) + r
  BY <1>1
<1> HIDE DEF q, r
<1>3. q * b \in Int
  BY <1>1, <1>2
<1>4. q = 0 => r = n
  BY <1>2, <1>1
<1>5. q = -1 => r = n + b
  BY <1>2, <1>1
<1>6. ~(q > 0)
  <2> SUFFICES ASSUME q > 0 PROVE FALSE
    OBVIOUS
  <2>1. 1 * b <= q * b
    BY <1>1, <1>2, Products
  <2> QED
    BY <1>1, <1>2, <1>3, <2>1
<1>7. ~(q < -1)
  <2> SUFFICES ASSUME q < -1 PROVE FALSE
    OBVIOUS
  <2>1. 2 * b <= (-q) * b
    BY <1>1, <1>2, Products
  <2>2. (-q) * b = -(q * b)
    BY <1>1, <1>2
  <2> QED
    BY <1>1, <1>2, <1>3, <2>1, <2>2
<1>8. r = IF a = 0 THEN 0 ELSE b - a
  <2>1. q = 0 \/ q = -1
    BY <1>2, <1>6, <1>7
  <2> QED
    BY <1>1, <1>2, <1>4, <1>5, <2>1
<1> QED
  BY <1>8 DEF U, r, b

\* What a function's loop over the digits gives, with its limit.
LEMMA DigitsCounted ==
  ASSUME LibInv, Answered(NumberFunctions), NEW value,
         value = (IF question.fn = "strtoull" THEN DigitValueUll ELSE DigitValue),
         NEW limit, limit = LONG_MIN \/ limit \in 0 .. ULONG_MAX,
         NEW r, r = Digits(mem, asked.dst + FirstDigit, question.radix, value, limit)
  PROVE  /\ r.end = asked.dst + question.end
         /\ Counted([acc |-> r.acc, any |-> r.any], Spelt, Len(question.digits), limit)
         /\ question.digits = << >> <=> Len(question.digits) = 0
         /\ Len(question.digits) = 0 => Spelt = 0
<1> DEFINE n == Len(question.digits)
           first == asked.dst + FirstDigit
           end == asked.dst + question.end
           radix == question.radix
           digits == question.digits
<1>1. /\ n \in Nat /\ radix \in Nat \ {0} /\ digits \in Seq(0 .. radix - 1)
      /\ question.end = FirstDigit + n
  <2>1. radix \in Nat \ {0}
    BY RadixFound
  <2> HIDE DEF radix
  <2> QED
    BY <2>1, DigitsAsked DEF radix
<1>2. first \in Nat /\ end \in Nat /\ first <= end /\ end - first = n
  <2>1. asked.dst \in Nat /\ FirstDigit \in Nat
    BY NumberAsked, DigitsInText
  <2> HIDE DEF n
  <2> QED
    BY <1>1, <2>1
<1>3. /\ LoopEnd(first, 1, {a \in Nat : ~isalnum(mem[a]) \/ value[mem[a]] >= radix}) = end
      /\ Reads(mem, first, value, digits)
  BY DigitsFound
<1> HIDE DEF first, end, radix, digits, n
<1>4. PICK f : LoopGives(f, mem, first, radix, value, limit, end)
  BY <1>2, <1>3, DigitsIs
<1>5. /\ IsLoop(f, n, mem, first, radix, value, limit)
      /\ r = [acc |-> f[n].acc, any |-> f[n].any, end |-> end]
  BY <1>2, <1>4 DEF LoopGives, first, radix
<1>6. PICK g : AreValues(g, n, radix, digits) /\ Spelt = g[n]
  BY <1>1, SpeltIs DEF n, radix, digits
<1>7. Counted(f[n], g[n], n, limit)
  <2>1. n = Len(digits)
    BY DEF n, digits
  <2> QED
    BY <1>1, <1>3, <1>5, <1>6, <2>1, LoopCounts
<1>8. [acc |-> r.acc, any |-> r.any] = f[n]
  <2>1. f[n] \in [acc : Int, any : Int]
    BY <1>7 DEF Counted
  <2> QED
    BY <1>5, <2>1
<1>9. digits = << >> <=> n = 0
  BY <1>1 DEF n, digits
<1>10. n = 0 => Spelt = 0
  BY <1>6 DEF AreValues
<1> QED
  BY <1>5, <1>6, <1>7, <1>8, <1>9, <1>10 DEF n, end, digits

\* The same in arithmetic, for a limit above 0 and for one below.
LEMMA UpResult ==
  ASSUME LibInv, Answered(NumberFunctions), NEW value,
         value = (IF question.fn = "strtoull" THEN DigitValueUll ELSE DigitValue),
         NEW limit \in 0 .. ULONG_MAX,
         NEW r, r = Digits(mem, asked.dst + FirstDigit, question.radix, value, limit)
  PROVE  /\ Spelt \in Nat /\ r.acc \in Int
         /\ (r.any < 0) <=> Spelt > limit
         /\ Spelt <= limit => r.acc = Spelt
         /\ r.any # 0 <=> question.digits # << >>
         /\ r.end = asked.dst + question.end
<1> DEFINE s == [acc |-> r.acc, any |-> r.any]
           n == Len(question.digits)
<1>1. /\ r.end = asked.dst + question.end /\ Counted(s, Spelt, n, limit)
      /\ question.digits = << >> <=> n = 0
      /\ n = 0 => Spelt = 0
  BY DigitsCounted
<1>2. limit \in Int /\ 0 <= limit
  BY LongLimitAssumption DEF ULONG_MAX
<1>3. /\ s \in [acc : Int, any : Int] /\ Spelt \in Nat
      /\ s.any = IF Spelt > limit THEN -1 ELSE IF n = 0 THEN 0 ELSE 1
      /\ Spelt <= limit => s.acc = Spelt
  BY <1>1, <1>2 DEF Counted, Most
<1>4. s.any = r.any /\ s.acc = r.acc /\ r.acc \in Int
  BY <1>3
<1> HIDE DEF s, n
<1> QED
  BY <1>1, <1>2, <1>3, <1>4

LEMMA SpeltIsNat == ASSUME LibInv, Answered(NumberFunctions) PROVE Spelt \in Nat
<1>1. PICK value : value = (IF question.fn = "strtoull" THEN DigitValueUll ELSE DigitValue)
  OBVIOUS
<1>2. PICK r : r = Digits(mem, asked.dst + FirstDigit, question.radix, value, ULONG_MAX)
  OBVIOUS
<1>3. ULONG_MAX \in 0 .. ULONG_MAX
  BY LongLimitAssumption DEF ULONG_MAX
<1> QED
  BY <1>1, <1>2, <1>3, UpResult

LEMMA DownResult ==
  ASSUME LibInv, Answered(NumberFunctions), NEW value,
         value = (IF question.fn = "strtoull" THEN DigitValueUll ELSE DigitValue),
         NEW r, r = Digits(mem, asked.dst + FirstDigit, question.radix, value, LONG_MIN)
  PROVE  /\ Spelt \in Nat /\ r.acc \in Int
         /\ r.acc = IF Spelt > LongLimit THEN LONG_MIN ELSE -Spelt
         /\ r.any # 0 <=> question.digits # << >>
         /\ r.end = asked.dst + question.end
<1> DEFINE s == [acc |-> r.acc, any |-> r.any]
           n == Len(question.digits)
<1>1. /\ r.end = asked.dst + question.end /\ Counted(s, Spelt, n, LONG_MIN)
      /\ question.digits = << >> <=> n = 0
      /\ n = 0 => Spelt = 0
  BY DigitsCounted
<1>2. LONG_MIN < 0 /\ Most(LONG_MIN) = LongLimit /\ LongLimit \in Nat
  BY LongLimitAssumption DEF LONG_MIN, Most
<1>3. /\ s \in [acc : Int, any : Int] /\ Spelt \in Nat
      /\ s.any = IF Spelt > LongLimit THEN -1 ELSE IF n = 0 THEN 0 ELSE 1
      /\ s.acc = IF Spelt > LongLimit THEN LONG_MIN ELSE -Spelt
  BY <1>1, <1>2 DEF Counted
<1>4. s.any = r.any /\ s.acc = r.acc /\ r.acc \in Int
  BY <1>3
<1> HIDE DEF s, n
<1> QED
  BY <1>1, <1>2, <1>3, <1>4

\* The result for a conversion without digits, and with.
Ended == answer.endptr = asked.dst + (IF question.digits = << >> THEN 0 ELSE question.end)

SignedSpelt == IF question.negative THEN -Spelt ELSE Spelt

LEMMA ConvertedIs ==
  ASSUME LibInv, Answered(NumberFunctions), NEW r, NEW x, answer = Converted(r, asked.dst, x),
         r.any # 0 <=> question.digits # << >>, r.end = asked.dst + question.end
  PROVE  Ended /\ answer.value = x
<1>1. asked.dst + 0 = asked.dst
  BY NumberAsked
<1> QED
  BY <1>1 DEF Converted, Ended

LEMMA StrtolRight ==
  ASSUME LibInv, Answered({"strtol"})
  PROVE  Ended /\ answer.value = Clamped(LONG_MIN, SignedSpelt, LONG_MAX)
<1> DEFINE neg == question.negative
           max == IF neg THEN LongLimit ELSE LONG_MAX
           r == Digits(mem, asked.dst + FirstDigit, question.radix, DigitValue, max)
           acc == IF r.any < 0 THEN max ELSE r.acc
           value == Signed(IF neg THEN U(-acc) ELSE acc)
<1>1. Answered(NumberFunctions) /\ question.fn = "strtol"
  BY DEF Answered, NumberFunctions
<1>2. answer = strtol(mem, asked.dst, question.base)
  BY <1>1, NumberAsked DEF Answer
<1>3. /\ question.base \in 0 .. 36 /\ IsNegative(mem, asked.dst) = neg
      /\ BaseAndDigits(mem, AfterSign(mem, asked.dst), question.base, B)
           = [base |-> question.radix, first |-> asked.dst + FirstDigit]
  BY <1>1, BaseFound, RadixFound, SignFound
<1>4. answer = Converted(r, asked.dst, value)
  BY <1>2, <1>3 DEF strtol
<1>5. max \in 0 .. ULONG_MAX
  BY LongLimitAssumption DEF LONG_MAX, ULONG_MAX
<1>6. /\ Spelt \in Nat /\ r.acc \in Int
      /\ (r.any < 0) <=> Spelt > max
      /\ Spelt <= max => r.acc = Spelt
      /\ r.any # 0 <=> question.digits # << >>
      /\ r.end = asked.dst + question.end
  BY <1>1, <1>5, UpResult
<1> HIDE DEF r, value
<1>7. Ended /\ answer.value = value
  BY <1>1, <1>4, <1>6, ConvertedIs
<1>8. acc \in 0 .. max /\ acc = IF Spelt > max THEN max ELSE Spelt
  BY <1>5, <1>6
<1> HIDE DEF acc
<1>9. Clamped(LONG_MIN, SignedSpelt, LONG_MAX)
        = IF SignedSpelt < LONG_MIN THEN LONG_MIN ELSE IF SignedSpelt > LONG_MAX THEN LONG_MAX ELSE SignedSpelt
  <2>1. LONG_MIN \in Int /\ LONG_MAX \in Int /\ LONG_MIN <= LONG_MAX
    BY LongLimitAssumption DEF LONG_MIN, LONG_MAX
  <2>2. SignedSpelt \in Int
    BY <1>6 DEF SignedSpelt
  <2> QED
    BY <2>1, <2>2, ClampedIs
<1>10. CASE neg
  <2>1. U(-acc) = IF acc = 0 THEN 0 ELSE (2 * LongLimit) - acc
    BY <1>8, <1>10, NegatedWord
  <2>2. value = -acc
    BY <1>8, <1>10, <2>1, LongLimitAssumption DEF value, Signed, LONG_MAX
  <2>3. value = IF Spelt > LongLimit THEN -LongLimit ELSE -Spelt
    BY <1>8, <1>10, <2>2
  <2> QED
    BY <1>6, <1>7, <1>9, <1>10, <2>3, LongLimitAssumption DEF SignedSpelt, LONG_MIN, LONG_MAX
<1>11. CASE ~neg
  <2>1. value = acc
    BY <1>8, <1>11 DEF value, Signed
  <2> QED
    BY <1>6, <1>7, <1>8, <1>9, <1>11, <2>1, LongLimitAssumption DEF SignedSpelt, LONG_MIN, LONG_MAX
<1> QED
  BY <1>10, <1>11

LEMMA StrtollRight ==
  ASSUME LibInv, Answered({"strtoll"})
  PROVE  Ended /\ answer.value = Clamped(LONG_MIN, SignedSpelt, LONG_MAX)
<1> DEFINE neg == question.negative
           limit == IF neg THEN LONG_MIN ELSE LONG_MAX
           r == Digits(mem, asked.dst + FirstDigit, question.radix, DigitValue, limit)
           value == IF r.any < 0 /\ ~neg THEN LONG_MAX ELSE r.acc
<1>1. Answered(NumberFunctions) /\ question.fn = "strtoll"
  BY DEF Answered, NumberFunctions
<1>2. answer = strtoll(mem, asked.dst, question.base)
  BY <1>1, NumberAsked DEF Answer
<1>3. /\ question.base \in 0 .. 36 /\ IsNegative(mem, asked.dst) = neg
      /\ BaseAndDigits(mem, AfterSign(mem, asked.dst), question.base, {})
           = [base |-> question.radix, first |-> asked.dst + FirstDigit]
  BY <1>1, BaseFound, RadixFound, SignFound
<1>4. answer = Converted(r, asked.dst, value)
  BY <1>2, <1>3 DEF strtoll
<1>5. /\ Spelt \in Nat /\ (r.any # 0 <=> question.digits # << >>) /\ r.end = asked.dst + question.end
      /\ neg => r.acc = IF Spelt > LongLimit THEN LONG_MIN ELSE -Spelt
      /\ ~neg => /\ (r.any < 0) <=> Spelt > LONG_MAX
                 /\ Spelt <= LONG_MAX => r.acc = Spelt
  <2>1. CASE neg
    BY <1>1, <2>1, DownResult
  <2>2. CASE ~neg
    <3>1. LONG_MAX \in 0 .. ULONG_MAX
      BY LongLimitAssumption DEF LONG_MAX, ULONG_MAX
    <3> QED
      BY <1>1, <2>2, <3>1, UpResult
  <2> QED
    BY <2>1, <2>2
<1> HIDE DEF r
<1>6. value = IF neg THEN (IF Spelt > LongLimit THEN LONG_MIN ELSE -Spelt)
              ELSE IF Spelt > LONG_MAX THEN LONG_MAX ELSE Spelt
  BY <1>5, LongLimitAssumption DEF LONG_MAX
<1> HIDE DEF value
<1>7. Ended /\ answer.value = value
  BY <1>1, <1>4, <1>5, ConvertedIs
<1>8. Clamped(LONG_MIN, SignedSpelt, LONG_MAX)
        = IF SignedSpelt < LONG_MIN THEN LONG_MIN ELSE IF SignedSpelt > LONG_MAX THEN LONG_MAX ELSE SignedSpelt
  <2>1. LONG_MIN \in Int /\ LONG_MAX \in Int /\ LONG_MIN <= LONG_MAX
    BY LongLimitAssumption DEF LONG_MIN, LONG_MAX
  <2>2. SignedSpelt \in Int
    BY <1>5 DEF SignedSpelt
  <2> QED
    BY <2>1, <2>2, ClampedIs
<1> QED
  BY <1>5, <1>6, <1>7, <1>8, LongLimitAssumption DEF SignedSpelt, LONG_MIN, LONG_MAX

\* Both unsigned functions, from what their loop gives.
LEMMA UnsignedRight ==
  ASSUME LibInv, Answered(NumberFunctions), NEW value,
         value = (IF question.fn = "strtoull" THEN DigitValueUll ELSE DigitValue),
         NEW r, r = Digits(mem, asked.dst + FirstDigit, question.radix, value, ULONG_MAX),
         answer = Converted(r, asked.dst, Unsigned(r, question.negative))
  PROVE  Ended /\ answer.value = IF Spelt > ULONG_MAX THEN ULONG_MAX ELSE U(SignedSpelt)
<1>1. ULONG_MAX \in 0 .. ULONG_MAX
  BY LongLimitAssumption DEF ULONG_MAX
<1>2. /\ Spelt \in Nat /\ r.acc \in Int
      /\ (r.any < 0) <=> Spelt > ULONG_MAX
      /\ Spelt <= ULONG_MAX => r.acc = Spelt
      /\ r.any # 0 <=> question.digits # << >>
      /\ r.end = asked.dst + question.end
  BY <1>1, UpResult
<1>3. Ended /\ answer.value = Unsigned(r, question.negative)
  BY <1>2, ConvertedIs
<1>4. CASE Spelt > ULONG_MAX
  BY <1>2, <1>3, <1>4 DEF Unsigned
<1>5. CASE Spelt <= ULONG_MAX
  <2>1. Unsigned(r, question.negative) = IF question.negative THEN U(-Spelt) ELSE Spelt
    BY <1>1, <1>2, <1>5 DEF Unsigned
  <2>2. U(Spelt) = Spelt
    BY <1>2, <1>5, LongLimitAssumption DEF U, ULONG_MAX
  <2>3. ~(Spelt > ULONG_MAX)
    BY <1>1, <1>2, <1>5
  <2> QED
    BY <1>3, <2>1, <2>2, <2>3 DEF SignedSpelt
<1> QED
  BY <1>1, <1>2, <1>4, <1>5

LEMMA StrtoulRight ==
  ASSUME LibInv, Answered({"strtoul"})
  PROVE  Ended /\ answer.value = IF Spelt > ULONG_MAX THEN ULONG_MAX ELSE U(SignedSpelt)
<1> DEFINE r == Digits(mem, asked.dst + FirstDigit, question.radix, DigitValue, ULONG_MAX)
<1>1. Answered(NumberFunctions) /\ question.fn = "strtoul"
  BY DEF Answered, NumberFunctions
<1>2. answer = strtoul(mem, asked.dst, question.base)
  BY <1>1, NumberAsked DEF Answer
<1>3. /\ IsNegative(mem, asked.dst) = question.negative
      /\ BaseAndDigits(mem, AfterSign(mem, asked.dst), question.base, B)
           = [base |-> question.radix, first |-> asked.dst + FirstDigit]
  BY <1>1, BaseFound, RadixFound, SignFound
<1>4. answer = Converted(r, asked.dst, Unsigned(r, question.negative))
  BY <1>2, <1>3 DEF strtoul
<1> HIDE DEF r
<1> QED
  BY <1>1, <1>4, UnsignedRight DEF r

LEMMA StrtoullRight ==
  ASSUME LibInv, Answered({"strtoull"})
  PROVE  Ended /\ answer.value = IF Spelt > ULONG_MAX THEN ULONG_MAX ELSE U(SignedSpelt)
<1> DEFINE r == Digits(mem, asked.dst + FirstDigit, question.radix, DigitValueUll, ULONG_MAX)
<1>1. Answered(NumberFunctions) /\ question.fn = "strtoull"
  BY DEF Answered, NumberFunctions
<1>2. answer = strtoull(mem, asked.dst, question.base)
  BY <1>1, NumberAsked DEF Answer
<1>3. /\ IsNegative(mem, asked.dst) = question.negative /\ question.radix \in 2 .. 36
      /\ BaseAndDigits(mem, AfterSign(mem, asked.dst), question.base, {})
           = [base |-> question.radix, first |-> asked.dst + FirstDigit]
  BY <1>1, BaseFound, RadixFound, SignFound
<1>4. answer = Converted(r, asked.dst, Unsigned(r, question.negative))
  BY <1>2, <1>3 DEF strtoull
<1> HIDE DEF r
<1> QED
  BY <1>1, <1>4, UnsignedRight DEF r

\* What the four functions do, where stdlib.h says something else too: the digits
\* behind 0b and 0B are read (strtol.c:127, which stdlib.h:221 to 233 does not have);
\* what exceeds an unsigned type is ULONG_MAX (stdlib.h:293 and 382 have LONG_MAX and
\* LLONG_MAX); and behind 0x without digits nothing was read, not even the zero.
TextsConverted ==
  Answered(NumberFunctions) =>
    /\ Ended
    /\ answer.value =
         IF question.fn \in {"strtol", "strtoll"} THEN Clamped(LONG_MIN, SignedSpelt, LONG_MAX)
         ELSE IF Spelt > ULONG_MAX THEN ULONG_MAX ELSE U(SignedSpelt)

\* With or without the header, for words of every width, every base and numbers of
\* every length; strtoull's texts are those without letters.
THEOREM Converting == LibSpec => []TextsConverted
<1>1. LibInv => TextsConverted
  <2> SUFFICES ASSUME LibInv, Answered(NumberFunctions)
               PROVE  /\ Ended
                      /\ answer.value =
                           IF question.fn \in {"strtol", "strtoll"} THEN Clamped(LONG_MIN, SignedSpelt, LONG_MAX)
                           ELSE IF Spelt > ULONG_MAX THEN ULONG_MAX ELSE U(SignedSpelt)
    BY DEF TextsConverted
  <2>1. CASE question.fn \in {"strtol", "strtoll"}
    <3>1. Answered({"strtol"}) \/ Answered({"strtoll"})
      BY <2>1 DEF Answered
    <3> QED
      BY <2>1, <3>1, StrtolRight, StrtollRight
  <2>2. CASE question.fn \in {"strtoul", "strtoull"}
    <3>1. Answered({"strtoul"}) \/ Answered({"strtoull"})
      BY <2>2 DEF Answered
    <3> QED
      BY <2>2, <3>1, StrtoulRight, StrtoullRight
  <2> QED
    BY <2>1, <2>2 DEF Answered, NumberFunctions
<1> QED
  BY LibInitially, LibInductive, <1>1, PTL DEF LibSpec

\* Where the header and the code agree on how a number is written, it is read back up to
\* the limits of the type, and of the unsigned types where it fits.
THEOREM ReadingBack == LibSpec => []NumbersReadBack
<1>1. LibInv => NumbersReadBack
  <2> SUFFICES ASSUME LibInv, Answered(NumberFunctions)
               PROVE  NumbersReadBack
    BY DEF NumbersReadBack, NumberFunctions
  <2>1. /\ Answered({"strtol"}) => Ended /\ answer.value = Clamped(LONG_MIN, SignedSpelt, LONG_MAX)
        /\ Answered({"strtoll"}) => Ended /\ answer.value = Clamped(LONG_MIN, SignedSpelt, LONG_MAX)
        /\ Answered({"strtoul"}) =>
             Ended /\ answer.value = IF Spelt > ULONG_MAX THEN ULONG_MAX ELSE U(SignedSpelt)
        /\ Answered({"strtoull"}) =>
             Ended /\ answer.value = IF Spelt > ULONG_MAX THEN ULONG_MAX ELSE U(SignedSpelt)
    BY StrtolRight, StrtollRight, StrtoulRight, StrtoullRight
  <2>2. Spelt \in Nat /\ ULONG_MAX \in Nat
    BY SpeltIsNat, LongLimitAssumption DEF ULONG_MAX
  <2>3. Spelt <= ULONG_MAX => ~(Spelt > ULONG_MAX)
    <3> HIDE DEF Spelt, ULONG_MAX
    <3> QED
      BY <2>2
  <2>4. question.fn \in NumberFunctions
    BY DEF Answered
  <2> QED
    BY <2>1, <2>3, <2>4 DEF NumbersReadBack, NumberFunctions, Answered, Ended, SignedSpelt
<1> QED
  BY LibInitially, LibInductive, <1>1, PTL DEF LibSpec
-----------------------------------------------------------------------------
(* Termination of the copy.                                                *)

\* How many steps it takes to copy n bytes by words, and to the word boundary.
WordSteps(n) == (n \div wsize) + (n % wsize)

ToBoundary ==
  BytesToBoundary(IF Forward THEN dst ELSE dst + length, IF Forward THEN src ELSE src + length, length)

\* How many steps the copy still takes.
StepsLeft ==
  CASE pc = "call"  -> IF length = 0 \/ dst = src THEN 1
                       ELSE ToBoundary + WordSteps(length - ToBoundary) + 4
    [] pc = "align" -> t + WordSteps(length) + 3
    [] pc = "words" -> t + (length % wsize) + 2
    [] pc = "tail"  -> t + 1
    [] pc = "done"  -> 0

LEMMA FirstBytes ==
  ASSUME IInv, pc = "call"
  PROVE  ToBoundary \in 0 .. length
<1> DEFINE d == IF Forward THEN dst ELSE dst + length
           s == IF Forward THEN src ELSE src + length
<1>1. d \in Nat /\ s \in Nat /\ length \in Nat
  BY CallFacts DEF IInv, TypeOK, PointersInStep
<1>2. ToBoundary = BytesToBoundary(d, s, length)
  BY DEF ToBoundary
<1> HIDE DEF d, s
<1>3. CASE d % 4 = 0 /\ s % 4 = 0
  BY <1>1, <1>2, <1>3 DEF BytesToBoundary, wsize
<1>4. CASE d % 4 # s % 4
  BY <1>1, <1>2, <1>4 DEF BytesToBoundary, wsize
<1>5. CASE d % 4 = s % 4 /\ s % 4 # 0
  BY <1>1, <1>2, <1>5 DEF BytesToBoundary, wsize
<1> QED
  BY <1>3, <1>4, <1>5

LEMMA StepCounts == IInv /\ Next => StepsLeft' = StepsLeft - 1
<1> SUFFICES ASSUME IInv, Next PROVE StepsLeft' = StepsLeft - 1
  OBVIOUS
<1>1. /\ dst \in Nat /\ src \in Nat /\ length \in Nat /\ t \in Nat
      /\ asked \in Call /\ asked.dst \in Nat /\ asked.src \in Nat
  BY CallFacts DEF IInv, TypeOK
<1>2. CASE Begin
  <2> DEFINE b == ToBoundary
  <2>1. /\ pc = "call" /\ length # 0 /\ dst # src /\ pc' = "align"
        /\ t' = b /\ length' = length - b
    BY <1>2 DEF Begin, ToBoundary
  <2>2. StepsLeft = b + WordSteps(length - b) + 4
    BY <2>1 DEF StepsLeft
  <2> HIDE DEF b
  <2>3. StepsLeft' = b + WordSteps(length - b) + 3
    BY <2>1 DEF StepsLeft, WordSteps
  <2>4. t' \in Int /\ WordSteps(length - b) \in Int
    <3>1. IInv'
      BY <1>2, BeginKeeps
    <3>2. t' \in Nat /\ length' \in Nat
      BY <3>1, CallFacts DEF IInv, TypeOK
    <3> QED
      BY <2>1, <3>2 DEF WordSteps, wsize
  <2> QED
    BY <2>1, <2>2, <2>3, <2>4
<1>3. CASE NothingToDo
  BY <1>3 DEF NothingToDo, StepsLeft
<1>4. CASE CopyByte
  <2>1. pc \in {"align", "tail"} /\ pc' = pc /\ length' = length /\ t' = t - 1
    BY <1>4 DEF CopyByte
  <2>2. WordSteps(length) \in Int /\ WordSteps(length)' = WordSteps(length)
    BY <1>1, <2>1 DEF WordSteps, wsize
  <2>3. CASE pc = "align"
    BY <1>1, <2>1, <2>2, <2>3 DEF StepsLeft
  <2>4. CASE pc = "tail"
    BY <1>1, <2>1, <2>4 DEF StepsLeft
  <2> QED
    BY <2>1, <2>3, <2>4
<1>5. CASE CopyWord
  BY <1>1, <1>5 DEF CopyWord, StepsLeft, wsize
<1>6. CASE StartWords
  <2>1. pc = "align" /\ t = 0 /\ pc' = "words" /\ t' = length \div wsize /\ length' = length
    BY <1>6 DEF StartWords
  <2>2. length \div wsize \in Int /\ length % wsize \in Int
    BY <1>1 DEF wsize
  <2> QED
    BY <2>1, <2>2 DEF StepsLeft, WordSteps
<1>7. CASE StartTail
  BY <1>1, <1>7 DEF StartTail, StepsLeft, wsize
<1>8. CASE Return
  BY <1>8 DEF Return, StepsLeft
<1> QED
  BY <1>2, <1>3, <1>4, <1>5, <1>6, <1>7, <1>8 DEF Next

\* A step is left until the call has returned.
StepsTell == StepsLeft \in Nat /\ (StepsLeft = 0 <=> pc = "done")

LEMMA StepsRemain == IInv => StepsTell
<1> SUFFICES ASSUME IInv PROVE StepsTell
  OBVIOUS
<1>1. /\ length \in Nat /\ t \in Nat /\ pc \in {"call", "align", "words", "tail", "done"}
  BY CallFacts DEF IInv, TypeOK
<1>2. length \div wsize \in Nat /\ length % wsize \in Nat
  BY <1>1 DEF wsize
<1>3. CASE pc = "call"
  <2>1. ToBoundary \in 0 .. length
    BY <1>3, FirstBytes
  <2>2. ToBoundary \in Nat /\ WordSteps(length - ToBoundary) \in Nat
    BY <1>1, <2>1 DEF WordSteps, wsize
  <2> QED
    BY <1>3, <2>2 DEF StepsLeft, StepsTell
<1>4. CASE pc # "call"
  BY <1>1, <1>2, <1>4 DEF StepsLeft, StepsTell, WordSteps
<1> QED
  BY <1>3, <1>4

\* A copy is over after at most four steps more than it has bytes, however the pointers
\* are aligned; words make it fewer.
THEOREM CopyTerminates ==
  /\ Init => StepsLeft <= asked.length + 4
  /\ Spec => []StepsTell /\ [][StepsLeft' = StepsLeft - 1]_vars
<1>1. Init => StepsLeft <= asked.length + 4
  <2> SUFFICES ASSUME Init PROVE StepsLeft <= asked.length + 4
    OBVIOUS
  <2>1. IInv /\ pc = "call" /\ length = asked.length /\ length \in Nat
    BY Initially, CallFacts DEF Init
  <2>2. ToBoundary \in 0 .. length
    BY <2>1, FirstBytes
  <2> DEFINE b == ToBoundary
             n == length - b
  <2>3. StepsLeft = 1 \/ StepsLeft = b + WordSteps(n) + 4
    BY <2>1 DEF StepsLeft
  <2> HIDE DEF b
  <2>4. n \in Nat /\ WordSteps(n) \in Nat /\ WordSteps(n) <= n
    BY <2>1, <2>2, WordsOf DEF WordSteps, wsize, b
  <2> QED
    BY <2>1, <2>2, <2>3, <2>4 DEF b
<1> QED
  BY <1>1, Initially, Inductive, StepCounts, StepsRemain, PTL DEF Spec
=============================================================================
