------------------------------ MODULE CStrings ------------------------------
(***************************************************************************)
(* The searching and comparing functions of nolibc/src/string, as values   *)
(* of the memory m they are called on: strlen, memchr and __strchrnul,     *)
(* which read whole words, and those built on them.  A pointer is an       *)
(* address; a loop is the place where it stops.                            *)
(***************************************************************************)
EXTENDS ByteMemory, FiniteSetsExt

CONSTANTS
  NULL,
  LongBit     (* LONG_BIT; a macro that no header defines counts as 0      *)

ASSUME LongBitAssumption == LongBit \in Nat

\* No address is NULL; the bytes are ASCII characters.
ASSUME PointerAssumption == NULL \notin Int
ASSUME ByteAssumption == Byte \subseteq 0 .. 127

\* for( a = first; a not in Stops; a += step ); MemSize or more when it runs out of
\* memory.
LoopEnd(first, step, Stops) ==
  LET from[a \in Nat] == IF a >= MemSize \/ a \in Stops THEN a ELSE from[a + step] IN from[first]

WORD == 8  \* sizeof( long ) and sizeof( size_t )

WordAt(a) == a .. a + WORD - 1

HasByte(m, word, c) == \E a \in word \cap DOMAIN m : m[a] = c

\* Fault for the mutation runs: one byte too few is tested.
TestedTooFew == 0 .. 2

\* The bytes of a word that are tested once it is known to hold a zero.
Tested == IF LongBit >= 64 THEN 0 .. 7 ELSE 0 .. 3

\* A word without a zero byte passes the mask test too, but none of its bytes ends
\* the search.
strlen(m, str) ==
  LET p == LoopEnd(str, 1, {a \in Nat : a % WORD = 0 \/ m[a] = 0}) IN
  IF p % WORD # 0 THEN p - str
  ELSE LoopEnd(p, 1, {a \in Nat : a % WORD \in Tested /\ m[a] = 0}) - str

strnlen(m, str, maxlen) ==
  LoopEnd(str, 1, {a \in Nat : a = str + maxlen \/ m[a] = 0}) - str

MoreWords(m, c, a, n) == n >= WORD /\ ~HasByte(m, WordAt(a), c)

memchr(m, src, c, n) ==
  LET end  == src + n
      head == LoopEnd(src, 1, {a \in Nat : a % WORD = 0 \/ a = end \/ m[a] = c})
      body == IF head # end /\ m[head] # c
              THEN LoopEnd(head, WORD, {a \in Nat : ~MoreWords(m, c, a, end - a)})
              ELSE head
      tail == LoopEnd(body, 1, {a \in Nat : a = end \/ m[a] = c})
  IN  IF tail = end THEN NULL ELSE tail

WordEnds(m, c, a) == HasByte(m, WordAt(a), 0) \/ HasByte(m, WordAt(a), c)

strchrnul(m, s, c) ==
  IF c = 0 THEN s + strlen(m, s)
  ELSE LET head == LoopEnd(s, 1, {a \in Nat : a % WORD = 0 \/ m[a] \in {0, c}}) IN
       IF head % WORD # 0 THEN head
       ELSE LET body == LoopEnd(head, WORD, {a \in Nat : WordEnds(m, c, a)}) IN
            LoopEnd(body, 1, {a \in Nat : m[a] \in {0, c}})

\* strlen may have run out of memory; nothing is claimed of the answer then.
strchr(m, s, c) ==
  LET r == strchrnul(m, s, c) IN IF r \in DOMAIN m /\ m[r] = c THEN r ELSE NULL

memrchr(m, s, c, n) ==
  LET hits == {a \in DOMAIN m : a \in s .. s + n - 1 /\ m[a] = c} IN IF hits = {} THEN NULL ELSE Max(hits)

strrchr(m, s, c) == memrchr(m, s, c, strlen(m, s) + 1)

\* 0 when the first n bytes are the same; a null pointer is unlike any other.
memcmp(m, p1, p2, n) ==
  LET i == LoopEnd(0, 1, {k \in Nat : k = n \/ m[p1 + k] # m[p2 + k]}) IN
  IF p1 = p2 THEN 0
  ELSE IF p1 = NULL THEN 1
  ELSE IF p2 = NULL THEN -1
  ELSE IF i = n THEN 0 ELSE m[p1 + i] - m[p2 + i]

\* On ASCII text; where char is signed bytes above 127 count as negative.
strncmp(m, s1, s2, n) ==
  LET i == LoopEnd(0, 1, {k \in Nat : k = n \/ m[s1 + k] # m[s2 + k] \/ m[s1 + k] = 0}) IN
  IF s1 = s2 THEN 0
  ELSE IF NULL \in {s1, s2} THEN -1
  ELSE IF i = n THEN 0 ELSE m[s1 + i] - m[s2 + i]

strcmp(m, s1, s2) ==
  LET i == LoopEnd(0, 1, {k \in Nat : m[s1 + k] # m[s2 + k] \/ m[s1 + k] = 0}) IN
  IF s1 = s2 THEN 0 ELSE IF NULL \in {s1, s2} THEN -1 ELSE m[s1 + i] - m[s2 + i]

\* One character at most is searched for by words, more of them byte by byte.
strcspn(m, s, c) ==
  LET chars == {m[a] : a \in c .. LoopEnd(c, 1, {a \in Nat : m[a] = 0})} IN
  IF 0 \in {m[c], m[c + 1]} THEN strchrnul(m, s, m[c]) - s
  ELSE LoopEnd(s, 1, {a \in Nat : m[a] \in chars}) - s

\* Fault: a match may reach past the slen characters that are searched.
RoomForAll(len, left) == TRUE

RoomFor(len, left) == len <= left

\* The characters of find after its first are compared where that one is found; the
\* search is over as soon as they do not fit any more.
strnstr(m, s, find, slen) ==
  IF m[find] = 0 THEN s
  ELSE LET len  == strlen(m, find + 1)
           over == {a \in s .. s + slen : a = s + slen \/ m[a] = 0}
           left(a) == s + slen - a - 1
           at   == LoopEnd(s, 1, {a \in Nat :
                     \/ a \in over
                     \/ /\ m[a] = m[find]
                        /\ RoomFor(len, left(a)) => strncmp(m, a + 1, find + 1, len) = 0})
       IN  IF at \in over \/ ~RoomFor(len, left(at)) THEN NULL ELSE at

memmem(m, l, l_len, s, s_len) ==
  LET at == LoopEnd(l, 1, {a \in Nat : a + s_len > l + l_len \/ memcmp(m, a, s, s_len) = 0}) IN
  IF l_len = 0 \/ s_len = 0 THEN NULL
  ELSE IF s_len = 1 THEN memchr(m, l, m[s], l_len)
  ELSE IF at + s_len > l + l_len THEN NULL ELSE at
=============================================================================
