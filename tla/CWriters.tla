------------------------------- MODULE CWriters ------------------------------
(***************************************************************************)
(* The functions of nolibc/src/string that write, as values of the memory  *)
(* m they are called on: what they leave in it.  They copy with memcpy,    *)
(* which is taken to do what module BlockMove says.                        *)
(***************************************************************************)
EXTENDS CStrings

\* What m is, apart from the bytes written from address d on.
With(m, d, n, written) ==
  [a \in DOMAIN m |-> IF a \in d .. d + n - 1 THEN written[a - d] ELSE m[a]]

\* Where strlen has run past the memory, nothing is claimed of what is copied.
memcpy(m, d, s, n) ==
  With(m, d, n, [k \in Nat |-> IF s + k \in DOMAIN m THEN m[s + k] ELSE m[d + k]])

\* The first and the last bytes, up to four of each, ...
Ends(n) ==
  IF n = 0 THEN {}
  ELSE {0, n - 1} \cup (IF n > 2 THEN {1, 2, n - 2, n - 3} ELSE {})
                  \cup (IF n > 6 THEN {3, n - 4} ELSE {})

\* ... and, of a longer block, the whole words of four from the first boundary on.
Middle(dest, n) ==
  LET k == (-dest) % 4 IN IF n <= 8 THEN {} ELSE k .. k + (n - k) - ((n - k) % 4) - 1

memset(m, dest, c, n) ==
  [a \in DOMAIN m |-> IF a - dest \in Ends(n) \cup Middle(dest, n) THEN c % 256 ELSE m[a]]

strcpy(m, dst, src) == memcpy(m, dst, src, strlen(m, src) + 1)

strncpy(m, dst, src, maxlen) ==
  LET srclen == strnlen(m, src, maxlen) IN
  IF srclen < maxlen
  THEN memset(memcpy(m, dst, src, srclen), dst + srclen, 0, maxlen - srclen)
  ELSE memcpy(m, dst, src, maxlen)

strcat(m, dst, src) == memcpy(m, dst + strlen(m, dst), src, strlen(m, src) + 1)

\* Fault for the mutation runs: the terminator is taken from the source.
strncatCopiesTerminator(m, dst, src, maxlen) ==
  memcpy(m, dst + strlen(m, dst), src, Min({strnlen(m, src, maxlen) + 1, maxlen}))

strncat(m, dst, src, maxlen) ==
  LET end == dst + strlen(m, dst)
      n   == strnlen(m, src, maxlen)
  IN  With(memcpy(m, end, src, n), end + n, 1, [k \in {0} |-> 0])

\* One call, with what its static variable holds: the memory it leaves, what the
\* variable holds then, and the token.
strtok(m, last, str, delim) ==
  LET s      == IF str = NULL THEN last ELSE str
      delims == {m[a] : a \in delim .. LoopEnd(delim, 1, {a \in Nat : m[a] = 0}) - 1}
      tok    == LoopEnd(s, 1, {a \in Nat : m[a] \notin delims})
      end    == LoopEnd(tok, 1, {a \in Nat : m[a] \in delims \cup {0}})
  IN  IF s = NULL \/ m[tok] = 0 THEN [mem |-> m, last |-> NULL, token |-> NULL]
      ELSE IF m[end] = 0        THEN [mem |-> m, last |-> NULL, token |-> tok]
      ELSE [mem |-> [m EXCEPT ![end] = 0], last |-> end + 1, token |-> tok]
=============================================================================
