------------------------------- MODULE Nolibc -------------------------------
(***************************************************************************)
(* The library's functions together: a program moves a block with memcpy   *)
(* or memmove and then asks one of the other functions about the moved     *)
(* block, which may begin at any alignment.                                *)
(***************************************************************************)
EXTENDS MemCopy, CNumbers, CWriters, SequencesExt

CONSTANTS
  UNASKED,  (* before the question                                          *)
  Programs  (* sets of programs: a call of memcpy each, and a question      *)

VARIABLES
  question,  (* the function called on the moved block, and its arguments;  *)
             (* offsets count from the start of the block                   *)
  answer     (* what it returned; for one that writes, the memory it leaves *)

libVars == <<vars, question, answer>>

\* The program that makes the call and then asks q; any program that does is one of
\* the system's.
Runs(call, q) ==
  /\ asked = call /\ mem = call.mem
  /\ pc = "call"
  /\ dst = call.dst /\ src = call.src /\ length = call.length /\ t = 0
  /\ question = q /\ answer = UNASKED

-----------------------------------------------------------------------------
(* What string.h asks of a caller, at offsets of the block to be moved.     *)

\* The k-th byte of the block, and where the string that starts there ends.
ByteIn(call, k) == call.mem[call.src + k]

TextIn(call, k) == k \in Nat /\ \E e \in k .. call.length - 1 : ByteIn(call, e) = 0

EndIn(call, k) == Min({e \in k .. call.length - 1 : ByteIn(call, e) = 0})

LengthIn(call, k) == EndIn(call, k) - k

\* n bytes from offset k of the moved block on lie in memory.
RoomIn(call, k, n) == k \in Nat /\ n \in Nat /\ call.dst + k + n <= MemSize

\* Two strings of the block without a common byte.
Apart(call, k, l) == EndIn(call, k) < l \/ EndIn(call, l) < k

Least(x, y) == IF x < y THEN x ELSE y

\* The characters for the digit v.
Numerals(v) == IF v < 10 THEN {ZERO + v} ELSE {v + 55, v + 87}

\* Behind the white space; and behind the sign, if there is one.
SignIn(call) == Min({k \in 0 .. EndIn(call, 0) : ~isspace(ByteIn(call, k))})

NumberIn(call) ==
  IF ByteIn(call, SignIn(call)) \in {MINUS, PLUS} THEN SignIn(call) + 1 ELSE SignIn(call)

\* The prefixes that the function takes with this base.
BasePrefixes(q) ==
  {p \in {[radix |-> 16, letters |-> X], [radix |-> 2, letters |-> B]} :
     q.base \in {0, p.radix} /\ (p.radix = 2 => q.fn \in {"strtol", "strtoul"})}

PrefixesIn(call, q) ==
  {p \in BasePrefixes(q) :
     ByteIn(call, NumberIn(call)) = ZERO /\ ByteIn(call, NumberIn(call) + 1) \in p.letters}

\* The block's text is white space, a sign, a prefix and the question's digits, each of
\* which may be missing, and something else than a digit.  strtoull is given no letters
\* for digits, nor one behind them.
Spells(call, q) ==
  LET prefixes == PrefixesIn(call, q)
      first    == IF prefixes = {} THEN NumberIn(call) ELSE NumberIn(call) + 2
      behind   == ByteIn(call, q.end)
  IN  /\ q.base \in {0} \cup 2 .. 36
      /\ q.negative = (ByteIn(call, SignIn(call)) = MINUS)
      /\ \/ q.base = 0 /\ prefixes = {} /\ q.radix = (IF ByteIn(call, first) = ZERO THEN 8 ELSE 10)
         \/ q.base # 0 /\ q.radix = q.base
         \/ \E p \in prefixes : q.radix = p.radix
      /\ q.digits \in Seq(0 .. q.radix - 1)
      /\ q.end = first + Len(q.digits)
      /\ \A k \in DOMAIN q.digits : ByteIn(call, first + k - 1) \in Numerals(q.digits[k])
      /\ \A v \in 0 .. q.radix - 1 : behind \notin Numerals(v)
      /\ q.fn = "strtoull" =>
           (\A k \in DOMAIN q.digits : q.digits[k] < 10) /\ ~isupper(behind) /\ ~islower(behind)

\* The strings are terminated, the areas lie in the block, what is written fits into
\* memory; strtok cuts no string twice and does not cut its delimiters; a text that is
\* read as a number spells out the one that the question says.
KeepsContract(call, q) ==
  \/ q.fn = "none"
  \/ q.fn \in {"strlen", "strchr", "strrchr"} /\ TextIn(call, 0)
  \/ q.fn = "strnlen" /\ q.n \in Nat /\ (TextIn(call, 0) \/ q.n <= call.length)
  \/ q.fn = "memchr" /\ q.n \in 0 .. call.length
  \/ q.fn \in {"strcmp", "strcspn"} /\ TextIn(call, 0) /\ TextIn(call, q.other)
  \/ q.fn \in {"strncmp", "strnstr"} /\ TextIn(call, 0) /\ TextIn(call, q.other) /\ q.n \in Nat
  \/ /\ q.fn = "memmem" /\ q.n \in 0 .. call.length
     /\ q.other \in Nat /\ q.len \in Nat /\ q.other + q.len <= call.length
  \/ q.fn = "memset" /\ q.c \in Byte /\ RoomIn(call, q.from, q.n)
  \/ /\ q.fn = "strcpy" /\ TextIn(call, q.other)
     /\ RoomIn(call, 0, LengthIn(call, q.other) + 1)
  \/ q.fn = "strncpy" /\ TextIn(call, q.other) /\ RoomIn(call, 0, q.n)
  \/ /\ q.fn = "strcat" /\ TextIn(call, 0) /\ TextIn(call, q.other)
     /\ RoomIn(call, LengthIn(call, 0), LengthIn(call, q.other) + 1)
  \/ /\ q.fn = "strncat" /\ TextIn(call, 0) /\ TextIn(call, q.other) /\ q.n \in Nat
     /\ RoomIn(call, LengthIn(call, 0), Least(q.n, LengthIn(call, q.other)) + 1)
  \/ /\ q.fn = "strtok" /\ TextIn(call, q.delim)
     /\ q.calls \in Seq(Nat \cup {NULL})
     /\ \A i \in DOMAIN q.calls : q.calls[i] # NULL =>
          /\ TextIn(call, q.calls[i]) /\ Apart(call, q.calls[i], q.delim)
          /\ \A j \in DOMAIN q.calls \ {i} :
               q.calls[j] # NULL => Apart(call, q.calls[i], q.calls[j])
  \/ q.fn \in {"strtol", "strtoul", "strtoll", "strtoull"} /\ TextIn(call, 0) /\ Spells(call, q)

ASSUME ProgramsAssumption ==
  \A kind \in Programs : \A p \in kind :
    p.call \in Call /\ KeepsContract(p.call, p.question)

LibInit == \E kind \in Programs : \E p \in kind : Runs(p.call, p.question)
-----------------------------------------------------------------------------
\* The string at address a.
TextAt(m, a) == [k \in 1 .. LoopEnd(a, 1, {b \in Nat : m[b] = 0}) - a |-> m[a + k - 1]]

\* Calls of strtok one after the other, on strings of the block or on NULL: the texts
\* of the tokens as they are returned, empty for none.
Tokens(m, s, q) ==
  LET Str(k) == IF q.calls[k] = NULL THEN NULL ELSE s + q.calls[k]
      after[k \in 0 .. Len(q.calls)] ==
        IF k = 0 THEN [mem |-> m, last |-> NULL, token |-> NULL]
        ELSE strtok(after[k - 1].mem, after[k - 1].last, Str(k), s + q.delim)
  IN  [k \in 1 .. Len(q.calls) |->
         IF after[k].token = NULL THEN << >> ELSE TextAt(after[k].mem, after[k].token)]

\* What q is answered about the block at address s of memory m.
Answer(m, s, q) ==
  CASE q.fn = "strlen"   -> strlen(m, s)
    [] q.fn = "strnlen"  -> strnlen(m, s, q.n)
    [] q.fn = "memchr"   -> memchr(m, s, q.c, q.n)
    [] q.fn = "strchr"   -> strchr(m, s, q.c)
    [] q.fn = "strrchr"  -> strrchr(m, s, q.c)
    [] q.fn = "strncmp"  -> strncmp(m, s, s + q.other, q.n)
    [] q.fn = "strnstr"  -> strnstr(m, s, s + q.other, q.n)
    [] q.fn = "memmem"   -> memmem(m, s, q.n, s + q.other, q.len)
    [] q.fn = "strcmp"   -> strcmp(m, s, s + q.other)
    [] q.fn = "strcspn"  -> strcspn(m, s, s + q.other)
    [] q.fn = "memset"   -> memset(m, s + q.from, q.c, q.n)
    [] q.fn = "strcpy"   -> strcpy(m, s, s + q.other)
    [] q.fn = "strncpy"  -> strncpy(m, s, s + q.other, q.n)
    [] q.fn = "strcat"   -> strcat(m, s, s + q.other)
    [] q.fn = "strncat"  -> strncat(m, s, s + q.other, q.n)
    [] q.fn = "strtok"   -> Tokens(m, s, q)
    [] q.fn = "strtol"   -> strtol(m, s, q.base)
    [] q.fn = "strtoul"  -> strtoul(m, s, q.base)
    [] q.fn = "strtoll"  -> strtoll(m, s, q.base)
    [] q.fn = "strtoull" -> strtoull(m, s, q.base)

Ask ==
  /\ pc = "done" /\ answer = UNASKED /\ question.fn # "none"
  /\ answer' = Answer(mem, asked.dst, question)
  /\ UNCHANGED <<vars, question>>

CopyStep == Next /\ UNCHANGED <<question, answer>>

LibNext == CopyStep \/ Ask

LibSpec == LibInit /\ [][LibNext]_libVars

\* One processor that keeps executing the call.
LibFairSpec == LibSpec /\ WF_libVars(CopyStep)
-----------------------------------------------------------------------------
(* Properties: what string.h and stdlib.h say of the block as it was before *)
(* it was moved.                                                            *)

Answered(fns) == answer # UNASKED /\ question.fn \in fns

BlockByte(k) == ByteIn(asked, k)

EndOf(k) == EndIn(asked, k)

LengthAt(k) == EndOf(k) - k

\* Where the compiled strlen stops at the terminator: before the first word boundary,
\* and in the lower half of a word where LONG_BIT is not 64.
Measured(k) ==
  LET moved == asked.dst + EndOf(k)
      first == asked.dst + k
  IN  \/ moved \div WORD = first \div WORD /\ first % WORD # 0
      \/ moved % WORD < 4
      \/ LongBit >= 64

\* The answer as an offset.
Offset == IF answer = NULL THEN NULL ELSE answer - asked.dst

LeastOf(ks) == IF ks = {} THEN NULL ELSE Min(ks)

\* Every search ends at the first, or last, place of its character and at none outside
\* the object, whether that lies before, in or after the whole words and however
\* the block is aligned: the terminator for strlen (string.h:116 "Returns the length
\* of the given null-terminated byte string"; where the compiled code tests that
\* byte) and strnlen, any character for memchr, strchr and strrchr.
SearchesRight ==
  LET c == question.c
      inString == {k \in 0 .. EndOf(0) : BlockByte(k) = c}
  IN
  /\ Answered({"strlen"}) /\ Measured(0) => answer = LengthAt(0)
  /\ Answered({"strnlen"}) =>
       answer = Min({question.n} \cup {k \in 0 .. asked.length - 1 : BlockByte(k) = 0})
  /\ Answered({"memchr"}) => Offset = LeastOf({k \in 0 .. question.n - 1 : BlockByte(k) = c})
  /\ Answered({"strchr"}) /\ (c = 0 => Measured(0)) => Offset = LeastOf(inString)
  /\ Answered({"strrchr"}) /\ Measured(0) =>
       Offset = IF inString = {} THEN NULL ELSE Max(inString)

\* The len bytes at offset o are at k too.
OccursAt(k, o, len) == \A i \in 0 .. len - 1 : BlockByte(k + i) = BlockByte(o + i)

\* The place of the first difference of two strings within reach.
Difference(reach) ==
  LET other == question.other IN
  LeastOf({k \in 0 .. reach - 1 :
             /\ k <= LengthAt(0) /\ k <= LengthAt(other)
             /\ BlockByte(k) # BlockByte(other + k)})

\* A comparison answers 0 exactly for strings that are the same within its reach, and
\* otherwise with the sign of the first difference: a string that ends is smaller.
Compares(reach) ==
  LET k == Difference(reach) IN
  IF k = NULL THEN answer = 0
  ELSE answer # 0 /\ (answer < 0) = (BlockByte(k) < BlockByte(question.other + k))

CharsAt(k) == {BlockByte(i) : i \in k .. EndOf(k) - 1}

\* strncmp and strcmp compare as above; the device tree walk takes their 0 for equality.
\* strnstr finds the first occurrence that lies wholly among the characters it may
\* search, although it stops early; memmem the first in its area, of a pattern of
\* one byte too; strcspn the first character that is one of the others', or the end.
TextsFound ==
  /\ Answered({"strncmp"}) => Compares(question.n)
  /\ Answered({"strcmp"}) => Compares(asked.length)
  /\ Answered({"strcspn"}) /\ (LengthAt(question.other) = 0 => Measured(0)) =>
       answer = Min({k \in 0 .. EndOf(0) : k = EndOf(0) \/ BlockByte(k) \in CharsAt(question.other)})
  /\ Answered({"strnstr"}) /\ (LengthAt(question.other) > 0 => Measured(question.other + 1)) =>
       LET len == LengthAt(question.other)
           end == Min({question.n, LengthAt(0)})
       IN  Offset = IF len = 0 THEN 0
                    ELSE LeastOf({k \in 0 .. end - len : OccursAt(k, question.other, len)})
  /\ Answered({"memmem"}) /\ question.len > 0 =>
       Offset = LeastOf({k \in 0 .. question.n - question.len :
                           OccursAt(k, question.other, question.len)})

\* The string at offset k, and the r-th of the parts that delimiters cut text into.
Text(k) == [i \in 1 .. LengthAt(k) |-> BlockByte(k + i - 1)]

Part(text, delims, r) ==
  LET Starts(k) == text[k] \notin delims /\ (k = 1 \/ text[k - 1] \in delims)
      starts    == {k \in DOMAIN text : Starts(k)}
      first     == CHOOSE k \in starts : Cardinality({l \in starts : l <= k}) = r
      last      == Max({k \in first .. Len(text) : \A l \in first .. k : text[l] \notin delims})
  IN  IF r > Cardinality(starts) THEN << >> ELSE SubSeq(text, first, last)

\* What a function is to write, and at which offset.
ToBeWritten ==
  LET n == question.n
      source == Text(question.other)
      fn == question.fn
  IN  CASE fn = "memset"  -> [at |-> question.from, bytes |-> [k \in 1 .. n |-> question.c]]
        [] fn = "strcpy"  -> [at |-> 0, bytes |-> source \o <<0>>]
        [] fn = "strncpy" -> [at |-> 0, bytes |-> [k \in 1 .. n |-> IF k \in DOMAIN source THEN source[k] ELSE 0]]
        [] fn = "strcat"  -> [at |-> LengthAt(0), bytes |-> source \o <<0>>]
        [] fn = "strncat" -> [at |-> LengthAt(0), bytes |-> SubSeq(source, 1, Min({n, Len(source)})) \o <<0>>]

\* string.h:332 to 346: the writing functions write these bytes and no others, where
\* strlen measures their strings; and the calls of strtok return the parts of the
\* string last started, one each, and none for ever after the last, although they
\* cut the string and keep their place in a variable shared by all callers.
StringsWritten ==
  /\ /\ Answered({"memset", "strcpy", "strncpy", "strcat", "strncat"})
     /\ question.fn \in {"strcat", "strncat"} => Measured(0)
     /\ question.fn \in {"strcpy", "strcat"} => Measured(question.other)
     => LET w == ToBeWritten
            at(a) == a - (asked.dst + w.at) + 1
        IN  answer = [a \in Address |-> IF at(a) \in DOMAIN w.bytes THEN w.bytes[at(a)] ELSE mem[a]]
  /\ Answered({"strtok"}) =>
       \A i \in DOMAIN question.calls :
         LET started == {j \in 1 .. i : question.calls[j] # NULL} IN
         answer[i] =
           IF started = {} THEN << >>
           ELSE Part(Text(question.calls[Max(started)]), CharsAt(question.delim), i - Max(started) + 1)

\* The number that a question's digits spell out.
Spelt ==
  LET value[k \in 0 .. Len(question.digits)] ==
        IF k = 0 THEN 0 ELSE (value[k - 1] * question.radix) + question.digits[k]
  IN  value[Len(question.digits)]

Clamped(low, x, high) == Max({low, Min({x, high})})

\* The text's prefix is one of base 2, which stdlib.h:221 to 233 does not know; or a
\* prefix stands there without digits.
BinaryPrefixed == \E p \in PrefixesIn(asked, question) : p.radix = 2

BarePrefix == question.digits = << >> /\ PrefixesIn(asked, question) # {}

\* stdlib.h:248 "returns the result of the conversion, unless the value would
\* underflow or overflow": a number written as stdlib.h has it is read back, to the last
\* value that fits, and of the signed functions beyond it the limit; endptr is left
\* behind the last digit.  Of the unsigned ones the header has LONG_MAX and LLONG_MAX
\* for what does not fit, the code ULONG_MAX; nothing is claimed of those.
NumbersReadBack ==
  Answered({"strtol", "strtoll", "strtoul", "strtoull"}) /\ ~BinaryPrefixed =>
    LET signed == IF question.negative THEN -Spelt ELSE Spelt IN
      /\ ~BarePrefix =>
           answer.endptr =
             asked.dst + (IF question.digits = << >> THEN 0 ELSE question.end)
      /\ question.fn \in {"strtol", "strtoll"} =>
           answer.value = Clamped(LONG_MIN, signed, LONG_MAX)
      /\ question.fn \in {"strtoul", "strtoull"} /\ Spelt <= ULONG_MAX =>
           answer.value = U(signed)
=============================================================================
