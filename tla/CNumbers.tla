------------------------------ MODULE CNumbers ------------------------------
(***************************************************************************)
(* strtol, strtoul, strtoll and strtoull (nolibc/src/stdlib), as values of *)
(* the memory m they are called on: what they return, and where they leave *)
(* endptr.  Characters are their ASCII codes.                              *)
(***************************************************************************)
EXTENDS CStrings

CONSTANTS
  LongLimit,  (* 2^63 in the code: long and long long hold less            *)
  CharSigned  (* whether the compiler's char is: yes on x86_64, no on      *)
              (* riscv64                                                   *)

ASSUME LongLimitAssumption == LongLimit \in Nat \ {0}
ASSUME CharSignedAssumption == CharSigned \in BOOLEAN

LONG_MAX  == LongLimit - 1
LONG_MIN  == -LongLimit
ULONG_MAX == (2 * LongLimit) - 1

\* unsigned arithmetic
U(x) == x % (2 * LongLimit)

\* (long) of an unsigned long
Signed(x) == IF x > LONG_MAX THEN x - (2 * LongLimit) ELSE x

isspace(c) == c \in {32} \cup 9 .. 13
isdigit(c) == c \in 48 .. 57
isupper(c) == c \in 65 .. 90
islower(c) == c \in 97 .. 122

MINUS == 45
PLUS  == 43
ZERO  == 48

isalnum(c) == isdigit(c) \/ isupper(c) \/ islower(c)

DigitValue ==
  [c \in Byte |-> IF isdigit(c) THEN c - ZERO ELSE IF isupper(c) THEN c - 65 + 10 ELSE c - 97 + 10]

\* strtoull subtracts the 10 that the others add, in a char.
DigitValueUll ==
  LET char(d) == IF CharSigned \/ d >= 0 THEN d ELSE d + 256 IN
  [c \in Byte |->
     IF isdigit(c) THEN c - ZERO ELSE IF isupper(c) THEN char(c - 65 - 10) ELSE char(c - 97 - 10)]

AfterSpace(m, s) == LoopEnd(s, 1, {a \in Nat : ~isspace(m[a])})

IsNegative(m, s) == m[AfterSpace(m, s)] = MINUS

AfterSign(m, s) ==
  LET a == AfterSpace(m, s) IN IF m[a] \in {MINUS, PLUS} THEN a + 1 ELSE a

HasPrefix(m, a, letters) == m[a] = ZERO /\ m[a + 1] \in letters

X == {120, 88}  \* x X
B == {98, 66}   \* b B

\* The base and the first digit after the sign at a; binary are the letters of the
\* binary prefix, which the long long functions do not know.
BaseAndDigits(m, a, base, binary) ==
  CASE base \in {0, 16} /\ HasPrefix(m, a, X) -> [base |-> 16, first |-> a + 2]
    [] base \in {0, 2} /\ HasPrefix(m, a, binary) -> [base |-> 2, first |-> a + 2]
    [] OTHER ->
         [base |-> IF base # 0 THEN base ELSE IF m[a] = ZERO THEN 8 ELSE 10, first |-> a]

\* One more digit c: any is 0 before the first, negative after an overflow.
\* Fault for the mutation runs: the last digit is not compared.
UpNoCutlim(r, c, base, max) ==
  IF r.any < 0 \/ r.acc > max \div base THEN [r EXCEPT !.any = -1]
  ELSE [acc |-> U((r.acc * base) + c), any |-> 1]

Up(r, c, base, max) ==
  LET cutoff == max \div base
      cutlim == max % base
  IN  IF r.any < 0 \/ r.acc > cutoff \/ (r.acc = cutoff /\ c > cutlim)
      THEN [r EXCEPT !.any = -1]
      ELSE [acc |-> U((r.acc * base) + c), any |-> 1]

\* Division in C.
Quotient(a, b)  == IF a < 0 THEN -((-a) \div b) ELSE a \div b
Remainder(a, b) == a - (b * Quotient(a, b))

\* strtoll counts a negative number down.
Down(r, c, base) ==
  LET rest   == Remainder(LONG_MIN, base)
      cutoff == Quotient(LONG_MIN, base) + (IF rest > 0 THEN 1 ELSE 0)
      cutlim == IF rest > 0 THEN base - rest ELSE -rest
  IN  IF r.any < 0 THEN r
      ELSE IF r.acc < cutoff \/ (r.acc = cutoff /\ c > cutlim) THEN [acc |-> LONG_MIN, any |-> -1]
      ELSE [acc |-> (r.acc * base) - c, any |-> 1]

\* Towards a limit above or below 0.
Towards(limit, r, c, base) == IF limit < 0 THEN Down(r, c, base) ELSE Up(r, c, base, limit)

\* The loop over the digits that start at first: acc, any and where it ended.
Digits(m, first, base, value, limit) ==
  LET end == LoopEnd(first, 1, {a \in Nat : ~isalnum(m[a]) \/ value[m[a]] >= base})
      loop[k \in 0 .. end - first] ==
        IF k = 0 THEN [acc |-> 0, any |-> 0]
        ELSE Towards(limit, loop[k - 1], value[m[first + k - 1]], base)
  IN  [acc |-> loop[end - first].acc, any |-> loop[end - first].any, end |-> end]

\* What is returned and what is stored through endptr.
Converted(r, nptr, value) ==
  [value |-> value, endptr |-> IF r.any # 0 THEN r.end ELSE nptr]

Nothing(nptr) == [value |-> 0, endptr |-> nptr]

strtol(m, nptr, base) ==
  LET neg == IsNegative(m, nptr)
      num == BaseAndDigits(m, AfterSign(m, nptr), base, B)
      max == IF neg THEN LongLimit ELSE LONG_MAX
      r   == Digits(m, num.first, num.base, DigitValue, max)
      acc == IF r.any < 0 THEN max ELSE r.acc
  IN  IF base \notin 0 .. 36 THEN Nothing(nptr)
      ELSE Converted(r, nptr, Signed(IF neg THEN U(-acc) ELSE acc))

\* The result of the unsigned functions: a minus sign negates what fits, and is lost
\* with what does not.
Unsigned(r, neg) == IF r.any < 0 THEN ULONG_MAX ELSE IF neg THEN U(-r.acc) ELSE r.acc

strtoul(m, nptr, base) ==
  LET num == BaseAndDigits(m, AfterSign(m, nptr), base, B)
      r   == Digits(m, num.first, num.base, DigitValue, ULONG_MAX)
  IN  Converted(r, nptr, Unsigned(r, IsNegative(m, nptr)))

strtoll(m, nptr, base) ==
  LET neg == IsNegative(m, nptr)
      num == BaseAndDigits(m, AfterSign(m, nptr), base, {})
      r   == Digits(m, num.first, num.base, DigitValue, IF neg THEN LONG_MIN ELSE LONG_MAX)
      acc == IF r.any < 0 /\ ~neg THEN LONG_MAX ELSE r.acc
  IN  IF base \notin 0 .. 36 THEN Nothing(nptr) ELSE Converted(r, nptr, acc)

strtoull(m, nptr, base) ==
  LET num == BaseAndDigits(m, AfterSign(m, nptr), base, {})
      r   == Digits(m, num.first, num.base, DigitValueUll, ULONG_MAX)
  IN  IF num.base \notin 2 .. 36 THEN Nothing(nptr)
      ELSE Converted(r, nptr, Unsigned(r, IsNegative(m, nptr)))
=============================================================================
