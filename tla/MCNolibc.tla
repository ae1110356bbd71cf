------------------------------ MODULE MCNolibc ------------------------------
(***************************************************************************)
(* Programs of every kind of question; MemSize leaves room for whole words *)
(* behind every block.                                                     *)
(***************************************************************************)
EXTENDS Nolibc

AllBytes == 0 .. 127

Filler == 1

Program(call, q) == [call |-> call, question |-> q]

\* The call that moves the bytes from address home.
Moves(bytes, home, to) ==
  [ mem    |-> [a \in Address |-> IF a - home + 1 \in DOMAIN bytes THEN bytes[a - home + 1] ELSE Filler],
    dst    |-> to,
    src    |-> home,
    length |-> Len(bytes) ]

\* Copies of every length between every two addresses, of bytes all different.
CopyPrograms ==
  {Program([mem |-> [a \in Address |-> a], dst |-> d, src |-> s, length |-> n], [fn |-> "none"]) :
     d \in 0 .. 11, s \in 0 .. 11, n \in 0 .. 11}

\* A string of one letter with another at p, its terminator at z, and a zero behind.
LetterA == 97
LetterB == 98

Letters(p, z, size) ==
  [k \in 1 .. size |-> IF k - 1 = z \/ k = size THEN 0 ELSE IF k - 1 = p THEN LetterB ELSE LetterA]

SearchQuestions(size) ==
  {[fn |-> "strlen"]}
    \cup {[fn |-> "strnlen", n |-> n] : n \in {0, 1, 7, size}}
    \cup {[fn |-> "memchr", c |-> LetterB, n |-> n] : n \in 0 .. size}
    \cup {[fn |-> f, c |-> c] : f \in {"strchr", "strrchr"}, c \in {0, LetterA, LetterB}}

SearchPrograms ==
  {Program(Moves(Letters(p, z, 18), 3, to), q) :
     p \in {0, 5, 9, 12, 17}, z \in 0 .. 16, to \in 0 .. 8, q \in SearchQuestions(18)}

\* Two strings, one behind the other.
Strings(n) == UNION {[1 .. k -> {LetterA, LetterB}] : k \in 0 .. n}

TwoStrings(s1, s2) == s1 \o <<0>> \o s2 \o <<0>>

PairCalls ==
  ({"strncmp", "strnstr"} \X (0 .. 5)) \cup ({"strcmp", "strcspn"} \X {0}) \cup ({"memmem"} \X (0 .. 4))

\* memmem searches the first string.
PairQuestion(s1, s2, f, n) ==
  [ fn |-> f, other |-> Len(s1) + 1, len |-> Len(s2),
    n |-> IF f = "memmem" THEN Least(n, Len(s1)) ELSE n ]

PairPrograms ==
  {Program(Moves(TwoStrings(s1, s2), 9, to), PairQuestion(s1, s2, c[1], c[2])) :
     s1 \in Strings(4), s2 \in Strings(2), to \in {8, 10}, c \in PairCalls}

\* A buffer of eight bytes with a string, and another string behind it.
Buffer(s1, s2) == s1 \o <<0>> \o [k \in 1 .. 7 - Len(s1) |-> Filler] \o s2 \o <<0>>

WriteQuestions ==
  {[fn |-> f, other |-> 8, n |-> 0] : f \in {"strcpy", "strcat"}}
    \cup {[fn |-> "strncpy", other |-> 8, n |-> n] : n \in 0 .. 8}
    \cup {[fn |-> "strncat", other |-> 8, n |-> n] : n \in 0 .. 4}

WritePrograms ==
  {Program(Moves(Buffer(s1, s2), 20, to), q) :
     s1 \in Strings(2), s2 \in Strings(3), to \in {8, 11}, q \in WriteQuestions}

SetPrograms ==
  {Program(Moves(<<LetterA>>, 0, 8), [fn |-> "memset", from |-> from, c |-> LetterB, n |-> n]) :
     from \in 0 .. 3, n \in 0 .. 15}

\* Two strings in parts, and the delimiters.
COMMA == 44
COLON == 58

PartedStrings(n) == UNION {[1 .. k -> {LetterA, COMMA}] : k \in 0 .. n}

CallPatterns(other) ==
  { <<NULL, 0, NULL, NULL, NULL>>, <<0, NULL, other, NULL, NULL>>, <<other, NULL, NULL>> }

TokenCalls(s1, s2, delims) ==
  LET second == Len(s1) + 1 IN
  {Program(Moves(TwoStrings(s1, s2) \o delims \o <<0>>, 17, 8),
           [fn |-> "strtok", calls |-> calls, delim |-> second + Len(s2) + 1]) :
     calls \in CallPatterns(second)}

TokenPrograms ==
  UNION {TokenCalls(s1, s2, delims) :
           s1 \in PartedStrings(5),
           s2 \in {<<LetterA, COLON, LetterB>>, <<COLON, COLON, COMMA>>, <<LetterB>>},
           delims \in {<< >>, <<COMMA>>, <<COLON, COMMA>>}}

\* Numbers: white space, sign, prefix, digits and what follows them.
Settings ==
  { [space |-> << >>, follower |-> << >>], [space |-> <<32, 9>>, follower |-> <<46>>],
    [space |-> << >>, follower |-> <<122>>] }

Signs == {<< >>, <<MINUS>>, <<PLUS>>}

Form(base, radix, prefix, set, most) ==
  [base |-> base, radix |-> radix, prefix |-> prefix, set |-> set, most |-> most]

Decimals == {1, 2, 3, 4, 6}
Hexes    == {0, 1, 2, 3, 15}
Octals   == {0, 1, 3, 4, 7}

\* Digits around 31, 32, 63 and 64.  With base 0 a leading zero is an octal digit.
Forms ==
  { Form(10, 10, << >>, Decimals, 3), Form(0, 10, << >>, Decimals, 3),
    Form(16, 16, << >>, Hexes, 3), Form(16, 16, <<ZERO, 120>>, Hexes, 2),
    Form(0, 16, <<ZERO, 88>>, Hexes, 2), Form(8, 8, << >>, Octals, 3),
    Form(0, 8, <<ZERO>>, Octals, 3), Form(2, 2, << >>, {0, 1}, 6),
    Form(2, 2, <<ZERO, 66>>, {0, 1}, 2), Form(0, 2, <<ZERO, 98>>, {0, 1}, 2) }

\* The octal prefix is a digit; behind the others there may be none.
Fits(form, digits) ==
  /\ Len(digits) <= form.most
  /\ \A k \in DOMAIN digits : digits[k] \in form.set

SomeDigits ==
  UNION {[1 .. k -> digits] : k \in 0 .. 3, digits \in {Decimals, Hexes, Octals}}
    \cup UNION {[1 .. k -> {0, 1}] : k \in 4 .. 6}

\* The long long functions know no binary prefix; strtoull takes letters for other
\* digits than they are, so it is asked for numbers without, and with none behind.
BinaryPrefix(form) == form.prefix # << >> /\ form.radix = 2

Letterless(setting, digits) ==
  15 \notin {digits[k] : k \in DOMAIN digits} /\ setting.follower # <<122>>

Parsers == {"strtol", "strtoul", "strtoll", "strtoull"}

FunctionsOf(form, setting, digits) ==
  {"strtol", "strtoul"}
    \cup (IF BinaryPrefix(form) THEN {} ELSE {"strtoll"})
    \cup (IF ~BinaryPrefix(form) /\ Letterless(setting, digits) THEN {"strtoull"} ELSE {})

Char(d) == IF d < 10 THEN ZERO + d ELSE LetterA + d - 10

NumberText(form, setting, sign, digits) ==
  setting.space \o sign \o form.prefix \o [k \in 1 .. Len(digits) |-> Char(digits[k])]

NumberQuestion(f, form, sign, digits, end) ==
  [ fn |-> f, base |-> form.base, radix |-> form.radix, negative |-> sign = <<MINUS>>,
    digits |-> IF form.prefix = <<ZERO>> THEN <<0>> \o digits ELSE digits,
    end |-> end ]

Asks(form, setting, sign, digits, f) ==
  LET text == NumberText(form, setting, sign, digits) IN
  Program(Moves(text \o setting.follower \o <<0>>, 16, 8),
          NumberQuestion(f, form, sign, digits, Len(text)))

NumberPrograms ==
  LET Numbers == Forms \X Settings \X Signs \X SomeDigits \X Parsers IN
  {Asks(n[1], n[2], n[3], n[4], n[5]) :
     n \in {x \in Numbers : Fits(x[1], x[4]) /\ x[5] \in FunctionsOf(x[1], x[2], x[4])}}

AllPrograms ==
  { CopyPrograms, SearchPrograms, PairPrograms, WritePrograms, SetPrograms, TokenPrograms,
    NumberPrograms }
=============================================================================
