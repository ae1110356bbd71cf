------------------------- MODULE Uart16550A_proofs --------------------------
(***************************************************************************)
(* What the serial port driver guarantees for FIFOs of every size and any  *)
(* number of bytes, whatever the chip does between its register accesses.  *)
(***************************************************************************)
EXTENDS Uart16550A, SequenceTheorems, TLAPS
-----------------------------------------------------------------------------
(* Type correctness.                                                        *)

\* A call that writes has counted its byte.
Counted == pc = "write" => dataIn >= 1

TypeInv == TypeOK /\ Counted

LEMMA SeqGrows ==
  ASSUME NEW S, NEW s \in Seq(S), NEW e \in S
  PROVE  Append(s, e) \in Seq(S) /\ Len(Append(s, e)) = Len(s) + 1
OBVIOUS

LEMMA SeqShrinks ==
  ASSUME NEW S, NEW s \in Seq(S), s # << >>
  PROVE  Head(s) \in S /\ Tail(s) \in Seq(S) /\ Len(Tail(s)) = Len(s) - 1
OBVIOUS

LEMMA SeqWidens ==
  ASSUME NEW S, NEW T, S \subseteq T, NEW s \in Seq(S)
  PROVE  s \in Seq(T)
OBVIOUS

LEMMA ReturnedType ==
  ASSUME delivered \in Seq(Bytes), NEW byte \in Bytes
  PROVE  Returned(byte) \in Seq(Bytes)
BY SeqGrows DEF Returned

LEMMA LineStatusType == LineStatus \subseteq Bits
BY DEF LineStatus

LEMMA ReadLineStatusType ==
  ASSUME TypeOK, ReadLineStatus
  PROVE  lsr' \subseteq Bits /\ overrun' \in BOOLEAN
BY LineStatusType DEF ReadLineStatus, TypeOK

LEMMA HeldType ==
  ASSUME TypeOK, NEW byte \in Bytes
  PROVE  Held(byte) \in Seq(Bytes) /\ Len(Held(byte)) <= fifoSize
<1>1. fifoSize \in Nat \ {0}
  BY FifoSizesAssumption DEF TypeOK
<1>2. tx \in Seq(Bytes) /\ Len(tx) <= fifoSize
  BY DEF TypeOK
<1>3. CASE Len(tx) < fifoSize
  <2>1. Held(byte) = Append(tx, byte)
    BY <1>1, <1>2, <1>3 DEF Held
  <2> QED
    BY <1>1, <1>2, <1>3, <2>1, SeqGrows
<1>4. CASE Len(tx) >= fifoSize /\ fifoSize = 1
  <2>1. Held(byte) = <<byte>>
    BY <1>1, <1>2, <1>4 DEF Held
  <2> QED
    BY <1>4, <2>1
<1>5. CASE Len(tx) >= fifoSize /\ fifoSize > 1
  BY <1>1, <1>2, <1>5 DEF Held
<1> QED
  BY <1>1, <1>2, <1>3, <1>4, <1>5

LEMMA TypeInit == Init => TypeInv
<1> SUFFICES ASSUME Init PROVE TypeInv
  OBVIOUS
<1>1. << >> \in Seq(Bytes) /\ << >> \in Seq(1 .. MaxBytes) /\ << >> \in Seq(1 .. arrived)
  OBVIOUS
<1>2. <<Firmware>> \in Seq(Bytes) /\ Len(<<Firmware>>) = 1 /\ Len(<< >>) = 0
  BY DEF Bytes
<1>3. fifoSize \in Nat \ {0} /\ MaxBytes \in Nat
  BY FifoSizesAssumption, BytesAssumption DEF Init
<1>4. port \in Ports /\ fifoSize \in FifoSizes /\ pc = "idle" /\ dataIn = 0 /\ lsr = {}
  BY DEF Init
<1>5. arrived = 0 /\ lost = 0 /\ overrun = FALSE
  BY DEF Init
<1>6. delivered \in Seq(Bytes) /\ accepted \in Seq(1 .. MaxBytes)
  BY <1>1 DEF Init
<1>7. rx \in Seq(1 .. arrived) /\ Len(rx) <= fifoSize
  BY <1>1, <1>2, <1>3 DEF Init
<1>8. tx \in Seq(Bytes) /\ Len(tx) <= fifoSize
  <2>1. tx = << >> \/ tx = <<Firmware>>
    BY DEF Init
  <2>2. 0 <= fifoSize /\ 1 <= fifoSize
    BY <1>3
  <2>3. CASE tx = << >>
    BY <1>1, <1>2, <2>2, <2>3, Zenon
  <2>4. CASE tx = <<Firmware>>
    BY <1>2, <2>2, <2>4, Zenon
  <2> QED
    BY <2>1, <2>3, <2>4
<1>9. shifting \in Seq(Bytes) /\ Len(shifting) <= 1 /\ sent \in Seq(Bytes)
  BY <1>1, <1>2 DEF Init
<1>10. /\ dataIn \in 0 .. MaxBytes /\ arrived \in 0 .. MaxBytes /\ lost \in 0 .. arrived
       /\ lsr \subseteq Bits /\ overrun \in BOOLEAN /\ pc \in {"idle", "read", "write"}
  <2>1. dataIn \in 0 .. MaxBytes /\ arrived \in 0 .. MaxBytes /\ lost \in 0 .. arrived
    BY <1>3, <1>4, <1>5
  <2>2. lsr \subseteq Bits /\ overrun \in BOOLEAN /\ pc \in {"idle", "read", "write"}
    BY <1>4, <1>5, Zenon
  <2> QED
    BY <2>1, <2>2
<1>11. (pc # "idle" => Is16550A) /\ Counted
  BY <1>4 DEF Counted
<1> QED
  BY <1>4, <1>6, <1>7, <1>8, <1>9, <1>10, <1>11 DEF TypeInv, TypeOK

LEMMA TypeChip == ASSUME TypeInv, Chip PROVE TypeInv'
<1> USE DEF setup, driver, line, sender
<1>1. fifoSize \in Nat \ {0} /\ MaxBytes \in Nat
  BY FifoSizesAssumption, BytesAssumption DEF TypeInv, TypeOK
<1>2. CASE Receive
  <2>1. arrived \in Nat /\ arrived' = arrived + 1 /\ arrived' \in 1 .. MaxBytes
    BY <1>1, <1>2 DEF Receive, TypeInv, TypeOK
  <2>2. rx \in Seq(1 .. arrived') /\ Len(rx) <= fifoSize
    <3>1. 1 .. arrived \subseteq 1 .. arrived'
      BY <2>1
    <3> QED
      BY <3>1, SeqWidens DEF TypeInv, TypeOK
  <2>3. rx' \in Seq(1 .. arrived') /\ Len(rx') <= fifoSize
    <3>1. CASE Len(rx) < fifoSize
      BY <1>1, <1>2, <2>1, <2>2, <3>1, SeqGrows DEF Receive
    <3>2. CASE ~(Len(rx) < fifoSize)
      BY <1>1, <1>2, <2>1, <2>2, <3>2 DEF Receive
    <3> QED
      BY <3>1, <3>2
  <2>4. lost' \in 0 .. arrived' /\ overrun' \in BOOLEAN
    <3>1. lost \in 0 .. arrived /\ overrun \in BOOLEAN
      BY DEF TypeInv, TypeOK
    <3>2. CASE Len(rx) < fifoSize
      <4>1. lost' = lost /\ overrun' = overrun
        BY <1>2, <3>2 DEF Receive
      <4> QED
        BY <2>1, <3>1, <4>1
    <3>3. CASE ~(Len(rx) < fifoSize)
      <4>1. lost' = lost + 1 /\ overrun' = TRUE
        BY <1>2, <3>3 DEF Receive
      <4> QED
        BY <2>1, <3>1, <4>1
    <3> QED
      BY <3>2, <3>3
  <2> QED
    BY <1>2, <2>1, <2>3, <2>4 DEF Receive, TypeInv, TypeOK, Counted, Is16550A
<1>3. CASE Load
  <2>1. tx \in Seq(Bytes) /\ tx # << >> /\ Len(tx) <= fifoSize
    BY <1>3 DEF Load, TypeInv, TypeOK
  <2>2. tx' \in Seq(Bytes) /\ Len(tx') <= fifoSize /\ shifting' \in Seq(Bytes) /\ Len(shifting') <= 1
    BY <1>1, <1>3, <2>1, SeqShrinks DEF Load
  <2> QED
    BY <1>3, <2>2 DEF Load, TypeInv, TypeOK, Counted, Is16550A
<1>4. CASE Send
  <2>1. sent' \in Seq(Bytes) /\ shifting' \in Seq(Bytes) /\ Len(shifting') <= 1
    BY <1>4 DEF Send, TypeInv, TypeOK
  <2> QED
    BY <1>4, <2>1 DEF Send, TypeInv, TypeOK, Counted, Is16550A
<1> QED
  BY <1>2, <1>3, <1>4 DEF Chip

LEMMA TypeDriver == ASSUME TypeInv, Driver PROVE TypeInv'
<1> USE DEF setup, line, sender
<1>1. MaxBytes \in Nat /\ dataIn \in 0 .. MaxBytes /\ TypeOK /\ Counted
  BY BytesAssumption DEF TypeInv, TypeOK
<1>2. CASE CallRead
  <2>1. lsr' \subseteq Bits /\ overrun' \in BOOLEAN
    BY <1>1, <1>2, ReadLineStatusType DEF CallRead
  <2> QED
    BY <1>1, <1>2, <2>1 DEF CallRead, TypeInv, TypeOK, Counted, Is16550A
<1>3. CASE CallWrite
  <2>1. lsr' \subseteq Bits /\ overrun' \in BOOLEAN
    BY <1>1, <1>3, ReadLineStatusType DEF CallWrite
  <2>2. dataIn' \in 0 .. MaxBytes /\ dataIn' >= 1
    BY <1>1, <1>3 DEF CallWrite
  <2> QED
    BY <1>1, <1>3, <2>1, <2>2 DEF CallWrite, TypeInv, TypeOK, Counted, Is16550A
<1>4. CASE ReadByte
  <2>1. Garbage \in Bytes
    BY DEF Bytes
  <2>2. CASE HasAccess /\ rx # << >>
    <3>1. rx \in Seq(1 .. arrived) /\ arrived \in 0 .. MaxBytes /\ Len(rx) <= fifoSize
      BY <1>1 DEF TypeOK
    <3>2. Head(rx) \in 1 .. arrived /\ Tail(rx) \in Seq(1 .. arrived) /\ Len(Tail(rx)) = Len(rx) - 1
      BY <2>2, <3>1, SeqShrinks
    <3>3. Head(rx) \in Bytes
      BY <1>1, <3>1, <3>2 DEF Bytes
    <3>4. fifoSize \in Nat
      BY <1>1, FifoSizesAssumption DEF TypeOK
    <3>5. Len(Tail(rx)) <= fifoSize
      BY <3>1, <3>2, <3>4
    <3>6. delivered' \in Seq(Bytes) /\ rx' \in Seq(1 .. arrived) /\ Len(rx') <= fifoSize
      BY <1>1, <1>4, <2>2, <3>2, <3>3, <3>5, ReturnedType DEF ReadByte, TypeOK
    <3> QED
      BY <1>1, <1>4, <3>6 DEF ReadByte, TypeInv, TypeOK, Counted, Is16550A
  <2>3. CASE ~(HasAccess /\ rx # << >>)
    <3>1. delivered' \in Seq(Bytes) /\ rx' = rx
      BY <1>1, <1>4, <2>1, <2>3, ReturnedType DEF ReadByte, TypeOK
    <3> QED
      BY <1>1, <1>4, <3>1 DEF ReadByte, TypeInv, TypeOK, Counted, Is16550A
  <2> QED
    BY <2>2, <2>3
<1>5. CASE ReadNothing
  BY <1>1, <1>5 DEF ReadNothing, TypeInv, TypeOK, Counted, Is16550A
<1>6. CASE WriteByte
  <2>1. dataIn \in 1 .. MaxBytes /\ dataIn \in Bytes
    BY <1>1, <1>6 DEF WriteByte, Counted, Bytes
  <2>2. accepted' \in Seq(1 .. MaxBytes)
    BY <1>1, <1>6, <2>1, SeqGrows DEF WriteByte, TypeOK
  <2>3. tx' \in Seq(Bytes) /\ Len(tx') <= fifoSize
    BY <1>1, <1>6, <2>1, HeldType DEF WriteByte, TypeOK
  <2> QED
    BY <1>1, <1>6, <2>2, <2>3 DEF WriteByte, TypeInv, TypeOK, Counted, Is16550A
<1>7. CASE WriteNothing
  BY <1>1, <1>7 DEF WriteNothing, TypeInv, TypeOK, Counted, Is16550A
<1>8. CASE FallOffEnd
  <2>1. dataIn' \in 0 .. MaxBytes /\ accepted' \in Seq(1 .. MaxBytes) /\ delivered' \in Seq(Bytes)
    <3>1. CASE delivered' = Returned(0) /\ UNCHANGED <<dataIn, accepted>>
      <4>1. 0 \in Bytes
        BY <1>1 DEF Bytes
      <4> QED
        BY <1>1, <3>1, <4>1, ReturnedType DEF TypeOK
    <3>2. CASE /\ dataIn < MaxBytes /\ dataIn' = dataIn + 1
               /\ accepted' \in {accepted, Append(accepted, dataIn')}
               /\ UNCHANGED delivered
      <4>1. dataIn' \in 1 .. MaxBytes
        BY <1>1, <3>2
      <4>2. accepted \in Seq(1 .. MaxBytes) /\ delivered' \in Seq(Bytes)
        BY <1>1, <3>2 DEF TypeOK
      <4>3. Append(accepted, dataIn') \in Seq(1 .. MaxBytes)
        BY <4>1, <4>2, SeqGrows
      <4>4. dataIn' \in 0 .. MaxBytes
        BY <1>1, <4>1
      <4>5. accepted' \in Seq(1 .. MaxBytes)
        BY <3>2, <4>2, <4>3
      <4> QED
        BY <4>2, <4>4, <4>5
    <3> QED
      BY <1>8, <3>1, <3>2 DEF FallOffEnd
  <2> QED
    BY <1>1, <1>8, <2>1 DEF FallOffEnd, TypeInv, TypeOK, Counted, Is16550A
<1> QED
  BY <1>2, <1>3, <1>4, <1>5, <1>6, <1>7, <1>8 DEF Driver

LEMMA TypeStep == TypeInv /\ [Next]_vars => TypeInv'
<1> SUFFICES ASSUME TypeInv, [Next]_vars PROVE TypeInv'
  OBVIOUS
<1>1. CASE Next
  BY <1>1, TypeChip, TypeDriver DEF Next
<1>2. CASE UNCHANGED vars
  BY <1>2 DEF vars, setup, driver, line, sender, TypeInv, TypeOK, Counted, Is16550A
<1> QED
  BY <1>1, <1>2

LEMMA TypeInvariant == Spec => []TypeInv
BY TypeInit, TypeStep, PTL DEF Spec

\* The registers, the counts and the queues of the chip keep their kinds and sizes.
THEOREM TypeCorrect == Spec => []TypeOK
<1>1. TypeInv => TypeOK
  BY DEF TypeInv
<1> QED
  BY <1>1, TypeInvariant, PTL
-----------------------------------------------------------------------------
(* Reading.                                                                 *)

InRange(s, n) == \A k \in 1 .. Len(s) : s[k] \in 1 .. n

Increasing(s) == \A k, l \in 1 .. Len(s) : k < l => s[k] < s[l]

\* A call that saw data ready finds a byte: only it takes bytes out, and an overrun
\* puts another in the place of the one it drops.
StillReady == Working /\ pc = "read" /\ Ready => rx # << >>

ReadInv == TypeInv /\ StillReady /\ DeliveredInOrder /\ NoneSwallowed

\* The next byte of the line comes after those read and those waiting.
LEMMA PendingGrows ==
  ASSUME NEW S, NEW d \in Seq(S), NEW r \in Seq(S), NEW n \in Nat, n + 1 \in S,
         InRange(d \o r, n), Increasing(d \o r)
  PROVE  InRange(d \o Append(r, n + 1), n + 1) /\ Increasing(d \o Append(r, n + 1))
<1> DEFINE p == d \o r
           q == d \o Append(r, n + 1)
<1>1. /\ p \in Seq(S) /\ Len(p) = Len(d) + Len(r) /\ Len(d) \in Nat /\ Len(r) \in Nat
      /\ \A i \in 1 .. Len(d) + Len(r) : p[i] = IF i <= Len(d) THEN d[i] ELSE r[i - Len(d)]
  BY ConcatProperties, LenProperties
<1>2. /\ Append(r, n + 1) \in Seq(S) /\ Len(Append(r, n + 1)) = Len(r) + 1
      /\ \A i \in 1 .. Len(r) : Append(r, n + 1)[i] = r[i]
      /\ Append(r, n + 1)[Len(r) + 1] = n + 1
  BY AppendProperties
<1>3. /\ Len(q) = Len(d) + Len(r) + 1
      /\ \A i \in 1 .. Len(d) + Len(r) + 1 :
           q[i] = IF i <= Len(d) THEN d[i] ELSE Append(r, n + 1)[i - Len(d)]
  BY <1>1, <1>2, ConcatProperties
<1>4. \A i \in 1 .. Len(p) : q[i] = p[i]
  BY <1>1, <1>2, <1>3
<1>5. q[Len(p) + 1] = n + 1 /\ Len(q) = Len(p) + 1 /\ Len(p) \in Nat
  BY <1>1, <1>2, <1>3
<1> HIDE DEF p, q
<1>6. InRange(p, n) /\ Increasing(p)
  BY DEF p
<1>7. InRange(q, n + 1)
  BY <1>4, <1>5, <1>6 DEF InRange
<1>8. Increasing(q)
  <2> SUFFICES ASSUME NEW k \in 1 .. Len(q), NEW l \in 1 .. Len(q), k < l
               PROVE  q[k] < q[l]
    BY DEF Increasing
  <2>1. k \in 1 .. Len(p)
    BY <1>5
  <2>2. CASE l \in 1 .. Len(p)
    BY <1>4, <1>6, <2>1, <2>2 DEF Increasing
  <2>3. CASE l = Len(p) + 1
    <3>1. q[k] \in 1 .. n
      BY <1>4, <1>6, <2>1 DEF InRange
    <3> QED
      BY <1>5, <2>3, <3>1
  <2> QED
    BY <1>5, <2>2, <2>3
<1> QED
  BY <1>7, <1>8 DEF q

\* Taking the first waiting byte changes nothing in the order.
LEMMA PendingMoves ==
  ASSUME NEW S, NEW d \in Seq(S), NEW r \in Seq(S), r # << >>
  PROVE  Append(d, Head(r)) \o Tail(r) = d \o r
<1>1. Head(r) \in S /\ Tail(r) \in Seq(S) /\ r = <<Head(r)>> \o Tail(r)
  <2>1. /\ Head(r) \in S /\ Tail(r) \in Seq(S) /\ Len(Tail(r)) = Len(r) - 1 /\ Head(r) = r[1]
        /\ \A i \in 1 .. Len(Tail(r)) : Tail(r)[i] = r[i + 1]
    BY HeadTailProperties
  <2>2. <<Head(r)>> \in Seq(S) /\ Len(<<Head(r)>>) = 1 /\ <<Head(r)>>[1] = Head(r)
    BY <2>1
  <2> DEFINE c == <<Head(r)>> \o Tail(r)
  <2>3. /\ c \in Seq(S) /\ Len(c) = 1 + Len(Tail(r))
        /\ \A i \in 1 .. 1 + Len(Tail(r)) :
             c[i] = IF i <= 1 THEN <<Head(r)>>[i] ELSE Tail(r)[i - 1]
    BY <2>1, <2>2, ConcatProperties
  <2>4. Len(r) \in Nat /\ Len(c) = Len(r)
    BY <2>1, <2>3, LenProperties
  <2>5. \A i \in 1 .. Len(r) : r[i] = c[i]
    BY <2>1, <2>2, <2>3, <2>4
  <2> HIDE DEF c
  <2>6. r = c
    BY <2>3, <2>4, <2>5, SeqEqual
  <2> QED
    BY <2>1, <2>6 DEF c
<1>2. Append(d, Head(r)) = d \o <<Head(r)>> /\ <<Head(r)>> \in Seq(S)
  BY <1>1, AppendIsConcat
<1>3. (d \o <<Head(r)>>) \o Tail(r) = d \o (<<Head(r)>> \o Tail(r))
  BY <1>1, <1>2, ConcatAssociative
<1> QED
  BY <1>1, <1>2, <1>3

\* What has been read stays in order when what waits is dropped.
LEMMA ReadPart ==
  ASSUME NEW S, NEW d \in Seq(S), NEW r \in Seq(S), NEW n \in Nat,
         InRange(d \o r, n), Increasing(d \o r)
  PROVE  InRange(d, n) /\ Increasing(d)
<1>1. /\ Len(d \o r) = Len(d) + Len(r) /\ Len(d) \in Nat /\ Len(r) \in Nat
      /\ \A i \in 1 .. Len(d) : i \in 1 .. Len(d) + Len(r) /\ (d \o r)[i] = d[i]
  BY ConcatProperties, LenProperties
<1> QED
  BY <1>1 DEF InRange, Increasing

LEMMA InOrderIff ==
  DeliveredInOrder
    <=> (Working => InRange(delivered \o rx, arrived) /\ Increasing(delivered \o rx))
BY DEF DeliveredInOrder, InRange, Increasing

\* The sequences of the receiving side, in one type.
LEMMA ReadTypes ==
  ASSUME TypeInv
  PROVE  /\ delivered \in Seq(Bytes) /\ rx \in Seq(Bytes) /\ arrived \in Nat /\ arrived <= MaxBytes
         /\ Len(delivered) \in Nat /\ Len(rx) \in Nat /\ Len(rx) <= fifoSize
         /\ fifoSize \in Nat \ {0} /\ lost \in Nat /\ MaxBytes \in Nat
<1>1. arrived \in 0 .. MaxBytes /\ MaxBytes \in Nat /\ lost \in 0 .. arrived /\ fifoSize \in Nat \ {0}
  BY BytesAssumption, FifoSizesAssumption DEF TypeInv, TypeOK
<1>2. 1 .. arrived \subseteq Bytes
  BY <1>1 DEF Bytes
<1>3. rx \in Seq(1 .. arrived) /\ delivered \in Seq(Bytes) /\ Len(rx) <= fifoSize
  BY DEF TypeInv, TypeOK
<1>4. rx \in Seq(Bytes)
  BY <1>2, <1>3, SeqMonotonic
<1> QED
  BY <1>1, <1>3, <1>4, LenProperties

LEMMA ReadInit == Init => ReadInv
<1> SUFFICES ASSUME Init PROVE ReadInv
  OBVIOUS
<1>1. delivered \o rx = << >> /\ Len(<< >>) = 0
  BY ConcatEmptySeq, EmptySeq DEF Init
<1>2. DeliveredInOrder
  BY <1>1 DEF DeliveredInOrder
<1>3. NoneSwallowed
  BY <1>1 DEF Init, NoneSwallowed
<1>4. StillReady
  BY DEF Init, StillReady
<1> QED
  BY <1>2, <1>3, <1>4, TypeInit DEF ReadInv

LEMMA ReceiveKeepsOrder == ASSUME ReadInv, Receive PROVE ReadInv'
<1> USE DEF setup, driver, sender
<1>1. TypeInv /\ TypeInv' /\ StillReady /\ NoneSwallowed
  BY TypeChip DEF ReadInv, Chip
<1>2. (Working' <=> Working) /\ (Ready' <=> Ready) /\ pc' = pc /\ delivered' = delivered
  BY DEF Receive, Working, Is16550A, HasAccess, Ready
<1>3. SUFFICES ASSUME Working
               PROVE  /\ InRange(delivered \o rx', arrived + 1) /\ Increasing(delivered \o rx')
                      /\ arrived + 1 = Len(delivered) + Len(rx') + lost'
                      /\ rx' # << >> \/ rx' = rx
  <2>1. arrived' = arrived + 1 /\ (DeliveredInOrder'
           <=> (Working' => InRange(delivered' \o rx', arrived') /\ Increasing(delivered' \o rx')))
    BY DEF Receive, DeliveredInOrder, InRange, Increasing
  <2> QED
    BY <1>1, <1>2, <1>3, <2>1 DEF ReadInv, NoneSwallowed, StillReady
<1>4. InRange(delivered \o rx, arrived) /\ Increasing(delivered \o rx)
  BY <1>3, InOrderIff DEF ReadInv
<1>5. arrived = Len(delivered) + Len(rx) + lost
  BY <1>1, <1>3 DEF NoneSwallowed
<1>6. arrived + 1 \in Bytes
  BY <1>1, ReadTypes DEF Receive, Bytes
<1>7. CASE Len(rx) < fifoSize
  <2>1. rx' = Append(rx, arrived + 1) /\ lost' = lost
    BY <1>7 DEF Receive
  <2>2. InRange(delivered \o rx', arrived + 1) /\ Increasing(delivered \o rx')
    BY <1>1, <1>4, <1>6, <2>1, ReadTypes, PendingGrows
  <2>3. rx' # << >> /\ Len(rx') = Len(rx) + 1
    BY <1>1, <1>6, <2>1, ReadTypes, AppendProperties
  <2> QED
    BY <1>1, <1>5, <2>1, <2>2, <2>3, ReadTypes
<1>8. CASE ~(Len(rx) < fifoSize) /\ fifoSize = 1
  <2>1. rx' = <<arrived + 1>> /\ lost' = lost + 1 /\ Len(rx) = 1
    BY <1>1, <1>8, ReadTypes DEF Receive
  <2>2. InRange(delivered, arrived) /\ Increasing(delivered) /\ delivered \o << >> = delivered
    BY <1>1, <1>4, ReadTypes, ReadPart, ConcatEmptySeq
  <2>3. << >> \in Seq(Bytes) /\ Append(<< >>, arrived + 1) = <<arrived + 1>>
    OBVIOUS
  <2>4. InRange(delivered \o rx', arrived + 1) /\ Increasing(delivered \o rx')
    BY <1>1, <1>6, <2>1, <2>2, <2>3, ReadTypes, PendingGrows
  <2>5. rx' # << >> /\ Len(rx') = 1
    BY <2>1
  <2> QED
    BY <1>1, <1>5, <2>1, <2>4, <2>5, ReadTypes
<1>9. CASE ~(Len(rx) < fifoSize) /\ fifoSize # 1
  <2>1. rx' = rx /\ lost' = lost + 1
    BY <1>9 DEF Receive
  <2>2. /\ InRange(delivered \o rx, arrived) => InRange(delivered \o rx, arrived + 1)
    BY <1>1, ReadTypes DEF InRange
  <2> QED
    BY <1>1, <1>4, <1>5, <2>1, <2>2, ReadTypes
<1> QED
  BY <1>7, <1>8, <1>9

LEMMA ReadByteKeepsOrder == ASSUME ReadInv, ReadByte PROVE ReadInv'
<1> USE DEF setup, line, sender
<1>1. TypeInv /\ TypeInv' /\ StillReady /\ NoneSwallowed
  BY TypeDriver DEF ReadInv, Driver
<1>2. /\ Working' <=> Working
      /\ pc' = "idle" /\ arrived' = arrived /\ lost' = lost /\ pc = "read" /\ Ready
  BY DEF ReadByte, Working, Is16550A, HasAccess
<1>3. StillReady'
  BY <1>2 DEF StillReady
<1>4. CASE Working
  <2>1. rx # << >> /\ HasAccess
    BY <1>1, <1>2, <1>4 DEF StillReady, Working
  <2>2. arrived = Len(delivered) + Len(rx) + lost
    BY <1>1, <1>4 DEF NoneSwallowed
  <2>3. Len(rx) \in Nat \ {0}
    BY <1>1, <2>1, ReadTypes, EmptySeq
  <2>4. Len(delivered) < MaxBytes
    BY <1>1, <2>2, <2>3, ReadTypes
  <2>5. delivered' = Append(delivered, Head(rx)) /\ rx' = Tail(rx)
    BY <2>1, <2>4 DEF ReadByte, Returned
  <2>6. delivered' \o rx' = delivered \o rx
    BY <1>1, <2>1, <2>5, ReadTypes, PendingMoves
  <2>7. Head(rx) \in Bytes /\ Len(rx') = Len(rx) - 1
    BY <1>1, <2>1, <2>5, ReadTypes, HeadTailProperties
  <2>8. Len(delivered') = Len(delivered) + 1
    BY <1>1, <2>5, <2>7, ReadTypes, AppendProperties
  <2>9. DeliveredInOrder'
    BY <1>2, <2>6 DEF ReadInv, DeliveredInOrder
  <2>10. NoneSwallowed'
    BY <1>1, <1>2, <2>2, <2>7, <2>8, ReadTypes DEF NoneSwallowed
  <2> QED
    BY <1>1, <1>3, <2>9, <2>10 DEF ReadInv
<1>5. CASE ~Working
  BY <1>1, <1>2, <1>3, <1>5 DEF ReadInv, DeliveredInOrder, NoneSwallowed
<1> QED
  BY <1>4, <1>5

LEMMA ReadStep == ReadInv /\ [Next]_vars => ReadInv'
<1> SUFFICES ASSUME ReadInv, [Next]_vars PROVE ReadInv'
  OBVIOUS
<1> USE DEF setup, line, sender
<1>1. TypeInv /\ TypeInv' /\ StillReady
  BY TypeStep DEF ReadInv
<1>2. CASE UNCHANGED <<port, delivered, rx, arrived, lost>> /\ StillReady'
  BY <1>1, <1>2 DEF ReadInv, DeliveredInOrder, NoneSwallowed, Working, Is16550A, HasAccess
<1>3. CASE Receive
  BY <1>3, ReceiveKeepsOrder
<1>4. CASE ReadByte
  BY <1>4, ReadByteKeepsOrder
<1>5. CASE Load \/ Send
  <2>1. UNCHANGED <<port, pc, lsr, delivered, rx, arrived, lost>>
    BY <1>5 DEF Load, Send, driver
  <2> QED
    BY <1>1, <1>2, <2>1 DEF StillReady, Working, Is16550A, HasAccess, Ready
<1>6. CASE CallRead
  <2>1. UNCHANGED <<port, delivered, rx, arrived, lost>>
    BY <1>6 DEF CallRead
  <2>2. Working' /\ Ready' => rx' # << >>
    <3>1. SUFFICES ASSUME Working', Ready' PROVE rx # << >>
      BY <2>1
    <3>2. lsr' = LineStatus /\ 1 \in lsr'
      BY <1>6, <2>1, <3>1 DEF CallRead, ReadLineStatus, Working, HasAccess, Ready, DR
    <3> QED
      BY <3>2 DEF LineStatus, DR, OE, THRE, TEMT
  <2> QED
    BY <1>2, <2>1, <2>2 DEF StillReady
<1>7. CASE CallWrite \/ ReadNothing \/ WriteByte \/ WriteNothing
  <2>1. UNCHANGED <<port, delivered, rx, arrived, lost>> /\ pc' # "read"
    BY <1>7 DEF CallWrite, ReadNothing, WriteByte, WriteNothing
  <2> QED
    BY <1>2, <2>1 DEF StillReady
<1>8. CASE FallOffEnd
  BY <1>1, <1>8 DEF FallOffEnd, ReadInv, DeliveredInOrder, NoneSwallowed, StillReady, Working, Is16550A
<1>9. CASE UNCHANGED vars
  <2>1. UNCHANGED <<port, pc, lsr, delivered, rx, arrived, lost>>
    BY <1>9 DEF vars, driver
  <2> QED
    BY <1>1, <1>2, <2>1 DEF StillReady, Working, Is16550A, HasAccess, Ready
<1> QED
  BY <1>3, <1>4, <1>5, <1>6, <1>7, <1>8, <1>9 DEF Next, Driver, Chip

LEMMA ReadInvariant == Spec => []ReadInv
BY ReadInit, ReadStep, PTL DEF Spec

\* Whatever arrives or overruns between the status and the data of a call, what is
\* read is the line's, in its order, each byte at most once.
THEOREM InOrder == Spec => []DeliveredInOrder
<1>1. ReadInv => DeliveredInOrder
  BY DEF ReadInv
<1> QED
  BY <1>1, ReadInvariant, PTL

\* Every byte that arrived was read, waits, or was lost by the chip.
THEOREM AllAccountedFor == Spec => []NoneSwallowed
<1>1. ReadInv => NoneSwallowed
  BY DEF ReadInv
<1> QED
  BY <1>1, ReadInvariant, PTL
-----------------------------------------------------------------------------
(* Writing.                                                                 *)

\* The bytes of s that are not the firmware's are among acc and count up to n.
Kept(s, n, acc) ==
  \A k \in 1 .. Len(s) :
    s[k] # Firmware => s[k] \in 1 .. n /\ \E a \in 1 .. Len(acc) : acc[a] = s[k]

Rising(s) ==
  \A k, l \in 1 .. Len(s) : s[k] # Firmware /\ s[l] # Firmware /\ k < l => s[k] < s[l]

\* The writes whose call is over.
Written == IF pc = "write" THEN dataIn - 1 ELSE dataIn

WriteInv == TypeInv /\ (Working => Kept(sent \o shifting \o tx, Written, accepted)
                                   /\ Rising(sent \o shifting \o tx))

LEMMA WriteTypes ==
  ASSUME TypeInv
  PROVE  /\ sent \in Seq(Bytes) /\ shifting \in Seq(Bytes) /\ tx \in Seq(Bytes)
         /\ sent \o shifting \in Seq(Bytes) /\ accepted \in Seq(1 .. MaxBytes)
         /\ Len(tx) \in Nat /\ Len(tx) <= fifoSize /\ fifoSize \in Nat \ {0}
         /\ MaxBytes \in Nat /\ dataIn \in 0 .. MaxBytes /\ Written \in Nat /\ Written <= dataIn
<1>1. MaxBytes \in Nat /\ dataIn \in 0 .. MaxBytes /\ fifoSize \in Nat \ {0} /\ Counted
  BY BytesAssumption, FifoSizesAssumption DEF TypeInv, TypeOK
<1>2. /\ sent \in Seq(Bytes) /\ shifting \in Seq(Bytes) /\ tx \in Seq(Bytes)
      /\ accepted \in Seq(1 .. MaxBytes) /\ Len(tx) <= fifoSize
  BY DEF TypeInv, TypeOK
<1>3. sent \o shifting \in Seq(Bytes) /\ Len(tx) \in Nat
  BY <1>2, ConcatProperties, LenProperties
<1>4. Written \in Nat /\ Written <= dataIn
  BY <1>1 DEF Written, Counted
<1> QED
  BY <1>1, <1>2, <1>3, <1>4

\* What follows from what is on its way and out when it loses its last part.
LEMMA FirstPart ==
  ASSUME NEW S, NEW s \in Seq(S), NEW u \in Seq(S), NEW n, Kept(s \o u, n, accepted), Rising(s \o u)
  PROVE  Kept(s, n, accepted) /\ Rising(s)
<1>1. /\ Len(s \o u) = Len(s) + Len(u) /\ Len(s) \in Nat /\ Len(u) \in Nat
      /\ \A i \in 1 .. Len(s) : i \in 1 .. Len(s) + Len(u) /\ (s \o u)[i] = s[i]
  BY ConcatProperties, LenProperties
<1> QED
  BY <1>1 DEF Kept, Rising

LEMMA KeptLonger ==
  ASSUME NEW s, NEW n \in Int, NEW acc, Kept(s, n - 1, acc)
  PROVE  Kept(s, n, acc)
BY DEF Kept

LEMMA SelectionMeansWritten ==
  (Working => Kept(sent \o shifting \o tx, Written, accepted) /\ Rising(sent \o shifting \o tx))
    => RefusedIsNotSent
BY DEF Kept, Rising, RefusedIsNotSent

LEMMA WriteInit == Init => WriteInv
<1> SUFFICES ASSUME Init PROVE WriteInv
  OBVIOUS
<1>1. TypeInv
  BY TypeInit
<1>2. sent \o shifting = << >> /\ << >> \o tx = tx
  BY <1>1, WriteTypes, ConcatEmptySeq DEF Init
<1>3. tx = << >> \/ tx = <<Firmware>>
  BY DEF Init
<1>4. \A k \in 1 .. Len(tx) : tx[k] = Firmware
  <2>1. CASE tx = << >>
    BY <2>1
  <2>2. CASE tx = <<Firmware>>
    BY <2>2
  <2> QED
    BY <1>3, <2>1, <2>2
<1>5. Kept(tx, Written, accepted) /\ Rising(tx)
  BY <1>4 DEF Kept, Rising
<1> QED
  BY <1>1, <1>2, <1>5 DEF WriteInv

\* The byte of an accepted write goes behind what is there.
LEMMA OutGrows ==
  ASSUME TypeInv, NEW s \in Seq(Bytes), Kept(s, dataIn - 1, accepted), Rising(s), dataIn >= 1,
         accepted' = Append(accepted, dataIn), dataIn' = dataIn
  PROVE  Kept(Append(s, dataIn), dataIn, accepted') /\ Rising(Append(s, dataIn))
<1>1. /\ dataIn \in 1 .. MaxBytes /\ dataIn \in Bytes /\ dataIn # Firmware
  BY WriteTypes, BytesAssumption DEF Bytes
<1> DEFINE q == Append(s, dataIn)
<1>2. /\ Len(q) = Len(s) + 1 /\ q[Len(s) + 1] = dataIn /\ Len(s) \in Nat
      /\ \A i \in 1 .. Len(s) : q[i] = s[i]
  BY <1>1, AppendProperties, LenProperties
<1>3. /\ Len(accepted') = Len(accepted) + 1 /\ Len(accepted) \in Nat
      /\ accepted'[Len(accepted) + 1] = dataIn
      /\ \A a \in 1 .. Len(accepted) : accepted'[a] = accepted[a]
  BY <1>1, WriteTypes, AppendProperties, LenProperties
<1>4. \A k \in 1 .. Len(q) :
        q[k] # Firmware
          => q[k] \in 1 .. dataIn /\ \E a \in 1 .. Len(accepted') : accepted'[a] = q[k]
  <2> SUFFICES ASSUME NEW k \in 1 .. Len(q), q[k] # Firmware
               PROVE  q[k] \in 1 .. dataIn /\ \E a \in 1 .. Len(accepted') : accepted'[a] = q[k]
    OBVIOUS
  <2>1. CASE k = Len(s) + 1
    BY <1>1, <1>2, <1>3, <2>1
  <2>2. CASE k \in 1 .. Len(s)
    <3>1. q[k] = s[k] /\ s[k] \in 1 .. dataIn - 1
      BY <1>2, <2>2 DEF Kept
    <3>2. PICK a \in 1 .. Len(accepted) : accepted[a] = s[k]
      BY <1>2, <2>2 DEF Kept
    <3>3. a \in 1 .. Len(accepted') /\ accepted'[a] = q[k]
      BY <1>3, <3>1, <3>2
    <3> QED
      BY <1>1, <3>1, <3>3
  <2> QED
    BY <1>2, <2>1, <2>2
<1>5. \A k, l \in 1 .. Len(q) : q[k] # Firmware /\ q[l] # Firmware /\ k < l => q[k] < q[l]
  <2> SUFFICES ASSUME NEW k \in 1 .. Len(q), NEW l \in 1 .. Len(q),
                      q[k] # Firmware, q[l] # Firmware, k < l
               PROVE  q[k] < q[l]
    OBVIOUS
  <2>1. k \in 1 .. Len(s)
    BY <1>2
  <2>2. CASE l \in 1 .. Len(s)
    BY <1>2, <2>1, <2>2 DEF Rising
  <2>3. CASE l = Len(s) + 1
    <3>1. q[k] \in 1 .. dataIn - 1
      BY <1>2, <2>1 DEF Kept
    <3> QED
      BY <1>1, <1>2, <2>3, <3>1
  <2> QED
    BY <1>2, <2>2, <2>3
<1> QED
  BY <1>4, <1>5 DEF Kept, Rising

\* An accepted write, by what becomes of the byte in the chip.
LEMMA WriteByteKeeps == ASSUME WriteInv, WriteByte PROVE WriteInv'
<1> USE DEF setup, line
<1>1. TypeInv /\ TypeInv'
  BY TypeDriver DEF WriteInv, Driver
<1>2. /\ port' = port /\ dataIn' = dataIn /\ sent' = sent /\ shifting' = shifting
      /\ pc = "write" /\ pc' = "idle" /\ accepted' = Append(accepted, dataIn)
  BY DEF WriteByte
<1>3. SUFFICES ASSUME Working
               PROVE  Kept((sent \o shifting \o tx)', Written', accepted') /\ Rising((sent \o shifting \o tx)')
  BY <1>1, <1>2, <1>3 DEF WriteInv, Working, Is16550A, HasAccess
<1>4. tx' = Held(dataIn)
  BY <1>3 DEF WriteByte, Working
<1>5. Written = dataIn - 1 /\ Written' = dataIn /\ dataIn >= 1
  BY <1>1, <1>2 DEF Written, TypeInv, Counted
<1>6. PICK out \in Seq(Bytes) : out = sent \o shifting \o tx
  BY <1>1, WriteTypes, ConcatProperties
<1>7. PICK s \in Seq(Bytes) : s = sent \o shifting
  BY <1>1, WriteTypes
<1>8. Kept(out, dataIn - 1, accepted) /\ Rising(out) /\ out = s \o tx
  BY <1>3, <1>5, <1>6, <1>7 DEF WriteInv
<1>9. dataIn \in Bytes /\ fifoSize \in Nat \ {0} /\ Len(tx) \in Nat
  BY <1>1, WriteTypes DEF Bytes
<1>10. CASE Len(tx) < fifoSize
  <2>1. tx' = Append(tx, dataIn)
    BY <1>4, <1>9, <1>10 DEF Held
  <2>2. (sent \o shifting \o tx)' = Append(out, dataIn)
    <3>1. Append(tx, dataIn) = tx \o <<dataIn>> /\ <<dataIn>> \in Seq(Bytes)
      BY <1>1, <1>9, WriteTypes, AppendIsConcat
    <3>2. s \o (tx \o <<dataIn>>) = (s \o tx) \o <<dataIn>>
      <4>1. tx \in Seq(Bytes) /\ s \in Seq(Bytes)
        BY <1>1, WriteTypes
      <4> QED
        BY <3>1, <4>1, ConcatAssociative
    <3>3. Append(out, dataIn) = out \o <<dataIn>>
      BY <1>9, AppendIsConcat
    <3> QED
      BY <1>2, <1>7, <1>8, <2>1, <3>1, <3>2, <3>3
  <2>3. Kept(Append(out, dataIn), dataIn, accepted') /\ Rising(Append(out, dataIn))
    BY <1>1, <1>2, <1>5, <1>8, OutGrows
  <2> QED
    BY <1>5, <2>2, <2>3
<1>11. CASE ~(Len(tx) < fifoSize) /\ fifoSize = 1
  <2>1. tx' = <<dataIn>>
    BY <1>4, <1>9, <1>11 DEF Held
  <2>2. Kept(s, dataIn - 1, accepted) /\ Rising(s)
    BY <1>1, <1>8, WriteTypes, FirstPart
  <2>3. (sent \o shifting \o tx)' = Append(s, dataIn)
    BY <1>2, <1>7, <1>9, <2>1, AppendIsConcat
  <2>4. Kept(Append(s, dataIn), dataIn, accepted') /\ Rising(Append(s, dataIn))
    BY <1>1, <1>2, <1>5, <2>2, OutGrows
  <2> QED
    BY <1>5, <2>3, <2>4
<1>12. CASE ~(Len(tx) < fifoSize) /\ fifoSize # 1
  <2>1. tx' = tx
    BY <1>4, <1>9, <1>12 DEF Held
  <2>2. (sent \o shifting \o tx)' = out
    BY <1>2, <1>6, <2>1
  <2>3. /\ Len(accepted') = Len(accepted) + 1 /\ Len(accepted) \in Nat
        /\ \A a \in 1 .. Len(accepted) : accepted'[a] = accepted[a]
    <3>1. dataIn \in 1 .. MaxBytes
      BY <1>1, <1>5, WriteTypes
    <3> QED
      BY <1>1, <1>2, <3>1, WriteTypes, AppendProperties, LenProperties
  <2>4. \A k \in 1 .. Len(out) :
          out[k] # Firmware
            => out[k] \in 1 .. dataIn /\ \E a \in 1 .. Len(accepted') : accepted'[a] = out[k]
    <3> SUFFICES ASSUME NEW k \in 1 .. Len(out), out[k] # Firmware
                 PROVE  out[k] \in 1 .. dataIn /\ \E a \in 1 .. Len(accepted') : accepted'[a] = out[k]
      OBVIOUS
    <3>1. out[k] \in 1 .. dataIn - 1
      BY <1>8 DEF Kept
    <3>2. PICK a \in 1 .. Len(accepted) : accepted[a] = out[k]
      BY <1>8 DEF Kept
    <3>3. a \in 1 .. Len(accepted') /\ accepted'[a] = out[k]
      BY <2>3, <3>2
    <3>4. dataIn \in Nat
      BY <1>1, WriteTypes
    <3> QED
      BY <3>1, <3>3, <3>4
  <2> QED
    BY <1>5, <1>8, <2>2, <2>4 DEF Kept
<1> QED
  BY <1>10, <1>11, <1>12

\* The chip passes the bytes on in their order.
LEMMA SendingKeeps == ASSUME WriteInv, Load \/ Send PROVE WriteInv'
<1> USE DEF setup, line, driver
<1>1. TypeInv /\ TypeInv'
  BY TypeChip DEF WriteInv, Chip
<1>2. UNCHANGED <<port, pc, dataIn, accepted>>
  BY DEF Load, Send
<1>3. (sent \o shifting \o tx)' = sent \o shifting \o tx
  <2>1. CASE Load
    <3>1. tx # << >> /\ shifting = << >> /\ shifting' = <<Head(tx)>> /\ tx' = Tail(tx) /\ sent' = sent
      BY <2>1 DEF Load
    <3>2. sent \o << >> = sent /\ Head(tx) \in Bytes
      BY <1>1, <3>1, WriteTypes, ConcatEmptySeq, HeadTailProperties
    <3>3. Append(sent, Head(tx)) \o Tail(tx) = sent \o tx
      BY <1>1, <3>1, WriteTypes, PendingMoves
    <3>4. Append(sent, Head(tx)) = sent \o <<Head(tx)>>
      BY <1>1, <3>2, WriteTypes, AppendIsConcat
    <3> QED
      BY <3>1, <3>2, <3>3, <3>4
  <2>2. CASE Send
    <3>1. sent' = sent \o shifting /\ shifting' = << >> /\ tx' = tx
      BY <2>2 DEF Send
    <3>2. (sent \o shifting) \o << >> = sent \o shifting
      BY <1>1, WriteTypes, ConcatEmptySeq
    <3> QED
      BY <3>1, <3>2
  <2> QED
    BY <2>1, <2>2
<1> QED
  BY <1>1, <1>2, <1>3 DEF WriteInv, Written, Working, Is16550A, HasAccess

LEMMA WriteStep == WriteInv /\ [Next]_vars => WriteInv'
<1> SUFFICES ASSUME WriteInv, [Next]_vars PROVE WriteInv'
  OBVIOUS
<1> USE DEF setup, line, sender
<1>1. TypeInv /\ TypeInv'
  BY TypeStep DEF WriteInv
<1>2. CASE UNCHANGED <<port, accepted, sent, shifting, tx>> /\ Written' = Written
  <2>1. (sent \o shifting \o tx)' = sent \o shifting \o tx
    BY <1>2
  <2> QED
    BY <1>1, <1>2, <2>1 DEF WriteInv, Working, Is16550A, HasAccess
<1>3. CASE WriteByte
  BY <1>3, WriteByteKeeps
<1>4. CASE Load \/ Send
  BY <1>4, SendingKeeps
<1>5. CASE CallRead \/ ReadByte \/ ReadNothing \/ Receive
  <2>1. UNCHANGED <<port, accepted, sent, shifting, tx, dataIn>> /\ (pc = "write" <=> pc' = "write")
    BY <1>5 DEF CallRead, ReadByte, ReadNothing, Receive, driver
  <2> QED
    BY <1>2, <2>1 DEF Written
<1>6. CASE CallWrite
  <2>1. UNCHANGED <<port, accepted, sent, shifting, tx>> /\ pc = "idle" /\ pc' = "write"
        /\ dataIn' = dataIn + 1
    BY <1>6 DEF CallWrite
  <2>2. Written' = Written
    BY <1>1, <2>1, WriteTypes DEF Written
  <2> QED
    BY <1>2, <2>1, <2>2
<1>7. CASE WriteNothing
  <2>1. UNCHANGED <<port, accepted, sent, shifting, tx, dataIn>> /\ pc = "write" /\ pc' = "idle"
    BY <1>7 DEF WriteNothing
  <2>2. (sent \o shifting \o tx)' = sent \o shifting \o tx
    BY <2>1
  <2>3. Written = dataIn - 1 /\ Written' = dataIn /\ dataIn \in Nat
    BY <1>1, <2>1, WriteTypes DEF Written
  <2> QED
    BY <1>1, <2>1, <2>2, <2>3, KeptLonger DEF WriteInv, Working, Is16550A, HasAccess
<1>8. CASE FallOffEnd
  BY <1>1, <1>8 DEF FallOffEnd, WriteInv, Working, Is16550A
<1>9. CASE UNCHANGED vars
  <2>1. UNCHANGED <<port, accepted, sent, shifting, tx, dataIn, pc>>
    BY <1>9 DEF vars, driver
  <2> QED
    BY <1>2, <2>1 DEF Written
<1> QED
  BY <1>3, <1>4, <1>5, <1>6, <1>7, <1>8, <1>9 DEF Next, Driver, Chip

\* Nothing of a refused write is sent, whatever the FIFO's size and the chip's pace,
\* so that a caller may repeat it.
THEOREM RefusedNotSent == Spec => []RefusedIsNotSent
<1>1. WriteInv => RefusedIsNotSent
  BY SelectionMeansWritten DEF WriteInv
<1> QED
  BY <1>1, WriteInit, WriteStep, PTL DEF Spec
-----------------------------------------------------------------------------
(* When polling finds nothing any more.                                     *)

\* Nothing is left to send, and no call under way saw the status it waits for.
Silent == tx = << >> /\ (pc = "idle" \/ ~Ready)

\* With nothing left to send the status is never the single bit the driver tests for.
LEMMA EmptyIsNotReady ==
  ASSUME tx = << >>, HasAccess, ReadLineStatus
  PROVE  lsr' # {DR}
<1>1. THRE \in LineStatus /\ lsr' = LineStatus
  BY DEF LineStatus, Bits, ReadLineStatus
<1> QED
  BY <1>1 DEF THRE, DR

LEMMA SilentStep ==
  ASSUME TypeInv, Working, Silent, [Next]_vars
  PROVE  /\ Silent' /\ UNCHANGED <<port, delivered, accepted>>
         /\ rx # << >> => rx' # << >>
<1> USE DEF setup, driver, line, sender
<1>0. HasAccess /\ Is16550A /\ tx = << >>
  BY DEF Working, Silent
<1>1. CASE CallRead \/ CallWrite
  <2>1. lsr' # {DR} /\ tx' = tx /\ rx' = rx /\ UNCHANGED <<port, delivered, accepted>>
    BY <1>0, <1>1, EmptyIsNotReady DEF CallRead, CallWrite
  <2> QED
    BY <1>0, <2>1 DEF Silent, Ready
<1>2. CASE ReadByte \/ WriteByte
  BY <1>2 DEF ReadByte, WriteByte, Silent
<1>3. CASE ReadNothing \/ WriteNothing
  BY <1>3 DEF ReadNothing, WriteNothing, Silent
<1>4. CASE FallOffEnd
  BY <1>0, <1>4 DEF FallOffEnd
<1>5. CASE Receive
  <2>1. /\ UNCHANGED <<port, delivered, accepted, pc, lsr, tx>>
        /\ \/ rx' = Append(rx, arrived + 1)
           \/ rx' = <<arrived + 1>>
           \/ rx' = rx
    BY <1>5 DEF Receive
  <2>2. rx \in Seq(1 .. arrived) /\ arrived \in Nat
    BY BytesAssumption DEF TypeInv, TypeOK
  <2>3. rx # << >> => rx' # << >>
    <3>1. rx \in Seq(Nat) /\ arrived + 1 \in Nat
      <4>1. 1 .. arrived \subseteq Nat
        OBVIOUS
      <4> QED
        BY <2>2, <4>1, SeqWidens
    <3>2. Append(rx, arrived + 1) # << >>
      BY <3>1, AppendProperties
    <3> QED
      BY <2>1, <3>2
  <2> QED
    BY <2>1, <2>3 DEF Silent, Ready
<1>6. CASE Load \/ Send
  BY <1>0, <1>6 DEF Load, Send, Silent, Ready
<1>7. CASE UNCHANGED vars
  BY <1>7 DEF vars, Silent, Ready
<1> QED
  BY <1>1, <1>2, <1>3, <1>4, <1>5, <1>6, <1>7 DEF Next, Driver, Chip

\* `0x01 == lsr' asks for data ready and nothing else, and an empty transmitter sets
\* two bits more: once everything is sent no call reads or writes a byte ever again,
\* and a byte that waits in the receiver waits for ever.
THEOREM FallsSilent ==
  Spec => [][Working /\ Silent =>
               /\ Working' /\ Silent' /\ UNCHANGED <<delivered, accepted>>
               /\ rx # << >> => rx' # << >>]_vars
<1>1. TypeInv /\ [Next]_vars =>
        [Working /\ Silent =>
           /\ Working' /\ Silent' /\ UNCHANGED <<delivered, accepted>>
           /\ rx # << >> => rx' # << >>]_vars
  BY SilentStep DEF Working, Is16550A, HasAccess
<1> QED
  BY <1>1, TypeInvariant, PTL DEF Spec

\* Where the firmware left the transmitter empty, the driver has never read or written
\* a byte, however many came and however often it was called.
THEOREM SilentFromTheStart ==
  Spec /\ Working /\ tx = << >> => [](delivered = << >> /\ accepted = << >>)
<1> DEFINE Never == TypeInv /\ Working /\ Silent /\ delivered = << >> /\ accepted = << >>
<1>1. Init /\ Working /\ tx = << >> => Never
  BY TypeInit DEF Init, Silent
<1>2. Never /\ [Next]_vars => Never'
  BY SilentStep, TypeStep DEF Working, Is16550A, HasAccess
<1>3. Never => delivered = << >> /\ accepted = << >>
  OBVIOUS
<1> QED
  BY <1>1, <1>2, <1>3, PTL DEF Spec
=============================================================================
