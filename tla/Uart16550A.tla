----------------------------- MODULE Uart16550A -----------------------------
(***************************************************************************)
(* The polled serial port of kernel/src/device/uart.c and the 16550A it    *)
(* polls.  A call reads the line status and then, if it likes what it saw, *)
(* the receiver or the transmitter; the chip goes on receiving and sending *)
(* in between.  The chip is modelled from the registers the driver uses.   *)
(***************************************************************************)
EXTENDS Integers, Sequences

CONSTANTS
  Ports,      (* the uart_port records the driver may be called with       *)
  FifoSizes,  (* how many bytes the receiver and the transmitter each may  *)
              (* hold; 1 when the firmware left the FIFOs off              *)
  MaxBytes,   (* bound: bytes arriving, and writes called                  *)
  Firmware,   (* a byte the firmware wrote before the kernel started       *)
  Garbage     (* what a read returns that reads no byte                    *)

ASSUME FifoSizesAssumption == FifoSizes \subseteq Nat \ {0}

ASSUME BytesAssumption ==
  MaxBytes \in Nat /\ {Firmware, Garbage} \cap (0 .. MaxBytes) = {}

VARIABLES
  port,       (* uartPort                                                  *)
  fifoSize,   (* of the chip                                               *)
  pc,         (* the driver: idle, or between its two register accesses    *)
  dataIn,     (* what the current or last write sends; writes count up     *)
  lsr,        (* the line status the call read                             *)
  delivered,  (* the bytes successful reads returned                       *)
  accepted,   (* the bytes whose writes returned true                      *)
  arrived,    (* how many bytes the line brought in; the bytes are 1, 2 .. *)
  rx,         (* the chip: received and not read,                          *)
  lost,       (* how many overran                                          *)
  overrun,    (* the overrun bit,                                          *)
  tx,         (* bytes written and not yet moved to the shift register,    *)
  shifting,   (* the shift register,                                       *)
  sent        (* the bytes that have left it                               *)

setup  == <<port, fifoSize>>
driver == <<pc, dataIn, lsr, delivered, accepted>>
line   == <<arrived, lost>>
sender == <<tx, shifting, sent>>
vars   == <<setup, driver, line, rx, overrun, sender>>

Init ==
  /\ port \in Ports /\ fifoSize \in FifoSizes
  /\ pc = "idle" /\ dataIn = 0 /\ lsr = {} /\ delivered = << >> /\ accepted = << >>
  /\ arrived = 0 /\ lost = 0 /\ rx = << >> /\ overrun = FALSE
  /\ tx \in {<< >>, <<Firmware>>} /\ shifting = << >> /\ sent = << >>
-----------------------------------------------------------------------------
(* The chip.                                                                *)

\* The bits of the line status register that receiving and sending move.
DR   == 1    \* data ready
OE   == 2    \* overrun error; reading the register clears it
THRE == 32   \* transmitter holding register empty
TEMT == 64   \* transmitter empty

Bits == {DR, OE, THRE, TEMT}

LineStatus ==
  {b \in Bits :
     \/ b = DR /\ rx # << >>
     \/ b = OE /\ overrun
     \/ b = THRE /\ tx = << >>
     \/ b = TEMT /\ tx = << >> /\ shifting = << >>}

\* The line brings in a byte.  When the receiver is full a byte is lost: the new
\* one, or the old one where there is no FIFO.
Receive ==
  /\ arrived < MaxBytes
  /\ arrived' = arrived + 1
  /\ IF Len(rx) < fifoSize
     THEN rx' = Append(rx, arrived + 1) /\ UNCHANGED <<lost, overrun>>
     ELSE /\ lost' = lost + 1 /\ overrun' = TRUE
          /\ rx' = IF fifoSize = 1 THEN <<arrived + 1>> ELSE rx
  /\ UNCHANGED <<setup, driver, sender>>

Load ==
  /\ tx # << >> /\ shifting = << >>
  /\ shifting' = <<Head(tx)>> /\ tx' = Tail(tx)
  /\ UNCHANGED <<setup, driver, line, rx, overrun, sent>>

Send ==
  /\ shifting # << >>
  /\ sent' = sent \o shifting /\ shifting' = << >>
  /\ UNCHANGED <<setup, driver, line, rx, overrun, tx>>

\* A write to the holding register; a full one loses the old byte, or the new one
\* where there is a FIFO.
Held(byte) ==
  CASE Len(tx) < fifoSize                -> Append(tx, byte)
    [] Len(tx) >= fifoSize /\ fifoSize = 1 -> <<byte>>
    [] Len(tx) >= fifoSize /\ fifoSize > 1 -> tx
-----------------------------------------------------------------------------
(* The driver.                                                              *)

Is16550A == port.std = "UART_STD_16550A"

\* The widths that Uart16550AReadRegister and Uart16550AWriteRegister know.  With
\* any other a read returns an uninitialised byte and a write does nothing.
HasAccess == port.regIOWidthInBytes \in {1, 2, 4, 8}

\* What successful reads returned so far; Bound: of reads that read no byte of the
\* line only the first MaxBytes are recorded.
Returned(byte) ==
  IF Len(delivered) < MaxBytes THEN Append(delivered, byte) ELSE delivered

ReadLineStatus ==
  IF HasAccess
  THEN lsr' = LineStatus /\ overrun' = FALSE
  ELSE lsr' \in SUBSET Bits /\ UNCHANGED overrun

\* UartTryReadByteFromRegister and UartTryWriteByteToRegister up to their first
\* register access.
\* Fault: the standard of the port is not looked at.
CallReadAnyPort ==
  /\ pc = "idle"
  /\ ReadLineStatus
  /\ pc' = "read"
  /\ UNCHANGED <<setup, dataIn, delivered, accepted, line, rx, sender>>

CallRead ==
  /\ pc = "idle" /\ Is16550A
  /\ ReadLineStatus
  /\ pc' = "read"
  /\ UNCHANGED <<setup, dataIn, delivered, accepted, line, rx, sender>>

CallWrite ==
  /\ pc = "idle" /\ Is16550A /\ dataIn < MaxBytes
  /\ ReadLineStatus
  /\ pc' = "write" /\ dataIn' = dataIn + 1
  /\ UNCHANGED <<setup, delivered, accepted, line, rx, sender>>

\* Fault for the mutation runs: the status is read and not looked at.
ReadyAlways == TRUE

\* `0x01 == lsr', in both functions.
Ready == lsr = {DR}

ReadByte ==
  /\ pc = "read" /\ Ready
  /\ IF HasAccess /\ rx # << >>
     THEN delivered' = Returned(Head(rx)) /\ rx' = Tail(rx)
     ELSE delivered' = Returned(Garbage) /\ UNCHANGED rx
  /\ pc' = "idle"
  /\ UNCHANGED <<setup, dataIn, lsr, accepted, line, overrun, sender>>

\* Fault: the receiver is read before the status is tested.
ReadNothingConsumes ==
  /\ pc = "read" /\ ~Ready
  /\ rx' = IF rx = << >> THEN rx ELSE Tail(rx)
  /\ pc' = "idle"
  /\ UNCHANGED <<setup, dataIn, lsr, delivered, accepted, line, overrun, sender>>

ReadNothing ==
  /\ pc = "read" /\ ~Ready
  /\ pc' = "idle"
  /\ UNCHANGED <<setup, dataIn, lsr, delivered, accepted, line, rx, overrun, sender>>

WriteByte ==
  /\ pc = "write" /\ Ready
  /\ tx' = IF HasAccess THEN Held(dataIn) ELSE tx
  /\ accepted' = Append(accepted, dataIn)
  /\ pc' = "idle"
  /\ UNCHANGED <<setup, dataIn, lsr, delivered, line, rx, overrun, shifting, sent>>

\* Fault: the byte is written before the status is tested.
WriteNothingSends ==
  /\ pc = "write" /\ ~Ready
  /\ tx' = Held(dataIn)
  /\ pc' = "idle"
  /\ UNCHANGED <<setup, dataIn, lsr, delivered, accepted, line, rx, overrun, shifting, sent>>

WriteNothing ==
  /\ pc = "write" /\ ~Ready
  /\ pc' = "idle"
  /\ UNCHANGED <<setup, dataIn, lsr, delivered, accepted, line, rx, overrun, sender>>

\* On a port of another standard the functions end without a return: the caller
\* sees either value, and the zero that a read stored first.
FallOffEnd ==
  /\ pc = "idle" /\ ~Is16550A
  /\ \/ delivered' = Returned(0) /\ UNCHANGED <<dataIn, accepted>>
     \/ /\ dataIn < MaxBytes /\ dataIn' = dataIn + 1
        /\ accepted' \in {accepted, Append(accepted, dataIn')}
        /\ UNCHANGED delivered
  /\ UNCHANGED <<setup, pc, lsr, line, rx, overrun, sender>>

Driver == CallRead \/ CallWrite \/ ReadByte \/ ReadNothing \/ WriteByte \/ WriteNothing \/ FallOffEnd

Chip == Receive \/ Load \/ Send

Next == Driver \/ Chip

Spec == Init /\ [][Next]_vars

\* The caller keeps polling for input, a call runs to its end, and the chip sends.
FairSpec ==
  /\ Spec
  /\ WF_vars(CallRead) /\ WF_vars(ReadByte \/ ReadNothing \/ WriteByte \/ WriteNothing)
  /\ WF_vars(Load) /\ WF_vars(Send)
-----------------------------------------------------------------------------
(* Properties.                                                              *)

Bytes == (0 .. MaxBytes) \cup {Firmware, Garbage}

TypeOK ==
  /\ port \in Ports /\ fifoSize \in FifoSizes
  /\ pc \in {"idle", "read", "write"} /\ (pc # "idle" => Is16550A)
  /\ dataIn \in 0 .. MaxBytes
  /\ lsr \subseteq Bits
  /\ delivered \in Seq(Bytes) /\ accepted \in Seq(1 .. MaxBytes)
  /\ arrived \in 0 .. MaxBytes /\ lost \in 0 .. arrived /\ overrun \in BOOLEAN
  /\ rx \in Seq(1 .. arrived) /\ Len(rx) <= fifoSize
  /\ tx \in Seq(Bytes) /\ Len(tx) <= fifoSize
  /\ shifting \in Seq(Bytes) /\ Len(shifting) <= 1 /\ sent \in Seq(Bytes)

Working == Is16550A /\ HasAccess

\* Reads return bytes of the line, in the order they came, none twice and none
\* made up, although bytes arrive and overrun between the two register accesses.
DeliveredInOrder ==
  Working =>
    LET pending == delivered \o rx IN
    /\ \A k \in 1 .. Len(pending) : pending[k] \in 1 .. arrived
    /\ \A k, l \in 1 .. Len(pending) : k < l => pending[k] < pending[l]

\* A byte is lost by the chip's overrun only: no call takes one and returns false.
NoneSwallowed ==
  Working => arrived = Len(delivered) + Len(rx) + lost

\* A write that returned false has left nothing in the chip, so that the caller may
\* try the byte again: what is on its way out, and out, the firmware's byte apart,
\* was accepted, and leaves in the order of the writes, none twice.
RefusedIsNotSent ==
  Working =>
    LET out == sent \o shifting \o tx
        written == {k \in 1 .. Len(out) : out[k] # Firmware}
    IN  /\ \A k \in written : \E a \in 1 .. Len(accepted) : accepted[a] = out[k]
        /\ \A k, l \in written : k < l => out[k] < out[l]

\* uart.c:25 "Receiver Buffer Register (read)": a caller that polls on gets what
\* has arrived.
ArrivedIsRead == Working /\ rx # << >> ~> rx = << >>
=============================================================================
