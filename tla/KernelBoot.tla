----------------------------- MODULE KernelBoot -----------------------------
(***************************************************************************)
(* KernelMain (kernel/src/main.c): the checks of what the boot loader left *)
(* behind, the creation of preInitArena, the console and the greeting; one *)
(* action per statement.  The console is module FbConsole.  `boot' is the  *)
(* boot loader's answer to each request; reading through a missing one     *)
(* ends in pc = "fault".                                                   *)
(***************************************************************************)
EXTENDS MemBlock, Sequences, FiniteSets

CONSTANTS
  BootLoaders,  (* what the requests may be answered with                  *)
  NoResponse,   (* a null response pointer                                 *)
  USABLE,       (* LIMINE_MEMMAP_USABLE                                    *)
  MinArena,     (* 8 * KiB                                                 *)
  U16Limit, Framebuffers, Fonts, CharSigned, Characters, Newline,  (* see  *)
                (* FbConsole                                               *)
  NoFont,       (* gFbConsole.font before the console is set up            *)
  Hello         (* the greeting                                            *)

ASSUME MinArenaAssumption == MinArena \in Nat \ {0}

ASSUME HelloAssumption == Hello \in Seq(Characters) /\ Hello # << >>

\* What FbConsole asks of a framebuffer and a font.
ASSUME ConsoleAssumption ==
  /\ U16Limit \in Nat \ {0} /\ Newline \in Characters
  /\ \A f \in Framebuffers :
       f.width \in Nat /\ f.height \in Nat /\ f.bytesPerRow \in Nat /\ f.bitsPerPixel \in Nat
  /\ \A f \in Fonts : f.width \in 1 .. U16Limit - 1 /\ f.height \in 1 .. U16Limit - 1

Messages == {Hello}

VARIABLES
  boot,
  pc,            (* control                                                *)
  mmEntry,       (* the loop counter, from 1                               *)
  preInitArena,  (* the block preInitArena was created over                *)
  fbo, font, width, height, cursorX, cursorY, rest, page  (* see FbConsole *)

console == <<fbo, font, width, height, cursorX, cursorY, rest, page>>
vars    == <<boot, pc, mmEntry, preInitArena, console>>

Console == INSTANCE FbConsole

MemmapEntry == [base : U64, length : U64, type : {USABLE, "reserved"}]

BlockOf(e) == [baseAddr |-> e.base, size |-> e.length]

\* What the Limine protocol lets the responses be.
LoaderType ==
  [ revisionSupported : BOOLEAN,
    hhdm        : U64 \cup {NoResponse},
    memmap      : Seq(MemmapEntry) \cup {NoResponse},
    framebuffer : Seq(Framebuffers) \cup {NoResponse},
    dtb         : {"valid", "broken", "null", NoResponse} ]

UsableMeetsNoOther(map) ==
  \A k, j \in 1 .. Len(map) :
    map[k].type = USABLE /\ j # k => ~Overlap(BlockOf(map[k]), BlockOf(map[j]))

ASSUME BootLoadersAssumption ==
  /\ BootLoaders \subseteq LoaderType
  /\ \A b \in BootLoaders : b.memmap # NoResponse => UsableMeetsNoOther(b.memmap)
  /\ NoResponse \notin U64 /\ NoResponse \notin Seq(MemmapEntry)
  /\ NoResponse \notin Seq(Framebuffers) /\ NoResponse \notin {"valid", "broken", "null"}

NoArena == [baseAddr |-> 0, size |-> 0]

Entries == IF boot.memmap = NoResponse THEN << >> ELSE boot.memmap

Init ==
  /\ boot \in BootLoaders
  /\ pc = "revision"
  /\ mmEntry = 1
  /\ preInitArena = NoArena
  /\ fbo = [width |-> 0, height |-> 0, bytesPerRow |-> 0, bitsPerPixel |-> 0]
  /\ font = NoFont
  /\ width = 0 /\ height = 0 /\ cursorX = 0 /\ cursorY = 0
  /\ rest = << >> /\ page = << >>

\* QK_CHECK: the processor halts when the condition holds.
QK_CHECK(at, condition, next) ==
  /\ pc = at
  /\ pc' = IF condition THEN "hcf" ELSE next
  /\ UNCHANGED <<boot, mmEntry, preInitArena, console>>

CheckRevision == QK_CHECK("revision", ~boot.revisionSupported, "hhdm")

\* Fault for the mutation runs: the check is missing.
CheckHhdmMissing == QK_CHECK("hhdm", FALSE, "memmap")

CheckHhdm == QK_CHECK("hhdm", boot.hhdm = NoResponse, "memmap")

CheckMemmap ==
  QK_CHECK("memmap", boot.memmap = NoResponse \/ Len(Entries) < 1, "arena")

\* Fault: reserved memory is taken too.
IsArenaCandidateAnyType(e) == e.length >= MinArena

IsArenaCandidate(e) == e.type = USABLE /\ e.length >= MinArena

\* Faults: the counter is incremented in the body too, or not at all.
SkipEntryTwice ==
  /\ pc = "arena" /\ mmEntry <= Len(Entries)
  /\ ~IsArenaCandidate(Entries[mmEntry])
  /\ mmEntry' = mmEntry + 2
  /\ UNCHANGED <<boot, pc, preInitArena, console>>

SkipEntryStays ==
  /\ pc = "arena" /\ mmEntry <= Len(Entries)
  /\ ~IsArenaCandidate(Entries[mmEntry])
  /\ UNCHANGED vars

SkipEntry ==
  /\ pc = "arena" /\ mmEntry <= Len(Entries)
  /\ ~IsArenaCandidate(Entries[mmEntry])
  /\ mmEntry' = mmEntry + 1
  /\ UNCHANGED <<boot, pc, preInitArena, console>>

CreateArena ==
  /\ pc = "arena" /\ mmEntry <= Len(Entries)
  /\ LET e == Entries[mmEntry] IN
       /\ IsArenaCandidate(e)
       /\ IF boot.hhdm = NoResponse
          THEN pc' = "fault" /\ UNCHANGED preInitArena
          ELSE /\ pc' = "scan"
               /\ preInitArena' =
                    [baseAddr |-> (e.base + boot.hhdm) % AddrLimit, size |-> e.length]
  /\ UNCHANGED <<boot, mmEntry, console>>

NoEntryLeft ==
  /\ pc = "arena" /\ mmEntry > Len(Entries)
  /\ pc' = IF boot.memmap = NoResponse THEN "fault" ELSE "scan"
  /\ UNCHANGED <<boot, mmEntry, preInitArena, console>>

\* The second loop computes a block for every candidate and keeps none.
ScanEntries ==
  /\ pc = "scan"
  /\ pc' = "framebuffer"
  /\ UNCHANGED <<boot, mmEntry, preInitArena, console>>

CheckFramebuffer ==
  QK_CHECK("framebuffer", boot.framebuffer = NoResponse \/ Len(boot.framebuffer) < 1, "dtb")

CheckDtb == QK_CHECK("dtb", boot.dtb = NoResponse \/ boot.dtb = "null", "initFramebuffer")

InitFramebuffer ==
  /\ pc = "initFramebuffer"
  /\ IF boot.framebuffer = NoResponse \/ boot.framebuffer = << >>
     THEN pc' = "fault" /\ UNCHANGED fbo
     ELSE pc' = "validate" /\ fbo' = boot.framebuffer[1]
  /\ UNCHANGED <<boot, mmEntry, preInitArena,
                 font, width, height, cursorX, cursorY, rest, page>>

\* Fault: the result of fdt_check_full is not used.
ValidateDtbIgnoresResult ==
  /\ pc = "validate"
  /\ pc' = IF boot.dtb \in {NoResponse, "null"} THEN "fault" ELSE "console"
  /\ UNCHANGED <<boot, mmEntry, preInitArena, console>>

\* fdt_totalsize and fdt_check_full read through the pointer.
ValidateDtb ==
  /\ pc = "validate"
  /\ pc' = CASE boot.dtb \in {NoResponse, "null"} -> "fault"
             [] boot.dtb = "broken"               -> "hcf"
             [] boot.dtb = "valid"                -> "console"
  /\ UNCHANGED <<boot, mmEntry, preInitArena, console>>

DefaultFbConsole ==
  /\ pc = "console"
  /\ pc' = "print"
  /\ font' \in Fonts
  /\ width' = fbo.width % U16Limit /\ height' = fbo.height % U16Limit
  /\ cursorX' = 0 /\ cursorY' = 0
  /\ UNCHANGED <<boot, mmEntry, preInitArena, fbo, rest, page>>

CallQPrint ==
  /\ pc = "print" /\ Console!Call
  /\ pc' = "printing"
  /\ UNCHANGED <<boot, mmEntry, preInitArena>>

QPrintChar ==
  /\ pc = "printing" /\ Console!QPrintChar
  /\ UNCHANGED <<boot, pc, mmEntry, preInitArena>>

QPrintReturns ==
  /\ pc = "printing" /\ rest = << >>
  /\ pc' = "hcf"
  /\ UNCHANGED <<boot, mmEntry, preInitArena, console>>

\* hcf waits for interrupts, for ever.
Hcf == pc = "hcf" /\ UNCHANGED vars

Boot ==
  \/ CheckRevision \/ CheckHhdm \/ CheckMemmap
  \/ SkipEntry \/ CreateArena \/ NoEntryLeft \/ ScanEntries
  \/ CheckFramebuffer \/ CheckDtb
  \/ InitFramebuffer \/ ValidateDtb \/ DefaultFbConsole
  \/ CallQPrint \/ QPrintChar \/ QPrintReturns

Next == Boot \/ Hcf

Spec == Init /\ [][Next]_vars

\* One processor, no interrupts enabled: it executes the next statement.
FairSpec == Spec /\ WF_vars(Boot)
-----------------------------------------------------------------------------
(* Properties.                                                              *)

TypeOK ==
  /\ boot \in BootLoaders
  /\ pc \in {"revision", "hhdm", "memmap", "arena", "scan", "framebuffer", "dtb",
             "initFramebuffer", "validate", "console", "print", "printing", "hcf", "fault"}
  /\ mmEntry \in 1 .. Len(Entries) + 1
  /\ preInitArena \in Block
  /\ rest \in Seq(Characters)

\* No response is read through before it was found to be there, in whatever
\* combination the boot loader answers the requests.
NoNullDereference == pc # "fault"

\* The physical memory behind the arena, undoing the direct map.
Physical(b) == [baseAddr |-> (b.baseAddr - boot.hhdm) % AddrLimit, size |-> b.size]

PastArena == pc \notin {"revision", "hhdm", "memmap", "arena", "hcf"}

\* The arena is usable memory that meets no other entry of the map, and there is
\* none only where the map has no usable entry of the size needed.
ArenaIsUsableMemory ==
  IF preInitArena = NoArena
  THEN PastArena =>
         \A k \in 1 .. Len(Entries) : Entries[k].type = USABLE => Entries[k].length < MinArena
  ELSE \E k \in 1 .. Len(Entries) :
         /\ Entries[k].type = USABLE
         /\ Physical(preInitArena) = BlockOf(Entries[k])
         /\ \A j \in 1 .. Len(Entries) :
              j # k => ~Overlap(Physical(preInitArena), BlockOf(Entries[j]))

\* Nothing reaches the screen unless every check passed, that of the device tree,
\* which comes after the framebuffer is taken over, included.
PrintsOnlyWhenChecked ==
  page # << >> =>
    /\ boot.revisionSupported
    /\ NoResponse \notin {boot.hhdm, boot.memmap, boot.framebuffer, boot.dtb}
    /\ boot.dtb = "valid"
    /\ fbo = boot.framebuffer[1]

\* Whether the greeting fits on one line.
HasRoom ==
  /\ Len(Hello) <= Console!GridCols /\ 1 <= Console!GridRows
  /\ \A k \in DOMAIN Hello : Hello[k] # Newline

Printed == [j \in 1 .. Len(page) |-> page[j].char]

\* What has been printed and what is still to come make up the greeting; if the
\* text went back to the top, its end.  Its glyphs lie on the screen side by side and
\* line by line, and on a screen with room for it the whole greeting stands on the
\* first line, from the left edge on, also when the machine hangs.
GreetingIsPrinted ==
  pc = "printing" \/ page # << >> =>
    /\ \E k \in 1 .. Len(Hello) + 1 : Printed \o rest = SubSeq(Hello, k, Len(Hello))
    /\ Console!GlyphsOnScreen /\ Console!InReadingOrder
    /\ HasRoom =>
         /\ Printed \o rest = Hello
         /\ \A k \in 1 .. Len(page) : page[k].x = font.width * (k - 1) /\ page[k].y = 0

\* The characters whose block of rows lies inside the font's table.
InTable(c) ==
  /\ Console!RowIndex(c, 0) >= 0
  /\ Console!RowIndex(c, font.height - 1) < Len(font.data)

Shape(c) == [y \in 0 .. font.height - 1 |-> Console!GlyphRow(c, y)]

\* main.c:176 "our font table is blocks of width by height in the ASCII order", of the
\* rows that QPrint reads: all that it has read of what is on the page are inside the
\* table, and so are those of every 7-bit character, no two of which, space included,
\* have the same rows.  That is the table and its index; that little of the rows is
\* drawn is GlyphsMatchFont's matter.
FontTellsApart ==
  /\ \A k \in 1 .. Len(page) : InTable(page[k].char)
  /\ pc = "print" =>
       LET ascii == {c \in Characters \ {0} : c < 128} IN
         /\ \A c \in ascii : InTable(c)
         /\ Cardinality({Shape(c) : c \in ascii}) = Cardinality(ascii)

\* main.c:250 "We're done, just hang...": KernelMain always ends in hcf, and
\* stays there.
Hangs == <>[](pc = "hcf")
=============================================================================
