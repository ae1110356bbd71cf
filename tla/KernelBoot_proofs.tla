------------------------- MODULE KernelBoot_proofs --------------------------
(***************************************************************************)
(* The boot sequence, for every answer of every boot loader.               *)
(***************************************************************************)
EXTENDS KernelBoot, SequenceTheorems, TLAPS
-----------------------------------------------------------------------------
(* What the loader's answers are.                                           *)

LEMMA LoaderFacts ==
  ASSUME boot \in BootLoaders
  PROVE  /\ boot \in LoaderType
         /\ boot.memmap # NoResponse => UsableMeetsNoOther(boot.memmap)
         /\ Entries \in Seq(MemmapEntry)
<1>1. boot \in LoaderType
  BY BootLoadersAssumption
<1>2. boot.memmap \in Seq(MemmapEntry) \cup {NoResponse}
  BY <1>1 DEF LoaderType
<1> QED
  BY <1>1, <1>2, BootLoadersAssumption DEF Entries

LEMMA EntryFacts ==
  ASSUME boot \in BootLoaders, NEW k \in 1 .. Len(Entries)
  PROVE  /\ Entries[k] \in MemmapEntry
         /\ Entries[k].base \in U64 /\ Entries[k].length \in U64
<1>1. Entries[k] \in MemmapEntry
  BY LoaderFacts
<1> QED
  BY <1>1 DEF MemmapEntry

\* The direct map can be undone although the sum may wrap.
LEMMA DirectMap ==
  ASSUME NEW base \in U64, NEW offset \in U64
  PROVE  /\ (base + offset) % AddrLimit \in U64
         /\ (((base + offset) % AddrLimit) - offset) % AddrLimit = base
<1> DEFINE L == AddrLimit
<1>1. /\ L \in Nat /\ L > 0 /\ base \in Nat /\ offset \in Nat
      /\ base < L /\ offset < L
  BY AddrLimitAssumption DEF U64, ALIGNMENT
<1> HIDE DEF L
<1>2. ASSUME NEW n \in Int, 0 <= n, n < L
      PROVE  n % L = n
  BY <1>1, <1>2
<1>3. CASE base + offset < L
  <2>1. (base + offset) % L = base + offset
    BY <1>1, <1>2, <1>3
  <2>2. (base + offset) - offset = base
    BY <1>1
  <2>3. base % L = base
    BY <1>1, <1>2
  <2> QED
    BY <1>1, <1>3, <2>1, <2>2, <2>3 DEF L, U64
<1>4. CASE base + offset >= L
  <2>1. (base + offset) % L = base + offset - L
    BY <1>1, <1>4
  <2>2. (base + offset - L) - offset = base - L
    BY <1>1
  <2>3. (base - L) % L = base
    BY <1>1
  <2> QED
    BY <1>1, <1>4, <2>1, <2>2, <2>3 DEF L, U64
<1> QED
  BY <1>1, <1>3, <1>4
-----------------------------------------------------------------------------
(* What the checks passed so far have established.                          *)

Checked ==
  /\ pc \in {"revision", "hhdm", "memmap", "arena", "scan", "framebuffer", "dtb",
             "initFramebuffer", "validate", "console", "print", "printing", "hcf"}
  /\ pc \notin {"revision", "hcf"} => boot.revisionSupported
  /\ pc \notin {"revision", "hhdm", "hcf"} => boot.hhdm # NoResponse
  /\ pc \notin {"revision", "hhdm", "memmap", "hcf"} => boot.memmap # NoResponse
  /\ pc \in {"dtb", "initFramebuffer", "validate", "console", "print", "printing"} =>
       boot.framebuffer # NoResponse /\ boot.framebuffer # << >>
  /\ pc \in {"initFramebuffer", "validate", "console", "print", "printing"} =>
       boot.dtb \notin {NoResponse, "null"}
  /\ pc \in {"validate", "console", "print", "printing"} => fbo = boot.framebuffer[1]
  /\ pc \in {"console", "print", "printing"} => boot.dtb = "valid"
  /\ pc \notin {"printing", "hcf"} => page = << >>

CheckedInv == boot \in BootLoaders /\ Checked /\ PrintsOnlyWhenChecked

LEMMA CheckedInit == Init => CheckedInv
BY DEF Init, CheckedInv, Checked, PrintsOnlyWhenChecked

LEMMA CheckedStep == CheckedInv /\ [Next]_vars => CheckedInv'
<1> SUFFICES ASSUME CheckedInv, [Next]_vars PROVE CheckedInv'
  OBVIOUS
<1>0. /\ boot.framebuffer = << >> => Len(boot.framebuffer) < 1
      /\ boot.dtb \in {"valid", "broken", "null", NoResponse}
  BY LoaderFacts DEF CheckedInv, LoaderType
<1>1. CASE CheckRevision
  BY <1>1 DEF CheckRevision, QK_CHECK, console, CheckedInv, Checked, PrintsOnlyWhenChecked
<1>2. CASE CheckHhdm
  BY <1>2 DEF CheckHhdm, QK_CHECK, console, CheckedInv, Checked, PrintsOnlyWhenChecked
<1>3. CASE CheckMemmap
  BY <1>3 DEF CheckMemmap, QK_CHECK, console, CheckedInv, Checked, PrintsOnlyWhenChecked
<1>4. CASE SkipEntry
  BY <1>4 DEF SkipEntry, console, CheckedInv, Checked, PrintsOnlyWhenChecked
<1>5. CASE CreateArena
  BY <1>5 DEF CreateArena, console, CheckedInv, Checked, PrintsOnlyWhenChecked
<1>6. CASE NoEntryLeft
  BY <1>6 DEF NoEntryLeft, console, CheckedInv, Checked, PrintsOnlyWhenChecked
<1>7. CASE ScanEntries
  BY <1>7 DEF ScanEntries, console, CheckedInv, Checked, PrintsOnlyWhenChecked
<1>8. CASE CheckFramebuffer
  BY <1>0, <1>8 DEF CheckFramebuffer, QK_CHECK, console, CheckedInv, Checked, PrintsOnlyWhenChecked
<1>9. CASE CheckDtb
  BY <1>9 DEF CheckDtb, QK_CHECK, console, CheckedInv, Checked, PrintsOnlyWhenChecked
<1>10. CASE InitFramebuffer
  BY <1>10 DEF InitFramebuffer, console, CheckedInv, Checked, PrintsOnlyWhenChecked
<1>11. CASE ValidateDtb
  <2>1. boot.dtb \in {"valid", "broken"}
    BY <1>0, <1>11 DEF ValidateDtb, CheckedInv, Checked
  <2>2. pc' = IF boot.dtb = "broken" THEN "hcf" ELSE "console"
    BY <1>11, <2>1, BootLoadersAssumption DEF ValidateDtb
  <2> QED
    BY <1>11, <2>1, <2>2 DEF ValidateDtb, console, CheckedInv, Checked, PrintsOnlyWhenChecked
<1>12. CASE DefaultFbConsole
  BY <1>12 DEF DefaultFbConsole, CheckedInv, Checked, PrintsOnlyWhenChecked
<1>13. CASE CallQPrint
  BY <1>13 DEF CallQPrint, Console!Call, CheckedInv, Checked, PrintsOnlyWhenChecked
<1>14. CASE QPrintChar
  <2>1. /\ pc = "printing" /\ pc' = pc /\ boot' = boot /\ fbo' = fbo
    BY <1>14 DEF QPrintChar, Console!QPrintChar
  <2> QED
    BY <2>1, BootLoadersAssumption DEF CheckedInv, Checked, PrintsOnlyWhenChecked
<1>15. CASE QPrintReturns
  BY <1>15 DEF QPrintReturns, console, CheckedInv, Checked, PrintsOnlyWhenChecked
<1>16. CASE Hcf \/ UNCHANGED vars
  BY <1>16 DEF Hcf, vars, console, CheckedInv, Checked, PrintsOnlyWhenChecked
<1> QED
  BY <1>1, <1>2, <1>3, <1>4, <1>5, <1>6, <1>7, <1>8, <1>9, <1>10, <1>11, <1>12, <1>13,
     <1>14, <1>15, <1>16 DEF Next, Boot

LEMMA CheckedInvariant == Spec => []CheckedInv
BY CheckedInit, CheckedStep, PTL DEF Spec

\* Whichever of the requests the boot loader answers, KernelMain reads through no
\* response that is missing.
THEOREM NullSafe == Spec => []NoNullDereference
<1>1. CheckedInv => NoNullDereference
  BY DEF CheckedInv, Checked, NoNullDereference
<1> QED
  BY <1>1, CheckedInvariant, PTL

\* What is on the screen was printed after every check had passed.
THEOREM PrintsChecked == Spec => []PrintsOnlyWhenChecked
<1>1. CheckedInv => PrintsOnlyWhenChecked
  BY DEF CheckedInv
<1> QED
  BY <1>1, CheckedInvariant, PTL
-----------------------------------------------------------------------------
(* The loop over the memory map.                                            *)

\* Until the loop ends there is no arena and the entries looked at are no
\* candidates; the arena it creates is the image of the entry it stopped at.
ArenaInv ==
  /\ CheckedInv
  /\ TypeOK
  /\ pc \in {"revision", "hhdm", "memmap", "arena"} =>
       /\ preInitArena = NoArena
       /\ \A k \in 1 .. mmEntry - 1 : ~IsArenaCandidate(Entries[k])
  /\ ArenaIsUsableMemory

LEMMA ArenaInit == Init => ArenaInv
<1> SUFFICES ASSUME Init PROVE ArenaInv
  OBVIOUS
<1>1. CheckedInv
  BY CheckedInit
<1>2. Len(Entries) \in Nat
  BY LoaderFacts DEF Init
<1>3. NoArena \in Block
  BY AddrLimitAssumption DEF NoArena, Block, U64, ALIGNMENT
<1>4. TypeOK
  BY <1>2, <1>3 DEF Init, TypeOK
<1>5. ArenaIsUsableMemory
  BY DEF Init, ArenaIsUsableMemory, PastArena
<1> QED
  BY <1>1, <1>4, <1>5 DEF Init, ArenaInv

\* A step that touches neither the arena nor the loop counter, outside the loop.
LEMMA ArenaKept ==
  ASSUME ArenaInv, CheckedInv', boot' = boot, preInitArena' = preInitArena,
         mmEntry' = mmEntry, rest' \in Seq(Characters),
         PastArena' => PastArena \/ (pc = "arena" /\ mmEntry > Len(Entries)),
         pc' \in {"revision", "hhdm", "memmap", "arena"} =>
           pc \in {"revision", "hhdm", "memmap", "arena"}
  PROVE  ArenaInv'
<1>1. Entries' = Entries
  BY DEF Entries
<1>2. TypeOK'
  BY <1>1 DEF ArenaInv, TypeOK, CheckedInv, Checked
<1>3. ArenaIsUsableMemory'
  <2>1. CASE preInitArena = NoArena
    <3> SUFFICES ASSUME PastArena', NEW k \in 1 .. Len(Entries), Entries[k].type = USABLE
                 PROVE  Entries[k].length < MinArena
      BY <1>1, <2>1 DEF ArenaIsUsableMemory
    <3>1. CASE PastArena
      BY <2>1, <3>1 DEF ArenaInv, ArenaIsUsableMemory
    <3>2. CASE pc = "arena" /\ mmEntry > Len(Entries)
      <4>1. mmEntry \in Nat /\ Len(Entries) \in Nat
        BY LoaderFacts DEF ArenaInv, TypeOK
      <4>2. k \in 1 .. mmEntry - 1
        BY <3>2, <4>1
      <4>3. ~IsArenaCandidate(Entries[k])
        BY <3>2, <4>2 DEF ArenaInv
      <4>4. Entries[k].length \in Nat
        BY EntryFacts, AddrLimitAssumption DEF ArenaInv, CheckedInv, U64
      <4> QED
        BY <4>3, <4>4, MinArenaAssumption DEF IsArenaCandidate
    <3> QED
      BY <3>1, <3>2
  <2>2. CASE preInitArena # NoArena
    BY <1>1, <2>2 DEF ArenaInv, ArenaIsUsableMemory, Physical
  <2> QED
    BY <2>1, <2>2
<1> QED
  BY <1>1, <1>2, <1>3 DEF ArenaInv, IsArenaCandidate

LEMMA ArenaCreated ==
  ASSUME ArenaInv, CheckedInv', CreateArena
  PROVE  ArenaInv'
<1> DEFINE e == Entries[mmEntry]
<1>1. boot \in BootLoaders /\ boot.hhdm # NoResponse /\ boot.memmap # NoResponse
  BY DEF ArenaInv, CheckedInv, Checked, CreateArena
<1>2. mmEntry \in 1 .. Len(Entries)
  BY LoaderFacts, <1>1 DEF ArenaInv, TypeOK, CreateArena
<1>3. boot.hhdm \in U64 /\ e.base \in U64 /\ e.length \in U64 /\ Entries = boot.memmap
  BY <1>1, <1>2, EntryFacts, LoaderFacts DEF LoaderType, Entries
<1>4. /\ pc' = "scan" /\ e.type = USABLE /\ e.length >= MinArena
      /\ preInitArena' = [baseAddr |-> (e.base + boot.hhdm) % AddrLimit, size |-> e.length]
      /\ boot' = boot /\ mmEntry' = mmEntry /\ rest' = rest /\ Entries' = Entries
  BY <1>1 DEF CreateArena, IsArenaCandidate, console, Entries
<1>5. preInitArena' \in Block
  BY <1>3, <1>4, DirectMap DEF Block
<1>6. e.length # 0
  BY <1>3, <1>4, MinArenaAssumption, AddrLimitAssumption DEF U64
<1>7. preInitArena' # NoArena
  BY <1>4, <1>6 DEF NoArena
<1>8. Physical(preInitArena)' = BlockOf(e)
  BY <1>3, <1>4, DirectMap DEF Physical, BlockOf
<1>9. \A j \in 1 .. Len(Entries) : j # mmEntry => ~Overlap(BlockOf(e), BlockOf(Entries[j]))
  BY <1>1, <1>2, <1>3, <1>4, LoaderFacts DEF UsableMeetsNoOther
<1>10. ArenaIsUsableMemory'
  <2>1. /\ Entries'[mmEntry].type = USABLE
        /\ Physical(preInitArena)' = BlockOf(Entries'[mmEntry])
        /\ \A j \in 1 .. Len(Entries') :
             j # mmEntry => ~Overlap(BlockOf(e), BlockOf(Entries'[j]))
    BY <1>4, <1>8, <1>9
  <2> HIDE DEF e
  <2> QED
    BY <1>2, <1>4, <1>7, <1>8, <2>1 DEF ArenaIsUsableMemory, Physical, Overlap, BlockOf
<1> QED
  BY <1>4, <1>5, <1>10 DEF ArenaInv, TypeOK

LEMMA EntrySkipped ==
  ASSUME ArenaInv, CheckedInv', SkipEntry
  PROVE  ArenaInv'
<1>1. boot' = boot /\ pc' = pc /\ preInitArena' = preInitArena /\ rest' = rest
        /\ mmEntry' = mmEntry + 1 /\ Entries' = Entries /\ pc = "arena"
        /\ ~IsArenaCandidate(Entries[mmEntry]) /\ mmEntry <= Len(Entries)
  BY DEF SkipEntry, console, Entries
<1>2. mmEntry \in 1 .. Len(Entries) /\ Len(Entries) \in Nat
  BY <1>1, LoaderFacts DEF ArenaInv, TypeOK
<1>3. TypeOK'
  BY <1>1, <1>2 DEF ArenaInv, TypeOK
<1>4. preInitArena = NoArena /\ \A k \in 1 .. mmEntry : ~IsArenaCandidate(Entries[k])
  BY <1>1, <1>2 DEF ArenaInv
<1>5. \A k \in 1 .. mmEntry' - 1 : ~IsArenaCandidate(Entries[k])
  BY <1>1, <1>2, <1>4
<1>6. ArenaIsUsableMemory'
  BY <1>1, <1>4 DEF ArenaIsUsableMemory, PastArena
<1> QED
  BY <1>1, <1>3, <1>4, <1>5, <1>6 DEF ArenaInv, IsArenaCandidate

LEMMA ArenaStep == ArenaInv /\ [Next]_vars => ArenaInv'
<1> SUFFICES ASSUME ArenaInv, [Next]_vars PROVE ArenaInv'
  OBVIOUS
<1>0. CheckedInv /\ CheckedInv' /\ rest \in Seq(Characters)
  BY CheckedStep DEF ArenaInv, TypeOK
<1>1. CASE CheckRevision \/ CheckHhdm \/ CheckMemmap \/ CheckFramebuffer \/ CheckDtb
  BY <1>0, <1>1, ArenaKept
     DEF CheckRevision, CheckHhdm, CheckMemmap, CheckFramebuffer, CheckDtb, QK_CHECK, console,
         PastArena
<1>2. CASE SkipEntry
  BY <1>0, <1>2, EntrySkipped
<1>3. CASE CreateArena
  BY <1>0, <1>3, ArenaCreated
<1>4. CASE NoEntryLeft
  BY <1>0, <1>4, ArenaKept DEF NoEntryLeft, console, PastArena
<1>5. CASE ScanEntries \/ InitFramebuffer \/ DefaultFbConsole \/ QPrintReturns
  BY <1>0, <1>5, ArenaKept
     DEF ScanEntries, InitFramebuffer, DefaultFbConsole, QPrintReturns, console, PastArena
<1>6. CASE ValidateDtb
  <2>1. pc = "validate" /\ pc' \in {"hcf", "console"}
    BY <1>0, <1>6, LoaderFacts DEF ValidateDtb, CheckedInv, Checked, LoaderType
  <2> QED
    BY <1>0, <1>6, <2>1, ArenaKept DEF ValidateDtb, console, PastArena
<1>7. CASE CallQPrint
  <2>1. rest' \in Seq(Characters)
    BY <1>7, HelloAssumption DEF CallQPrint, Console!Call, Messages
  <2> QED
    BY <1>0, <1>7, <2>1, ArenaKept DEF CallQPrint, PastArena
<1>8. CASE QPrintChar
  <2>1. rest' \in Seq(Characters)
    BY <1>0, <1>8 DEF QPrintChar, Console!QPrintChar
  <2> QED
    BY <1>0, <1>8, <2>1, ArenaKept DEF QPrintChar, PastArena
<1>9. CASE Hcf \/ UNCHANGED vars
  BY <1>0, <1>9, ArenaKept DEF Hcf, vars, console, PastArena
<1> QED
  BY <1>1, <1>2, <1>3, <1>4, <1>5, <1>6, <1>7, <1>8, <1>9 DEF Next, Boot

LEMMA ArenaInvariant == Spec => []ArenaInv
BY ArenaInit, ArenaStep, PTL DEF Spec

\* Counters and addresses stay in range on memory maps of every length.
THEOREM TypeCorrect == Spec => []TypeOK
<1>1. ArenaInv => TypeOK
  BY DEF ArenaInv
<1> QED
  BY <1>1, ArenaInvariant, PTL

\* On every memory map whose usable entries meet no other entry, the arena is
\* usable memory, and there is none only where the map has no room for it.
THEOREM ArenaUsable == Spec => []ArenaIsUsableMemory
<1>1. ArenaInv => ArenaIsUsableMemory
  BY DEF ArenaInv
<1> QED
  BY <1>1, ArenaInvariant, PTL
-----------------------------------------------------------------------------
(* The console that is taken over.                                          *)

C == INSTANCE FbConsole_proofs

\* The assumptions of FbConsole hold for the boot's console, whatever is greeted.
LEMMA ConsoleTerms ==
  /\ U16Limit \in Nat \ {0}
  /\ Messages \subseteq Seq(Characters) /\ Newline \in Characters
  /\ \A f \in Framebuffers :
       f.width \in Nat /\ f.height \in Nat /\ f.bytesPerRow \in Nat /\ f.bitsPerPixel \in Nat
  /\ \A f \in Fonts : f.width \in C!U16 \ {0} /\ f.height \in C!U16 \ {0}
BY ConsoleAssumption, HelloAssumption DEF Messages, C!U16

\* The boot and the proofs about the console speak of the same console.
LEMMA ConsoleSame ==
  /\ C!GridCols = Console!GridCols /\ C!GridRows = Console!GridRows
  /\ C!GlyphsOnScreen <=> Console!GlyphsOnScreen
  /\ C!InReadingOrder <=> Console!InReadingOrder
<1>1. /\ C!GridCols = Console!GridCols /\ C!GridRows = Console!GridRows
  BY DEF C!GridCols, C!GridRows, C!Cells, Console!GridCols, Console!GridRows, Console!Cells
<1>2. C!GlyphsOnScreen <=> Console!GlyphsOnScreen
  BY DEF C!GlyphsOnScreen, C!ConsoleHoldsGlyph, C!Glyphs,
         Console!GlyphsOnScreen, Console!ConsoleHoldsGlyph, Console!Glyphs
<1>3. C!InReadingOrder <=> Console!InReadingOrder
  BY DEF C!InReadingOrder, C!Glyphs, Console!InReadingOrder, Console!Glyphs
<1> QED
  BY <1>1, <1>2, <1>3

LEMMA ConsoleSteps ==
  /\ Console!Call => C!Call
  /\ Console!QPrintChar => C!QPrintChar
BY DEF Console!Call, C!Call, Console!QPrintChar, C!QPrintChar,
       C!Breaks, C!PastBottom, C!LineY, C!GlyphX, C!GlyphY,
       Console!Breaks, Console!PastBottom, Console!LineY, Console!GlyphX, Console!GlyphY

\* The console is set up on the framebuffer the boot loader handed over before the
\* first character is printed, and keeps its invariants from then on, halted too.
OnConsole ==
  /\ pc = "print" => C!Init
  /\ pc = "printing" \/ page # << >> => C!IInv /\ C!GridInv

LEMMA ConsoleSetUp ==
  ASSUME CheckedInv, rest = << >>, DefaultFbConsole
  PROVE  C!Init'
<1>1. fbo \in Framebuffers
  <2>1. boot.framebuffer \in Seq(Framebuffers) /\ boot.framebuffer # << >>
      /\ fbo = boot.framebuffer[1]
    BY LoaderFacts DEF CheckedInv, Checked, DefaultFbConsole, LoaderType
  <2>2. 1 \in 1 .. Len(boot.framebuffer)
    BY <2>1
  <2> QED
    BY <2>1, <2>2, ElementOfSeq
<1>2. rest' = << >> /\ page' = << >> /\ fbo' = fbo
  BY DEF CheckedInv, Checked, DefaultFbConsole
<1> QED
  BY <1>1, <1>2 DEF DefaultFbConsole, C!Init

LEMMA ConsoleCall ==
  ASSUME OnConsole, CallQPrint
  PROVE  C!Init /\ C!Call /\ OnConsole'
<1>1. pc = "print" /\ pc' = "printing" /\ C!Init
  BY DEF CallQPrint, OnConsole
<1>2. C!Call
  BY ConsoleSteps DEF CallQPrint
<1>3. C!IInv /\ C!GridInv
  BY <1>1, ConsoleTerms, C!InvInit, C!GridInvInit
<1>4. C!IInv' /\ C!GridInv'
  BY <1>2, <1>3, ConsoleTerms, C!InvStep, C!GridInvStep DEF C!Next
<1> QED
  BY <1>1, <1>2, <1>4 DEF OnConsole

LEMMA ConsoleChar ==
  ASSUME OnConsole, QPrintChar
  PROVE  C!IInv /\ C!GridInv /\ C!QPrintChar /\ OnConsole'
<1>1. pc = "printing" /\ pc' = "printing" /\ C!IInv /\ C!GridInv
  BY DEF QPrintChar, OnConsole
<1>2. C!QPrintChar
  BY ConsoleSteps DEF QPrintChar
<1>3. C!IInv' /\ C!GridInv'
  BY <1>1, <1>2, ConsoleTerms, C!InvStep, C!GridInvStep DEF C!Next
<1> QED
  BY <1>1, <1>2, <1>3 DEF OnConsole

\* A step that leaves the console alone keeps both invariants of it.
LEMMA ConsoleKept ==
  ASSUME OnConsole, console' = console, pc' = "print" => pc = "print",
         pc' = "printing" => pc = "printing"
  PROVE  OnConsole'
<1>1. C!Init => C!Init'
  BY DEF console, C!Init
<1>2. C!vars' = C!vars
  BY DEF console, C!vars
<1>3. C!IInv /\ C!GridInv => C!IInv' /\ C!GridInv'
  BY <1>2, ConsoleTerms, C!InvStep, C!GridInvStep
<1>4. page' = page
  BY DEF console
<1> QED
  BY <1>1, <1>3, <1>4 DEF OnConsole

-----------------------------------------------------------------------------
(* The greeting.                                                            *)

Chars(p) == [j \in 1 .. Len(p) |-> p[j].char]

\* The page is a sequence of glyphs of characters; where they lie does not matter.
PageOfCharacters == \E S : page \in Seq(S) /\ \A g \in S : g.char \in Characters

\* What has been printed and what is still to come are an end of the greeting.
Whole ==
  pc = "printing" \/ page # << >> =>
    \E k \in 1 .. Len(Hello) + 1 : Chars(page) \o rest = SubSeq(Hello, k, Len(Hello))

\* With room for the greeting the cursor stays on the first line, one cell further
\* for each character printed.
FirstLine ==
  (pc = "printing" \/ page # << >>) /\ HasRoom =>
    /\ Chars(page) \o rest = Hello
    /\ cursorX = font.width * Len(page) /\ cursorY = 0
    /\ \A k \in 1 .. Len(page) : page[k].x = font.width * (k - 1) /\ page[k].y = 0

PrintInv ==
  /\ CheckedInv
  /\ rest \in Seq(Characters) /\ PageOfCharacters
  /\ pc \notin {"printing", "hcf"} => rest = << >>
  /\ OnConsole /\ Whole /\ FirstLine

LEMMA PrintedWhole == PrintInv => GreetingIsPrinted
<1> SUFFICES ASSUME PrintInv, pc = "printing" \/ page # << >>
             PROVE  /\ \E k \in 1 .. Len(Hello) + 1 :
                         Printed \o rest = SubSeq(Hello, k, Len(Hello))
                    /\ Console!GlyphsOnScreen /\ Console!InReadingOrder
                    /\ HasRoom =>
                         /\ Printed \o rest = Hello
                         /\ \A k \in 1 .. Len(page) :
                              page[k].x = font.width * (k - 1) /\ page[k].y = 0
  BY DEF GreetingIsPrinted
<1>1. Printed = Chars(page)
  BY DEF Printed, Chars
<1>2. C!IInv
  BY DEF PrintInv, OnConsole
<1>3. C!GlyphsOnScreen /\ C!InReadingOrder
  BY <1>2, ConsoleTerms, C!OnScreenInv DEF C!IInv
<1> QED
  BY <1>1, <1>3, ConsoleSame DEF PrintInv, Whole, FirstLine

LEMMA CharsOfPage ==
  ASSUME NEW S, \A g \in S : g.char \in Characters, NEW p \in Seq(S)
  PROVE  /\ Chars(p) \in Seq(Characters) /\ Len(Chars(p)) = Len(p) /\ Len(p) \in Nat
         /\ \A j \in 1 .. Len(p) : Chars(p)[j] = p[j].char
<1>1. Len(p) \in Nat /\ \A j \in 1 .. Len(p) : p[j].char \in Characters
  BY LenProperties, ElementOfSeq
<1>2. Chars(p) \in [1 .. Len(p) -> Characters]
  BY <1>1 DEF Chars
<1>3. Chars(p) \in Seq(Characters)
  BY <1>1, <1>2, SeqDef
<1>4. Len(Chars(p)) \in Nat /\ 1 .. Len(Chars(p)) = 1 .. Len(p)
  BY <1>2, <1>3, LenProperties
<1>5. Len(Chars(p)) = Len(p)
  BY <1>1, <1>4
<1> QED
  BY <1>1, <1>3, <1>5 DEF Chars

LEMMA CharsAppended ==
  ASSUME NEW S, \A g \in S : g.char \in Characters, NEW p \in Seq(S), NEW g \in S
  PROVE  Chars(Append(p, g)) = Append(Chars(p), g.char)
<1>1. /\ Append(p, g) \in Seq(S) /\ Len(Append(p, g)) = Len(p) + 1
      /\ \A i \in 1 .. Len(p) : Append(p, g)[i] = p[i]
      /\ Append(p, g)[Len(p) + 1] = g
  BY AppendProperties
<1>2. /\ Chars(p) \in Seq(Characters) /\ Len(Chars(p)) = Len(p) /\ Len(p) \in Nat
      /\ \A j \in 1 .. Len(p) : Chars(p)[j] = p[j].char
  BY CharsOfPage
<1>3. /\ Append(Chars(p), g.char) \in Seq(Characters)
      /\ Len(Append(Chars(p), g.char)) = Len(p) + 1
      /\ \A i \in 1 .. Len(p) : Append(Chars(p), g.char)[i] = Chars(p)[i]
      /\ Append(Chars(p), g.char)[Len(p) + 1] = g.char
  BY <1>2, AppendProperties
<1>4. /\ Chars(Append(p, g)) \in Seq(Characters) /\ Len(Chars(Append(p, g))) = Len(p) + 1
      /\ \A j \in 1 .. Len(p) + 1 : Chars(Append(p, g))[j] = Append(p, g)[j].char
  BY <1>1, CharsOfPage
<1>5. \A j \in 1 .. Len(p) + 1 : Chars(Append(p, g))[j] = Append(Chars(p), g.char)[j]
  BY <1>1, <1>2, <1>3, <1>4
<1> QED
  BY <1>2, <1>3, <1>4, <1>5, SeqEqual

\* Moving the first character of what is to come behind what was printed.
LEMMA NextPrinted ==
  ASSUME NEW S, NEW d \in Seq(S), NEW r \in Seq(S), r # << >>
  PROVE  /\ Append(d, Head(r)) \o Tail(r) = d \o r
         /\ <<Head(r)>> \o Tail(r) = r
<1>1. /\ Head(r) \in S /\ Tail(r) \in Seq(S) /\ Len(Tail(r)) = Len(r) - 1 /\ Head(r) = r[1]
      /\ \A i \in 1 .. Len(Tail(r)) : Tail(r)[i] = r[i + 1]
  BY HeadTailProperties
<1>2. <<Head(r)>> \in Seq(S) /\ Len(<<Head(r)>>) = 1 /\ <<Head(r)>>[1] = Head(r)
  BY <1>1
<1>3. PICK c : c = <<Head(r)>> \o Tail(r)
  OBVIOUS
<1>4. /\ c \in Seq(S) /\ Len(c) = 1 + Len(Tail(r))
      /\ \A i \in 1 .. 1 + Len(Tail(r)) : c[i] = IF i <= 1 THEN <<Head(r)>>[i] ELSE Tail(r)[i - 1]
  BY <1>1, <1>2, <1>3, ConcatProperties
<1>5. Len(r) \in Nat /\ Len(c) = Len(r)
  BY <1>1, <1>4, LenProperties
<1>6. \A i \in 1 .. Len(r) : r[i] = c[i]
  BY <1>1, <1>2, <1>4, <1>5
<1>7. r = c
  BY <1>4, <1>5, <1>6, SeqEqual
<1>8. Append(d, Head(r)) = d \o <<Head(r)>>
  BY <1>1, AppendIsConcat
<1>9. (d \o <<Head(r)>>) \o Tail(r) = d \o (<<Head(r)>> \o Tail(r))
  BY <1>1, <1>2, ConcatAssociative
<1> QED
  BY <1>3, <1>7, <1>8, <1>9

IsEnd(r, h) == \E m \in 1 .. Len(h) + 1 : r = SubSeq(h, m, Len(h))

\* What is left of an end of the greeting is an end of the greeting.
LEMMA EndOfEnd ==
  ASSUME NEW S, NEW h \in Seq(S), NEW d \in Seq(S), NEW r \in Seq(S), IsEnd(d \o r, h)
  PROVE  IsEnd(r, h)
<1>0. PICK k \in 1 .. Len(h) + 1 : d \o r = SubSeq(h, k, Len(h))
  BY DEF IsEnd
<1>1. /\ Len(h) \in Nat /\ Len(d) \in Nat /\ Len(r) \in Nat
      /\ Len(d \o r) = Len(d) + Len(r)
      /\ \A i \in 1 .. Len(d) + Len(r) :
           (d \o r)[i] = IF i <= Len(d) THEN d[i] ELSE r[i - Len(d)]
      /\ \A i \in 1 .. Len(h) : h[i] \in S
  BY LenProperties, ConcatProperties, ElementOfSeq
<1>2. /\ Len(SubSeq(h, k, Len(h))) = (Len(h) - k) + 1
      /\ \A i \in 1 .. (Len(h) - k) + 1 : SubSeq(h, k, Len(h))[i] = h[k + i - 1]
  <2>1. \A i \in k .. Len(h) : h[i] \in S
    BY <1>1
  <2>2. Len(SubSeq(h, k, Len(h))) = IF k <= Len(h) THEN Len(h) - k + 1 ELSE 0
    BY <1>1, <2>1, SubSeqProperties
  <2>3. \A i \in 1 .. Len(h) - k + 1 : SubSeq(h, k, Len(h))[i] = h[k + i - 1]
    BY <1>1, <2>1, SubSeqProperties
  <2> QED
    BY <1>1, <2>2, <2>3
<1>3. Len(d) + Len(r) = (Len(h) - k) + 1
  BY <1>0, <1>1, <1>2
<1>4. PICK m \in 1 .. Len(h) + 1 : m = k + Len(d) /\ Len(r) = (Len(h) - m) + 1
  BY <1>1, <1>3
<1>5. \A i \in 1 .. Len(r) : r[i] = h[m + i - 1]
  <2> SUFFICES ASSUME NEW i \in 1 .. Len(r) PROVE r[i] = h[m + i - 1]
    OBVIOUS
  <2>1. Len(d) + i \in 1 .. Len(d) + Len(r) /\ ~(Len(d) + i <= Len(d)) /\ (Len(d) + i) - Len(d) = i
    BY <1>1
  <2>2. (d \o r)[Len(d) + i] = r[i]
    BY <1>1, <2>1
  <2>3. SubSeq(h, k, Len(h))[Len(d) + i] = h[k + (Len(d) + i) - 1]
    BY <1>0, <1>1, <1>2, <1>3, <2>1
  <2>4. k + (Len(d) + i) - 1 = m + i - 1
    BY <1>1, <1>4
  <2> QED
    BY <1>0, <2>2, <2>3, <2>4
<1>6. PICK e : e = SubSeq(h, m, Len(h))
  OBVIOUS
<1>7. e \in Seq(S) /\ Len(e) = Len(r) /\ \A i \in 1 .. Len(r) : e[i] = h[m + i - 1]
  <2>1. \A i \in m .. Len(h) : h[i] \in S
    BY <1>1
  <2>2. e \in Seq(S) /\ Len(e) = IF m <= Len(h) THEN Len(h) - m + 1 ELSE 0
    BY <1>1, <1>6, <2>1, SubSeqProperties
  <2>3. \A i \in 1 .. Len(h) - m + 1 : e[i] = h[m + i - 1]
    BY <1>1, <1>6, <2>1, SubSeqProperties
  <2> QED
    BY <1>1, <1>4, <2>2, <2>3
<1>8. r = e
  BY <1>5, <1>7, SeqEqual
<1> QED
  BY <1>6, <1>8 DEF IsEnd

LEMMA PrintInit == Init => PrintInv
<1> SUFFICES ASSUME Init PROVE PrintInv
  OBVIOUS
<1>1. CheckedInv /\ pc = "revision" /\ rest = << >> /\ page = << >>
  BY CheckedInit DEF Init
<1>2. page \in Seq({}) /\ \A g \in {} : g.char \in Characters
  BY <1>1
<1>3. PageOfCharacters
  BY <1>2 DEF PageOfCharacters
<1> QED
  BY <1>1, <1>3 DEF PrintInv, OnConsole, Whole, FirstLine

LEMMA CallPrints == ASSUME PrintInv, CheckedInv', CallQPrint PROVE PrintInv'
<1>1. pc = "print" /\ pc' = "printing" /\ rest' = Hello /\ page' = page /\ page = << >>
  BY DEF PrintInv, CheckedInv, Checked, CallQPrint, Console!Call, Messages
<1>2. Hello \in Seq(Characters)
  BY HelloAssumption
<1>3. Chars(page') = << >>
  <2>1. page' \in Seq({}) /\ Len(page') = 0 /\ \A g \in {} : g.char \in Characters
    BY <1>1
  <2>2. Chars(page') \in Seq(Characters) /\ Len(Chars(page')) = 0
    BY <2>1, CharsOfPage
  <2> QED
    BY <2>2, EmptySeq
<1>4. << >> \o Hello = Hello /\ SubSeq(Hello, 1, Len(Hello)) = Hello
  BY <1>2, ConcatEmptySeq, SubSeqFull
<1>5. 1 \in 1 .. Len(Hello) + 1
  BY <1>2, LenProperties
<1>6. Whole'
  BY <1>1, <1>3, <1>4, <1>5 DEF Whole, Chars
<1>7. PageOfCharacters'
  BY <1>1 DEF PrintInv, PageOfCharacters
<1>8. OnConsole' /\ C!Init /\ C!Call
  BY ConsoleCall DEF PrintInv
<1>9. FirstLine'
  <2>1. font.width \in Nat /\ font' = font
    BY <1>8, ConsoleTerms DEF C!Init, C!Call, C!U16
  <2>2. cursorX' = 0 /\ cursorY' = 0 /\ Len(page') = 0 /\ font.width * 0 = 0
    BY <1>1, <1>8, <2>1 DEF C!Init, C!Call
  <2> QED
    BY <1>1, <1>3, <1>4, <2>1, <2>2 DEF FirstLine, Chars
<1> QED
  BY <1>1, <1>2, <1>6, <1>7, <1>8, <1>9 DEF PrintInv

\* With room for it the next character of the greeting goes to the cursor.
LEMMA CharOnFirstLine ==
  ASSUME PrintInv, QPrintChar, HasRoom
  PROVE  LET c == Head(rest)
         IN  /\ ~C!Breaks(c) /\ ~C!PastBottom(c)
             /\ C!GlyphX(c) = cursorX /\ C!GlyphY(c) = 0
             /\ font.width \in Nat /\ font' = font
             /\ cursorX' = cursorX + font.width /\ cursorY' = 0
<1> DEFINE c == Head(rest)
<1>1. C!IInv /\ C!GridInv /\ C!QPrintChar
  BY ConsoleChar DEF PrintInv
<1>2. C!TypeOK /\ C!Aligned
  BY <1>1 DEF C!GridInv
<1>3. /\ Chars(page) \o rest = Hello
      /\ cursorX = font.width * Len(page) /\ cursorY = 0
  BY DEF PrintInv, FirstLine, QPrintChar
<1>4. PICK R : page \in Seq(R) /\ \A e \in R : e.char \in Characters
  BY DEF PrintInv, PageOfCharacters
<1>5. Chars(page) \in Seq(Characters) /\ Len(Chars(page)) = Len(page) /\ Len(page) \in Nat
  BY <1>4, CharsOfPage
<1>6. /\ rest \in Seq(Characters) /\ rest # << >>
      /\ Len(rest) \in Nat /\ Len(rest) > 0 /\ c = rest[1]
  BY <1>1 DEF PrintInv, C!QPrintChar
<1>7. /\ Len(Hello) = Len(page) + Len(rest)
      /\ Hello[Len(page) + 1] = rest[1]
  <2>1. Len(page) + 1 \in 1 .. Len(Chars(page)) + Len(rest)
    BY <1>5, <1>6
  <2>2. (Chars(page) \o rest)[Len(page) + 1] = rest[(Len(page) + 1) - Len(Chars(page))]
    <3>1. ~(Len(page) + 1 <= Len(Chars(page)))
      BY <1>5
    <3> QED
      BY <1>5, <1>6, <2>1, <3>1, ConcatProperties
  <2>3. (Len(page) + 1) - Len(Chars(page)) = 1
    BY <1>5
  <2>4. Len(Chars(page) \o rest) = Len(Chars(page)) + Len(rest)
    BY <1>5, <1>6, ConcatProperties
  <2> QED
    BY <1>3, <1>5, <2>2, <2>3, <2>4
<1>8. c # Newline
  <2>1. Len(page) + 1 \in DOMAIN Hello
    BY <1>5, <1>6, <1>7, HelloAssumption
  <2> QED
    BY <1>6, <1>7, <2>1 DEF HasRoom
<1>9. font.width \in Nat \ {0} /\ font.height \in Nat \ {0}
  BY <1>2, ConsoleTerms, C!Sizes DEF C!U16
<1>10. C!GridCol = Len(page) /\ C!GridRow = 0
  <2>1. (font.width * Len(page)) \div font.width = Len(page)
    BY <1>5, <1>9, ConsoleTerms, C!Cancel
  <2>2. (font.height * 0) \div font.height = 0 /\ font.height * 0 = 0
    BY <1>9, ConsoleTerms, C!Cancel
  <2> QED
    BY <1>3, <2>1, <2>2 DEF C!GridCol, C!GridRow
<1>11. C!GridCols \in Nat /\ C!GridRows \in Nat /\ Len(Hello) <= C!GridCols /\ 1 <= C!GridRows
  BY <1>2, ConsoleTerms, ConsoleSame, C!AlignedMeans DEF HasRoom
<1>12. ~C!Grid!Breaks(c)
  BY <1>5, <1>6, <1>7, <1>8, <1>10, <1>11 DEF C!Grid!Breaks
<1>13. ~C!Breaks(c) /\ ~C!PastBottom(c)
  BY <1>2, <1>10, <1>11, <1>12, ConsoleTerms, C!TestsCountCells
<1>14. C!GlyphX(c) = cursorX /\ C!GlyphY(c) = 0
  BY <1>3, <1>13 DEF C!GlyphX, C!GlyphY, C!LineY
<1>15. font' = font /\ cursorX' = C!GlyphX(c) + font.width /\ cursorY' = C!GlyphY(c)
  BY <1>1, <1>2, ConsoleTerms, C!Placement DEF C!QPrintChar
<1> QED
  BY <1>9, <1>13, <1>14, <1>15

LEMMA CharPrints == ASSUME PrintInv, CheckedInv', QPrintChar PROVE PrintInv'
<1>1. pc = "printing" /\ pc' = "printing" /\ rest # << >> /\ rest' = Tail(rest)
  BY DEF QPrintChar, Console!QPrintChar
<1>2. PICK g, S0 :
        /\ g = [char |-> Head(rest), x |-> C!GlyphX(Head(rest)), y |-> C!GlyphY(Head(rest))]
        /\ S0 = IF C!PastBottom(Head(rest)) THEN << >> ELSE page
        /\ page' = Append(S0, g)
  BY ConsoleSteps DEF QPrintChar, C!QPrintChar
<1>3. rest \in Seq(Characters) /\ Hello \in Seq(Characters)
  BY HelloAssumption DEF PrintInv
<1>4. /\ Head(rest) \in Characters /\ Tail(rest) \in Seq(Characters)
      /\ g.char = Head(rest)
  BY <1>1, <1>2, <1>3, HeadTailProperties
<1>5. PICK R : page \in Seq(R) /\ \A e \in R : e.char \in Characters
  BY DEF PrintInv, PageOfCharacters
<1>6. PICK S : S = R \cup {g}
  OBVIOUS
<1>7. /\ \A e \in S : e.char \in Characters
      /\ g \in S /\ page \in Seq(S) /\ S0 \in Seq(S)
  <2>1. page \in Seq(S) /\ << >> \in Seq(S)
    BY <1>5, <1>6, SeqMonotonic, EmptySeq
  <2> QED
    BY <1>2, <1>4, <1>5, <1>6, <2>1
<1>8. PICK k \in 1 .. Len(Hello) + 1 : Chars(page) \o rest = SubSeq(Hello, k, Len(Hello))
  BY <1>1 DEF PrintInv, Whole
<1>9. /\ Chars(page') = Append(Chars(S0), Head(rest)) /\ Chars(S0) \in Seq(Characters)
      /\ Chars(page') \o rest' = Chars(S0) \o rest
  <2>1. Chars(page') = Append(Chars(S0), Head(rest)) /\ Chars(S0) \in Seq(Characters)
    BY <1>2, <1>4, <1>7, CharsAppended, CharsOfPage
  <2> QED
    BY <1>1, <1>3, <2>1, NextPrinted
<1>10. \E m \in 1 .. Len(Hello) + 1 : Chars(page') \o rest' = SubSeq(Hello, m, Len(Hello))
  <2>1. CASE S0 = page
    BY <1>8, <1>9, <2>1
  <2>2. CASE S0 = << >>
    <3>1. Len(S0) = 0
      BY <2>2
    <3>2. Chars(S0) = << >>
      <4>1. Len(Chars(S0)) = 0
        BY <1>7, <3>1, CharsOfPage
      <4> QED
        BY <1>9, <4>1, EmptySeq
    <3>3. << >> \o rest = rest
      BY <1>3, ConcatEmptySeq
    <3>4. Chars(page) \in Seq(Characters)
      BY <1>7, CharsOfPage
    <3>5. \E m \in 1 .. Len(Hello) + 1 : rest = SubSeq(Hello, m, Len(Hello))
      <4>1. IsEnd(Chars(page) \o rest, Hello)
        BY <1>8 DEF IsEnd
      <4>2. IsEnd(rest, Hello)
        BY <1>3, <3>4, <4>1, EndOfEnd
      <4> QED
        BY <4>2 DEF IsEnd
    <3> QED
      BY <1>9, <3>2, <3>3, <3>5
  <2> QED
    BY <1>2, <2>1, <2>2
<1>11. Whole'
  BY <1>10 DEF Whole, Chars
<1>12. PageOfCharacters'
  <2>1. page' \in Seq(S)
    BY <1>2, <1>7, AppendProperties
  <2> QED
    BY <1>7, <2>1 DEF PageOfCharacters
<1>13. FirstLine'
  <2>1. HasRoom' => HasRoom
    <3>1. font' = font /\ width' = width /\ height' = height
      BY DEF QPrintChar, Console!QPrintChar
    <3> QED
      BY <3>1 DEF HasRoom, Console!GridCols, Console!GridRows
  <2> SUFFICES ASSUME HasRoom
               PROVE  /\ Chars(page') \o rest' = Hello
                      /\ cursorX' = font'.width * Len(page') /\ cursorY' = 0
                      /\ \A j \in 1 .. Len(page') :
                           page'[j].x = font'.width * (j - 1) /\ page'[j].y = 0
    BY <2>1 DEF FirstLine, Chars
  <2>2. /\ ~C!PastBottom(Head(rest))
        /\ C!GlyphX(Head(rest)) = cursorX /\ C!GlyphY(Head(rest)) = 0
        /\ font.width \in Nat /\ font' = font
        /\ cursorX' = cursorX + font.width /\ cursorY' = 0
    BY CharOnFirstLine
  <2>3. /\ Chars(page) \o rest = Hello /\ cursorX = font.width * Len(page)
        /\ \A j \in 1 .. Len(page) : page[j].x = font.width * (j - 1) /\ page[j].y = 0
    BY <1>1 DEF PrintInv, FirstLine
  <2>4. S0 = page /\ g.x = cursorX /\ g.y = 0
    BY <1>2, <2>2
  <2>5. /\ Len(page) \in Nat /\ Len(page') = Len(page) + 1 /\ page'[Len(page) + 1] = g
        /\ \A j \in 1 .. Len(page) : page'[j] = page[j]
    BY <1>2, <1>7, <2>4, AppendProperties, LenProperties
  <2>6. font.width * (Len(page) + 1) = font.width * Len(page) + font.width
    BY <2>2, <2>5, ConsoleTerms, C!Distributes
  <2>7. ASSUME NEW j \in 1 .. Len(page')
        PROVE  page'[j].x = font.width * (j - 1) /\ page'[j].y = 0
    <3>1. CASE j = Len(page) + 1
      <4>1. j - 1 = Len(page)
        BY <2>5, <3>1
      <4> QED
        BY <2>3, <2>4, <2>5, <3>1, <4>1
    <3>2. CASE j \in 1 .. Len(page)
      BY <2>3, <2>5, <3>2
    <3> QED
      BY <2>5, <3>1, <3>2
  <2> QED
    BY <1>9, <2>2, <2>3, <2>4, <2>5, <2>6, <2>7
<1>14. OnConsole'
  BY ConsoleChar DEF PrintInv
<1> QED
  BY <1>1, <1>4, <1>11, <1>12, <1>13, <1>14 DEF PrintInv

\* The steps before the console is set up draw nothing, and printing starts only
\* when it is called for.
LEMMA EarlyPrints ==
  ASSUME PrintInv, CheckedInv', rest' = << >>, page' = << >>, rest = << >>, page = << >>,
         pc' \notin {"print", "printing"}
  PROVE  PrintInv'
<1>1. << >> \in Seq(Characters) /\ << >> \in Seq({}) /\ \A g \in {} : g.char \in Characters
  OBVIOUS
<1>2. PageOfCharacters'
  BY <1>1 DEF PageOfCharacters
<1> QED
  BY <1>1, <1>2 DEF PrintInv, OnConsole, Whole, FirstLine

\* The other steps leave the console alone, and printing ends only when it is done.
LEMMA PrintKept ==
  ASSUME PrintInv, CheckedInv', console' = console,
         pc' = "print" => pc = "print", pc' = "printing" => pc = "printing",
         pc' \notin {"printing", "hcf"} => pc \notin {"printing", "hcf"}
  PROVE  PrintInv'
<1>1. /\ rest' = rest /\ page' = page /\ font' = font /\ width' = width /\ height' = height
      /\ cursorX' = cursorX /\ cursorY' = cursorY
  BY DEF console
<1>2. OnConsole'
  BY ConsoleKept DEF PrintInv
<1>3. HasRoom' = HasRoom
  BY <1>1 DEF HasRoom, Console!GridCols, Console!GridRows
<1>4. Whole' /\ FirstLine'
  BY <1>1, <1>3 DEF PrintInv, Whole, FirstLine, Chars
<1>5. PageOfCharacters'
  BY <1>1 DEF PrintInv, PageOfCharacters
<1> QED
  BY <1>1, <1>2, <1>4, <1>5 DEF PrintInv

LEMMA PrintStep == PrintInv /\ [Next]_vars => PrintInv'
<1> SUFFICES ASSUME PrintInv, [Next]_vars PROVE PrintInv'
  OBVIOUS
<1>0. CheckedInv /\ CheckedInv'
  BY CheckedStep DEF PrintInv
<1>1. CASE CheckRevision \/ CheckHhdm \/ CheckMemmap \/ CheckFramebuffer \/ CheckDtb
  BY <1>0, <1>1, PrintKept
     DEF CheckRevision, CheckHhdm, CheckMemmap, CheckFramebuffer, CheckDtb, QK_CHECK
<1>2. CASE SkipEntry \/ CreateArena \/ NoEntryLeft \/ ScanEntries \/ QPrintReturns
  BY <1>0, <1>2, PrintKept DEF SkipEntry, CreateArena, NoEntryLeft, ScanEntries, QPrintReturns
<1>3. CASE InitFramebuffer
  <2>1. /\ pc = "initFramebuffer" /\ pc' \in {"fault", "validate"}
        /\ rest' = rest /\ page' = page
    BY <1>3 DEF InitFramebuffer
  <2>2. rest = << >> /\ page = << >>
    BY <2>1 DEF PrintInv, CheckedInv, Checked
  <2> QED
    BY <1>0, <2>1, <2>2, EarlyPrints
<1>4. CASE ValidateDtb
  <2>1. pc = "validate" /\ pc' \in {"hcf", "console"} /\ console' = console
    BY <1>0, <1>4, LoaderFacts DEF ValidateDtb, CheckedInv, Checked, LoaderType
  <2> QED
    BY <1>0, <2>1, PrintKept
<1>5. CASE DefaultFbConsole
  <2>1. /\ pc = "console" /\ pc' = "print" /\ rest' = rest /\ page' = page
        /\ rest = << >> /\ page = << >>
    BY <1>5 DEF DefaultFbConsole, PrintInv, CheckedInv, Checked
  <2>2. C!Init'
    BY <1>0, <1>5, <2>1, ConsoleSetUp
  <2>3. PageOfCharacters'
    BY <2>1 DEF PrintInv, PageOfCharacters
  <2> QED
    BY <1>0, <2>1, <2>2, <2>3 DEF PrintInv, OnConsole, Whole, FirstLine
<1>6. CASE CallQPrint
  BY <1>0, <1>6, CallPrints
<1>7. CASE QPrintChar
  BY <1>0, <1>7, CharPrints
<1>8. CASE Hcf \/ UNCHANGED vars
  BY <1>0, <1>8, PrintKept DEF Hcf, vars
<1> QED
  BY <1>1, <1>2, <1>3, <1>4, <1>5, <1>6, <1>7, <1>8 DEF Next, Boot

LEMMA PrintInvariant == Spec => []PrintInv
BY PrintInit, PrintStep, PTL DEF Spec

\* While the greeting is printed, on whatever framebuffer and in whatever font, no
\* character of it is lost, repeated or out of place, nor off the screen; where a line
\* has room for it, it stands on the first line.
THEOREM GreetingWhole == Spec => []GreetingIsPrinted
BY PrintedWhole, PrintInvariant, PTL

LEMMA GridSame ==
  /\ C!Grid!Init => Console!Grid!Init
  /\ C!Grid!Next => Console!Grid!Next
<1>1. C!Grid!Init => Console!Grid!Init
  BY DEF C!Grid!Init, Console!Grid!Init, C!GridCols, C!GridRows, C!GridRow, C!GridCol,
         C!GridPage, C!Glyphs, C!Cells, Console!GridCols, Console!GridRows, Console!GridRow,
         Console!GridCol, Console!GridPage, Console!Glyphs, Console!Cells
<1>2. C!Grid!Next => Console!Grid!Next
  BY DEF C!Grid!Next, C!Grid!Call, C!Grid!OnThisLine, C!Grid!OnNextLine, C!Grid!OnTopLine,
         C!Grid!Put, C!Grid!Breaks, C!GridCols, C!GridRows, C!GridRow, C!GridCol,
         C!GridPage, C!Glyphs, C!Cells,
         Console!Grid!Next, Console!Grid!Call, Console!Grid!OnThisLine,
         Console!Grid!OnNextLine, Console!Grid!OnTopLine, Console!Grid!Put,
         Console!Grid!Breaks, Console!GridCols, Console!GridRows, Console!GridRow,
         Console!GridCol, Console!GridPage, Console!Glyphs, Console!Cells
<1> QED
  BY <1>1, <1>2

\* From the end of DefaultFbConsole on the greeting is laid out as the abstract text
\* grid lays text out, on the framebuffer that was checked: the boot hands QPrint a
\* console as QPrint expects it, and nothing else of KernelMain writes to it.
THEOREM GreetsOnAGrid ==
  Spec => /\ [](pc = "print" => Console!Grid!Init)
          /\ [][(pc \in {"print", "printing", "hcf"}) =>
                 [Console!Grid!Next]_(Console!Grid!vars)]_vars
<1>1. PrintInv => (pc = "print" => Console!Grid!Init)
  BY ConsoleTerms, C!GridInit, GridSame DEF PrintInv, OnConsole
<1>2. PrintInv /\ [Next]_vars =>
        [(pc \in {"print", "printing", "hcf"}) => [Console!Grid!Next]_(Console!Grid!vars)]_vars
  <2> SUFFICES ASSUME PrintInv, [Next]_vars, pc \in {"print", "printing", "hcf"},
                      ~(UNCHANGED vars)
               PROVE  [Console!Grid!Next]_(Console!Grid!vars)
    OBVIOUS
  <2>1. CallQPrint \/ QPrintChar \/ QPrintReturns
    BY DEF Next, Boot, CheckRevision, CheckHhdm, CheckMemmap, SkipEntry, CreateArena,
           NoEntryLeft, ScanEntries, CheckFramebuffer, CheckDtb, QK_CHECK, InitFramebuffer,
           ValidateDtb, DefaultFbConsole, Hcf
  <2>2. CASE CallQPrint
    <3>1. C!Call
      BY <2>2, ConsoleCall DEF PrintInv
    <3>2. C!Grid!Next
      BY <3>1, ConsoleTerms, C!GridCall DEF C!Grid!Next
    <3> QED
      BY <3>2, GridSame
  <2>3. CASE QPrintChar
    <3>1. C!GridInv /\ C!QPrintChar
      BY <2>3, ConsoleChar DEF PrintInv
    <3>2. C!Grid!Next
      BY <3>1, ConsoleTerms, C!GridChar
    <3> QED
      BY <3>2, GridSame
  <2>4. CASE QPrintReturns
    BY <2>4 DEF QPrintReturns, console, Console!Grid!vars, Console!GridCols, Console!GridRows,
                Console!GridRow, Console!GridCol, Console!GridPage, Console!Glyphs
  <2> QED
    BY <2>1, <2>2, <2>3, <2>4
<1> QED
  BY <1>1, <1>2, PrintInvariant, PTL DEF Spec
-----------------------------------------------------------------------------
(* The font's table.                                                        *)

\* A font whose table has a block of rows for each of the first characters, as
\* main.c:176 has it.
IsTableOfBlocks(f) ==
  f.charCount \in Nat /\ Len(f.data) = f.height * f.charCount

\* The rows of a character are read from inside the table when the table has its block
\* and the character is not negative: where `char' is signed, the blocks of the bytes
\* from 128 on are there and never read.
ReadsTheTable ==
  pc \in {"print", "printing"} /\ IsTableOfBlocks(font) =>
    \A c \in 0 .. 255 :
      InTable(c) <=> c < font.charCount /\ ~(CharSigned /\ c >= 128)

LEMMA BlocksApart ==
  ASSUME NEW c \in Int, NEW n \in Nat, NEW s \in Nat \ {0}
  PROVE  /\ c * s \in Int
         /\ c >= 0 => c * s >= 0
         /\ c < 0 => c * s < 0
         /\ c >= 0 => (c * s + s - 1 < s * n <=> c < n)
<1>1. c * s \in Int
  OBVIOUS
<1>2. c >= 0 => c * s >= 0
  OBVIOUS
<1>3. c < 0 => c * s < 0
  <2> SUFFICES ASSUME c < 0 PROVE c * s < 0
    OBVIOUS
  <2>1. PICK d \in Nat : c = -1 - d
    <3>1. -1 - c \in Nat /\ c = -1 - (-1 - c)
      OBVIOUS
    <3> QED
      BY <3>1
  <2>2. c * s = -s - d * s /\ d * s \in Nat
    BY <2>1
  <2> QED
    BY <2>2
<1>4. ASSUME c >= 0
      PROVE  c * s + s - 1 < s * n <=> c < n
  <2>1. c \in Nat /\ c * s = s * c /\ s * c \in Nat /\ s * n \in Nat /\ s * (c + 1) = s * c + s
    BY <1>4, ConsoleTerms, C!Distributes
  <2>2. CASE c < n
    <3>1. s * (c + 1) <= s * n
      BY <2>1, <2>2, ConsoleTerms, C!Monotone
    <3> QED
      BY <2>1, <2>2, <3>1
  <2>3. CASE ~(c < n)
    <3>1. s * n <= s * c
      BY <2>1, <2>3, ConsoleTerms, C!Monotone
    <3> QED
      BY <2>1, <2>3, <3>1
  <2> QED
    BY <2>2, <2>3
<1> QED
  BY <1>1, <1>2, <1>3, <1>4

\* For every font and either signedness of `char': which characters QPrint reads rows
\* of the table for, and which from beside it.
THEOREM FontReads == Spec => []ReadsTheTable
<1>1. PrintInv => ReadsTheTable
  <2> SUFFICES ASSUME PrintInv, pc \in {"print", "printing"}, IsTableOfBlocks(font),
                      NEW c \in 0 .. 255
               PROVE  InTable(c) <=> c < font.charCount /\ ~(CharSigned /\ c >= 128)
    BY DEF ReadsTheTable
  <2> DEFINE v == Console!CharValue(c)
             h == font.height
             n == font.charCount
  <2>1. h \in Nat \ {0}
    <3>1. font \in Fonts
      BY DEF PrintInv, OnConsole, C!Init, C!IInv, C!TypeOK
    <3> QED
      BY <3>1, ConsoleAssumption
  <2>2. n \in Nat /\ Len(font.data) = h * n
    BY DEF IsTableOfBlocks
  <2>3. InTable(c) <=> v * h + 0 >= 0 /\ v * h + (h - 1) < h * n
    BY <2>2 DEF InTable, Console!RowIndex
  <2>4. CASE CharSigned /\ c >= 128
    <3>1. v \in Int /\ v < 0
      BY <2>4 DEF Console!CharValue
    <3> HIDE DEF v, h, n
    <3>2. v * h \in Int /\ v * h < 0
      BY <2>1, <2>2, <3>1, BlocksApart
    <3> QED
      BY <2>3, <2>4, <3>2
  <2>5. CASE ~(CharSigned /\ c >= 128)
    <3>1. v = c
      BY <2>5 DEF Console!CharValue
    <3> HIDE DEF v, h, n
    <3>2. /\ c * h \in Int /\ c * h >= 0
          /\ c * h + h - 1 < h * n <=> c < n
      BY <2>1, <2>2, BlocksApart
    <3>3. c * h + (h - 1) < h * n <=> c < n
      BY <2>1, <3>2
    <3>4. InTable(c) <=> c < n
      BY <2>3, <3>1, <3>2, <3>3
    <3> QED
      BY <2>5, <3>4 DEF n
  <2> QED
    BY <2>4, <2>5
<1> QED
  BY <1>1, PrintInvariant, PTL
-----------------------------------------------------------------------------
(* Termination.                                                            *)

\* A bound on the statements still to come before the machine waits in hcf: the entries
\* of the memory map and the characters of the greeting are each dealt with once.
StepsLeft ==
  LET text    == Len(Hello)
      entries == Len(Entries)
  IN  CASE pc = "revision"        -> text + entries + 12
        [] pc = "hhdm"            -> text + entries + 11
        [] pc = "memmap"          -> text + entries + 10
        [] pc = "arena"           -> text + (entries + 1 - mmEntry) + 9
        [] pc = "scan"            -> text + 8
        [] pc = "framebuffer"     -> text + 7
        [] pc = "dtb"             -> text + 6
        [] pc = "initFramebuffer" -> text + 5
        [] pc = "validate"        -> text + 4
        [] pc = "console"         -> text + 3
        [] pc = "print"           -> text + 2
        [] pc = "printing"        -> Len(rest) + 1
        [] pc = "hcf"             -> 0

StepsTell == StepsLeft \in Nat /\ (StepsLeft = 0 <=> pc = "hcf")

BootInv == ArenaInv /\ PrintInv

LEMMA BootFacts ==
  ASSUME BootInv
  PROVE  /\ Len(Hello) \in Nat /\ Len(Entries) \in Nat
         /\ mmEntry \in 1 .. Len(Entries) + 1 /\ Len(rest) \in Nat
         /\ pc \in {"revision", "hhdm", "memmap", "arena", "scan", "framebuffer", "dtb",
                    "initFramebuffer", "validate", "console", "print", "printing", "hcf"}
<1>1. CheckedInv /\ TypeOK /\ rest \in Seq(Characters)
  BY DEF BootInv, ArenaInv, PrintInv
<1>2. Entries \in Seq(MemmapEntry) /\ Hello \in Seq(Characters)
  BY <1>1, LoaderFacts, HelloAssumption DEF CheckedInv
<1> QED
  BY <1>1, <1>2 DEF TypeOK, CheckedInv, Checked

LEMMA StepsRemain == BootInv => StepsTell
<1> SUFFICES ASSUME BootInv PROVE StepsTell
  OBVIOUS
<1> DEFINE text == Len(Hello)
           entries == Len(Entries)
<1>1. /\ text \in Nat /\ entries \in Nat
      /\ mmEntry \in 1 .. entries + 1 /\ Len(rest) \in Nat
      /\ pc \in {"revision", "hhdm", "memmap", "arena", "scan", "framebuffer", "dtb",
                 "initFramebuffer", "validate", "console", "print", "printing", "hcf"}
  BY BootFacts
<1> HIDE DEF text, entries
<1>2. CASE pc = "arena"
  <2>1. StepsLeft = text + (entries + 1 - mmEntry) + 9
    BY <1>2 DEF StepsLeft, text, entries
  <2> QED
    BY <1>1, <1>2, <2>1 DEF StepsTell
<1>3. CASE pc \in {"revision", "hhdm", "memmap"}
  <2>1. \E k \in {10, 11, 12} : StepsLeft = text + entries + k
    BY <1>3 DEF StepsLeft, text, entries
  <2> QED
    BY <1>1, <1>3, <2>1 DEF StepsTell
<1>4. CASE pc \in {"scan", "framebuffer", "dtb", "initFramebuffer", "validate", "console",
                   "print", "printing", "hcf"}
  BY <1>1, <1>4 DEF StepsLeft, StepsTell, text
<1> QED
  BY <1>1, <1>2, <1>3, <1>4

LEMMA StepCounts == BootInv /\ BootInv' /\ Boot => StepsLeft' < StepsLeft
<1> SUFFICES ASSUME BootInv, BootInv', Boot PROVE StepsLeft' < StepsLeft
  OBVIOUS
<1> DEFINE text == Len(Hello)
           entries == Len(Entries)
<1>1. /\ text \in Nat /\ entries \in Nat
      /\ mmEntry \in 1 .. entries + 1 /\ Len(rest) \in Nat
      /\ pc \in {"revision", "hhdm", "memmap", "arena", "scan", "framebuffer", "dtb",
                 "initFramebuffer", "validate", "console", "print", "printing", "hcf"}
  BY BootFacts
<1>2. entries' = entries
  <2>1. boot' = boot
    BY DEF Boot, CheckRevision, CheckHhdm, CheckMemmap, SkipEntry, CreateArena, NoEntryLeft,
           ScanEntries, CheckFramebuffer, CheckDtb, QK_CHECK, InitFramebuffer, ValidateDtb,
           DefaultFbConsole, CallQPrint, QPrintChar, QPrintReturns
  <2> QED
    BY <2>1 DEF Entries
<1>3. pc' # "fault"
  BY DEF BootInv, PrintInv, CheckedInv, Checked
<1> HIDE DEF text, entries
<1>4. CASE CheckRevision \/ CheckHhdm \/ CheckMemmap
  <2>1. /\ mmEntry' = mmEntry
        /\ \/ pc = "revision" /\ pc' \in {"hcf", "hhdm"}
           \/ pc = "hhdm" /\ pc' \in {"hcf", "memmap"}
           \/ pc = "memmap" /\ pc' \in {"hcf", "arena"}
    BY <1>4 DEF CheckRevision, CheckHhdm, CheckMemmap, QK_CHECK
  <2> QED
    BY <1>1, <1>2, <2>1 DEF StepsLeft, text, entries
<1>5. CASE SkipEntry
  <2>1. pc = "arena" /\ pc' = pc /\ mmEntry' = mmEntry + 1
    BY <1>5 DEF SkipEntry
  <2> QED
    BY <1>1, <1>2, <2>1 DEF StepsLeft, text, entries
<1>6. CASE CreateArena \/ NoEntryLeft
  <2>1. pc = "arena" /\ pc' = "scan"
    BY <1>3, <1>6 DEF CreateArena, NoEntryLeft
  <2> QED
    BY <1>1, <1>2, <2>1 DEF StepsLeft, text, entries
<1>7. CASE ScanEntries \/ CheckFramebuffer \/ CheckDtb
  <2>1. \/ pc = "scan" /\ pc' = "framebuffer"
        \/ pc = "framebuffer" /\ pc' \in {"hcf", "dtb"}
        \/ pc = "dtb" /\ pc' \in {"hcf", "initFramebuffer"}
    BY <1>7 DEF ScanEntries, CheckFramebuffer, CheckDtb, QK_CHECK
  <2> QED
    BY <1>1, <2>1 DEF StepsLeft, text
<1>8. CASE InitFramebuffer \/ ValidateDtb \/ DefaultFbConsole
  <2>1. \/ pc = "initFramebuffer" /\ pc' = "validate"
        \/ pc = "validate" /\ pc' \in {"hcf", "console"}
        \/ pc = "console" /\ pc' = "print"
    <3>1. CASE ValidateDtb
      <4>1. boot.dtb \in {NoResponse, "null", "broken", "valid"}
        BY LoaderFacts DEF BootInv, PrintInv, CheckedInv, LoaderType
      <4> QED
        BY <1>3, <3>1, <4>1 DEF ValidateDtb
    <3> QED
      BY <1>3, <1>8, <3>1 DEF InitFramebuffer, DefaultFbConsole
  <2> QED
    BY <1>1, <2>1 DEF StepsLeft, text
<1>9. CASE CallQPrint
  <2>1. pc = "print" /\ pc' = "printing" /\ rest' = Hello
    BY <1>9 DEF CallQPrint, Console!Call, Messages
  <2> QED
    BY <1>1, <2>1 DEF StepsLeft, text
<1>10. CASE QPrintChar
  <2>1. pc = "printing" /\ pc' = pc /\ rest # << >> /\ rest' = Tail(rest)
    BY <1>10 DEF QPrintChar, Console!QPrintChar
  <2>2. rest \in Seq(Characters)
    BY DEF BootInv, PrintInv
  <2>3. Len(rest') = Len(rest) - 1
    BY <2>1, <2>2
  <2> QED
    BY <1>1, <2>1, <2>3 DEF StepsLeft
<1>11. CASE QPrintReturns
  <2>1. pc = "printing" /\ pc' = "hcf"
    BY <1>11 DEF QPrintReturns
  <2> QED
    BY <1>1, <2>1 DEF StepsLeft
<1> QED
  BY <1>4, <1>5, <1>6, <1>7, <1>8, <1>9, <1>10, <1>11 DEF Boot

\* Whatever the boot loader answers, no statement of the boot is executed for ever, and
\* none is left only where the machine waits in hcf.
THEOREM BootTerminates ==
  /\ Init => StepsLeft = Len(Hello) + Len(Entries) + 12
  /\ Spec => []StepsTell /\ [][StepsLeft' < StepsLeft]_vars
<1>1. Init => StepsLeft = Len(Hello) + Len(Entries) + 12
  BY DEF Init, StepsLeft
<1>2. BootInv /\ BootInv' /\ [Next]_vars => [StepsLeft' < StepsLeft]_vars
  <2>1. Hcf => UNCHANGED vars
    BY DEF Hcf
  <2> QED
    BY <2>1, StepCounts DEF Next
<1>3. Spec => []BootInv
  <2>1. ArenaInv /\ PrintInv => BootInv
    BY DEF BootInv
  <2> QED
    BY <2>1, ArenaInvariant, PrintInit, PrintStep, PTL DEF Spec
<1> QED
  BY <1>1, <1>2, <1>3, StepsRemain, PTL DEF Spec
=============================================================================
