----------------------------- MODULE FbConsole ------------------------------
(***************************************************************************)
(* The text console of kernel/src/main.c: QPrint lays glyphs out over the  *)
(* framebuffer, FramebufferPutPixel stores their pixels.  One action per   *)
(* character.  The framebuffer's contents are not state, since nothing     *)
(* reads them: Pixels and StoreOffset say what a glyph stores.             *)
(***************************************************************************)
EXTENDS Integers, Sequences

CONSTANTS
  U16Limit,      (* 2^16 in the code                                       *)
  Framebuffers,  (* what the boot loader may hand over                     *)
  Fonts,         (* font descriptions: the size of a glyph, how many there *)
                 (* are, and their rows one after the other                *)
  CharSigned,    (* whether `char' is signed: on x86_64, not on riscv64    *)
  Messages,      (* the strings printed, as sequences of character codes   *)
  Characters,    (* the characters they are made of                        *)
  Newline        (* the character '\n'                                     *)

U16 == 0 .. U16Limit - 1

ASSUME U16LimitAssumption == U16Limit \in Nat \ {0}

ASSUME MessagesAssumption == Messages \subseteq Seq(Characters) /\ Newline \in Characters

ASSUME FramebuffersAssumption ==
  \A f \in Framebuffers :
    f.width \in Nat /\ f.height \in Nat /\ f.bytesPerRow \in Nat /\ f.bitsPerPixel \in Nat

ASSUME FontsAssumption ==
  \A f \in Fonts : f.width \in U16 \ {0} /\ f.height \in U16 \ {0}

VARIABLES
  fbo,               (* gFbo                                               *)
  font,              (* gFbConsole.font                                    *)
  width, height,     (* gFbConsole.width, gFbConsole.height                *)
  cursorX, cursorY,  (* gFbConsole.cursorX, gFbConsole.cursorY             *)
  rest,              (* what `string' still points at                      *)
  page               (* the glyphs drawn since the cursor last went to the *)
                     (* top, with the place of their upper left corner     *)

vars == <<fbo, font, width, height, cursorX, cursorY, rest, page>>

\* InitFramebuffer and DefaultFbConsole; the sizes are cut to 16 bits.
Init ==
  /\ fbo \in Framebuffers
  /\ font \in Fonts
  /\ width = fbo.width % U16Limit /\ height = fbo.height % U16Limit
  /\ cursorX = 0 /\ cursorY = 0
  /\ rest = << >> /\ page = << >>

\* A call of QPrint.
Call ==
  /\ rest = << >>
  /\ rest' \in Messages
  /\ UNCHANGED <<fbo, font, width, height, cursorX, cursorY, page>>

\* Faults for the mutation runs: no break at the right edge, or one pixel late.
BreaksOnNewlineOnly(c) == c = Newline
BreaksOnePixelLate(c)  == c = Newline \/ cursorX + font.width > width + 1

Breaks(c) == c = Newline \/ cursorX + font.width >= width

GlyphX(c) == IF Breaks(c) THEN 0 ELSE cursorX

\* Fault: the line break moves to the left edge only.
LineYCarriageReturn(c) == cursorY

LineY(c) == IF Breaks(c) THEN (cursorY + font.height) % U16Limit ELSE cursorY

\* Fault: the last line may stick out by one pixel.
PastBottomLate(c) == LineY(c) + font.height > height + 1

PastBottom(c) == LineY(c) + font.height >= height

GlyphY(c) == IF PastBottom(c) THEN 0 ELSE LineY(c)

\* Fault: the character is not consumed.
QPrintCharStays ==
  /\ rest # << >>
  /\ LET c == Head(rest) IN
       /\ page' = Append(IF PastBottom(c) THEN << >> ELSE page,
                         [char |-> c, x |-> GlyphX(c), y |-> GlyphY(c)])
       /\ cursorX' = (GlyphX(c) + font.width) % U16Limit
       /\ cursorY' = GlyphY(c)
  /\ UNCHANGED <<fbo, font, width, height, rest>>

QPrintChar ==
  /\ rest # << >>
  /\ LET c == Head(rest) IN
       /\ page' = Append(IF PastBottom(c) THEN << >> ELSE page,
                         [char |-> c, x |-> GlyphX(c), y |-> GlyphY(c)])
       /\ cursorX' = (GlyphX(c) + font.width) % U16Limit
       /\ cursorY' = GlyphY(c)
  /\ rest' = Tail(rest)
  /\ UNCHANGED <<fbo, font, width, height>>

Next == Call \/ QPrintChar

Spec == Init /\ [][Next]_vars

-----------------------------------------------------------------------------
(* What a glyph stores in the framebuffer.                                  *)

\* currentChar * height + y, where a byte above 127 may be a negative char.
CharValue(c) == IF CharSigned /\ c >= 128 THEN c - 256 ELSE c

\* Fault for the mutation runs: the blocks are taken for squares.
RowIndexOfSquare(c, y) == CharValue(c) * font.width + y

RowIndex(c, y) == CharValue(c) * font.height + y

\* The table is one of chars too: a row above 127 may be widened with its sign.
GlyphRow(c, y) == CharValue(font.data[RowIndex(c, y) + 1])

Bit(row, k) == (row \div 2^k) % 2 = 1

\* Column x of a glyph row is lit.  The code shifts a copy of the row that it
\* makes anew for every column, so it always tests the row's highest bit.
Lit(row, x) == Bit(row, font.width - 1)

Box == (0 .. font.width - 1) \X (0 .. font.height - 1)

\* The pixels FramebufferPutPixel is called for, then those it does not clip.
Asked(g) ==
  {<<(g.x + p[1]) % U16Limit, (g.y + p[2]) % U16Limit>> :
     p \in {q \in Box : Lit(GlyphRow(g.char, q[2]), q[1])}}

Pixels(g) == {p \in Asked(g) : ~(p[1] >= fbo.width \/ p[2] >= fbo.height)}

\* pFb is a uint32_t pointer, and `index' counts bytes.
StoreOffset(p) ==
  LET bytesPerPixel == fbo.bitsPerPixel \div 8
      index == p[2] * fbo.bytesPerRow + p[1] * bytesPerPixel
  IN  4 * index

FramebufferGetSizeInBytes == fbo.height * fbo.bytesPerRow
-----------------------------------------------------------------------------
(* Properties.                                                              *)

Glyphs == 1 .. Len(page)

TypeOK ==
  /\ fbo \in Framebuffers /\ font \in Fonts
  /\ width = fbo.width % U16Limit /\ height = fbo.height % U16Limit
  /\ cursorX \in U16 /\ (cursorX = 0 \/ cursorX = font.width \/ cursorX < width)
  /\ cursorY \in U16 /\ (cursorY = 0 \/ cursorY + font.height < height)
  /\ page \in Seq([char : Characters, x : U16, y : U16])
  /\ rest \in Seq(Characters)

ConsoleHoldsGlyph == font.width <= width /\ font.height <= height

\* On a console no smaller than a glyph every glyph lies on the screen as a
\* whole, so FramebufferPutPixel never has anything to clip.
GlyphsOnScreen ==
  ConsoleHoldsGlyph =>
    \A k \in Glyphs :
      page[k].x + font.width <= fbo.width /\ page[k].y + font.height <= fbo.height

\* Until the cursor returns to the top, each glyph lies to the right of the
\* glyphs of its line and below the earlier lines: nothing is overwritten, over
\* any number of calls and whatever mixture of breaks and full lines.
InReadingOrder ==
  \A k, l \in Glyphs :
    k < l =>
      \/ page[k].y + font.height <= page[l].y
      \/ page[k].y = page[l].y /\ page[k].x + font.width <= page[l].x

\* main.c:117 "we assume the framebuffer model is RGB with 32-bit pixels": a pixel
\* inside the frame is stored inside the frame.
StoresInFramebuffer ==
  \A k \in Glyphs : \A p \in Pixels(page[k]) : StoreOffset(p) + 4 <= FramebufferGetSizeInBytes

\* main.c:176 "our font table is blocks of width by height": the pixels lit are the
\* bits set in the glyph's rows, from the highest bit at the left.
GlyphsMatchFont ==
  ConsoleHoldsGlyph =>
    \A k \in Glyphs :
      Pixels(page[k]) =
        {<<page[k].x + p[1], page[k].y + p[2]>> :
           p \in {q \in Box : Bit(GlyphRow(page[k].char, q[2]), font.width - 1 - q[1])}}
-----------------------------------------------------------------------------
(* The abstract specification.                                              *)

\* How many glyphs fit before `cursor + size >= limit' holds.
Cells(limit, size) == IF limit = 0 THEN 0 ELSE (limit - 1) \div size

GridCols == Cells(width, font.width)
GridRows == Cells(height, font.height)
GridRow == cursorY \div font.height
GridCol == cursorX \div font.width

GridPage ==
  [k \in Glyphs |-> [char |-> page[k].char,
                     row  |-> page[k].y \div font.height,
                     col  |-> page[k].x \div font.width]]

Grid == INSTANCE TextGrid WITH
  cols <- GridCols, rows <- GridRows, row <- GridRow, col <- GridCol, page <- GridPage

\* What is printed is a grid of characters in reading order, on consoles on which no
\* glyph fits as well.
ImplementsTextGrid == Grid!Spec
=============================================================================
