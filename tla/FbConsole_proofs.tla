-------------------------- MODULE FbConsole_proofs --------------------------
(***************************************************************************)
(* Where QPrint puts glyphs, for framebuffers, fonts and messages of every *)
(* size.                                                                   *)
(***************************************************************************)
EXTENDS FbConsole, TLAPS
-----------------------------------------------------------------------------
(* The arithmetic of the cursor.                                            *)

LEMMA Sizes ==
  ASSUME TypeOK
  PROVE  /\ width \in U16 /\ height \in U16 /\ cursorX \in U16 /\ cursorY \in U16
         /\ font.width \in U16 \ {0} /\ font.height \in U16 \ {0}
         /\ fbo.width \in Nat /\ fbo.height \in Nat
         /\ width <= fbo.width /\ height <= fbo.height
<1>1. fbo.width \in Nat /\ fbo.height \in Nat
  BY FramebuffersAssumption DEF TypeOK
<1>2. font.width \in U16 \ {0} /\ font.height \in U16 \ {0}
  BY FontsAssumption DEF TypeOK
<1>3. ASSUME NEW n \in Nat
      PROVE  n % U16Limit \in U16 /\ n % U16Limit <= n
  BY U16LimitAssumption DEF U16
<1> QED
  BY <1>1, <1>2, <1>3 DEF TypeOK

LEMMA NoU16Wrap ==
  ASSUME NEW n \in Nat, n < U16Limit
  PROVE  n % U16Limit = n /\ n \in U16
BY U16LimitAssumption DEF U16

\* No 16-bit sum of QPrint wraps around, and where the glyph of a character goes.
LEMMA Placement ==
  ASSUME TypeOK, NEW c
  PROVE  /\ GlyphX(c) \in U16 /\ GlyphY(c) \in U16
         /\ (GlyphX(c) + font.width) % U16Limit = GlyphX(c) + font.width
         /\ GlyphX(c) + font.width \in U16
         /\ (GlyphX(c) = 0 \/ GlyphX(c) + font.width < width)
         /\ (GlyphY(c) = 0 \/ GlyphY(c) + font.height < height)
         /\ \/ PastBottom(c)
            \/ GlyphY(c) = cursorY + font.height
            \/ GlyphY(c) = cursorY /\ GlyphX(c) = cursorX
<1>1. /\ width \in Nat /\ height \in Nat /\ cursorX \in Nat /\ cursorY \in Nat
      /\ font.width \in Nat /\ font.height \in Nat /\ U16Limit \in Nat /\ U16Limit > 0
      /\ width < U16Limit /\ height < U16Limit /\ cursorY < U16Limit
      /\ font.width < U16Limit /\ font.height < U16Limit
      /\ (cursorY = 0 \/ cursorY + font.height < height)
  BY Sizes, U16LimitAssumption DEF U16, TypeOK
<1>2. /\ GlyphX(c) \in Nat /\ GlyphX(c) + font.width \in Nat
      /\ GlyphX(c) + font.width < U16Limit
      /\ (GlyphX(c) = 0 \/ GlyphX(c) + font.width < width)
  <2>1. CASE Breaks(c)
    BY <1>1, <2>1 DEF GlyphX
  <2>2. CASE ~Breaks(c)
    BY <1>1, <2>2 DEF GlyphX, Breaks
  <2> QED
    BY <2>1, <2>2
<1>3. (GlyphX(c) + font.width) % U16Limit = GlyphX(c) + font.width
        /\ GlyphX(c) + font.width \in U16
  BY <1>2, NoU16Wrap
<1>4. GlyphX(c) \in U16
  BY <1>1, <1>2, NoU16Wrap
<1>5. cursorY + font.height \in Nat /\ cursorY + font.height < U16Limit
  BY <1>1
<1>6. (cursorY + font.height) % U16Limit = cursorY + font.height
  BY <1>5, NoU16Wrap
<1>7. LineY(c) \in Nat /\ LineY(c) < U16Limit
        /\ (LineY(c) = cursorY + font.height \/ (LineY(c) = cursorY /\ GlyphX(c) = cursorX))
  BY <1>1, <1>5, <1>6 DEF LineY, GlyphX
<1>8. GlyphY(c) \in U16 /\ (GlyphY(c) = 0 \/ GlyphY(c) + font.height < height)
        /\ (PastBottom(c) \/ GlyphY(c) = LineY(c))
  BY <1>1, <1>7 DEF GlyphY, PastBottom, U16
<1> QED
  BY <1>2, <1>3, <1>4, <1>7, <1>8
-----------------------------------------------------------------------------
(* Type correctness.                                                        *)

Glyph == [char : Characters, x : U16, y : U16]

LEMMA TypeInit == Init => TypeOK
<1> SUFFICES ASSUME Init PROVE TypeOK
  OBVIOUS
<1>1. 0 \in U16 /\ rest \in Seq(Characters) /\ page \in Seq(Glyph)
  BY U16LimitAssumption DEF Init, U16
<1> QED
  BY <1>1 DEF Init, TypeOK, Glyph

LEMMA TypeStep == TypeOK /\ [Next]_vars => TypeOK'
<1> SUFFICES ASSUME TypeOK, [Next]_vars PROVE TypeOK'
  OBVIOUS
<1>1. CASE Call
  <2>1. rest' \in Seq(Characters)
    BY <1>1, MessagesAssumption DEF Call
  <2> QED
    BY <1>1, <2>1 DEF Call, TypeOK
<1>2. CASE QPrintChar
  <2> DEFINE c == Head(rest)
             new == [char |-> c, x |-> GlyphX(c), y |-> GlyphY(c)]
  <2>1. c \in Characters /\ Tail(rest) \in Seq(Characters)
    BY <1>2 DEF QPrintChar, TypeOK
  <2>2. new \in Glyph /\ page \in Seq(Glyph)
    BY <2>1, Placement DEF Glyph, TypeOK
  <2>3. /\ page' = Append(IF PastBottom(c) THEN << >> ELSE page, new)
        /\ cursorX' = GlyphX(c) + font.width /\ cursorY' = GlyphY(c)
        /\ rest' = Tail(rest)
        /\ fbo' = fbo /\ font' = font /\ width' = width /\ height' = height
    BY <1>2, Placement DEF QPrintChar
  <2>4. GlyphX(c) = 0 \/ GlyphX(c) + font.width < width
    BY Placement
  <2>5. GlyphY(c) = 0 \/ GlyphY(c) + font.height < height
    BY Placement
  <2>6. GlyphX(c) + font.width \in U16 /\ GlyphY(c) \in U16 /\ font.width \in Nat
    BY Placement, Sizes DEF U16
  <2> HIDE DEF new
  <2>7. page' \in Seq(Glyph)
    BY <2>2, <2>3
  <2>8. /\ cursorX' \in U16 /\ (cursorX' = font.width \/ cursorX' < width)
        /\ cursorY' \in U16 /\ (cursorY' = 0 \/ cursorY' + font.height < height)
    BY <2>3, <2>4, <2>5, <2>6
  <2> QED
    BY <2>1, <2>3, <2>7, <2>8 DEF TypeOK, Glyph
<1>3. CASE UNCHANGED vars
  BY <1>3 DEF vars, TypeOK
<1> QED
  BY <1>1, <1>2, <1>3 DEF Next

\* On every framebuffer, with every font, the cursor is at an edge or inside the
\* console, and no 16-bit sum wraps.
THEOREM TypeCorrect == Spec => []TypeOK
BY TypeInit, TypeStep, PTL DEF Spec
-----------------------------------------------------------------------------
(* The inductive invariant: every glyph of the page lies behind the cursor.  *)

Behind(g) ==
  \/ g.y + font.height <= cursorY
  \/ g.y = cursorY /\ g.x + font.width <= cursorX

Placed(g) ==
  /\ (g.x = 0 \/ g.x + font.width < width)
  /\ (g.y = 0 \/ g.y + font.height < height)

IInv ==
  /\ TypeOK
  /\ \A k \in Glyphs : Behind(page[k]) /\ Placed(page[k])
  /\ InReadingOrder

LEMMA InvInit == Init => IInv
BY TypeInit DEF Init, IInv, Glyphs, InReadingOrder

LEMMA InvStep == IInv /\ [Next]_vars => IInv'
<1> SUFFICES ASSUME IInv, [Next]_vars PROVE IInv'
  OBVIOUS
<1>1. TypeOK /\ TypeOK'
  BY TypeStep DEF IInv
<1>2. CASE Call
  BY <1>1, <1>2 DEF Call, IInv, Glyphs, InReadingOrder, Behind, Placed
<1>3. CASE QPrintChar
  <2> DEFINE c == Head(rest)
             new == [char |-> c, x |-> GlyphX(c), y |-> GlyphY(c)]
             kept == IF PastBottom(c) THEN << >> ELSE page
  <2>1. /\ page' = Append(kept, new) /\ new.x = GlyphX(c) /\ new.y = GlyphY(c)
        /\ cursorX' = new.x + font.width /\ cursorY' = new.y
        /\ font' = font /\ width' = width /\ height' = height
    BY <1>1, <1>3, Placement DEF QPrintChar
  <2>2. kept \in Seq(Glyph) /\ new \in Glyph
    BY <1>1, <1>3, Placement DEF TypeOK, Glyph, QPrintChar
  <2>3. Placed(new)
    BY <1>1, <2>1, Placement DEF Placed
  <2>4. /\ new.x \in Nat /\ new.y \in Nat /\ font.width \in Nat /\ font.height \in Nat
        /\ cursorX \in Nat /\ cursorY \in Nat
    BY <1>1, <2>1, Placement, Sizes DEF U16
  <2>5. ASSUME NEW k \in 1 .. Len(kept)
        PROVE  /\ Placed(kept[k]) /\ kept[k].x \in Nat /\ kept[k].y \in Nat
               /\ \/ kept[k].y + font.height <= new.y
                  \/ kept[k].y = new.y /\ kept[k].x + font.width <= new.x
    <3>1. kept = page /\ ~PastBottom(c)
      BY <2>5
    <3> HIDE DEF kept, new
    <3>2. Behind(page[k]) /\ Placed(page[k]) /\ page[k] \in Glyph
      <4>1. k \in 1 .. Len(page)
        BY <2>5, <3>1
      <4>2. page[k] \in Glyph
        BY <2>2, <3>1, <4>1
      <4> QED
        BY <4>1, <4>2 DEF IInv, Glyphs
    <3>3. page[k].x \in Nat /\ page[k].y \in Nat
      BY <3>2 DEF Glyph, U16
    <3>4. new.y = cursorY + font.height \/ (new.y = cursorY /\ new.x = cursorX)
      BY <1>1, <2>1, <3>1, Placement
    <3> QED
      BY <2>4, <3>1, <3>2, <3>3, <3>4 DEF Behind
  <2>6. \A k, l \in 1 .. Len(kept) :
          k < l =>
            \/ kept[k].y + font.height <= kept[l].y
            \/ kept[k].y = kept[l].y /\ kept[k].x + font.width <= kept[l].x
    BY DEF IInv, InReadingOrder, Glyphs
  <2> HIDE DEF new, kept
  <2>7. /\ Len(page') = Len(kept) + 1 /\ page'[Len(kept) + 1] = new
        /\ \A k \in 1 .. Len(kept) : page'[k] = kept[k]
    BY <2>1, <2>2
  <2>8. ASSUME NEW k \in 1 .. Len(page')
        PROVE  Behind(page[k])' /\ Placed(page[k])'
    <3>1. CASE k = Len(kept) + 1
      <4>1. Behind(page[k])'
        BY <2>1, <2>4, <2>7, <3>1 DEF Behind
      <4> QED
        BY <2>1, <2>3, <2>7, <3>1, <4>1 DEF Placed
    <3>2. CASE k \in 1 .. Len(kept)
      <4>1. /\ page'[k] = kept[k] /\ Placed(kept[k])
            /\ kept[k].x \in Nat /\ kept[k].y \in Nat
            /\ \/ kept[k].y + font.height <= new.y
               \/ kept[k].y = new.y /\ kept[k].x + font.width <= new.x
        BY <2>5, <2>7, <3>2
      <4>2. Behind(page[k])'
        BY <2>1, <2>4, <4>1 DEF Behind
      <4> QED
        BY <2>1, <4>1, <4>2 DEF Placed
    <3> QED
      BY <2>2, <2>7, <3>1, <3>2
  <2>9. InReadingOrder'
    <3> SUFFICES ASSUME NEW k \in 1 .. Len(page'), NEW l \in 1 .. Len(page'), k < l
                 PROVE  \/ page'[k].y + font.height <= page'[l].y
                        \/ page'[k].y = page'[l].y /\ page'[k].x + font.width <= page'[l].x
      BY <2>1 DEF InReadingOrder, Glyphs
    <3>1. CASE l = Len(kept) + 1
      <4>1. k \in 1 .. Len(kept)
        BY <2>2, <2>7, <3>1
      <4> QED
        BY <2>5, <2>7, <3>1, <4>1
    <3>2. CASE l \in 1 .. Len(kept)
      <4>1. k \in 1 .. Len(kept)
        BY <2>2, <2>7, <3>2
      <4> QED
        BY <2>6, <2>7, <3>2, <4>1
    <3> QED
      BY <2>2, <2>7, <3>1, <3>2
  <2> QED
    BY <1>1, <2>8, <2>9 DEF IInv, Glyphs
<1>4. CASE UNCHANGED vars
  BY <1>1, <1>4 DEF vars, IInv, Glyphs, InReadingOrder, Behind, Placed
<1> QED
  BY <1>2, <1>3, <1>4 DEF Next

LEMMA Invariant == Spec => []IInv
BY InvInit, InvStep, PTL DEF Spec
-----------------------------------------------------------------------------
(* The theorems.                                                            *)

\* Until the text returns to the top no glyph covers another, for messages of every
\* length and any number of calls.
THEOREM ReadingOrder == Spec => []InReadingOrder
<1>1. IInv => InReadingOrder
  BY DEF IInv
<1> QED
  BY <1>1, Invariant, PTL

\* A glyph that was placed by the tests of QPrint lies inside the 16-bit sizes and the
\* frame.
LEMMA GlyphInside ==
  ASSUME IInv, ConsoleHoldsGlyph, NEW k \in Glyphs
  PROVE  /\ page[k].x \in Nat /\ page[k].y \in Nat
         /\ font.width \in Nat \ {0} /\ font.height \in Nat \ {0}
         /\ fbo.width \in Nat /\ fbo.height \in Nat /\ U16Limit \in Nat
         /\ page[k].x + font.width <= fbo.width /\ page[k].x + font.width < U16Limit
         /\ page[k].y + font.height <= fbo.height /\ page[k].y + font.height < U16Limit
<1>1. TypeOK /\ Placed(page[k])
  BY DEF IInv
<1>2. page[k].x \in U16 /\ page[k].y \in U16
  <2>1. page \in Seq(Glyph) /\ k \in 1 .. Len(page)
    BY <1>1 DEF TypeOK, Glyph, Glyphs
  <2>2. page[k] \in Glyph
    BY <2>1
  <2> QED
    BY <2>2 DEF Glyph
<1>3. /\ page[k].x \in Nat /\ page[k].y \in Nat
      /\ font.width \in Nat \ {0} /\ font.height \in Nat \ {0}
      /\ width \in Nat /\ height \in Nat /\ width < U16Limit /\ height < U16Limit
      /\ fbo.width \in Nat /\ fbo.height \in Nat /\ U16Limit \in Nat
      /\ width <= fbo.width /\ height <= fbo.height
  BY <1>1, <1>2, Sizes, U16LimitAssumption DEF U16
<1>4. page[k].x + font.width <= width /\ page[k].y + font.height <= height
  BY <1>1, <1>3 DEF Placed, ConsoleHoldsGlyph
<1> QED
  BY <1>3, <1>4

LEMMA OnScreenInv == IInv => GlyphsOnScreen
BY GlyphInside DEF GlyphsOnScreen

\* On every console that a glyph fits in, all glyphs are wholly on the screen.
THEOREM OnScreen == Spec => []GlyphsOnScreen
BY OnScreenInv, Invariant, PTL
-----------------------------------------------------------------------------
(* The pixel cursor counts character cells: from the multiples of a glyph's *)
(* size to the numbers of columns and rows.                                 *)

LEMMA Division ==
  ASSUME NEW n \in Nat, NEW s \in Nat \ {0}
  PROVE  /\ n \div s \in Nat
         /\ s * (n \div s) <= n
         /\ n < s * (n \div s) + s
<1>1. n = s * (n \div s) + (n % s) /\ n % s \in 0 .. s - 1 /\ n \div s \in Int
  OBVIOUS
<1>2. n \div s \in Nat
  OBVIOUS
<1>3. s * (n \div s) \in Int
  BY <1>2
<1> QED
  BY <1>1, <1>2, <1>3

LEMMA Monotone ==
  ASSUME NEW a \in Nat, NEW b \in Nat, NEW s \in Nat, a <= b
  PROVE  s * a \in Nat /\ s * b \in Nat /\ s * a <= s * b
<1>1. PICK d \in Nat : b = a + d
  <2>1. b - a \in Nat /\ b = a + (b - a)
    OBVIOUS
  <2> QED
    BY <2>1
<1>2. s * b = s * a + s * d /\ s * d \in Nat /\ s * a \in Nat
  BY <1>1
<1> QED
  BY <1>2

LEMMA Distributes ==
  ASSUME NEW a \in Nat, NEW s \in Nat
  PROVE  s * (a + 1) = s * a + s
OBVIOUS

LEMMA Cancel ==
  ASSUME NEW i \in Nat, NEW s \in Nat \ {0}
  PROVE  (s * i) \div s = i
<1> DEFINE q == (s * i) \div s
<1>1. s * i \in Nat
  OBVIOUS
<1>2. q \in Nat /\ s * q <= s * i /\ s * i < s * q + s
  BY <1>1, Division
<1> HIDE DEF q
<1>3. ~(q < i)
  <2> SUFFICES ASSUME q < i PROVE FALSE
    OBVIOUS
  <2>1. s * (q + 1) <= s * i
    BY <1>2, Monotone
  <2> QED
    BY <1>1, <1>2, <2>1, Distributes
<1>4. ~(i < q)
  <2> SUFFICES ASSUME i < q PROVE FALSE
    OBVIOUS
  <2>1. s * (i + 1) <= s * q
    BY <1>2, Monotone
  <2> QED
    BY <1>1, <1>2, <2>1, Distributes
<1> QED
  BY <1>2, <1>3, <1>4 DEF q

LEMMA CellsCount ==
  ASSUME NEW i \in Nat, NEW s \in Nat \ {0}, NEW limit \in Nat
  PROVE  /\ Cells(limit, s) \in Nat
         /\ (s * i + s >= limit) <=> (i >= Cells(limit, s))
<1> DEFINE q == (limit - 1) \div s
<1>1. CASE limit = 0
  <2>1. s * i \in Nat
    OBVIOUS
  <2> QED
    BY <1>1, <2>1 DEF Cells
<1>2. CASE limit # 0
  <2>1. limit - 1 \in Nat /\ Cells(limit, s) = q
    BY <1>2 DEF Cells
  <2>2. q \in Nat /\ s * q <= limit - 1 /\ limit - 1 < s * q + s
    BY <2>1, Division
  <2> HIDE DEF q
  <2>3. s * i \in Nat /\ s * q \in Nat /\ s * (i + 1) = s * i + s
    BY <2>2, Distributes
  <2>4. CASE i >= q
    <3>1. s * q <= s * i
      BY <2>2, <2>4, Monotone
    <3> QED
      BY <2>1, <2>2, <2>3, <2>4, <3>1
  <2>5. CASE ~(i >= q)
    <3>1. i + 1 <= q
      BY <2>2, <2>5
    <3>2. s * (i + 1) <= s * q
      BY <2>2, <3>1, Monotone
    <3> QED
      BY <2>1, <2>2, <2>3, <2>5, <3>2
  <2> QED
    BY <2>4, <2>5
<1> QED
  BY <1>1, <1>2

\* The cursor is always at a multiple of the glyph's size.
Aligned ==
  /\ \E i \in Nat : cursorX = font.width * i
  /\ \E j \in Nat : cursorY = font.height * j

LEMMA AlignedMeans ==
  ASSUME TypeOK, Aligned
  PROVE  /\ GridCol \in Nat /\ cursorX = font.width * GridCol
         /\ GridRow \in Nat /\ cursorY = font.height * GridRow
         /\ GridCols \in Nat /\ GridRows \in Nat
<1>1. font.width \in Nat \ {0} /\ font.height \in Nat \ {0} /\ width \in Nat /\ height \in Nat
  BY Sizes DEF U16
<1>2. GridCol \in Nat /\ cursorX = font.width * GridCol
  BY <1>1, Cancel DEF Aligned, GridCol
<1>3. GridRow \in Nat /\ cursorY = font.height * GridRow
  BY <1>1, Cancel DEF Aligned, GridRow
<1> QED
  BY <1>1, <1>2, <1>3, CellsCount DEF GridCols, GridRows

\* The pixel tests of QPrint are tests on the cell of the cursor.
LEMMA TestsCountCells ==
  ASSUME TypeOK, Aligned, NEW c
  PROVE  /\ Breaks(c) <=> Grid!Breaks(c)
         /\ ~Breaks(c) => (PastBottom(c) <=> GridRow >= GridRows)
         /\ Breaks(c) => (PastBottom(c) <=> GridRow + 1 >= GridRows)
<1>1. /\ font.width \in Nat \ {0} /\ font.height \in Nat \ {0} /\ width \in Nat /\ height \in Nat
      /\ font.width < U16Limit /\ font.height < U16Limit /\ height < U16Limit
      /\ cursorX \in Nat /\ cursorY \in Nat /\ U16Limit \in Nat
  BY Sizes, U16LimitAssumption DEF U16
<1>2. /\ GridCol \in Nat /\ cursorX = font.width * GridCol
      /\ GridRow \in Nat /\ cursorY = font.height * GridRow
  BY AlignedMeans
<1>3. (cursorX + font.width >= width) <=> (GridCol >= GridCols)
  BY <1>1, <1>2, CellsCount DEF GridCols
<1>4. (cursorY + font.height >= height) <=> (GridRow >= GridRows)
  BY <1>1, <1>2, CellsCount DEF GridRows
<1>5. ASSUME Breaks(c)
      PROVE  PastBottom(c) <=> GridRow + 1 >= GridRows
  <2>1. cursorY + font.height < U16Limit
    <3>1. cursorY = 0 \/ cursorY + font.height < height
      BY DEF TypeOK
    <3> QED
      BY <1>1, <3>1
  <2>2. LineY(c) = cursorY + font.height
    BY <1>1, <1>5, <2>1, NoU16Wrap DEF LineY
  <2>3. LineY(c) = font.height * (GridRow + 1) /\ GridRow + 1 \in Nat
    <3>1. font.height * (GridRow + 1) = font.height * GridRow + font.height
      BY <1>1, <1>2, Distributes
    <3> QED
      BY <1>2, <2>2, <3>1
  <2>4. (font.height * (GridRow + 1) + font.height >= height) <=> (GridRow + 1 >= GridRows)
    BY <1>1, <2>3, CellsCount DEF GridRows
  <2> QED
    BY <2>3, <2>4 DEF PastBottom
<1> QED
  BY <1>3, <1>4, <1>5 DEF Breaks, Grid!Breaks, PastBottom, LineY

-----------------------------------------------------------------------------
(* The refinement.                                                          *)

GridInv == TypeOK /\ Aligned

LEMMA GridInvInit == Init => GridInv
<1> SUFFICES ASSUME Init PROVE Aligned
  BY TypeInit DEF GridInv
<1>1. font.width \in Nat /\ font.height \in Nat
  BY TypeInit, Sizes DEF U16
<1>2. cursorX = font.width * 0 /\ cursorY = font.height * 0
  BY <1>1 DEF Init
<1> QED
  BY <1>2 DEF Aligned

\* Where a character goes, counted in cells: its own cell, and the cursor's next one.
LEMMA CharInCells ==
  ASSUME GridInv, QPrintChar
  PROVE  LET c == Head(rest)
             atRow == IF PastBottom(c) THEN 0 ELSE IF Breaks(c) THEN GridRow + 1 ELSE GridRow
             atCol == IF Breaks(c) THEN 0 ELSE GridCol
         IN  /\ Aligned'
             /\ GridCols' = GridCols /\ GridRows' = GridRows
             /\ GridRow' = atRow /\ GridCol' = atCol + 1
             /\ GlyphY(c) \div font.height = atRow
             /\ GlyphX(c) \div font.width = atCol
<1> DEFINE c == Head(rest)
           atRow == IF PastBottom(c) THEN 0 ELSE IF Breaks(c) THEN GridRow + 1 ELSE GridRow
           atCol == IF Breaks(c) THEN 0 ELSE GridCol
<1>1. TypeOK /\ Aligned
  BY DEF GridInv
<1>2. /\ font' = font /\ width' = width /\ height' = height
      /\ cursorX' = GlyphX(c) + font.width /\ cursorY' = GlyphY(c)
  BY <1>1, Placement DEF QPrintChar
<1>3. font.width \in Nat \ {0} /\ font.height \in Nat \ {0}
  BY <1>1, Sizes DEF U16
<1>4. /\ GridCol \in Nat /\ cursorX = font.width * GridCol
      /\ GridRow \in Nat /\ cursorY = font.height * GridRow
  BY <1>1, AlignedMeans
<1>5. atCol \in Nat /\ atRow \in Nat /\ font.width * 0 = 0 /\ font.height * 0 = 0
  BY <1>3, <1>4
<1>6. GlyphX(c) = font.width * atCol
  BY <1>4, <1>5 DEF GlyphX
<1>7. GlyphY(c) = font.height * atRow
  <2>1. font.height * (GridRow + 1) = cursorY + font.height
    BY <1>3, <1>4, Distributes
  <2>2. PastBottom(c) \/ GlyphY(c) = LineY(c)
    BY DEF GlyphY
  <2>3. CASE PastBottom(c)
    BY <1>5, <2>3 DEF GlyphY
  <2>4. CASE ~PastBottom(c) /\ ~Breaks(c)
    BY <1>4, <2>4 DEF GlyphY, LineY
  <2>5. CASE ~PastBottom(c) /\ Breaks(c)
    <3>1. LineY(c) = cursorY + font.height
      <4>1. cursorY = 0 \/ cursorY + font.height < height
        BY <1>1 DEF TypeOK
      <4>2. /\ cursorY \in Nat /\ height \in Nat /\ U16Limit \in Nat
            /\ font.height < U16Limit /\ height < U16Limit
        BY <1>1, Sizes, U16LimitAssumption DEF U16
      <4>3. (cursorY + font.height) % U16Limit = cursorY + font.height
        BY <1>3, <4>1, <4>2, NoU16Wrap
      <4> QED
        BY <2>5, <4>3 DEF LineY
    <3> QED
      BY <2>1, <2>2, <2>5, <3>1
  <2> QED
    BY <2>3, <2>4, <2>5
<1> HIDE DEF c, atRow, atCol
<1>8. cursorX' = font.width * (atCol + 1) /\ cursorY' = font.height * atRow
  BY <1>2, <1>3, <1>5, <1>6, <1>7, Distributes
<1>9. Aligned'
  <2>1. cursorX' = font'.width * (atCol + 1) /\ atCol + 1 \in Nat
    BY <1>2, <1>5, <1>8
  <2>2. cursorY' = font'.height * atRow
    BY <1>2, <1>8
  <2> QED
    BY <1>5, <2>1, <2>2 DEF Aligned
<1>10. GridRow' = atRow /\ GridCol' = atCol + 1
  <2>1. atCol + 1 \in Nat
    BY <1>5
  <2>2. (font.width * (atCol + 1)) \div font.width = atCol + 1
    BY <1>3, <2>1, Cancel
  <2>3. (font.height * atRow) \div font.height = atRow
    BY <1>3, <1>5, Cancel
  <2> QED
    BY <1>2, <1>8, <2>2, <2>3 DEF GridRow, GridCol
<1>11. GlyphY(c) \div font.height = atRow /\ GlyphX(c) \div font.width = atCol
  BY <1>3, <1>5, <1>6, <1>7, Cancel
<1>12. GridCols' = GridCols /\ GridRows' = GridRows
  BY <1>2 DEF GridCols, GridRows
<1> QED
  BY <1>9, <1>10, <1>11, <1>12 DEF c, atRow, atCol

LEMMA GridInvStep == GridInv /\ [Next]_vars => GridInv'
<1> SUFFICES ASSUME GridInv, [Next]_vars PROVE Aligned'
  BY TypeStep DEF GridInv
<1>1. CASE Call
  BY <1>1 DEF Call, GridInv, Aligned
<1>2. CASE QPrintChar
  BY <1>2, CharInCells
<1>3. CASE UNCHANGED vars
  BY <1>3 DEF vars, GridInv, Aligned
<1> QED
  BY <1>1, <1>2, <1>3 DEF Next

LEMMA GridInit == Init => Grid!Init
<1> SUFFICES ASSUME Init PROVE Grid!Init
  OBVIOUS
<1>1. GridInv
  BY GridInvInit
<1>2. GridCols \in Nat /\ GridRows \in Nat
  BY <1>1, AlignedMeans DEF GridInv
<1>3. GridRow = 0 /\ GridCol = 0
  <2>1. font.width \in Nat \ {0} /\ font.height \in Nat \ {0}
    BY <1>1, Sizes DEF GridInv, U16
  <2>2. (font.width * 0) \div font.width = 0 /\ (font.height * 0) \div font.height = 0
    BY <2>1, Cancel
  <2>3. font.width * 0 = 0 /\ font.height * 0 = 0
    BY <2>1
  <2> QED
    BY <2>2, <2>3 DEF Init, GridRow, GridCol
<1>4. GridPage = << >>
  BY DEF Init, GridPage, Glyphs
<1> QED
  BY <1>2, <1>3, <1>4 DEF Init, Grid!Init

LEMMA GridCall == Call => Grid!Call
BY DEF Call, Grid!Call, GridCols, GridRows, GridRow, GridCol, GridPage, Glyphs

\* The glyphs drawn, seen as the characters of a grid.
LEMMA GridPageGrows ==
  ASSUME TypeOK, QPrintChar
  PROVE  LET c == Head(rest) IN
         GridPage' = Append(IF PastBottom(c) THEN << >> ELSE GridPage,
                            [char |-> c, row |-> GlyphY(c) \div font.height,
                                         col |-> GlyphX(c) \div font.width])
<1> DEFINE c == Head(rest)
           kept == IF PastBottom(c) THEN << >> ELSE page
           new == [char |-> c, x |-> GlyphX(c), y |-> GlyphY(c)]
           Cell(g) == [char |-> g.char, row |-> g.y \div font.height,
                                        col |-> g.x \div font.width]
           cells == IF PastBottom(c) THEN << >> ELSE GridPage
<1>1. page' = Append(kept, new) /\ font' = font /\ c \in Characters
  BY DEF QPrintChar, TypeOK
<1>2. kept \in Seq(Glyph) /\ new \in Glyph
  BY <1>1, Placement DEF TypeOK, Glyph
<1>3. GridPage' = [k \in 1 .. Len(page') |-> Cell(page'[k])]
  BY <1>1 DEF GridPage, Glyphs
<1>4. cells = [k \in 1 .. Len(kept) |-> Cell(kept[k])]
  BY DEF GridPage, Glyphs
<1>5. Cell(new) = [char |-> c, row |-> GlyphY(c) \div font.height,
                               col |-> GlyphX(c) \div font.width]
  OBVIOUS
<1> HIDE DEF kept, new, Cell, cells, c
<1>6. /\ Len(page') = Len(kept) + 1 /\ page'[Len(kept) + 1] = new
      /\ \A k \in 1 .. Len(kept) : page'[k] = kept[k]
      /\ Len(kept) \in Nat
  BY <1>1, <1>2
<1>7. cells \in Seq({Cell(kept[k]) : k \in 1 .. Len(kept)}) /\ Len(cells) = Len(kept)
  BY <1>4, <1>6
<1>8. GridPage' = Append(cells, Cell(new))
  BY <1>3, <1>4, <1>6, <1>7
<1> QED
  BY <1>5, <1>8 DEF c, cells

LEMMA GridChar ==
  ASSUME GridInv, QPrintChar
  PROVE  Grid!Next
<1> DEFINE c == Head(rest)
           top == PastBottom(c)
           atRow == IF top THEN 0 ELSE IF Breaks(c) THEN GridRow + 1 ELSE GridRow
           atCol == IF Breaks(c) THEN 0 ELSE GridCol
           before == IF top THEN << >> ELSE GridPage
<1>1. TypeOK /\ Aligned
  BY DEF GridInv
<1>2. /\ Breaks(c) <=> Grid!Breaks(c)
      /\ ~Breaks(c) => (top <=> GridRow >= GridRows)
      /\ Breaks(c) => (top <=> GridRow + 1 >= GridRows)
  BY <1>1, TestsCountCells
<1>3. /\ GridCols' = GridCols /\ GridRows' = GridRows
      /\ GridRow' = atRow /\ GridCol' = atCol + 1
      /\ GlyphY(c) \div font.height = atRow /\ GlyphX(c) \div font.width = atCol
  BY CharInCells
<1>4. GridPage' = Append(before, [char |-> c, row |-> atRow, col |-> atCol])
  BY <1>1, <1>3, GridPageGrows
<1>5. rest # << >> /\ rest' = Tail(rest)
  BY DEF QPrintChar
<1>6. GridRow \in Nat /\ GridRows \in Nat
  BY <1>1, AlignedMeans
<1> HIDE DEF c, top
<1>7. Grid!Put(c, atRow, atCol, before)
  BY <1>3, <1>4, <1>5 DEF c, Grid!Put
<1>8. CASE ~Breaks(c)
  <2>1. top => GridRow = 0 /\ GridRows = 0
    <3>1. CASE cursorY = 0
      <4>1. GridRow = 0
        <5>1. font.height \in Nat \ {0}
          BY <1>1, Sizes DEF U16
        <5>2. (font.height * 0) \div font.height = 0 /\ font.height * 0 = 0
          BY <5>1, Cancel
        <5> QED
          BY <3>1, <5>2 DEF GridRow
      <4> QED
        BY <1>2, <1>6, <1>8, <4>1
    <3>2. CASE cursorY # 0
      <4>1. cursorY + font.height < height /\ LineY(c) = cursorY
        BY <1>1, <1>8, <3>2 DEF TypeOK, LineY
      <4>2. cursorY \in Nat /\ font.height \in Nat /\ height \in Nat
        BY <1>1, Sizes DEF U16
      <4> QED
        BY <4>1, <4>2 DEF top, PastBottom
    <3> QED
      BY <3>1, <3>2
  <2>2. atRow = GridRow /\ atCol = GridCol
    BY <1>8, <2>1
  <2>3. before = IF GridRows = 0 THEN << >> ELSE GridPage
    BY <1>2, <1>6, <1>8, <2>1
  <2>4. Grid!OnThisLine(c)
    BY <1>2, <1>7, <1>8, <2>2, <2>3 DEF Grid!OnThisLine
  <2> QED
    BY <1>5, <2>4 DEF c, Grid!Next
<1>9. CASE Breaks(c) /\ top
  <2>1. Grid!OnTopLine(c)
    BY <1>2, <1>7, <1>9 DEF Grid!OnTopLine
  <2> QED
    BY <1>5, <2>1 DEF c, Grid!Next
<1>10. CASE Breaks(c) /\ ~top
  <2>1. Grid!OnNextLine(c)
    BY <1>2, <1>6, <1>7, <1>10 DEF Grid!OnNextLine
  <2> QED
    BY <1>5, <2>1 DEF c, Grid!Next
<1> QED
  BY <1>8, <1>9, <1>10

\* What QPrint does to pixels is what a grid of character cells does, in every step,
\* on framebuffers of every size, those a glyph does not fit in included.
THEOREM Refinement == Spec => ImplementsTextGrid
<1>1. GridInv /\ [Next]_vars => [Grid!Next]_Grid!vars
  <2> SUFFICES ASSUME GridInv, [Next]_vars PROVE [Grid!Next]_Grid!vars
    OBVIOUS
  <2>1. CASE Call
    BY <2>1, GridCall DEF Grid!Next
  <2>2. CASE QPrintChar
    BY <2>2, GridChar
  <2>3. CASE UNCHANGED vars
    BY <2>3 DEF vars, Grid!vars, GridCols, GridRows, GridRow, GridCol, GridPage, Glyphs
  <2> QED
    BY <2>1, <2>2, <2>3 DEF Next
<1> QED
  BY <1>1, GridInit, GridInvInit, GridInvStep, PTL DEF Spec, ImplementsTextGrid, Grid!Spec
-----------------------------------------------------------------------------
(* The pixels.                                                              *)

\* The columns and rows of a glyph whose row has its highest bit set.
LitBox(g) == {q \in Box : Bit(GlyphRow(g.char, q[2]), font.width - 1)}

\* Those its rows have bits for.
FontBox(g) == {q \in Box : Bit(GlyphRow(g.char, q[2]), font.width - 1 - q[1])}

At(g, S) == {<<g.x + p[1], g.y + p[2]>> : p \in S}

\* What is moved to a place is there, and nothing else is.
LEMMA MovedTo ==
  ASSUME NEW g, g.x \in Nat, g.y \in Nat, NEW S \in SUBSET Box, NEW q \in Box
  PROVE  <<g.x + q[1], g.y + q[2]>> \in At(g, S) <=> q \in S
<1>1. ASSUME <<g.x + q[1], g.y + q[2]>> \in At(g, S)
      PROVE  q \in S
  <2>1. PICK p \in S : <<g.x + q[1], g.y + q[2]>> = <<g.x + p[1], g.y + p[2]>>
    BY <1>1 DEF At
  <2>2. g.x + q[1] = g.x + p[1] /\ g.y + q[2] = g.y + p[2]
    BY <2>1
  <2>3. p \in Box /\ p[1] \in Int /\ p[2] \in Int /\ q[1] \in Int /\ q[2] \in Int
    BY DEF Box
  <2>4. p[1] = q[1] /\ p[2] = q[2]
    BY <2>2, <2>3
  <2>5. p = q
    BY <2>3, <2>4 DEF Box
  <2> QED
    BY <2>5
<1> QED
  BY <1>1 DEF At

\* No 16-bit sum of a pixel's coordinates wraps, and nothing is clipped.
LEMMA PixelsAre ==
  ASSUME IInv, ConsoleHoldsGlyph, NEW k \in Glyphs
  PROVE  /\ Asked(page[k]) = At(page[k], LitBox(page[k]))
         /\ Pixels(page[k]) = Asked(page[k])
         /\ \A p \in Pixels(page[k]) :
              /\ p[1] \in page[k].x .. page[k].x + font.width - 1
              /\ p[2] \in page[k].y .. page[k].y + font.height - 1
<1> DEFINE g == page[k]
<1>1. /\ g.x \in Nat /\ g.y \in Nat /\ font.width \in Nat \ {0} /\ font.height \in Nat \ {0}
      /\ fbo.width \in Nat /\ fbo.height \in Nat /\ U16Limit \in Nat
      /\ g.x + font.width <= fbo.width /\ g.x + font.width < U16Limit
      /\ g.y + font.height <= fbo.height /\ g.y + font.height < U16Limit
  BY GlyphInside
<1> HIDE DEF g
<1>2. ASSUME NEW q \in Box
      PROVE  /\ (g.x + q[1]) % U16Limit = g.x + q[1]
             /\ (g.y + q[2]) % U16Limit = g.y + q[2]
             /\ g.x + q[1] \in g.x .. g.x + font.width - 1
             /\ g.y + q[2] \in g.y .. g.y + font.height - 1
             /\ g.x + q[1] < fbo.width /\ g.y + q[2] < fbo.height
  <2>1. q[1] \in 0 .. font.width - 1 /\ q[2] \in 0 .. font.height - 1
    BY DEF Box
  <2>2. g.x + q[1] \in Nat /\ g.x + q[1] < U16Limit /\ g.y + q[2] \in Nat /\ g.y + q[2] < U16Limit
    BY <1>1, <2>1
  <2>3. (g.x + q[1]) % U16Limit = g.x + q[1]
    BY <2>2, NoU16Wrap
  <2>4. (g.y + q[2]) % U16Limit = g.y + q[2]
    BY <2>2, NoU16Wrap
  <2>5. /\ g.x + q[1] \in g.x .. g.x + font.width - 1
        /\ g.y + q[2] \in g.y .. g.y + font.height - 1
        /\ g.x + q[1] < fbo.width /\ g.y + q[2] < fbo.height
    BY <1>1, <2>1
  <2> QED
    BY <2>3, <2>4, <2>5
<1>3. Asked(g) = At(g, LitBox(g))
  BY <1>2 DEF Asked, At, LitBox, Lit
<1>4. ASSUME NEW p \in Asked(g)
      PROVE  /\ p[1] \in g.x .. g.x + font.width - 1
             /\ p[2] \in g.y .. g.y + font.height - 1
             /\ ~(p[1] >= fbo.width \/ p[2] >= fbo.height)
  <2>1. PICK q \in Box : p = <<g.x + q[1], g.y + q[2]>>
    BY <1>3 DEF At, LitBox
  <2>2. p[1] = g.x + q[1] /\ p[2] = g.y + q[2]
    BY <2>1
  <2>3. /\ p[1] \in g.x .. g.x + font.width - 1 /\ p[2] \in g.y .. g.y + font.height - 1
        /\ p[1] < fbo.width /\ p[2] < fbo.height
    BY <1>2, <2>2
  <2>4. p[1] \in Int /\ p[2] \in Int
    BY <1>1, <2>3
  <2> QED
    BY <1>1, <2>3, <2>4
<1>5. Pixels(g) = Asked(g)
  BY <1>4 DEF Pixels
<1> QED
  BY <1>3, <1>4, <1>5 DEF g

\* On a console that holds a glyph FramebufferPutPixel clips nothing, each glyph's
\* pixels lie in its own cell, and no two glyphs have a pixel in common.
PixelsInPlace ==
  ConsoleHoldsGlyph =>
    /\ \A k \in Glyphs :
         /\ Pixels(page[k]) = Asked(page[k])
         /\ \A p \in Pixels(page[k]) :
              /\ p[1] \in page[k].x .. page[k].x + font.width - 1
              /\ p[2] \in page[k].y .. page[k].y + font.height - 1
    /\ \A k, l \in Glyphs : k # l => Pixels(page[k]) \cap Pixels(page[l]) = {}

LEMMA PixelsApart ==
  ASSUME IInv, ConsoleHoldsGlyph, NEW k \in Glyphs, NEW l \in Glyphs, k < l
  PROVE  Pixels(page[k]) \cap Pixels(page[l]) = {}
<1> SUFFICES ASSUME NEW p \in Pixels(page[k]), p \in Pixels(page[l])
             PROVE  FALSE
  OBVIOUS
<1> DEFINE g == page[k]
           h == page[l]
<1>1. /\ g.x \in Nat /\ g.y \in Nat /\ h.x \in Nat /\ h.y \in Nat
      /\ font.width \in Nat /\ font.height \in Nat
  BY GlyphInside
<1>2. /\ p[1] \in g.x .. g.x + font.width - 1 /\ p[2] \in g.y .. g.y + font.height - 1
      /\ p[1] \in h.x .. h.x + font.width - 1 /\ p[2] \in h.y .. h.y + font.height - 1
  BY PixelsAre
<1>3. g.y + font.height <= h.y \/ (g.y = h.y /\ g.x + font.width <= h.x)
  BY DEF IInv, InReadingOrder
<1> HIDE DEF g, h
<1>4. p[1] \in Int /\ p[2] \in Int
  BY <1>1, <1>2
<1> QED
  BY <1>1, <1>2, <1>3, <1>4

\* Whatever is printed on a console no smaller than a glyph: no pixel is clipped, none
\* of a glyph's is outside its cell, and no glyph of the page draws over another.
THEOREM EachPixelInItsCell == Spec => []PixelsInPlace
<1>1. IInv => PixelsInPlace
  <2> SUFFICES ASSUME IInv, ConsoleHoldsGlyph, NEW k \in Glyphs, NEW l \in Glyphs
               PROVE  /\ Pixels(page[k]) = Asked(page[k])
                      /\ \A p \in Pixels(page[k]) :
                           /\ p[1] \in page[k].x .. page[k].x + font.width - 1
                           /\ p[2] \in page[k].y .. page[k].y + font.height - 1
                      /\ k # l => Pixels(page[k]) \cap Pixels(page[l]) = {}
    BY DEF PixelsInPlace
  <2>1. k \in Int /\ l \in Int
    BY DEF Glyphs
  <2>2. k # l => Pixels(page[k]) \cap Pixels(page[l]) = {}
    <3>1. k < l => Pixels(page[k]) \cap Pixels(page[l]) = {}
      BY PixelsApart
    <3>2. l < k => Pixels(page[l]) \cap Pixels(page[k]) = {}
      BY PixelsApart
    <3> QED
      BY <2>1, <3>1, <3>2
  <2> QED
    BY <2>2, PixelsAre
<1> QED
  BY <1>1, Invariant, PTL
-----------------------------------------------------------------------------
(* How a glyph differs from its font.                                       *)

\* A row of the font with all its bits set, or none of them.
PlainRow(row) == \A b \in 0 .. font.width - 1 : Bit(row, b) <=> Bit(row, font.width - 1)

\* A glyph looks as in the font exactly where each of its rows is plain.
OnlyPlainRowsMatch ==
  ConsoleHoldsGlyph =>
    \A k \in Glyphs :
      Pixels(page[k]) =
        {<<page[k].x + p[1], page[k].y + p[2]>> :
           p \in {q \in Box : Bit(GlyphRow(page[k].char, q[2]), font.width - 1 - q[1])}}
      <=> \A y \in 0 .. font.height - 1 : PlainRow(GlyphRow(page[k].char, y))

\* The loop of QPrint tests the highest bit of a row for every column of it: it draws
\* rows whole or not at all, and so only glyphs without any other kind of row as the
\* font has them.
THEOREM GlyphsAreRows == Spec => []OnlyPlainRowsMatch
<1>1. IInv => OnlyPlainRowsMatch
  <2> SUFFICES ASSUME IInv, ConsoleHoldsGlyph, NEW k \in Glyphs
               PROVE  Pixels(page[k]) = At(page[k], FontBox(page[k]))
                      <=> \A y \in 0 .. font.height - 1 : PlainRow(GlyphRow(page[k].char, y))
    BY DEF OnlyPlainRowsMatch, At, FontBox
  <2> DEFINE g == page[k]
             Row(y) == GlyphRow(g.char, y)
  <2>1. Pixels(g) = At(g, LitBox(g)) /\ LitBox(g) \in SUBSET Box /\ FontBox(g) \in SUBSET Box
    BY PixelsAre DEF LitBox, FontBox
  <2>2. g.x \in Nat /\ g.y \in Nat /\ font.width \in Nat \ {0} /\ font.height \in Nat \ {0}
    BY GlyphInside
  <2>3. \A q \in Box : /\ q \in LitBox(g) <=> Bit(Row(q[2]), font.width - 1)
                       /\ q \in FontBox(g) <=> Bit(Row(q[2]), font.width - 1 - q[1])
    BY DEF LitBox, FontBox
  <2> HIDE DEF g, Row
  <2>4. ASSUME Pixels(g) = At(g, FontBox(g)), NEW y \in 0 .. font.height - 1,
               NEW b \in 0 .. font.width - 1
        PROVE  Bit(Row(y), b) <=> Bit(Row(y), font.width - 1)
    <3> DEFINE q == <<font.width - 1 - b, y>>
    <3>1. q \in Box /\ q[2] = y /\ font.width - 1 - q[1] = b
      BY <2>2 DEF Box
    <3> HIDE DEF q
    <3>2. q \in LitBox(g) <=> q \in FontBox(g)
      BY <2>1, <2>2, <2>4, <3>1, MovedTo
    <3> QED
      BY <2>3, <3>1, <3>2
  <2>5. ASSUME \A y \in 0 .. font.height - 1 : PlainRow(Row(y))
        PROVE  LitBox(g) = FontBox(g)
    <3> SUFFICES ASSUME NEW q \in Box PROVE q \in LitBox(g) <=> q \in FontBox(g)
      BY <2>1
    <3>1. q[2] \in 0 .. font.height - 1 /\ font.width - 1 - q[1] \in 0 .. font.width - 1
      BY <2>2 DEF Box
    <3>2. Bit(Row(q[2]), font.width - 1 - q[1]) <=> Bit(Row(q[2]), font.width - 1)
      BY <2>5, <3>1 DEF PlainRow
    <3> QED
      BY <2>3, <3>2
  <2> QED
    BY <2>1, <2>4, <2>5 DEF PlainRow, g, Row
<1> QED
  BY <1>1, Invariant, PTL
-----------------------------------------------------------------------------
(* Where pixels are stored.                                                 *)

\* The model of a framebuffer that FramebufferPutPixel assumes.
RGB32 == fbo.bitsPerPixel = 32 /\ fbo.bytesPerRow >= 4 * fbo.width

\* What `index' counts.
ByteIndex(p) == p[2] * fbo.bytesPerRow + 4 * p[1]

Drawn == {p \in (0 .. fbo.width - 1) \X (0 .. fbo.height - 1) :
            \E k \in Glyphs : p \in Pixels(page[k])}

\* The bytes counted are right: a pixel's four lie in the frame and are its own.  But
\* a pixel is stored four times as far: inside the frame from its top quarter, and
\* past its end from anywhere below.
StoresFourTimesTooFar ==
  RGB32 =>
    \A p \in Drawn :
      /\ StoreOffset(p) = 4 * ByteIndex(p)
      /\ ByteIndex(p) + 4 <= FramebufferGetSizeInBytes
      /\ \A q \in Drawn : p # q => \/ ByteIndex(p) + 4 <= ByteIndex(q)
                                   \/ ByteIndex(q) + 4 <= ByteIndex(p)
      /\ 4 * (p[2] + 1) <= fbo.height => StoreOffset(p) + 4 <= FramebufferGetSizeInBytes
      /\ 4 * p[2] >= fbo.height => StoreOffset(p) >= FramebufferGetSizeInBytes

LEMMA RowsBelow ==
  ASSUME NEW a \in Nat, NEW b \in Nat, NEW r \in Nat, a <= b
  PROVE  a * r \in Nat /\ b * r \in Nat /\ a * r <= b * r
<1>1. r * a \in Nat /\ r * b \in Nat /\ r * a <= r * b
  BY Monotone
<1>2. a * r = r * a /\ b * r = r * b
  OBVIOUS
<1> QED
  BY <1>1, <1>2

LEMMA IndexBounds ==
  ASSUME NEW x \in Nat, NEW y \in Nat, NEW w \in Nat, NEW h \in Nat, NEW r \in Nat,
         x < w, y < h, r >= 4 * w
  PROVE  /\ y * r \in Nat /\ h * r \in Nat
         /\ y * r + 4 * x + 4 <= (y + 1) * r
         /\ (y + 1) * r <= h * r
         /\ (y + 1) * r = y * r + r
         /\ 4 * (y + 1) <= h => 4 * (y * r + 4 * x) + 4 <= h * r
         /\ 4 * y >= h => 4 * (y * r + 4 * x) >= h * r
<1>1. y * r \in Nat /\ h * r \in Nat /\ (y + 1) * r \in Nat /\ (y + 1) * r <= h * r
  BY RowsBelow
<1>2. (y + 1) * r = y * r + r
  OBVIOUS
<1>3. y * r + 4 * x + 4 <= (y + 1) * r
  BY <1>1, <1>2
<1>4. 4 * (y + 1) <= h => 4 * (y * r + 4 * x) + 4 <= h * r
  <2>1. 4 * (y + 1) <= h => (4 * (y + 1)) * r <= h * r
    BY RowsBelow
  <2>2. (4 * (y + 1)) * r = 4 * ((y + 1) * r)
    OBVIOUS
  <2> QED
    BY <1>1, <1>3, <2>1, <2>2
<1>5. 4 * y >= h => 4 * (y * r + 4 * x) >= h * r
  <2>1. 4 * y >= h => h * r <= (4 * y) * r
    BY RowsBelow
  <2>2. (4 * y) * r = 4 * (y * r)
    OBVIOUS
  <2> QED
    BY <1>1, <2>1, <2>2
<1> QED
  BY <1>1, <1>2, <1>3, <1>4, <1>5

\* `pFb[index]' scales the byte offset by the four bytes of an uint32_t once more: of
\* every framebuffer of 32-bit pixels exactly the top quarter is drawn into.
THEOREM StoresMissTheFrame == Spec => []StoresFourTimesTooFar
<1>1. TypeOK => StoresFourTimesTooFar
  <2> SUFFICES ASSUME TypeOK, RGB32, NEW p \in Drawn
               PROVE  /\ StoreOffset(p) = 4 * ByteIndex(p)
                      /\ ByteIndex(p) + 4 <= FramebufferGetSizeInBytes
                      /\ \A q \in Drawn : p # q => \/ ByteIndex(p) + 4 <= ByteIndex(q)
                                                   \/ ByteIndex(q) + 4 <= ByteIndex(p)
                      /\ 4 * (p[2] + 1) <= fbo.height =>
                           StoreOffset(p) + 4 <= FramebufferGetSizeInBytes
                      /\ 4 * p[2] >= fbo.height =>
                           StoreOffset(p) >= FramebufferGetSizeInBytes
    BY DEF StoresFourTimesTooFar
  <2> DEFINE r == fbo.bytesPerRow
  <2>1. /\ fbo.width \in Nat /\ fbo.height \in Nat /\ r \in Nat /\ r >= 4 * fbo.width
        /\ fbo.bitsPerPixel = 32
    BY FramebuffersAssumption DEF TypeOK, RGB32
  <2>2. ASSUME NEW q \in Drawn
        PROVE  /\ q[1] \in Nat /\ q[2] \in Nat /\ q[1] < fbo.width /\ q[2] < fbo.height
               /\ q = <<q[1], q[2]>>
    BY <2>1 DEF Drawn
  <2> HIDE DEF r
  <2>3. ASSUME NEW q \in Drawn
        PROVE  /\ q[2] * r \in Nat /\ fbo.height * r \in Nat
               /\ q[2] * r + 4 * q[1] + 4 <= (q[2] + 1) * r
               /\ (q[2] + 1) * r <= fbo.height * r
               /\ (q[2] + 1) * r = q[2] * r + r
               /\ 4 * (q[2] + 1) <= fbo.height =>
                    4 * (q[2] * r + 4 * q[1]) + 4 <= fbo.height * r
               /\ 4 * q[2] >= fbo.height => 4 * (q[2] * r + 4 * q[1]) >= fbo.height * r
    BY <2>1, <2>2, IndexBounds
  <2>4. /\ FramebufferGetSizeInBytes = fbo.height * r
        /\ \A q : ByteIndex(q) = q[2] * r + 4 * q[1]
    BY DEF FramebufferGetSizeInBytes, ByteIndex, r
  <2>5. StoreOffset(p) = 4 * ByteIndex(p)
    <3>1. fbo.bitsPerPixel \div 8 = 4
      BY <2>1
    <3>2. StoreOffset(p) = 4 * (p[2] * r + p[1] * 4)
      BY <3>1 DEF StoreOffset, r
    <3>3. p[2] * r + p[1] * 4 = p[2] * r + 4 * p[1]
      BY <2>2
    <3> QED
      BY <2>4, <3>2, <3>3
  <2>6. ByteIndex(p) + 4 <= FramebufferGetSizeInBytes
    <3>1. p[2] * r + 4 * p[1] + 4 <= fbo.height * r
      <4>1. /\ p[2] * r \in Nat /\ 4 * p[1] \in Nat /\ fbo.height * r \in Nat
            /\ (p[2] + 1) * r \in Nat
        BY <2>1, <2>2, <2>3 DEF r
      <4> QED
        BY <2>3, <4>1
    <3> QED
      BY <2>4, <3>1
  <2>7. ASSUME NEW q \in Drawn, p # q
        PROVE  ByteIndex(p) + 4 <= ByteIndex(q) \/ ByteIndex(q) + 4 <= ByteIndex(p)
    <3>1. CASE p[2] = q[2]
      <4>1. p[1] # q[1]
        BY <2>2, <2>7, <3>1
      <4> QED
        BY <2>2, <2>3, <2>4, <3>1, <4>1
    <3>2. CASE p[2] < q[2]
      <4>1. (p[2] + 1) * r <= q[2] * r
        <5>1. p[2] + 1 \in Nat /\ q[2] \in Nat /\ p[2] + 1 <= q[2]
          BY <2>2, <3>2
        <5> QED
          BY <2>1, <5>1, RowsBelow DEF r
      <4>2. p[2] * r + 4 * p[1] + 4 <= q[2] * r
        <5>1. /\ p[2] * r \in Nat /\ q[2] * r \in Nat /\ 4 * p[1] \in Nat
              /\ (p[2] + 1) * r \in Nat
          BY <2>1, <2>2, <2>3 DEF r
        <5> QED
          BY <2>3, <4>1, <5>1
      <4>3. p[2] * r \in Nat /\ q[2] * r \in Nat /\ 4 * p[1] \in Nat /\ 4 * q[1] \in Nat
        BY <2>2, <2>3
      <4> QED
        BY <2>4, <4>2, <4>3
    <3>3. CASE q[2] < p[2]
      <4>1. (q[2] + 1) * r <= p[2] * r
        <5>1. q[2] + 1 \in Nat /\ p[2] \in Nat /\ q[2] + 1 <= p[2]
          BY <2>2, <3>3
        <5> QED
          BY <2>1, <5>1, RowsBelow DEF r
      <4>2. q[2] * r + 4 * q[1] + 4 <= p[2] * r
        <5>1. /\ p[2] * r \in Nat /\ q[2] * r \in Nat /\ 4 * q[1] \in Nat
              /\ (q[2] + 1) * r \in Nat
          BY <2>1, <2>2, <2>3 DEF r
        <5> QED
          BY <2>3, <4>1, <5>1
      <4>3. p[2] * r \in Nat /\ q[2] * r \in Nat /\ 4 * p[1] \in Nat /\ 4 * q[1] \in Nat
        BY <2>2, <2>3
      <4> QED
        BY <2>4, <4>2, <4>3
    <3> QED
      BY <2>2, <3>1, <3>2, <3>3
  <2> QED
    BY <2>3, <2>4, <2>5, <2>6, <2>7
<1> QED
  BY <1>1, TypeCorrect, PTL
=============================================================================
