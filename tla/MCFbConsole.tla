---------------------------- MODULE MCFbConsole -----------------------------
(***************************************************************************)
(* Small screens and fonts.                                                *)
(***************************************************************************)
EXTENDS FbConsole

CONSTANTS Letter, MaxMessage

TwoCharacters == {Newline, Letter}

SmallMessages == UNION {[1 .. n -> TwoCharacters] : n \in 0 .. MaxMessage}

\* The letter is a diagonal, every other glyph a left edge.
RowOf(c, y, w) == IF c = Letter /\ y < w THEN 2^(w - 1 - y) ELSE 2^(w - 1)

FontOf(w, h) ==
  [width |-> w, height |-> h, charCount |-> Letter + 1,
   data |-> [k \in 1 .. h * (Letter + 1) |-> RowOf((k - 1) \div h, (k - 1) % h, w)]]

SmallFonts == {FontOf(2, 2), FontOf(3, 2), FontOf(1, 3)}

FramebufferOf(w, h) ==
  [width |-> w, height |-> h, bytesPerRow |-> 4 * w, bitsPerPixel |-> 32]

\* Wider and narrower than a glyph, multiples of it and not, as large as 16 bits
\* allow, and larger.
SmallFramebuffers ==
  {FramebufferOf(w, h) :
     w \in {1, 2, 4, 5, 7, U16Limit - 1, U16Limit, U16Limit + 5},
     h \in {1, 2, 3, 5, 6, 7, U16Limit + 1}}
=============================================================================
