------------------------------ MODULE Font8x16 ------------------------------
(***************************************************************************)
(* The font table of kernel/src/font/font.c, eight glyphs to a definition: *)
(* each glyph sixteen rows of eight pixels, the leftmost in the highest    *)
(* bit.  Definitions are named for the code of their first character.      *)
(***************************************************************************)
EXTENDS Integers, Sequences

HEIGHT == 16

\* A glyph with so many empty rows above its own, and empty ones below.
Glyph(above, rows) ==
  [y \in 1 .. HEIGHT |-> IF y - above \in DOMAIN rows THEN rows[y - above] ELSE 0]

Blank == Glyph(0, << >>)

\* Control codes, drawn as signs.
From00 ==
  << Blank,
     Glyph(2, <<\h7e, \h81, \ha5, \h81, \h81, \hbd, \h99, \h81, \h81, \h7e>>),
     Glyph(2, <<\h7e, \hff, \hdb, \hff, \hff, \hc3, \he7, \hff, \hff, \h7e>>),
     Glyph(4, <<\h6c, \hfe, \hfe, \hfe, \hfe, \h7c, \h38, \h10>>),
     Glyph(4, <<\h10, \h38, \h7c, \hfe, \h7c, \h38, \h10>>),
     Glyph(3, <<\h18, \h3c, \h3c, \he7, \he7, \he7, \h18, \h18, \h3c>>),
     Glyph(3, <<\h18, \h3c, \h7e, \hff, \hff, \h7e, \h18, \h18, \h3c>>),
     Glyph(6, <<\h18, \h3c, \h3c, \h18>>) >>

From08 ==
  << Glyph(0, <<\hff, \hff, \hff, \hff, \hff, \hff, \he7, \hc3, \hc3, \he7, \hff, \hff, \hff, \hff, \hff, \hff>>),
     Glyph(5, <<\h3c, \h66, \h42, \h42, \h66, \h3c>>),
     Glyph(0, <<\hff, \hff, \hff, \hff, \hff, \hc3, \h99, \hbd, \hbd, \h99, \hc3, \hff, \hff, \hff, \hff, \hff>>),
     Glyph(2, <<\h1e, \h0e, \h1a, \h32, \h78, \hcc, \hcc, \hcc, \hcc, \h78>>),
     Glyph(2, <<\h3c, \h66, \h66, \h66, \h66, \h3c, \h18, \h7e, \h18, \h18>>),
     Glyph(2, <<\h3f, \h33, \h3f, \h30, \h30, \h30, \h30, \h70, \hf0, \he0>>),
     Glyph(2, <<\h7f, \h63, \h7f, \h63, \h63, \h63, \h63, \h67, \he7, \he6, \hc0>>),
     Glyph(3, <<\h18, \h18, \hdb, \h3c, \he7, \h3c, \hdb, \h18, \h18>>) >>

From10 ==
  << Glyph(1, <<\h80, \hc0, \he0, \hf0, \hf8, \hfe, \hf8, \hf0, \he0, \hc0, \h80>>),
     Glyph(1, <<\h02, \h06, \h0e, \h1e, \h3e, \hfe, \h3e, \h1e, \h0e, \h06, \h02>>),
     Glyph(2, <<\h18, \h3c, \h7e, \h18, \h18, \h18, \h7e, \h3c, \h18>>),
     Glyph(2, <<\h66, \h66, \h66, \h66, \h66, \h66, \h66, \h00, \h66, \h66>>),
     Glyph(2, <<\h7f, \hdb, \hdb, \hdb, \h7b, \h1b, \h1b, \h1b, \h1b, \h1b>>),
     Glyph(1, <<\h7c, \hc6, \h60, \h38, \h6c, \hc6, \hc6, \h6c, \h38, \h0c, \hc6, \h7c>>),
     Glyph(8, <<\hfe, \hfe, \hfe, \hfe>>),
     Glyph(2, <<\h18, \h3c, \h7e, \h18, \h18, \h18, \h7e, \h3c, \h18, \h7e>>) >>

From18 ==
  << Glyph(2, <<\h18, \h3c, \h7e, \h18, \h18, \h18, \h18, \h18, \h18, \h18>>),
     Glyph(2, <<\h18, \h18, \h18, \h18, \h18, \h18, \h18, \h7e, \h3c, \h18>>),
     Glyph(5, <<\h18, \h0c, \hfe, \h0c, \h18>>),
     Glyph(5, <<\h30, \h60, \hfe, \h60, \h30>>),
     Glyph(6, <<\hc0, \hc0, \hc0, \hfe>>),
     Glyph(5, <<\h28, \h6c, \hfe, \h6c, \h28>>),
     Glyph(4, <<\h10, \h38, \h38, \h7c, \h7c, \hfe, \hfe>>),
     Glyph(4, <<\hfe, \hfe, \h7c, \h7c, \h38, \h38, \h10>>) >>

\* Punctuation and digits.
From20 ==
  << Blank,
     Glyph(2, <<\h18, \h3c, \h3c, \h3c, \h18, \h18, \h18, \h00, \h18, \h18>>),
     Glyph(1, <<\h66, \h66, \h66, \h24>>),
     Glyph(3, <<\h6c, \h6c, \hfe, \h6c, \h6c, \h6c, \hfe, \h6c, \h6c>>),
     Glyph(0, <<\h18, \h18, \h7c, \hc6, \hc2, \hc0, \h7c, \h06, \h06, \h86, \hc6, \h7c, \h18, \h18>>),
     Glyph(4, <<\hc2, \hc6, \h0c, \h18, \h30, \h60, \hc6, \h86>>),
     Glyph(2, <<\h38, \h6c, \h6c, \h38, \h76, \hdc, \hcc, \hcc, \hcc, \h76>>),
     Glyph(1, <<\h30, \h30, \h30, \h60>>) >>

From28 ==
  << Glyph(2, <<\h0c, \h18, \h30, \h30, \h30, \h30, \h30, \h30, \h18, \h0c>>),
     Glyph(2, <<\h30, \h18, \h0c, \h0c, \h0c, \h0c, \h0c, \h0c, \h18, \h30>>),
     Glyph(5, <<\h66, \h3c, \hff, \h3c, \h66>>),
     Glyph(5, <<\h18, \h18, \h7e, \h18, \h18>>),
     Glyph(9, <<\h18, \h18, \h18, \h30>>),
     Glyph(7, <<\hfe>>),
     Glyph(10, <<\h18, \h18>>),
     Glyph(4, <<\h02, \h06, \h0c, \h18, \h30, \h60, \hc0, \h80>>) >>

From30 ==
  << Glyph(2, <<\h38, \h6c, \hc6, \hc6, \hd6, \hd6, \hc6, \hc6, \h6c, \h38>>),
     Glyph(2, <<\h18, \h38, \h78, \h18, \h18, \h18, \h18, \h18, \h18, \h7e>>),
     Glyph(2, <<\h7c, \hc6, \h06, \h0c, \h18, \h30, \h60, \hc0, \hc6, \hfe>>),
     Glyph(2, <<\h7c, \hc6, \h06, \h06, \h3c, \h06, \h06, \h06, \hc6, \h7c>>),
     Glyph(2, <<\h0c, \h1c, \h3c, \h6c, \hcc, \hfe, \h0c, \h0c, \h0c, \h1e>>),
     Glyph(2, <<\hfe, \hc0, \hc0, \hc0, \hfc, \h06, \h06, \h06, \hc6, \h7c>>),
     Glyph(2, <<\h38, \h60, \hc0, \hc0, \hfc, \hc6, \hc6, \hc6, \hc6, \h7c>>),
     Glyph(2, <<\hfe, \hc6, \h06, \h06, \h0c, \h18, \h30, \h30, \h30, \h30>>) >>

From38 ==
  << Glyph(2, <<\h7c, \hc6, \hc6, \hc6, \h7c, \hc6, \hc6, \hc6, \hc6, \h7c>>),
     Glyph(2, <<\h7c, \hc6, \hc6, \hc6, \h7e, \h06, \h06, \h06, \h0c, \h78>>),
     Glyph(4, <<\h18, \h18, \h00, \h00, \h00, \h18, \h18>>),
     Glyph(4, <<\h18, \h18, \h00, \h00, \h00, \h18, \h18, \h30>>),
     Glyph(3, <<\h06, \h0c, \h18, \h30, \h60, \h30, \h18, \h0c, \h06>>),
     Glyph(5, <<\h7e, \h00, \h00, \h7e>>),
     Glyph(3, <<\h60, \h30, \h18, \h0c, \h06, \h0c, \h18, \h30, \h60>>),
     Glyph(2, <<\h7c, \hc6, \hc6, \h0c, \h18, \h18, \h18, \h00, \h18, \h18>>) >>

\* Upper case.
From40 ==
  << Glyph(3, <<\h7c, \hc6, \hc6, \hde, \hde, \hde, \hdc, \hc0, \h7c>>),
     Glyph(2, <<\h10, \h38, \h6c, \hc6, \hc6, \hfe, \hc6, \hc6, \hc6, \hc6>>),
     Glyph(2, <<\hfc, \h66, \h66, \h66, \h7c, \h66, \h66, \h66, \h66, \hfc>>),
     Glyph(2, <<\h3c, \h66, \hc2, \hc0, \hc0, \hc0, \hc0, \hc2, \h66, \h3c>>),
     Glyph(2, <<\hf8, \h6c, \h66, \h66, \h66, \h66, \h66, \h66, \h6c, \hf8>>),
     Glyph(2, <<\hfe, \h66, \h62, \h68, \h78, \h68, \h60, \h62, \h66, \hfe>>),
     Glyph(2, <<\hfe, \h66, \h62, \h68, \h78, \h68, \h60, \h60, \h60, \hf0>>),
     Glyph(2, <<\h3c, \h66, \hc2, \hc0, \hc0, \hde, \hc6, \hc6, \h66, \h3a>>) >>

From48 ==
  << Glyph(2, <<\hc6, \hc6, \hc6, \hc6, \hfe, \hc6, \hc6, \hc6, \hc6, \hc6>>),
     Glyph(2, <<\h3c, \h18, \h18, \h18, \h18, \h18, \h18, \h18, \h18, \h3c>>),
     Glyph(2, <<\h1e, \h0c, \h0c, \h0c, \h0c, \h0c, \hcc, \hcc, \hcc, \h78>>),
     Glyph(2, <<\he6, \h66, \h66, \h6c, \h78, \h78, \h6c, \h66, \h66, \he6>>),
     Glyph(2, <<\hf0, \h60, \h60, \h60, \h60, \h60, \h60, \h62, \h66, \hfe>>),
     Glyph(2, <<\hc6, \hee, \hfe, \hfe, \hd6, \hc6, \hc6, \hc6, \hc6, \hc6>>),
     Glyph(2, <<\hc6, \he6, \hf6, \hfe, \hde, \hce, \hc6, \hc6, \hc6, \hc6>>),
     Glyph(2, <<\h7c, \hc6, \hc6, \hc6, \hc6, \hc6, \hc6, \hc6, \hc6, \h7c>>) >>

From50 ==
  << Glyph(2, <<\hfc, \h66, \h66, \h66, \h7c, \h60, \h60, \h60, \h60, \hf0>>),
     Glyph(2, <<\h7c, \hc6, \hc6, \hc6, \hc6, \hc6, \hc6, \hd6, \hde, \h7c, \h0c, \h0e>>),
     Glyph(2, <<\hfc, \h66, \h66, \h66, \h7c, \h6c, \h66, \h66, \h66, \he6>>),
     Glyph(2, <<\h7c, \hc6, \hc6, \h60, \h38, \h0c, \h06, \hc6, \hc6, \h7c>>),
     Glyph(2, <<\h7e, \h7e, \h5a, \h18, \h18, \h18, \h18, \h18, \h18, \h3c>>),
     Glyph(2, <<\hc6, \hc6, \hc6, \hc6, \hc6, \hc6, \hc6, \hc6, \hc6, \h7c>>),
     Glyph(2, <<\hc6, \hc6, \hc6, \hc6, \hc6, \hc6, \hc6, \h6c, \h38, \h10>>),
     Glyph(2, <<\hc6, \hc6, \hc6, \hc6, \hd6, \hd6, \hd6, \hfe, \hee, \h6c>>) >>

From58 ==
  << Glyph(2, <<\hc6, \hc6, \h6c, \h7c, \h38, \h38, \h7c, \h6c, \hc6, \hc6>>),
     Glyph(2, <<\h66, \h66, \h66, \h66, \h3c, \h18, \h18, \h18, \h18, \h3c>>),
     Glyph(2, <<\hfe, \hc6, \h86, \h0c, \h18, \h30, \h60, \hc2, \hc6, \hfe>>),
     Glyph(2, <<\h3c, \h30, \h30, \h30, \h30, \h30, \h30, \h30, \h30, \h3c>>),
     Glyph(3, <<\h80, \hc0, \he0, \h70, \h38, \h1c, \h0e, \h06, \h02>>),
     Glyph(2, <<\h3c, \h0c, \h0c, \h0c, \h0c, \h0c, \h0c, \h0c, \h0c, \h3c>>),
     Glyph(0, <<\h10, \h38, \h6c, \hc6>>),
     Glyph(13, <<\hff>>) >>

\* Lower case.
From60 ==
  << Glyph(1, <<\h30, \h18, \h0c>>),
     Glyph(5, <<\h78, \h0c, \h7c, \hcc, \hcc, \hcc, \h76>>),
     Glyph(2, <<\he0, \h60, \h60, \h78, \h6c, \h66, \h66, \h66, \h66, \h7c>>),
     Glyph(5, <<\h7c, \hc6, \hc0, \hc0, \hc0, \hc6, \h7c>>),
     Glyph(2, <<\h1c, \h0c, \h0c, \h3c, \h6c, \hcc, \hcc, \hcc, \hcc, \h76>>),
     Glyph(5, <<\h7c, \hc6, \hfe, \hc0, \hc0, \hc6, \h7c>>),
     Glyph(2, <<\h1c, \h36, \h32, \h30, \h78, \h30, \h30, \h30, \h30, \h78>>),
     Glyph(5, <<\h76, \hcc, \hcc, \hcc, \hcc, \hcc, \h7c, \h0c, \hcc, \h78>>) >>

From68 ==
  << Glyph(2, <<\he0, \h60, \h60, \h6c, \h76, \h66, \h66, \h66, \h66, \he6>>),
     Glyph(2, <<\h18, \h18, \h00, \h38, \h18, \h18, \h18, \h18, \h18, \h3c>>),
     Glyph(2, <<\h06, \h06, \h00, \h0e, \h06, \h06, \h06, \h06, \h06, \h06, \h66, \h66, \h3c>>),
     Glyph(2, <<\he0, \h60, \h60, \h66, \h6c, \h78, \h78, \h6c, \h66, \he6>>),
     Glyph(2, <<\h38, \h18, \h18, \h18, \h18, \h18, \h18, \h18, \h18, \h3c>>),
     Glyph(5, <<\hec, \hfe, \hd6, \hd6, \hd6, \hd6, \hc6>>),
     Glyph(5, <<\hdc, \h66, \h66, \h66, \h66, \h66, \h66>>),
     Glyph(5, <<\h7c, \hc6, \hc6, \hc6, \hc6, \hc6, \h7c>>) >>

From70 ==
  << Glyph(5, <<\hdc, \h66, \h66, \h66, \h66, \h66, \h7c, \h60, \h60, \hf0>>),
     Glyph(5, <<\h76, \hcc, \hcc, \hcc, \hcc, \hcc, \h7c, \h0c, \h0c, \h1e>>),
     Glyph(5, <<\hdc, \h76, \h66, \h60, \h60, \h60, \hf0>>),
     Glyph(5, <<\h7c, \hc6, \h60, \h38, \h0c, \hc6, \h7c>>),
     Glyph(2, <<\h10, \h30, \h30, \hfc, \h30, \h30, \h30, \h30, \h36, \h1c>>),
     Glyph(5, <<\hcc, \hcc, \hcc, \hcc, \hcc, \hcc, \h76>>),
     Glyph(5, <<\hc6, \hc6, \hc6, \hc6, \hc6, \h6c, \h38>>),
     Glyph(5, <<\hc6, \hc6, \hd6, \hd6, \hd6, \hfe, \h6c>>) >>

From78 ==
  << Glyph(5, <<\hc6, \h6c, \h38, \h38, \h38, \h6c, \hc6>>),
     Glyph(5, <<\hc6, \hc6, \hc6, \hc6, \hc6, \hc6, \h7e, \h06, \h0c, \hf8>>),
     Glyph(5, <<\hfe, \hcc, \h18, \h30, \h60, \hc6, \hfe>>),
     Glyph(2, <<\h0e, \h18, \h18, \h18, \h70, \h18, \h18, \h18, \h18, \h0e>>),
     Glyph(2, <<\h18, \h18, \h18, \h18, \h18, \h18, \h18, \h18, \h18, \h18>>),
     Glyph(2, <<\h70, \h18, \h18, \h18, \h0e, \h18, \h18, \h18, \h18, \h70>>),
     Glyph(1, <<\h76, \hdc>>),
     Glyph(4, <<\h10, \h38, \h6c, \hc6, \hc6, \hc6, \hfe>>) >>

\* Accented letters and currencies.
From80 ==
  << Glyph(2, <<\h3c, \h66, \hc2, \hc0, \hc0, \hc0, \hc0, \hc2, \h66, \h3c, \h18, \h70>>),
     Glyph(2, <<\hcc, \h00, \h00, \hcc, \hcc, \hcc, \hcc, \hcc, \hcc, \h76>>),
     Glyph(1, <<\h0c, \h18, \h30, \h00, \h7c, \hc6, \hfe, \hc0, \hc0, \hc6, \h7c>>),
     Glyph(1, <<\h10, \h38, \h6c, \h00, \h78, \h0c, \h7c, \hcc, \hcc, \hcc, \h76>>),
     Glyph(2, <<\hcc, \h00, \h00, \h78, \h0c, \h7c, \hcc, \hcc, \hcc, \h76>>),
     Glyph(1, <<\h60, \h30, \h18, \h00, \h78, \h0c, \h7c, \hcc, \hcc, \hcc, \h76>>),
     Glyph(1, <<\h38, \h6c, \h38, \h00, \h78, \h0c, \h7c, \hcc, \hcc, \hcc, \h76>>),
     Glyph(5, <<\h7c, \hc6, \hc0, \hc0, \hc0, \hc6, \h7c, \h18, \h70>>) >>

From88 ==
  << Glyph(1, <<\h10, \h38, \h6c, \h00, \h7c, \hc6, \hfe, \hc0, \hc0, \hc6, \h7c>>),
     Glyph(2, <<\hc6, \h00, \h00, \h7c, \hc6, \hfe, \hc0, \hc0, \hc6, \h7c>>),
     Glyph(1, <<\h60, \h30, \h18, \h00, \h7c, \hc6, \hfe, \hc0, \hc0, \hc6, \h7c>>),
     Glyph(2, <<\h66, \h00, \h00, \h38, \h18, \h18, \h18, \h18, \h18, \h3c>>),
     Glyph(1, <<\h18, \h3c, \h66, \h00, \h38, \h18, \h18, \h18, \h18, \h18, \h3c>>),
     Glyph(1, <<\h60, \h30, \h18, \h00, \h38, \h18, \h18, \h18, \h18, \h18, \h3c>>),
     Glyph(1, <<\hc6, \h00, \h10, \h38, \h6c, \hc6, \hc6, \hfe, \hc6, \hc6, \hc6>>),
     Glyph(0, <<\h38, \h6c, \h38, \h10, \h38, \h6c, \hc6, \hfe, \hc6, \hc6, \hc6, \hc6>>) >>

From90 ==
  << Glyph(0, <<\h0c, \h18, \h00, \hfe, \h66, \h62, \h68, \h78, \h68, \h62, \h66, \hfe>>),
     Glyph(5, <<\hec, \h36, \h36, \h7e, \hd8, \hd8, \h6e>>),
     Glyph(2, <<\h3e, \h6c, \hcc, \hcc, \hfe, \hcc, \hcc, \hcc, \hcc, \hce>>),
     Glyph(1, <<\h10, \h38, \h6c, \h00, \h7c, \hc6, \hc6, \hc6, \hc6, \hc6, \h7c>>),
     Glyph(2, <<\hc6, \h00, \h00, \h7c, \hc6, \hc6, \hc6, \hc6, \hc6, \h7c>>),
     Glyph(1, <<\h60, \h30, \h18, \h00, \h7c, \hc6, \hc6, \hc6, \hc6, \hc6, \h7c>>),
     Glyph(1, <<\h30, \h78, \hcc, \h00, \hcc, \hcc, \hcc, \hcc, \hcc, \hcc, \h76>>),
     Glyph(1, <<\h60, \h30, \h18, \h00, \hcc, \hcc, \hcc, \hcc, \hcc, \hcc, \h76>>) >>

From98 ==
  << Glyph(2, <<\hc6, \h00, \h00, \hc6, \hc6, \hc6, \hc6, \hc6, \hc6, \h7e, \h06, \h0c, \h78>>),
     Glyph(1, <<\hc6, \h00, \h7c, \hc6, \hc6, \hc6, \hc6, \hc6, \hc6, \hc6, \h7c>>),
     Glyph(1, <<\hc6, \h00, \hc6, \hc6, \hc6, \hc6, \hc6, \hc6, \hc6, \hc6, \h7c>>),
     Glyph(1, <<\h18, \h18, \h7c, \hc6, \hc0, \hc0, \hc0, \hc6, \h7c, \h18, \h18>>),
     Glyph(1, <<\h38, \h6c, \h64, \h60, \hf0, \h60, \h60, \h60, \h60, \he6, \hfc>>),
     Glyph(2, <<\h66, \h66, \h3c, \h18, \h7e, \h18, \h7e, \h18, \h18, \h18>>),
     Glyph(1, <<\hf8, \hcc, \hcc, \hf8, \hc4, \hcc, \hde, \hcc, \hcc, \hcc, \hc6>>),
     Glyph(1, <<\h0e, \h1b, \h18, \h18, \h18, \h7e, \h18, \h18, \h18, \hd8, \h70>>) >>

Froma0 ==
  << Glyph(1, <<\h18, \h30, \h60, \h00, \h78, \h0c, \h7c, \hcc, \hcc, \hcc, \h76>>),
     Glyph(1, <<\h0c, \h18, \h30, \h00, \h38, \h18, \h18, \h18, \h18, \h18, \h3c>>),
     Glyph(1, <<\h18, \h30, \h60, \h00, \h7c, \hc6, \hc6, \hc6, \hc6, \hc6, \h7c>>),
     Glyph(1, <<\h18, \h30, \h60, \h00, \hcc, \hcc, \hcc, \hcc, \hcc, \hcc, \h76>>),
     Glyph(2, <<\h76, \hdc, \h00, \hdc, \h66, \h66, \h66, \h66, \h66, \h66>>),
     Glyph(0, <<\h76, \hdc, \h00, \hc6, \he6, \hf6, \hfe, \hde, \hce, \hc6, \hc6, \hc6>>),
     Glyph(2, <<\h3c, \h6c, \h6c, \h3e, \h00, \h7e>>),
     Glyph(2, <<\h38, \h6c, \h6c, \h38, \h00, \h7c>>) >>

Froma8 ==
  << Glyph(2, <<\h30, \h30, \h00, \h30, \h30, \h60, \hc0, \hc6, \hc6, \h7c>>),
     Glyph(6, <<\hfe, \hc0, \hc0, \hc0, \hc0>>),
     Glyph(6, <<\hfe, \h06, \h06, \h06, \h06>>),
     Glyph(1, <<\h60, \he0, \h62, \h66, \h6c, \h18, \h30, \h60, \hdc, \h86, \h0c, \h18, \h3e>>),
     Glyph(1, <<\h60, \he0, \h62, \h66, \h6c, \h18, \h30, \h66, \hce, \h9a, \h3f, \h06, \h06>>),
     Glyph(2, <<\h18, \h18, \h00, \h18, \h18, \h18, \h3c, \h3c, \h3c, \h18>>),
     Glyph(5, <<\h36, \h6c, \hd8, \h6c, \h36>>),
     Glyph(5, <<\hd8, \h6c, \h36, \h6c, \hd8>>) >>

\* Shades and the parts of frames.
Fromb0 ==
  << Glyph(0, <<\h11, \h44, \h11, \h44, \h11, \h44, \h11, \h44, \h11, \h44, \h11, \h44, \h11, \h44, \h11, \h44>>),
     Glyph(0, <<\h55, \haa, \h55, \haa, \h55, \haa, \h55, \haa, \h55, \haa, \h55, \haa, \h55, \haa, \h55, \haa>>),
     Glyph(0, <<\hdd, \h77, \hdd, \h77, \hdd, \h77, \hdd, \h77, \hdd, \h77, \hdd, \h77, \hdd, \h77, \hdd, \h77>>),
     Glyph(0, <<\h18, \h18, \h18, \h18, \h18, \h18, \h18, \h18, \h18, \h18, \h18, \h18, \h18, \h18, \h18, \h18>>),
     Glyph(0, <<\h18, \h18, \h18, \h18, \h18, \h18, \h18, \hf8, \h18, \h18, \h18, \h18, \h18, \h18, \h18, \h18>>),
     Glyph(0, <<\h18, \h18, \h18, \h18, \h18, \hf8, \h18, \hf8, \h18, \h18, \h18, \h18, \h18, \h18, \h18, \h18>>),
     Glyph(0, <<\h36, \h36, \h36, \h36, \h36, \h36, \h36, \hf6, \h36, \h36, \h36, \h36, \h36, \h36, \h36, \h36>>),
     Glyph(7, <<\hfe, \h36, \h36, \h36, \h36, \h36, \h36, \h36, \h36>>) >>

Fromb8 ==
  << Glyph(5, <<\hf8, \h18, \hf8, \h18, \h18, \h18, \h18, \h18, \h18, \h18, \h18>>),
     Glyph(0, <<\h36, \h36, \h36, \h36, \h36, \hf6, \h06, \hf6, \h36, \h36, \h36, \h36, \h36, \h36, \h36, \h36>>),
     Glyph(0, <<\h36, \h36, \h36, \h36, \h36, \h36, \h36, \h36, \h36, \h36, \h36, \h36, \h36, \h36, \h36, \h36>>),
     Glyph(5, <<\hfe, \h06, \hf6, \h36, \h36, \h36, \h36, \h36, \h36, \h36, \h36>>),
     Glyph(0, <<\h36, \h36, \h36, \h36, \h36, \hf6, \h06, \hfe>>),
     Glyph(0, <<\h36, \h36, \h36, \h36, \h36, \h36, \h36, \hfe>>),
     Glyph(0, <<\h18, \h18, \h18, \h18, \h18, \hf8, \h18, \hf8>>),
     Glyph(7, <<\hf8, \h18, \h18, \h18, \h18, \h18, \h18, \h18, \h18>>) >>

Fromc0 ==
  << Glyph(0, <<\h18, \h18, \h18, \h18, \h18, \h18, \h18, \h1f>>),
     Glyph(0, <<\h18, \h18, \h18, \h18, \h18, \h18, \h18, \hff>>),
     Glyph(7, <<\hff, \h18, \h18, \h18, \h18, \h18, \h18, \h18, \h18>>),
     Glyph(0, <<\h18, \h18, \h18, \h18, \h18, \h18, \h18, \h1f, \h18, \h18, \h18, \h18, \h18, \h18, \h18, \h18>>),
     Glyph(7, <<\hff>>),
     Glyph(0, <<\h18, \h18, \h18, \h18, \h18, \h18, \h18, \hff, \h18, \h18, \h18, \h18, \h18, \h18, \h18, \h18>>),
     Glyph(0, <<\h18, \h18, \h18, \h18, \h18, \h1f, \h18, \h1f, \h18, \h18, \h18, \h18, \h18, \h18, \h18, \h18>>),
     Glyph(0, <<\h36, \h36, \h36, \h36, \h36, \h36, \h36, \h37, \h36, \h36, \h36, \h36, \h36, \h36, \h36, \h36>>) >>

Fromc8 ==
  << Glyph(0, <<\h36, \h36, \h36, \h36, \h36, \h37, \h30, \h3f>>),
     Glyph(5, <<\h3f, \h30, \h37, \h36, \h36, \h36, \h36, \h36, \h36, \h36, \h36>>),
     Glyph(0, <<\h36, \h36, \h36, \h36, \h36, \hf7, \h00, \hff>>),
     Glyph(5, <<\hff, \h00, \hf7, \h36, \h36, \h36, \h36, \h36, \h36, \h36, \h36>>),
     Glyph(0, <<\h36, \h36, \h36, \h36, \h36, \h37, \h30, \h37, \h36, \h36, \h36, \h36, \h36, \h36, \h36, \h36>>),
     Glyph(5, <<\hff, \h00, \hff>>),
     Glyph(0, <<\h36, \h36, \h36, \h36, \h36, \hf7, \h00, \hf7, \h36, \h36, \h36, \h36, \h36, \h36, \h36, \h36>>),
     Glyph(0, <<\h18, \h18, \h18, \h18, \h18, \hff, \h00, \hff>>) >>

Fromd0 ==
  << Glyph(0, <<\h36, \h36, \h36, \h36, \h36, \h36, \h36, \hff>>),
     Glyph(5, <<\hff, \h00, \hff, \h18, \h18, \h18, \h18, \h18, \h18, \h18, \h18>>),
     Glyph(7, <<\hff, \h36, \h36, \h36, \h36, \h36, \h36, \h36, \h36>>),
     Glyph(0, <<\h36, \h36, \h36, \h36, \h36, \h36, \h36, \h3f>>),
     Glyph(0, <<\h18, \h18, \h18, \h18, \h18, \h1f, \h18, \h1f>>),
     Glyph(5, <<\h1f, \h18, \h1f, \h18, \h18, \h18, \h18, \h18, \h18, \h18, \h18>>),
     Glyph(7, <<\h3f, \h36, \h36, \h36, \h36, \h36, \h36, \h36, \h36>>),
     Glyph(0, <<\h36, \h36, \h36, \h36, \h36, \h36, \h36, \hff, \h36, \h36, \h36, \h36, \h36, \h36, \h36, \h36>>) >>

Fromd8 ==
  << Glyph(0, <<\h18, \h18, \h18, \h18, \h18, \hff, \h18, \hff, \h18, \h18, \h18, \h18, \h18, \h18, \h18, \h18>>),
     Glyph(0, <<\h18, \h18, \h18, \h18, \h18, \h18, \h18, \hf8>>),
     Glyph(7, <<\h1f, \h18, \h18, \h18, \h18, \h18, \h18, \h18, \h18>>),
     Glyph(0, <<\hff, \hff, \hff, \hff, \hff, \hff, \hff, \hff, \hff, \hff, \hff, \hff, \hff, \hff, \hff, \hff>>),
     Glyph(7, <<\hff, \hff, \hff, \hff, \hff, \hff, \hff, \hff, \hff>>),
     Glyph(0, <<\hf0, \hf0, \hf0, \hf0, \hf0, \hf0, \hf0, \hf0, \hf0, \hf0, \hf0, \hf0, \hf0, \hf0, \hf0, \hf0>>),
     Glyph(0, <<\h0f, \h0f, \h0f, \h0f, \h0f, \h0f, \h0f, \h0f, \h0f, \h0f, \h0f, \h0f, \h0f, \h0f, \h0f, \h0f>>),
     Glyph(0, <<\hff, \hff, \hff, \hff, \hff, \hff, \hff>>) >>

\* Greek letters and mathematical signs.
Frome0 ==
  << Glyph(5, <<\h76, \hdc, \hd8, \hd8, \hd8, \hdc, \h76>>),
     Glyph(2, <<\h78, \hcc, \hcc, \hcc, \hd8, \hcc, \hc6, \hc6, \hc6, \hcc>>),
     Glyph(2, <<\hfe, \hc6, \hc6, \hc0, \hc0, \hc0, \hc0, \hc0, \hc0, \hc0>>),
     Glyph(5, <<\hfe, \h6c, \h6c, \h6c, \h6c, \h6c, \h6c>>),
     Glyph(2, <<\hfe, \hc6, \h60, \h30, \h18, \h18, \h30, \h60, \hc6, \hfe>>),
     Glyph(5, <<\h7e, \hd8, \hd8, \hd8, \hd8, \hd8, \h70>>),
     Glyph(5, <<\h66, \h66, \h66, \h66, \h66, \h66, \h7c, \h60, \h60, \hc0>>),
     Glyph(4, <<\h76, \hdc, \h18, \h18, \h18, \h18, \h18, \h18>>) >>

Frome8 ==
  << Glyph(2, <<\h7e, \h18, \h3c, \h66, \h66, \h66, \h66, \h3c, \h18, \h7e>>),
     Glyph(2, <<\h38, \h6c, \hc6, \hc6, \hfe, \hc6, \hc6, \hc6, \h6c, \h38>>),
     Glyph(2, <<\h38, \h6c, \hc6, \hc6, \hc6, \h6c, \h6c, \h6c, \h6c, \hee>>),
     Glyph(2, <<\h1e, \h30, \h18, \h0c, \h3e, \h66, \h66, \h66, \h66, \h3c>>),
     Glyph(5, <<\h7e, \hdb, \hdb, \hdb, \h7e>>),
     Glyph(3, <<\h03, \h06, \h7e, \hdb, \hdb, \hf3, \h7e, \h60, \hc0>>),
     Glyph(2, <<\h1c, \h30, \h60, \h60, \h7c, \h60, \h60, \h60, \h30, \h1c>>),
     Glyph(3, <<\h7c, \hc6, \hc6, \hc6, \hc6, \hc6, \hc6, \hc6, \hc6>>) >>

Fromf0 ==
  << Glyph(4, <<\hfe, \h00, \h00, \hfe, \h00, \h00, \hfe>>),
     Glyph(4, <<\h18, \h18, \h7e, \h18, \h18, \h00, \h00, \h7e>>),
     Glyph(3, <<\h30, \h18, \h0c, \h06, \h0c, \h18, \h30, \h00, \h7e>>),
     Glyph(3, <<\h0c, \h18, \h30, \h60, \h30, \h18, \h0c, \h00, \h7e>>),
     Glyph(2, <<\h0e, \h1b, \h1b, \h18, \h18, \h18, \h18, \h18, \h18, \h18, \h18, \h18, \h18, \h18>>),
     Glyph(0, <<\h18, \h18, \h18, \h18, \h18, \h18, \h18, \h18, \h18, \hd8, \hd8, \hd8, \h70>>),
     Glyph(5, <<\h18, \h00, \h7e, \h00, \h18>>),
     Glyph(5, <<\h76, \hdc, \h00, \h76, \hdc>>) >>

Fromf8 ==
  << Glyph(1, <<\h38, \h6c, \h6c, \h38>>),
     Glyph(7, <<\h18, \h18>>),
     Glyph(7, <<\h18>>),
     Glyph(1, <<\h0f, \h0c, \h0c, \h0c, \h0c, \h0c, \hec, \h6c, \h6c, \h3c, \h1c>>),
     Glyph(1, <<\h6c, \h36, \h36, \h36, \h36, \h36>>),
     Glyph(1, <<\h3c, \h66, \h0c, \h18, \h32, \h7e>>),
     Glyph(4, <<\h7e, \h7e, \h7e, \h7e, \h7e, \h7e, \h7e>>),
     Blank >>

Glyphs ==
  From00 \o From08 \o From10 \o From18 \o From20 \o From28 \o From30 \o
  From38 \o From40 \o From48 \o From50 \o From58 \o From60 \o From68 \o
  From70 \o From78 \o From80 \o From88 \o From90 \o From98 \o Froma0 \o
  Froma8 \o Fromb0 \o Fromb8 \o Fromc0 \o Fromc8 \o Fromd0 \o Fromd8 \o
  Frome0 \o Frome8 \o Fromf0 \o Fromf8

fontData8x16 ==
  [k \in 1 .. HEIGHT * Len(Glyphs) |-> Glyphs[((k - 1) \div HEIGHT) + 1][((k - 1) % HEIGHT) + 1]]

defaultMonospace == [width |-> 8, height |-> HEIGHT, charCount |-> 256, data |-> fontData8x16]
=============================================================================
