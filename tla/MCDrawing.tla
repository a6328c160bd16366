----------------------------- MODULE MCDrawing -----------------------------
(***************************************************************************)
(* Instances of Drawing: a small screen in all four pixel layouts, with     *)
(* padding behind its rows, and calls that reach over each of its edges.    *)
(* A PNG image comes in all colour types drawn in colour or grey, with      *)
(* every filter, fixed and dynamic codes, repetitions that overlap          *)
(* themselves, two blocks, and chunks cut anywhere.                         *)
(***************************************************************************)
EXTENDS Drawing
F == INSTANCE PngFile

MCWord == 4096
MCGeometries ==
  {[width |-> 5, height |-> 4, pitch |-> p, bpp |-> b, format |-> f] :
     p \in {22}, b \in {32}, f \in {"RGBX", "BGRX"}} \cup
  {[width |-> 5, height |-> 4, pitch |-> p, bpp |-> b, format |-> f] :
     p \in {15, 16}, b \in {24}, f \in {"RGBX", "BGRX"}}

\* Characters: one that sets its corners, and one beyond the font.
MCGlyphs == [c \in {1, 200} |-> IF c = 1 THEN {<<0, 0>>, <<0, 7>>, <<2, 1>>} ELSE {}]
MCNoise == [q \in (0 .. 4) \X (0 .. 3) |-> (q[1] + 2 * q[2]) % 8]

Orange == <<240, 120, 10>>
Teal == <<3, 130, 131>>
A == <<10, 20, 30>>
B == <<11, 200, 30>>

Colors2x3 == <<<<A, B>>, <<A, A>>, <<B, Orange>>>>
Colors3x1 == <<<<A, A, A>>>>
Grey2x2 == <<<<<<10, 10, 10>>, <<12, 12, 12>>>>, <<<<6, 6, 6>>, <<250, 250, 250>>>>>>

\* The pixels of a bottom-up or top-down BMP file, rows padded to four bytes.
BmpFile(picture, bpp, topDown) ==
  LET n == bpp \div 8
      size == ((Len(picture[1]) * n + 3) \div 4) * 4
      row(r) == IF topDown THEN r + 1 ELSE Len(picture) - r
      byte(i) == LET x == (i % size) \div n + 1  c == (i % size) % n
                 IN IF x > Len(picture[1]) \/ c = 3 THEN 77
                    ELSE picture[row(i \div size)][x][3 - c]
  IN [type |-> "BM", bpp |-> bpp, width |-> Len(picture[1]),
      height |-> IF topDown THEN -Len(picture) ELSE Len(picture),
      pixels |-> [i \in 0 .. size * Len(picture) - 1 |-> byte(i)]]

At(x, y, w, h) == [x |-> x, y |-> y, w |-> w, h |-> h]
All == At(0, 0, 5, 4)

Simple ==
  {[kind |-> "fill", color |-> Orange] @@ r :
     r \in {At(1, 1, 2, 2), At(3, 2, 9, 9), At(-2, 1, 4, 2)}} \cup
  {[kind |-> "outline", color |-> Teal] @@ At(1, 0, 3, 3),
   [kind |-> "outline", color |-> Teal] @@ At(3, 1, 4, 2),
   [kind |-> "text", x |-> -7, y |-> 1, text |-> <<1, 200, 1>>, color |-> Teal],
   [kind |-> "text", x |-> -9, y |-> -2, text |-> <<200, 1>>, color |-> Orange],
   [kind |-> "blend", color |-> Teal, opacity |-> 190] @@ At(0, 1, 4, 9),
   [kind |-> "gradient", color |-> Orange, bottom |-> Teal],
   [kind |-> "noise", color |-> Orange] @@ At(2, 1, 5, 2)} \cup
  {[kind |-> "bmp", picture |-> Colors2x3, file |-> BmpFile(Colors2x3, b, t)] @@ r :
     b \in {24, 32}, t \in BOOLEAN, r \in {All, At(1, 2, 2, 9)}}

PngCall(picture, color, filters, shapes, cut) ==
  [kind |-> "png", picture |-> picture,
   file |-> F!File(picture, color, filters, shapes, cut)]

Pngs ==
  {PngCall(Colors2x3, c, <<f, g, 4>>, <<IF c = 2 THEN "fixed" ELSE "flat">>, 3) @@ All :
     c \in {2, 6}, f \in 0 .. 4, g \in {0, 2, 3, 4}} \cup
  {PngCall(Colors3x1, 2, <<0>>, <<s, t>>, cut) @@ At(1, 0, 3, 3) :
     s \in {"fixed", "stairs"}, t \in {"flat", "stairs"}, cut \in {0, 2, 9}} \cup
  {PngCall(Grey2x2, 0, <<f, g>>, <<"stairs", "fixed">>, 4) @@ At(0, 1, 9, 2) :
     f \in 0 .. 4, g \in 0 .. 4}

MCOperations == Simple \cup Pngs

\* The calls are of the kind that the refinement is proved of.
ASSUME InstanceFits == CallsFit
=============================================================================
