--------------------------------- MODULE Fb ---------------------------------
(***************************************************************************)
(* The drawing functions of src/common/lib/fb.c, bmp.c and image.c on the   *)
(* bytes of a frame buffer.  A colour 0xRRGGBB is <<red, green, blue>>; the *)
(* fourth byte of a pixel, a copy of the colour's unused top byte, is 0.    *)
(* The multiplications that give each pixel its noise are a constant.       *)
(***************************************************************************)
EXTENDS Raster, FiniteSets

CONSTANTS
  Geometries,   \* krexo_fb_t: [width, height, pitch, bpp, format]
  Operations,   \* calls, see Canvas
  Glyphs,       \* krexo_font8x16: <<row, column>> of the bits that are set
  Noise,        \* the three bits of hash that a pixel's x and y give
  MaxDraws      \* bound on the number of calls

Depth(g) == IF g.bpp = 32 THEN 4 ELSE 3   \* bytes of a pixel

\* What the drivers hand over: rows that fit their pitch, in 32-bit reach.
ASSUME FbAssumption ==
  \A g \in Geometries :
    /\ g.width \in Nat \ {0} /\ g.height \in Nat \ {0} /\ g.pitch \in Nat
    /\ g.bpp \in {24, 32} /\ g.format \in {"RGBX", "BGRX"}
    /\ g.width * Depth(g) <= g.pitch /\ g.height * g.pitch <= Word

VARIABLES
  fb,     \* the krexo_fb_t in use
  mem,    \* bytes from fb->base on, and one row's worth behind the frame
  op,     \* the call made last
  draws   \* calls made so far

fbvars == <<fb, mem, op, draws>>

Points == (0 .. fb.width - 1) \X (0 .. fb.height - 1)
Black == <<0, 0, 0>>

\* Which channel each byte of a pixel holds, 0 for none: at 32 bits a little
\* endian word that RGBX stores with red and blue swapped.
Order ==
  IF fb.bpp = 32 THEN IF fb.format = "RGBX" THEN <<1, 2, 3, 0>> ELSE <<3, 2, 1, 0>>
  ELSE IF fb.format = "BGRX" THEN <<3, 2, 1>> ELSE <<1, 2, 3>>

\* Mutant: four bytes to a pixel in every depth.
AddressFour(q) == U(q[2] * fb.pitch + q[1] * 4)
Address(q) == U(q[2] * fb.pitch + q[1] * Depth(fb))

\* krexo_fb_put_pixel for every point of f, a function to colours: no two
\* pixels of the screen share a byte.
PutPixels(f) ==
  [a \in DOMAIN mem |->
     IF \E q \in DOMAIN f : a - Address(q) \in 0 .. Depth(fb) - 1
       THEN LET q == CHOOSE q \in DOMAIN f : a - Address(q) \in 0 .. Depth(fb) - 1
                channel == Order[a - Address(q) + 1]
            IN IF channel = 0 THEN 0 ELSE f[q][channel]
       ELSE mem[a]]

\* krexo_fb_get_pixel reads 32-bit pixels only.
GetPixel(q) ==
  IF fb.bpp # 32 THEN Black
  ELSE [i \in 1 .. 3 |->
          mem[Address(q) + (CHOOSE k \in 1 .. 4 : Order[k] = i) - 1]]

-----------------------------------------------------------------------------
(* The calls: which points get which colour *)

\* Mutant: the rectangle is one column wider.
ToFillWide(o) == [q \in Rect(Points, o.x, o.y, o.w + 1, o.h) |-> o.color]
ToFill(o) == [q \in Rect(Points, o.x, o.y, o.w, o.h) |-> o.color]

ToOutline(o) == [q \in Outline(Points, o.x, o.y, o.w, o.h) |-> o.color]

\* krexo_fb_draw_string and krexo_fb_draw_char: codes from 128 on only move
\* x forward.
ToText(o) ==
  [q \in {q \in Cells(Points, o.x, o.y, Len(o.text)) :
            LET c == o.text[Column(q, o.x)]
            IN /\ c < 128
               /\ <<U(q[2] - o.y), U(q[1] - o.x) % 8>> \in Glyphs[c]} |-> o.color]

ToBlend(o) ==
  [q \in Rect(Points, o.x, o.y, o.w, o.h) |->
     LET bg == GetPixel(q)
     IN [i \in 1 .. 3 |->
           ((o.color[i] * o.opacity + bg[i] * (255 - o.opacity)) \div 256) % 256]]

\* int / int rounds towards zero.
Quotient(a, b) == IF a >= 0 THEN a \div b ELSE -((-a) \div b)

ToGradient(o) ==
  [q \in Points |->
     [i \in 1 .. 3 |->
        (o.color[i] + Quotient((o.bottom[i] - o.color[i]) * q[2], fb.height)) % 256]]

\* Only the 32-bit loop has the vertical fade, and it stores the channels in
\* the opposite order of put_pixel.
ToNoise(o) ==
  [q \in Rect(Points, o.x, o.y, o.w, o.h) |->
     LET base(i) == IF fb.bpp = 32
                      THEN (o.color[i] * (fb.height - q[2])) \div fb.height
                      ELSE o.color[i]
         dark(i) == IF base(i) > Noise[q] THEN base(i) - Noise[q] ELSE 0
     IN [i \in 1 .. 3 |-> dark(IF fb.bpp = 32 THEN 4 - i ELSE i)]]

\* krexo_fb_draw_bmp_rect.  file.pixels is indexed from 0; a negative height
\* means that the first row stored is the top one.
ToBmp(o) ==
  LET file == o.file
      rows == IF file.height < 0 THEN -file.height ELSE file.height
      bytes == file.bpp \div 8
      row_size == ((file.width * bytes + 3) \div 4) * 4
      src_y(q) == Scaled(q[2], rows, fb.height)
      row(q) == IF file.height < 0 THEN src_y(q) ELSE rows - 1 - src_y(q)
      at(q) == row(q) * row_size + Scaled(q[1], file.width, fb.width) * bytes
  IN IF file.type # "BM" \/ file.bpp \notin {24, 32} THEN <<>>
     ELSE [q \in Rect(Points, o.x, o.y, o.w, o.h) |->
             [i \in 1 .. 3 |-> file.pixels[at(q) + 3 - i]]]

-----------------------------------------------------------------------------

FbInit ==
  /\ fb \in Geometries
  /\ mem = [a \in 0 .. fb.pitch * (fb.height + 1) - 1 |-> (37 * a) % 256]   \* whatever was there
  /\ op = [kind |-> "none"]
  /\ draws = 0

\* One call that paints the points of f.
Paint(o, f) ==
  /\ draws < MaxDraws /\ draws' = draws + 1
  /\ op' = o
  /\ mem' = PutPixels(f)
  /\ UNCHANGED fb

Perform(o) ==
  \/ o.kind = "fill" /\ Paint(o, ToFill(o))
  \/ o.kind = "outline" /\ Paint(o, ToOutline(o))
  \/ o.kind = "text" /\ Paint(o, ToText(o))
  \/ o.kind = "blend" /\ Paint(o, ToBlend(o))
  \/ o.kind = "gradient" /\ Paint(o, ToGradient(o))
  \/ o.kind = "noise" /\ Paint(o, ToNoise(o))
  \/ o.kind = "bmp" /\ Paint(o, ToBmp(o))

-----------------------------------------------------------------------------
(* Properties *)

\* The bytes of the visible part of a row; the rest of the pitch is padding.
InRow(a, g) ==
  \E y \in 0 .. g.height - 1 :
    y * g.pitch <= a /\ a < y * g.pitch + g.width * Depth(g)

\* No call writes the padding behind a row or memory behind the frame,
\* whatever its rectangle, text or image is.
PaddingUntouched ==
  [][\A a \in DOMAIN mem : mem'[a] # mem[a] => InRow(a, fb)]_fbvars

\* The hardware shows the bytes in the order its format names, which knows
\* nothing of the code: the first byte is red in an RGBX mode.
Shown(q) ==
  LET a == q[2] * fb.pitch + q[1] * Depth(fb)
  IN IF fb.format = "RGBX" THEN <<mem[a], mem[a + 1], mem[a + 2]>>
     ELSE <<mem[a + 2], mem[a + 1], mem[a]>>

Screen == INSTANCE Canvas WITH
  Screens <- {[width |-> g.width, height |-> g.height, readable |-> g.bpp = 32] :
                g \in Geometries},
  screen <- [width |-> fb.width, height |-> fb.height, readable |-> fb.bpp = 32],
  canvas <- [q \in Points |-> Shown(q)]

\* Every call changes exactly the points and to exactly the colours that the
\* canvas promises, in every depth and channel order.
ImplementsCanvas == Screen!Spec
=============================================================================
