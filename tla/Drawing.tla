------------------------------ MODULE Drawing ------------------------------
(***************************************************************************)
(* The drawing functions and the PNG decoder together: a program makes one  *)
(* call after another, and a call for a PNG image decodes it first.         *)
(***************************************************************************)
EXTENDS Fb, Png

VARIABLE call   \* the PNG call that is being worked on

drawing == <<fbvars, pngvars, call>>

DrawingInit == FbInit /\ Idle /\ call = op

\* A call other than for a PNG image is one step.
Call(o) == stage = "idle" /\ Perform(o) /\ UNCHANGED <<pngvars, call>>

CallPng(o) ==
  /\ o.kind = "png" /\ draws < MaxDraws
  /\ Open(o.file) /\ call' = o
  /\ UNCHANGED fbvars

\* The loop that draws what was decoded, scaled to the screen.
DrawPng ==
  /\ Close
  /\ Paint(call, [q \in Rect(Points, call.x, call.y, call.w, call.h) |->
                    PngColor(Scaled(q[1], ihdr.width, fb.width),
                             Scaled(q[2], ihdr.height, fb.height))])
  /\ UNCHANGED call

Work == (Decode /\ UNCHANGED <<fbvars, call>>) \/ DrawPng

AllDrawn == stage = "idle" /\ draws = MaxDraws /\ UNCHANGED drawing

DrawingNext == Work \/ AllDrawn \/ \E o \in Operations : Call(o) \/ CallPng(o)

DrawingSpec == DrawingInit /\ [][DrawingNext]_drawing

-----------------------------------------------------------------------------
(* What the canvas takes for granted of a call; see CallsFit. *)

Tint == [1 .. 3 -> 0 .. 255]

\* Neither end of the rectangle wraps, but for a start left of or above the
\* screen.
Placed(o, g) ==
  /\ o.x \in Int /\ o.y \in Int /\ o.w \in Nat /\ o.h \in Nat
  /\ o.x + o.w < Word /\ o.y + o.h < Word
  /\ g.width - o.x <= Word /\ g.height - o.y <= Word

OnScreen(o, g) == Placed(o, g) /\ o.x >= 0 /\ o.y >= 0

\* The text's cells do not wrap, on either side of the screen.
TextFits(o, g) ==
  /\ o.text \in Seq(DOMAIN Glyphs) /\ o.x \in Int /\ o.y \in Int
  /\ o.x + 8 * Len(o.text) <= Word /\ o.y + 16 <= Word
  /\ g.width - o.x <= Word /\ g.height - o.y <= Word

\* A picture of rows x cols colours, small enough to be scaled in 32 bits.
PictureFits(picture, g) ==
  LET rows == Len(picture)
      cols == Len(picture[1])
  IN /\ rows \in Nat \ {0} /\ cols \in Nat \ {0}
     /\ picture \in [1 .. rows -> [1 .. cols -> Tint]]
     /\ g.width * cols < Word /\ g.height * rows < Word

\* A BMP file of the picture: rows bottom up, or top down with a negative
\* height, each padded to four bytes, blue first.
BmpHolds(file, picture) ==
  LET rows == Len(picture)
      cols == Len(picture[1])
      bytes == file.bpp \div 8
      row_size == ((cols * bytes + 3) \div 4) * 4
  IN /\ file.type = "BM" /\ file.bpp \in {24, 32}
     /\ file.width = cols /\ file.height \in {rows, -rows}
     /\ \A y \in 0 .. rows - 1, x \in 0 .. cols - 1, i \in 1 .. 3 :
          LET row == IF file.height < 0 THEN y ELSE rows - 1 - y
          IN file.pixels[row * row_size + x * bytes + 3 - i] = picture[y + 1][x + 1][i]

\* The chunks of a PNG file: IHDR gives the picture's size, IEND is the last.
PngFrames(file, picture) ==
  /\ file \in Seq({file[i] : i \in DOMAIN file})
  /\ Len(file) > 0 /\ file[Len(file)].type = "IEND"
  /\ \A i \in DOMAIN file : file[i].type = "IHDR" =>
       file[i].width = Len(picture[1]) /\ file[i].height = Len(picture)

\* Calls with colours of three bytes, rectangles and texts whose ends do not
\* wrap, none but a fill or a text starting left of or above the screen, and
\* images in the formats the decoders read.
CallFits(o, g) ==
  /\ o.kind \in {"fill", "outline", "text", "blend", "gradient", "noise"} =>
       o.color \in Tint
  /\ o.kind = "fill" => Placed(o, g)
  /\ o.kind \in {"outline", "blend", "noise", "bmp", "png"} => OnScreen(o, g)
  /\ o.kind = "outline" => o.w > 0 /\ o.h > 0
  /\ o.kind = "text" => TextFits(o, g)
  /\ o.kind = "blend" => o.opacity \in 0 .. 255
  /\ o.kind = "gradient" => o.bottom \in Tint
  /\ o.kind \in {"bmp", "png"} => PictureFits(o.picture, g)
  /\ o.kind = "bmp" => BmpHolds(o.file, o.picture)
  /\ o.kind = "png" => PngFrames(o.file, o.picture)

CallsFit ==
  /\ \A o \in Operations, g \in Geometries : CallFits(o, g)
  /\ DOMAIN Glyphs \subseteq Nat
  /\ \A c \in DOMAIN Glyphs : Glyphs[c] \subseteq IF c < 128 THEN (0 .. 15) \X (0 .. 7) ELSE {}
  /\ \A g \in Geometries :
       \A q \in (0 .. g.width - 1) \X (0 .. g.height - 1) : Noise[q] \in Nat

-----------------------------------------------------------------------------
(* Properties *)

\* What the decoder leaves in its buffer is the picture the file was made
\* from, whatever filters, codes, repetitions, blocks and chunks it uses.
PictureRestored ==
  stage = "ready" =>
    \A y \in DOMAIN call.picture : \A x \in DOMAIN call.picture[y] :
      PngColor(x - 1, y - 1) = call.picture[y][x]
=============================================================================
