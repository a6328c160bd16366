------------------------------- MODULE Raster -------------------------------
(***************************************************************************)
(* Which pixels the loops of src/common/lib/fb.c reach.  Coordinates are    *)
(* uint32_t: a caller's negative int wraps, and so does the end x + w of a  *)
(* loop.  P is the set of points asked about, all of them on the screen:    *)
(* the loops' row < fb->height and put_pixel's own test drop the others.    *)
(***************************************************************************)
EXTENDS Integers, Sequences

CONSTANT Word   \* 2^32, the modulus of uint32_t

ASSUME RasterAssumption == Word \in Nat \ {0}

U(n) == n % Word

\* for (i = from; i < from + n; i++)
Loop(i, from, n) == U(from) <= i /\ i < U(from + n)

\* krexo_fb_fill_rect, krexo_fb_draw_rect_transparent, and the target
\* rectangle of the image functions
Rect(P, x, y, w, h) == {q \in P : Loop(q[1], x, w) /\ Loop(q[2], y, h)}

\* krexo_fb_draw_rect_outline
Outline(P, x, y, w, h) ==
  {q \in P : \/ Loop(q[1], x, w) /\ q[2] \in {U(y), U(y + h - 1)}
             \/ Loop(q[2], y, h) /\ q[1] \in {U(x), U(x + w - 1)}}

\* krexo_fb_draw_string: the character whose 8 x 16 cell holds q, each x + col
\* and y + row being taken modulo 2^32
Column(q, x) == U(q[1] - x) \div 8 + 1
Cells(P, x, y, n) == {q \in P : Column(q, x) <= n /\ U(q[2] - y) < 16}

\* The pixel of an image of n rows or columns that stands at i of size
Scaled(i, n, size) == U(i * n) \div size
=============================================================================
