------------------------------- MODULE Canvas -------------------------------
(***************************************************************************)
(* What the drawing functions declared in include/common/fb.h promise: a    *)
(* screen of width x height points, each with a colour <<red, green, blue>>, *)
(* and operations that change the points they name and no others.           *)
(* Coordinates are integers; what lies outside the screen is cut off.       *)
(***************************************************************************)
EXTENDS Integers, Sequences

CONSTANTS
  Screens,      \* [width, height, readable]
  Glyphs        \* for each character the <<row, column>> pairs its glyph sets

VARIABLES
  screen,  \* one of Screens
  canvas,  \* the colour of each point
  op       \* the operation applied last

Byte == 0 .. 255
Color == Byte \X Byte \X Byte
Points == (0 .. screen.width - 1) \X (0 .. screen.height - 1)

Inside(o, q) ==
  q[1] \in o.x .. o.x + o.w - 1 /\ q[2] \in o.y .. o.y + o.h - 1

OnEdge(o, q) ==
  Inside(o, q) /\ (q[1] \in {o.x, o.x + o.w - 1} \/ q[2] \in {o.y, o.y + o.h - 1})

OnText(o, q) ==
  \E i \in DOMAIN o.text : LET dx == q[1] - (o.x + 8 * (i - 1))
                               dy == q[2] - o.y
                           IN <<dy, dx>> \in Glyphs[o.text[i]]

\* Opacity 0 .. 255 of the new colour; both weights are out of 256.
Mixed(new, old, opacity) ==
  [i \in 1 .. 3 |-> (new[i] * opacity + old[i] * (255 - opacity)) \div 256]

Between(lo, c, hi) ==
  \A i \in 1 .. 3 : c[i] \in lo[i] .. hi[i] \/ c[i] \in hi[i] .. lo[i]

\* Row y of the picture drawn over the whole screen, column x.
Scaled(picture, q) ==
  picture[(q[2] * Len(picture)) \div screen.height + 1]
         [(q[1] * Len(picture[1])) \div screen.width + 1]

Brightest(c) == CHOOSE m \in {c[1], c[2], c[3]} : \A i \in 1 .. 3 : c[i] <= m

\* How o may change point q from colour old to colour new.  Blending needs
\* what is already there, and a screen that cannot be read back counts as
\* black.  A rectangle that starts left of or above the screen is left out
\* altogether, a text is cut off.
Effect(o, q, old, new) ==
  CASE o.kind = "fill" ->
         new = IF Inside(o, q) /\ o.x >= 0 /\ o.y >= 0 THEN o.color ELSE old
    [] o.kind = "outline" -> new = IF OnEdge(o, q) THEN o.color ELSE old
    [] o.kind = "text" -> new = IF OnText(o, q) THEN o.color ELSE old
    [] o.kind = "blend" ->
         new = IF Inside(o, q)
                 THEN Mixed(o.color, IF screen.readable THEN old ELSE <<0, 0, 0>>,
                            o.opacity)
                 ELSE old
    [] o.kind = "gradient" ->
         /\ Between(o.color, new, o.bottom)
         /\ q[2] = 0 => new = o.color
    [] o.kind = "noise" ->
         IF Inside(o, q) THEN \A i \in 1 .. 3 : new[i] <= Brightest(o.color)
         ELSE new = old
    [] o.kind \in {"bmp", "png"} ->
         new = IF Inside(o, q) THEN Scaled(o.picture, q) ELSE old
    [] OTHER -> new = old

Init ==
  /\ screen \in Screens
  /\ canvas \in [Points -> Color]
  /\ op = [kind |-> "none"]

\* The operation op', whichever it is, is applied.
Next ==
  /\ UNCHANGED screen
  /\ DOMAIN canvas' = Points
  /\ \A q \in Points : Effect(op', q, canvas[q], canvas'[q])

Spec == Init /\ [][Next]_<<screen, canvas, op>>
=============================================================================
