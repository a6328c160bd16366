--------------------------- MODULE ScreenProofs ---------------------------
(***************************************************************************)
(* Proofs about what is on the screen: a drawing call stays inside the      *)
(* visible part of the frame buffer and changes there what fb.h promises,   *)
(* for every geometry the drivers may hand over; the boot menu's partial    *)
(* repaints show what a full redraw would, it boots the entry that is       *)
(* highlighted, and its editor saves the text that is on the screen, for    *)
(* every screen the menu's box fits.                                        *)
(***************************************************************************)
EXTENDS Drawing, Menu, SequenceTheorems, WellFoundedInduction, TLAPS

\* A byte of a pixel of the screen lies in its row, before the padding.
LEMMA PixelInRow ==
  ASSUME NEW w \in Nat, NEW d \in {3, 4},
         NEW x \in 0 .. w - 1, NEW i \in 0 .. d - 1
  PROVE  x * d \in Nat /\ x * d + i < w * d
PROOF
<1>1. CASE d = 3 BY <1>1
<1>2. CASE d = 4 BY <1>2
<1> QED BY <1>1, <1>2

\* Row y ends before the end of the frame.
LEMMA RowInFrame ==
  ASSUME NEW h \in Nat, NEW pitch \in Nat, NEW y \in 0 .. h - 1
  PROVE  y * pitch \in Nat /\ h * pitch \in Nat /\ y * pitch + pitch <= h * pitch
PROOF
<1>1. y * pitch \in Nat /\ h * pitch \in Nat OBVIOUS
<1>2. (y + 1) * pitch <= h * pitch
  <2>1. y + 1 <= h OBVIOUS
  <2> QED BY <2>1
<1>3. (y + 1) * pitch = y * pitch + pitch OBVIOUS
<1> QED BY <1>1, <1>2, <1>3

\* A number that fits 32 bits does not wrap.
LEMMA NoWrap == ASSUME NEW n \in Nat, n < Word PROVE U(n) = n
PROOF BY RasterAssumption DEF U

\* What the call steps rely on: a known geometry, and addresses that count.
FrameKnown == fb \in Geometries /\ DOMAIN mem \subseteq Nat

\* Writing a set of points of the screen changes bytes of visible rows only.
LEMMA PutPixelsInRows ==
  ASSUME FrameKnown, NEW f, DOMAIN f \subseteq Points, NEW a \in DOMAIN mem,
         PutPixels(f)[a] # mem[a]
  PROVE  InRow(a, fb)
PROOF
<1>1. PICK q \in DOMAIN f : a - Address(q) \in 0 .. Depth(fb) - 1
  BY DEF PutPixels
<1>2. PICK x \in 0 .. fb.width - 1, y \in 0 .. fb.height - 1 : q = <<x, y>>
  BY <1>1 DEF Points
<1>3. /\ fb.width \in Nat /\ fb.height \in Nat /\ fb.pitch \in Nat
      /\ fb.width * Depth(fb) <= fb.pitch /\ fb.height * fb.pitch <= Word
      /\ Depth(fb) \in {3, 4} /\ a \in Nat
  BY FbAssumption DEF FrameKnown, Depth
<1> DEFINE d == Depth(fb)
<1> DEFINE w == fb.width  h == fb.height  pit == fb.pitch
           v == y * pit  u == x * d  e == w * d
<1>4. /\ w \in Nat /\ x \in 0 .. w - 1 /\ d \in {3, 4}
      /\ h \in Nat /\ y \in 0 .. h - 1 /\ pit \in Nat
  BY <1>2, <1>3
<1>5. \A i \in 0 .. d - 1 : u \in Nat /\ u + i < e
  <2> HIDE DEF w, d
  <2> QED BY <1>4, PixelInRow
<1>6. v \in Nat /\ h * pit \in Nat /\ v + pit <= h * pit
  <2> HIDE DEF h, pit
  <2> QED BY <1>4, RowInFrame
<1>7. e <= pit /\ h * pit <= Word /\ Word \in Nat /\ e \in Nat
  BY <1>3, RasterAssumption
<1>8. u \in Nat /\ u < e
  <2>1. 0 \in 0 .. d - 1 BY <1>3
  <2> HIDE DEF u, e, d
  <2>2. u \in Nat /\ u + 0 < e BY <1>5, <2>1
  <2> QED BY <2>2
<1>9. Address(q) = v + u
  <2>1. Address(q) = U(v + u) BY <1>2 DEF Address
  <2>2. v + u \in Nat /\ v + u < Word
    <3> DEFINE hp == h * pit
    <3> HIDE DEF v, u, e, hp, pit
    <3> QED BY <1>4, <1>6, <1>7, <1>8 DEF hp
  <2> HIDE DEF v, u
  <2> QED BY <2>1, <2>2, NoWrap
<1>10. v <= a /\ a < v + e
  <2> DEFINE i == a - Address(q)
  <2>1. i \in 0 .. d - 1 BY <1>1
  <2>2. u + i < e /\ a \in Nat BY <1>3, <1>5, <2>1
  <2> HIDE DEF v, u, e, d
  <2> QED BY <1>3, <1>6, <1>7, <1>8, <1>9, <2>1, <2>2
<1> QED BY <1>2, <1>10 DEF InRow

\* Every step is a call that paints points of the screen, or leaves it alone.
LEMMA StepPaints ==
  ASSUME [DrawingNext]_drawing
  PROVE  /\ fb' = fb
         /\ \/ mem' = mem
            \/ \E f : DOMAIN f \subseteq Points /\ mem' = PutPixels(f)
PROOF
<1> DEFINE Goal == /\ fb' = fb
                   /\ \/ mem' = mem
                      \/ \E f : DOMAIN f \subseteq Points /\ mem' = PutPixels(f)
<1>1. CASE UNCHANGED drawing
  BY <1>1 DEF drawing, fbvars
<1>2. ASSUME NEW o, Call(o) PROVE Goal
  <2>0. ASSUME NEW f, DOMAIN f \subseteq Points, Paint(o, f) PROVE Goal
    BY <2>0 DEF Paint
  <2>1. ASSUME NEW x, NEW y, NEW w, NEW h
        PROVE  /\ Rect(Points, x, y, w, h) \subseteq Points
               /\ Outline(Points, x, y, w, h) \subseteq Points
               /\ Cells(Points, x, y, w) \subseteq Points
    BY DEF Rect, Outline, Cells
  <2>2. CASE o.kind = "fill" /\ Paint(o, ToFill(o))
    BY <2>0, <2>1, <2>2 DEF ToFill
  <2>3. CASE o.kind = "outline" /\ Paint(o, ToOutline(o))
    BY <2>0, <2>1, <2>3 DEF ToOutline
  <2>4. CASE o.kind = "text" /\ Paint(o, ToText(o))
    <3>1. DOMAIN ToText(o) \subseteq Points BY <2>1 DEF ToText
    <3> QED BY <2>0, <2>4, <3>1
  <2>5. CASE o.kind = "blend" /\ Paint(o, ToBlend(o))
    BY <2>0, <2>1, <2>5 DEF ToBlend
  <2>6. CASE o.kind = "gradient" /\ Paint(o, ToGradient(o))
    BY <2>0, <2>6 DEF ToGradient
  <2>7. CASE o.kind = "noise" /\ Paint(o, ToNoise(o))
    BY <2>0, <2>1, <2>7 DEF ToNoise
  <2>8. CASE o.kind = "bmp" /\ Paint(o, ToBmp(o))
    <3>1. DOMAIN ToBmp(o) \subseteq Points BY <2>1 DEF ToBmp
    <3> QED BY <2>0, <2>8, <3>1
  <2> QED BY <1>2, <2>2, <2>3, <2>4, <2>5, <2>6, <2>7, <2>8 DEF Call, Perform
<1>3. ASSUME NEW o, CallPng(o) PROVE Goal
  BY <1>3 DEF CallPng, fbvars
<1>4. CASE DrawPng
  <2> DEFINE f == [q \in Rect(Points, call.x, call.y, call.w, call.h) |->
                     PngColor(Scaled(q[1], ihdr.width, fb.width),
                              Scaled(q[2], ihdr.height, fb.height))]
  <2>1. Paint(call, f) BY <1>4 DEF DrawPng
  <2>2. DOMAIN f \subseteq Points BY DEF Rect
  <2> HIDE DEF f
  <2> QED BY <2>1, <2>2 DEF Paint
<1>5. CASE Decode /\ UNCHANGED <<fbvars, call>>
  BY <1>5 DEF fbvars
<1>6. CASE AllDrawn
  BY <1>6 DEF AllDrawn, drawing, fbvars
<1> QED BY <1>1, <1>2, <1>3, <1>4, <1>5, <1>6 DEF DrawingNext, Work

\* The geometry and the extent of memory stay what they were.
LEMMA FrameKnownStays == DrawingSpec => []FrameKnown
PROOF
<1>1. DrawingInit => FrameKnown
  <2> SUFFICES ASSUME DrawingInit PROVE FrameKnown OBVIOUS
  <2>1. fb \in Geometries /\ DOMAIN mem = 0 .. fb.pitch * (fb.height + 1) - 1
    BY DEF DrawingInit, FbInit
  <2> QED BY <2>1 DEF FrameKnown
<1>2. FrameKnown /\ [DrawingNext]_drawing => FrameKnown'
  <2> SUFFICES ASSUME FrameKnown, [DrawingNext]_drawing PROVE FrameKnown' OBVIOUS
  <2>1. DOMAIN mem' = DOMAIN mem BY StepPaints DEF PutPixels
  <2> QED BY <2>1, StepPaints DEF FrameKnown
<1> QED BY <1>1, <1>2, PTL DEF DrawingSpec

\* No call writes the padding of a row or memory behind the frame: for every
\* geometry, pixel layout and rectangle, text or image.
THEOREM DrawingStaysInRows == DrawingSpec => PaddingUntouched
PROOF
<1>1. FrameKnown /\ [DrawingNext]_drawing =>
        [\A a \in DOMAIN mem : mem'[a] # mem[a] => InRow(a, fb)]_fbvars
  <2> SUFFICES ASSUME FrameKnown, [DrawingNext]_drawing, NEW a \in DOMAIN mem, mem'[a] # mem[a]
               PROVE  InRow(a, fb)
    OBVIOUS
  <2>1. PICK f : DOMAIN f \subseteq Points /\ mem' = PutPixels(f)
    BY StepPaints
  <2> QED BY <2>1, PutPixelsInRows
<1> QED BY <1>1, FrameKnownStays, PTL DEF DrawingSpec, PaddingUntouched

-----------------------------------------------------------------------------
(* The canvas: what a call changes on the screen *)

\* Memory as the calls leave it: bytes for the frame and a row behind it.
MemKnown ==
  fb \in Geometries /\ mem \in [0 .. fb.pitch * (fb.height + 1) - 1 -> 0 .. 255]

LEMMA FbKnown ==
  ASSUME fb \in Geometries
  PROVE  /\ fb.width \in Nat \ {0} /\ fb.height \in Nat \ {0} /\ fb.pitch \in Nat
         /\ fb.bpp \in {24, 32} /\ fb.format \in {"RGBX", "BGRX"}
         /\ Depth(fb) = (IF fb.bpp = 32 THEN 4 ELSE 3) /\ Depth(fb) \in {3, 4}
         /\ fb.width * Depth(fb) <= fb.pitch /\ fb.height * fb.pitch <= Word
         /\ Word \in Nat \ {0}
PROOF
BY FbAssumption, RasterAssumption DEF Depth

\* Where a pixel lies, and that a place in a row tells the row and the pixel.
LEMMA RowsApart ==
  ASSUME NEW pit \in Nat, NEW y \in Nat, NEW z \in Nat,
         NEW s \in 0 .. pit - 1, NEW t \in 0 .. pit - 1,
         y * pit + s = z * pit + t
  PROVE  y = z /\ s = t
PROOF
<1>1. ASSUME NEW m \in Nat, NEW n \in Nat, m < n PROVE m * pit + pit <= n * pit
  <2>1. m + 1 <= n
    BY <1>1
  <2>2. (m + 1) * pit <= n * pit
    BY <2>1
  <2>3. (m + 1) * pit = m * pit + pit
    OBVIOUS
  <2> QED
    BY <2>2, <2>3
<1> DEFINE a == y * pit
           b == z * pit
<1>2. a \in Nat /\ b \in Nat
  OBVIOUS
<1>3. CASE y < z
  <2>1. a + pit <= b
    BY <1>1, <1>3
  <2> HIDE DEF a, b
  <2> QED
    BY <1>2, <2>1 DEF a, b
<1>4. CASE z < y
  <2>1. b + pit <= a
    BY <1>1, <1>4
  <2> HIDE DEF a, b
  <2> QED
    BY <1>2, <2>1 DEF a, b
<1>5. CASE y = z
  <2>1. a = b
    BY <1>5
  <2> HIDE DEF a, b
  <2> QED
    BY <1>2, <1>5, <2>1 DEF a, b
<1> QED
  BY <1>3, <1>4, <1>5

LEMMA PixelPlace ==
  ASSUME fb \in Geometries, NEW q \in Points
  PROVE  /\ q = <<q[1], q[2]>> /\ q[1] \in 0 .. fb.width - 1 /\ q[2] \in 0 .. fb.height - 1
         /\ Address(q) = q[2] * fb.pitch + q[1] * Depth(fb)
         /\ q[2] * fb.pitch \in Nat
         /\ \A i \in 0 .. Depth(fb) - 1 :
              /\ q[1] * Depth(fb) + i \in 0 .. fb.pitch - 1
              /\ Address(q) + i \in 0 .. fb.pitch * (fb.height + 1) - 1
PROOF
<1>1. /\ q = <<q[1], q[2]>> /\ q[1] \in 0 .. fb.width - 1 /\ q[2] \in 0 .. fb.height - 1
  BY DEF Points
<1> DEFINE d == Depth(fb)
           w == fb.width
           h == fb.height
           pit == fb.pitch
           u == q[1] * d
           v == q[2] * pit
           e == w * d
           all == h * pit
<1>2. /\ w \in Nat /\ h \in Nat /\ pit \in Nat /\ d \in {3, 4} /\ e <= pit
      /\ all <= Word /\ Word \in Nat
  BY FbKnown
<1>3. \A i \in 0 .. d - 1 : u \in Nat /\ u + i < e
  <2> HIDE DEF w, d
  <2> QED
    BY <1>1, <1>2, PixelInRow DEF w
<1>4. v \in Nat /\ all \in Nat /\ v + pit <= all
  <2> HIDE DEF h, pit
  <2> QED
    BY <1>1, <1>2, RowInFrame DEF h
<1> DEFINE n == pit * (h + 1)
<1>5. n = all + pit
  <2> HIDE DEF h, pit
  <2> QED
    BY <1>2
<1>6. e \in Nat /\ 0 \in 0 .. d - 1
  <2> HIDE DEF w, d
  <2> QED
    BY <1>2
<1>7. u \in Nat /\ u < e
  <2>1. u \in Nat /\ u + 0 < e
    BY <1>3, <1>6
  <2> HIDE DEF u, e
  <2> QED
    BY <1>6, <2>1
<1>8. Address(q) = v + u
  <2>1. Address(q) = U(v + u)
    BY DEF Address
  <2>2. v + u \in Nat /\ v + u < Word
    <3> HIDE DEF v, u, e, all, pit, d
    <3> QED
      BY <1>2, <1>4, <1>6, <1>7
  <2> HIDE DEF v, u
  <2> QED
    BY <2>1, <2>2, NoWrap
<1>9. ASSUME NEW i \in 0 .. d - 1
      PROVE  u + i \in 0 .. pit - 1 /\ Address(q) + i \in 0 .. all + pit - 1
  <2>1. u + i < e
    BY <1>3
  <2> HIDE DEF v, u, e, all, pit, d
  <2> QED
    BY <1>2, <1>4, <1>6, <1>7, <1>8, <2>1
<1>10. \A i \in 0 .. d - 1 : u + i \in 0 .. pit - 1 /\ Address(q) + i \in 0 .. n - 1
  <2>1. all \in Int /\ pit \in Int
    BY <1>2, <1>4
  <2>2. ASSUME NEW z, z \in 0 .. all + pit - 1 PROVE z \in 0 .. n - 1
    <3> HIDE DEF all, pit, n
    <3> QED
      BY <1>5, <2>1, <2>2
  <2> HIDE DEF u, all, pit, d, h, n
  <2> QED
    BY <1>9, <2>2
<1> QED
  BY <1>1, <1>4, <1>8, <1>10

\* No two pixels share a byte.
LEMMA PixelsApart ==
  ASSUME fb \in Geometries, NEW q \in Points, NEW r \in Points,
         NEW a \in Int,
         a - Address(q) \in 0 .. Depth(fb) - 1, a - Address(r) \in 0 .. Depth(fb) - 1
  PROVE  r = q
PROOF
<1> DEFINE d == Depth(fb)
           pit == fb.pitch
           i == a - Address(q)
           j == a - Address(r)
           s == q[1] * d + i
           t == r[1] * d + j
<1>1. /\ q = <<q[1], q[2]>> /\ r = <<r[1], r[2]>>
      /\ q[1] \in Nat /\ q[2] \in Nat /\ r[1] \in Nat /\ r[2] \in Nat
      /\ pit \in Nat /\ d \in {3, 4}
  BY PixelPlace, FbKnown
<1>2. /\ s \in 0 .. pit - 1 /\ t \in 0 .. pit - 1
      /\ Address(q) = q[2] * pit + q[1] * d
      /\ Address(r) = r[2] * pit + r[1] * d
      /\ q[2] * pit \in Nat /\ r[2] * pit \in Nat
  BY PixelPlace
<1>3. q[1] * d \in Nat /\ r[1] * d \in Nat
  <2> HIDE DEF d
  <2> QED
    BY <1>1
<1>4. j \in 0 .. d - 1 /\ i \in 0 .. d - 1
  OBVIOUS
<1>5. q[2] * pit + s = r[2] * pit + t
  <2> DEFINE k == q[2] * pit
             b == r[2] * pit
             m == q[1] * d
             n == r[1] * d
  <2>1. /\ i = a - (k + m) /\ j = a - (b + n)
        /\ k \in Nat /\ b \in Nat /\ m \in Nat /\ n \in Nat
    BY <1>2, <1>3
  <2> HIDE DEF k, b, m, n, i, j, d
  <2>2. k + (m + i) = b + (n + j)
    BY <1>1, <1>4, <2>1
  <2> QED
    BY <2>2 DEF k, b, m, n
<1>6. q[2] = r[2] /\ s = t
  <2> HIDE DEF s, t, pit
  <2> QED
    BY <1>1, <1>2, <1>5, RowsApart
<1>7. i = j /\ q[1] = r[1]
  <2>1. q[1] * d + i = r[1] * d + j
    BY <1>6
  <2> HIDE DEF i, j
  <2>2. i \in 0 .. d - 1 /\ j \in 0 .. d - 1 /\ d \in Nat
    BY <1>1, <1>4
  <2> HIDE DEF d
  <2> QED
    BY <1>1, <2>1, <2>2, RowsApart
<1> QED
  BY <1>1, <1>6, <1>7

\* A call's pixels get their bytes, the others keep theirs.
LEMMA PixelPainted ==
  ASSUME MemKnown, NEW f, DOMAIN f \subseteq Points,
         NEW q \in Points, NEW i \in 0 .. Depth(fb) - 1
  PROVE  PutPixels(f)[Address(q) + i] =
           IF q \in DOMAIN f THEN IF Order[i + 1] = 0 THEN 0 ELSE f[q][Order[i + 1]]
           ELSE mem[Address(q) + i]
PROOF
<1> DEFINE a == Address(q) + i
<1>1. /\ fb \in Geometries /\ DOMAIN mem = 0 .. fb.pitch * (fb.height + 1) - 1
      /\ a \in DOMAIN mem
  BY PixelPlace DEF MemKnown
<1>2. i \in Int /\ Address(q) \in Int /\ a \in Int /\ a - Address(q) = i
  <2>1. Depth(fb) \in Nat
    BY <1>1, FbKnown
  <2>2. i \in Int
    <3> DEFINE d == Depth(fb)
    <3>1. i \in 0 .. d - 1 /\ d \in Nat
      BY <2>1
    <3> HIDE DEF d
    <3> QED
      BY <3>1
  <2>3. Address(q) = q[2] * fb.pitch + q[1] * Depth(fb)
    BY <1>1, PixelPlace
  <2>4. q[2] * fb.pitch \in Int /\ q[1] * Depth(fb) \in Int
    BY <1>1, PixelPlace, FbKnown
  <2> DEFINE b == Address(q)
  <2>5. b \in Int
    BY <2>3, <2>4
  <2> HIDE DEF b
  <2>6. b + i \in Int /\ (b + i) - b = i
    BY <2>2, <2>5
  <2> QED
    BY <2>2, <2>5, <2>6 DEF b
<1>3. a - Address(q) \in 0 .. Depth(fb) - 1
  BY <1>2, Zenon
<1>4. \A r \in DOMAIN f : a - Address(r) \in 0 .. Depth(fb) - 1 => r = q
  BY <1>1, <1>3, PixelsApart
<1>5. PutPixels(f)[a] =
        IF \E r \in DOMAIN f : a - Address(r) \in 0 .. Depth(fb) - 1
          THEN LET r == CHOOSE r \in DOMAIN f : a - Address(r) \in 0 .. Depth(fb) - 1
                   channel == Order[a - Address(r) + 1]
               IN IF channel = 0 THEN 0 ELSE f[r][channel]
          ELSE mem[a]
  BY <1>1 DEF PutPixels
<1> HIDE DEF a
<1>6. CASE q \in DOMAIN f
  <2>1. /\ \E r \in DOMAIN f : a - Address(r) \in 0 .. Depth(fb) - 1
        /\ (CHOOSE r \in DOMAIN f : a - Address(r) \in 0 .. Depth(fb) - 1) = q
    BY <1>3, <1>4, <1>6
  <2> QED
    BY <1>2, <1>5, <1>6, <2>1 DEF a
<1>7. CASE q \notin DOMAIN f
  <2>1. ~\E r \in DOMAIN f : a - Address(r) \in 0 .. Depth(fb) - 1
    BY <1>4, <1>7
  <2> QED
    BY <1>5, <1>7, <2>1 DEF a
<1> QED
  BY <1>6, <1>7

LEMMA OrderKnown ==
  ASSUME fb \in Geometries
  PROVE  /\ \A k \in 0 .. Depth(fb) - 1 : Order[k + 1] \in 0 .. 3
         /\ fb.format = "RGBX" => Order[1] = 1 /\ Order[2] = 2 /\ Order[3] = 3
         /\ fb.format # "RGBX" => Order[1] = 3 /\ Order[2] = 2 /\ Order[3] = 1
PROOF
<1>1. CASE fb.bpp = 32
  BY <1>1, FbKnown DEF Order
<1>2. CASE fb.bpp # 32
  <2>1. Depth(fb) = 3 /\ fb.format \in {"RGBX", "BGRX"}
    BY <1>2, FbKnown
  <2>2. CASE fb.format = "BGRX"
    <3>1. Order = <<3, 2, 1>>
      BY <1>2, <2>2 DEF Order
    <3> QED
      BY <2>1, <2>2, <3>1
  <2>3. CASE fb.format = "RGBX"
    <3>1. Order = <<1, 2, 3>>
      BY <1>2, <2>3 DEF Order
    <3> QED
      BY <2>1, <2>3, <3>1
  <2> QED
    BY <2>1, <2>2, <2>3
<1> QED
  BY <1>1, <1>2

LEMMA TintTriple ==
  ASSUME NEW c \in Tint
  PROVE  c = <<c[1], c[2], c[3]>>
PROOF
BY DEF Tint

\* Bytes stay bytes.
LEMMA PaintKeepsBytes ==
  ASSUME MemKnown, NEW f, \A r \in DOMAIN f : f[r] \in Tint
  PROVE  PutPixels(f) \in [0 .. fb.pitch * (fb.height + 1) - 1 -> 0 .. 255]
PROOF
<1> SUFFICES ASSUME NEW a \in DOMAIN mem PROVE PutPixels(f)[a] \in 0 .. 255
  BY DEF PutPixels, MemKnown
<1>1. CASE \E r \in DOMAIN f : a - Address(r) \in 0 .. Depth(fb) - 1
  <2> DEFINE r == CHOOSE r \in DOMAIN f : a - Address(r) \in 0 .. Depth(fb) - 1
             channel == Order[a - Address(r) + 1]
  <2>1. r \in DOMAIN f /\ a - Address(r) \in 0 .. Depth(fb) - 1
    BY <1>1
  <2>2. PutPixels(f)[a] = IF channel = 0 THEN 0 ELSE f[r][channel]
    BY <1>1 DEF PutPixels
  <2> HIDE DEF r
  <2>3. channel \in 0 .. 3
    BY <2>1, OrderKnown DEF MemKnown
  <2> HIDE DEF channel
  <2> QED
    BY <2>1, <2>2, <2>3 DEF Tint
<1>2. CASE ~\E r \in DOMAIN f : a - Address(r) \in 0 .. Depth(fb) - 1
  BY <1>2 DEF PutPixels, MemKnown
<1> QED
  BY <1>1, <1>2

\* A call shows its colours at its pixels, in every depth and channel order, and
\* changes no other.
LEMMA PaintShows ==
  ASSUME MemKnown, NEW f, DOMAIN f \subseteq Points, \A r \in DOMAIN f : f[r] \in Tint,
         fb' = fb, mem' = PutPixels(f), NEW q \in Points
  PROVE  Shown(q)' = IF q \in DOMAIN f THEN f[q] ELSE Shown(q)
PROOF
<1> DEFINE a == Address(q)
           w == PutPixels(f)
<1>1. fb \in Geometries
  BY DEF MemKnown
<1>2. a = q[2] * fb.pitch + q[1] * Depth(fb) /\ a \in Int
  <2>1. 0 \in 0 .. Depth(fb) - 1
    BY <1>1, FbKnown
  <2>2. a + 0 \in Int /\ a = q[2] * fb.pitch + q[1] * Depth(fb)
    BY <1>1, <2>1, PixelPlace
  <2>3. q[2] * fb.pitch \in Int /\ q[1] * Depth(fb) \in Int
    BY <1>1, PixelPlace, FbKnown
  <2> QED
    BY <2>2, <2>3
<1>3. /\ Shown(q) = IF fb.format = "RGBX" THEN <<mem[a], mem[a + 1], mem[a + 2]>>
                    ELSE <<mem[a + 2], mem[a + 1], mem[a]>>
      /\ Shown(q)' = IF fb.format = "RGBX" THEN <<w[a], w[a + 1], w[a + 2]>>
                     ELSE <<w[a + 2], w[a + 1], w[a]>>
  <2> HIDE DEF a, w
  <2> QED
    BY <1>2 DEF Shown, w
<1>4. \A i \in 0 .. Depth(fb) - 1 :
        w[a + i] = IF q \in DOMAIN f
                     THEN IF Order[i + 1] = 0 THEN 0 ELSE f[q][Order[i + 1]]
                     ELSE mem[a + i]
  BY PixelPainted
<1>5. 0 \in 0 .. Depth(fb) - 1 /\ 1 \in 0 .. Depth(fb) - 1 /\ 2 \in 0 .. Depth(fb) - 1
  BY <1>1, FbKnown
<1>6. a + 0 = a
  BY <1>2
<1> HIDE DEF a, w
<1>7. /\ w[a] = IF q \in DOMAIN f THEN IF Order[1] = 0 THEN 0 ELSE f[q][Order[1]]
                ELSE mem[a]
      /\ w[a + 1] = IF q \in DOMAIN f THEN IF Order[2] = 0 THEN 0 ELSE f[q][Order[2]]
                    ELSE mem[a + 1]
      /\ w[a + 2] = IF q \in DOMAIN f THEN IF Order[3] = 0 THEN 0 ELSE f[q][Order[3]]
                    ELSE mem[a + 2]
  BY <1>4, <1>5, <1>6
<1>8. CASE q \notin DOMAIN f
  BY <1>3, <1>7, <1>8
<1>9. CASE q \in DOMAIN f
  <2>1. f[q] = <<f[q][1], f[q][2], f[q][3]>>
    BY <1>9, TintTriple
  <2>2. CASE fb.format = "RGBX"
    <3>1. w[a] = f[q][1] /\ w[a + 1] = f[q][2] /\ w[a + 2] = f[q][3]
      BY <1>1, <1>7, <1>9, <2>2, OrderKnown
    <3> QED
      BY <1>3, <1>9, <2>1, <2>2, <3>1
  <2>3. CASE fb.format # "RGBX"
    <3>1. w[a] = f[q][3] /\ w[a + 1] = f[q][2] /\ w[a + 2] = f[q][1]
      BY <1>1, <1>7, <1>9, <2>3, OrderKnown
    <3> QED
      BY <1>3, <1>9, <2>1, <2>3, <3>1
  <2> QED
    BY <2>2, <2>3
<1> QED
  BY <1>8, <1>9

\* Reading a 32-bit pixel back gives what is shown there.
LEMMA ReadsBack ==
  ASSUME MemKnown, NEW q \in Points
  PROVE  /\ fb.bpp = 32 => GetPixel(q) = Shown(q)
         /\ fb.bpp # 32 => GetPixel(q) = Black
         /\ Shown(q) \in Tint
PROOF
<1> DEFINE a == Address(q)
<1>1. fb \in Geometries
  BY DEF MemKnown
<1>2. /\ a \in Int /\ \A i \in 0 .. Depth(fb) - 1 : mem[a + i] \in 0 .. 255
      /\ a = q[2] * fb.pitch + q[1] * Depth(fb)
  <2>1. 0 \in 0 .. Depth(fb) - 1
    BY <1>1, FbKnown
  <2>2. /\ a = q[2] * fb.pitch + q[1] * Depth(fb)
        /\ \A i \in 0 .. Depth(fb) - 1 :
             a + i \in 0 .. fb.pitch * (fb.height + 1) - 1
    BY <1>1, PixelPlace
  <2>3. q[2] * fb.pitch \in Int /\ q[1] * Depth(fb) \in Int
    BY <1>1, PixelPlace, FbKnown
  <2> HIDE DEF a
  <2> QED
    BY <2>2, <2>3 DEF MemKnown
<1>3. Shown(q) = IF fb.format = "RGBX" THEN <<mem[a], mem[a + 1], mem[a + 2]>>
                 ELSE <<mem[a + 2], mem[a + 1], mem[a]>>
  <2> HIDE DEF a
  <2> QED
    BY <1>2 DEF Shown
<1>4. mem[a] \in 0 .. 255 /\ mem[a + 1] \in 0 .. 255 /\ mem[a + 2] \in 0 .. 255
  <2>1. 0 \in 0 .. Depth(fb) - 1 /\ 1 \in 0 .. Depth(fb) - 1 /\ 2 \in 0 .. Depth(fb) - 1
        /\ a + 0 = a
    BY <1>1, <1>2, FbKnown
  <2> HIDE DEF a
  <2> QED
    BY <1>2, <2>1
<1>5. fb.bpp = 32 => GetPixel(q) = Shown(q)
  <2> SUFFICES ASSUME fb.bpp = 32 PROVE GetPixel(q) = Shown(q)
    OBVIOUS
  <2> DEFINE place(i) == CHOOSE k \in 1 .. 4 : Order[k] = i
  <2>1. GetPixel(q) = [i \in 1 .. 3 |-> mem[a + place(i) - 1]]
    BY DEF GetPixel
  <2>2. CASE fb.format = "RGBX"
    <3>1. Order = <<1, 2, 3, 0>>
      BY <2>2 DEF Order
    <3>2. place(1) = 1 /\ place(2) = 2 /\ place(3) = 3
      BY <3>1
    <3> HIDE DEF place, a
    <3>3. GetPixel(q) = <<mem[a], mem[a + 1], mem[a + 2]>>
      BY <1>2, <2>1, <3>2
    <3> QED
      BY <1>3, <2>2, <3>3
  <2>3. CASE fb.format # "RGBX"
    <3>1. Order = <<3, 2, 1, 0>>
      BY <2>3 DEF Order
    <3>2. place(1) = 3 /\ place(2) = 2 /\ place(3) = 1
      BY <3>1
    <3> HIDE DEF place, a
    <3>3. GetPixel(q) = <<mem[a + 2], mem[a + 1], mem[a]>>
      BY <1>2, <2>1, <3>2
    <3> QED
      BY <1>3, <2>3, <3>3
  <2> QED
    BY <2>2, <2>3
<1>6. fb.bpp # 32 => GetPixel(q) = Black
  BY DEF GetPixel
<1>7. Shown(q) \in Tint
  <2> HIDE DEF a
  <2>1. CASE fb.format = "RGBX"
    BY <1>3, <1>4, <2>1 DEF Tint
  <2>2. CASE fb.format # "RGBX"
    BY <1>3, <1>4, <2>2 DEF Tint
  <2> QED
    BY <2>1, <2>2
<1> QED
  BY <1>5, <1>6, <1>7

\* What Canvas promises of a call that paints f.
Keeps(o, f) ==
  /\ DOMAIN f \subseteq Points
  /\ \A r \in DOMAIN f : f[r] \in Tint
  /\ \A q \in Points :
       Screen!Effect(o, q, Shown(q), IF q \in DOMAIN f THEN f[q] ELSE Shown(q))

Fitting(o) == MemKnown /\ o \in Operations /\ CallsFit

LEMMA CallKnown ==
  ASSUME NEW o, Fitting(o)
  PROVE  fb \in Geometries /\ CallFits(o, fb)
PROOF
BY DEF Fitting, MemKnown, CallsFit

\* The loops over a rectangle reach its pixels on the screen.
LEMMA RectInside ==
  ASSUME fb \in Geometries, NEW o, Placed(o, fb), NEW q \in Points
  PROVE  q \in Rect(Points, o.x, o.y, o.w, o.h)
           <=> Screen!Inside(o, q) /\ o.x >= 0 /\ o.y >= 0
PROOF
<1>1. q[1] \in Nat /\ q[2] \in Nat /\ q[1] < fb.width /\ q[2] < fb.height
      /\ fb.width \in Nat /\ fb.height \in Nat /\ Word \in Nat \ {0}
  BY PixelPlace, FbKnown
<1>2. ASSUME NEW i \in Nat, NEW from \in Int, NEW n \in Nat, NEW end \in Nat,
             i < end, from + n < Word, end - from <= Word
      PROVE  Loop(i, from, n) <=> from >= 0 /\ i \in from .. from + n - 1
  <2>1. CASE from >= 0
    <3>1. U(from) = from /\ U(from + n) = from + n
      BY <1>1, <1>2, <2>1, NoWrap
    <3> QED
      BY <1>2, <2>1, <3>1 DEF Loop
  <2>2. CASE from < 0
    <3>1. U(from) = Word + from
      <4>1. Word + from \in Nat /\ Word + from < Word
        BY <1>1, <1>2, <2>2
      <4>2. (Word + from) % Word = Word + from
        BY <4>1, NoWrap DEF U
      <4>3. (Word + from) % Word = from % Word
        BY <1>1, <1>2
      <4> QED
        BY <4>2, <4>3 DEF U
    <3>2. ~(U(from) <= i)
      BY <1>1, <1>2, <2>2, <3>1
    <3> QED
      BY <1>2, <2>2, <3>2 DEF Loop
  <2> QED
    BY <1>2, <2>1, <2>2
<1>3. /\ o.x \in Int /\ o.y \in Int /\ o.w \in Nat /\ o.h \in Nat
      /\ o.x + o.w < Word /\ o.y + o.h < Word
      /\ fb.width - o.x <= Word /\ fb.height - o.y <= Word
  BY DEF Placed
<1>4. Loop(q[1], o.x, o.w) <=> o.x >= 0 /\ q[1] \in o.x .. o.x + o.w - 1
  BY <1>1, <1>2, <1>3
<1>5. Loop(q[2], o.y, o.h) <=> o.y >= 0 /\ q[2] \in o.y .. o.y + o.h - 1
  BY <1>1, <1>2, <1>3
<1> QED
  BY <1>4, <1>5 DEF Rect, Screen!Inside

LEMMA FillKeeps ==
  ASSUME NEW o, Fitting(o), o.kind = "fill"
  PROVE  Keeps(o, ToFill(o))
PROOF
<1>1. fb \in Geometries /\ Placed(o, fb) /\ o.color \in Tint
  BY CallKnown DEF CallFits
<1>2. DOMAIN ToFill(o) \subseteq Points /\ \A r \in DOMAIN ToFill(o) : ToFill(o)[r] \in Tint
  BY <1>1 DEF ToFill, Rect
<1>3. ASSUME NEW q \in Points
      PROVE  Screen!Effect(o, q, Shown(q),
               IF q \in DOMAIN ToFill(o) THEN ToFill(o)[q] ELSE Shown(q))
  <2>1. q \in Rect(Points, o.x, o.y, o.w, o.h)
          <=> Screen!Inside(o, q) /\ o.x >= 0 /\ o.y >= 0
    BY <1>1, RectInside
  <2>2. (IF q \in DOMAIN ToFill(o) THEN ToFill(o)[q] ELSE Shown(q))
          = IF Screen!Inside(o, q) /\ o.x >= 0 /\ o.y >= 0 THEN o.color ELSE Shown(q)
    BY <2>1 DEF ToFill
  <2> QED
    BY <2>2 DEF Screen!Effect
<1> QED
  BY <1>2, <1>3 DEF Keeps

LEMMA OutlineKeeps ==
  ASSUME NEW o, Fitting(o), o.kind = "outline"
  PROVE  Keeps(o, ToOutline(o))
PROOF
<1>1. /\ fb \in Geometries /\ Placed(o, fb) /\ o.color \in Tint
      /\ o.x >= 0 /\ o.y >= 0 /\ o.w > 0 /\ o.h > 0
  BY CallKnown DEF CallFits, OnScreen
<1>2. DOMAIN ToOutline(o) \subseteq Points
      /\ \A r \in DOMAIN ToOutline(o) : ToOutline(o)[r] \in Tint
  BY <1>1 DEF ToOutline, Outline
<1>3. ASSUME NEW q \in Points
      PROVE  Screen!Effect(o, q, Shown(q),
               IF q \in DOMAIN ToOutline(o) THEN ToOutline(o)[q] ELSE Shown(q))
  <2>1. /\ o.x \in Nat /\ o.y \in Nat /\ o.w \in Nat /\ o.h \in Nat
        /\ o.x + o.w < Word /\ o.y + o.h < Word /\ Word \in Nat
        /\ q[1] \in Nat /\ q[2] \in Nat
    BY <1>1, PixelPlace, FbKnown DEF Placed
  <2>2. /\ U(o.x) = o.x /\ U(o.y) = o.y
        /\ U(o.x + o.w) = o.x + o.w /\ U(o.y + o.h) = o.y + o.h
        /\ U(o.x + o.w - 1) = o.x + o.w - 1 /\ U(o.y + o.h - 1) = o.y + o.h - 1
    <3>1. ASSUME NEW m \in Nat, m < Word PROVE U(m) = m
      BY <3>1, NoWrap
    <3> QED
      BY <1>1, <2>1, <3>1
  <2>3. q \in Outline(Points, o.x, o.y, o.w, o.h) <=> Screen!OnEdge(o, q)
    BY <1>1, <2>1, <2>2 DEF Outline, Loop, Screen!OnEdge, Screen!Inside
  <2>4. (IF q \in DOMAIN ToOutline(o) THEN ToOutline(o)[q] ELSE Shown(q))
          = IF Screen!OnEdge(o, q) THEN o.color ELSE Shown(q)
    BY <2>3 DEF ToOutline
  <2> QED
    BY <2>4 DEF Screen!Effect
<1> QED
  BY <1>2, <1>3 DEF Keeps

\* A distance as U leaves it: one that wraps around is longer than any text.
Apart(m, from) == IF m >= from THEN m - from ELSE Word + m - from

LEMMA Wrapped ==
  ASSUME Word \in Nat \ {0}, NEW m \in Nat, NEW from \in Int, NEW end \in Nat,
         m < end, end - from <= Word, from <= Word
  PROVE  U(m - from) = Apart(m, from)
PROOF
<1>1. CASE m >= from
  <2>1. m - from \in Nat /\ m - from < Word
    BY <1>1
  <2>2. U(m - from) = m - from
    BY <2>1, NoWrap
  <2> QED
    BY <1>1, <2>2 DEF Apart
<1>2. CASE m < from
  <2>1. Word + (m - from) \in Nat /\ Word + (m - from) < Word
    BY <1>2
  <2>2. (Word + (m - from)) % Word = Word + (m - from)
    BY <2>1, NoWrap DEF U
  <2>3. (Word + (m - from)) % Word = (m - from) % Word
    BY <1>2
  <2> QED
    BY <1>2, <2>2, <2>3 DEF U, Apart
<1> QED
  BY <1>1, <1>2

\* Cell k of a text's n cells from x on holds column m, r from its left, if any.
InCell(k, r, m, x, n) ==
  /\ k <= n => k \in 1 .. n /\ r = m - (x + 8 * (k - 1))
  /\ \A i \in 1 .. n : m - (x + 8 * (i - 1)) \in 0 .. 7 =>
       k = i /\ r = m - (x + 8 * (i - 1))

LEMMA InCellIs ==
  ASSUME NEW k, NEW r, NEW m, NEW x, NEW n,
         k <= n => k \in 1 .. n /\ r = m - (x + 8 * (k - 1)),
         \A i \in 1 .. n : m - (x + 8 * (i - 1)) \in 0 .. 7 =>
           k = i /\ r = m - (x + 8 * (i - 1))
  PROVE  InCell(k, r, m, x, n)
PROOF
BY Zenon DEF InCell

LEMMA CellHolds ==
  ASSUME Word \in Nat \ {0}, NEW m \in Nat, NEW x \in Int, NEW n \in Nat,
         x + 8 * n <= Word
  PROVE  InCell(Apart(m, x) \div 8 + 1, Apart(m, x) % 8, m, x, n)
PROOF
<1> DEFINE u == Apart(m, x)
<1>1. CASE m >= x
  <2>1. u \in Nat /\ u = m - x
    BY <1>1 DEF Apart
  <2> HIDE DEF u
  <2>2. u = 8 * (u \div 8) + (u % 8) /\ u \div 8 \in Nat /\ u % 8 \in 0 .. 7
    BY <2>1
  <2> DEFINE k == u \div 8
             t == u % 8
  <2>3. ASSUME NEW i \in 1 .. n, m - (x + 8 * (i - 1)) \in 0 .. 7
        PROVE  k + 1 = i /\ t = m - (x + 8 * (i - 1))
    <3> HIDE DEF k, t
    <3> QED
      BY <2>1, <2>2, <2>3 DEF k, t
  <2>4. ASSUME k + 1 <= n PROVE k + 1 \in 1 .. n /\ t = m - (x + 8 * ((k + 1) - 1))
    <3> HIDE DEF k, t
    <3> QED
      BY <2>1, <2>2, <2>4 DEF k, t
  <2>5. InCell(k + 1, t, m, x, n)
    <3>1. k + 1 <= n => k + 1 \in 1 .. n /\ t = m - (x + 8 * ((k + 1) - 1))
      BY <2>4
    <3>2. \A i \in 1 .. n : m - (x + 8 * (i - 1)) \in 0 .. 7 =>
            k + 1 = i /\ t = m - (x + 8 * (i - 1))
      BY <2>3
    <3> HIDE DEF k, t
    <3> QED
      BY <3>1, <3>2, InCellIs, Zenon
  <2> QED
    BY <2>5 DEF u
<1>2. CASE m < x
  <2>1. u \in Nat /\ u >= 8 * n
    BY <1>2 DEF Apart
  <2> HIDE DEF u
  <2>2. ~(u \div 8 + 1 <= n)
    BY <2>1
  <2>3. ASSUME NEW i \in 1 .. n PROVE m - (x + 8 * (i - 1)) \notin 0 .. 7
    BY <1>2
  <2> QED
    BY <2>2, <2>3 DEF InCell, u
<1> QED
  BY <1>1, <1>2

LEMMA RowHolds ==
  ASSUME Word \in Nat \ {0}, NEW m \in Nat, NEW y \in Int, y + 16 <= Word
  PROVE  /\ Apart(m, y) < 16 => Apart(m, y) = m - y
         /\ m - y \in 0 .. 15 => Apart(m, y) = m - y /\ m - y < 16
PROOF
BY DEF Apart

\* The glyph loops set the pixels of each character at its place.
LEMMA TextKeeps ==
  ASSUME NEW o, Fitting(o), o.kind = "text"
  PROVE  Keeps(o, ToText(o))
PROOF
<1>1. fb \in Geometries /\ TextFits(o, fb) /\ o.color \in Tint
  BY CallKnown DEF CallFits
<1>2. DOMAIN ToText(o) \subseteq Points
      /\ \A r \in DOMAIN ToText(o) : ToText(o)[r] \in Tint
  BY <1>1 DEF ToText, Cells
<1>3. ASSUME NEW q \in Points
      PROVE  q \in DOMAIN ToText(o) <=> Screen!OnText(o, q)
  <2> DEFINE n == Len(o.text)
             dx(i) == q[1] - (o.x + 8 * (i - 1))
             dy == q[2] - o.y
             k == Column(q, o.x)
  <2>0. n \in Nat /\ DOMAIN o.text = 1 .. n /\ \A i \in 1 .. n : o.text[i] \in DOMAIN Glyphs
    <3>1. o.text \in Seq(DOMAIN Glyphs)
      BY <1>1 DEF TextFits
    <3> QED
      BY <3>1, LenProperties, ElementOfSeq
  <2>1. /\ o.x \in Int /\ o.y \in Int /\ n \in Nat /\ Word \in Nat \ {0}
        /\ o.x + 8 * n <= Word /\ o.y + 16 <= Word
        /\ fb.width - o.x <= Word /\ fb.height - o.y <= Word
        /\ q[1] \in Nat /\ q[2] \in Nat /\ q[1] < fb.width /\ q[2] < fb.height
        /\ fb.width \in Nat /\ fb.height \in Nat
        /\ DOMAIN o.text = 1 .. n
    <3>1. /\ o.x \in Int /\ o.y \in Int
          /\ o.x + 8 * n <= Word /\ o.y + 16 <= Word
          /\ fb.width - o.x <= Word /\ fb.height - o.y <= Word
      BY <1>1 DEF TextFits
    <3>2. /\ q[1] \in Nat /\ q[2] \in Nat /\ q[1] < fb.width /\ q[2] < fb.height
          /\ fb.width \in Nat /\ fb.height \in Nat /\ Word \in Nat \ {0}
      BY <1>1, PixelPlace, FbKnown
    <3> QED
      BY <2>0, <3>1, <3>2
  <2>2. \A i \in 1 .. n :
          /\ o.text[i] \in DOMAIN Glyphs /\ o.text[i] \in Nat
          /\ Glyphs[o.text[i]] \subseteq
               IF o.text[i] < 128 THEN (0 .. 15) \X (0 .. 7) ELSE {}
    <3> HIDE DEF n
    <3> QED
      BY <2>0 DEF Fitting, CallsFit
  <2>3. U(q[2] - o.y) = Apart(q[2], o.y)
    <3>1. o.y <= Word
      <4> HIDE DEF n
      <4> QED
        BY <2>1
    <3> QED
      BY <2>1, <3>1, Wrapped, Zenon
  <2>4. U(q[1] - o.x) = Apart(q[1], o.x)
    <3>1. o.x <= Word
      <4> HIDE DEF n
      <4> QED
        BY <2>1
    <3> QED
      BY <2>1, <3>1, Wrapped, Zenon
  <2>5. q \in DOMAIN ToText(o)
          <=> /\ k <= n /\ U(q[2] - o.y) < 16
              /\ o.text[k] < 128
              /\ <<U(q[2] - o.y), U(q[1] - o.x) % 8>> \in Glyphs[o.text[k]]
    BY DEF ToText, Cells
  <2>6. k = U(q[1] - o.x) \div 8 + 1
    BY DEF Column
  <2>7. Screen!OnText(o, q) <=> \E i \in 1 .. n : <<dy, dx(i)>> \in Glyphs[o.text[i]]
    BY <2>1 DEF Screen!OnText
  <2>8. /\ k <= n => k \in 1 .. n /\ U(q[1] - o.x) % 8 = dx(k)
        /\ \A i \in 1 .. n : dx(i) \in 0 .. 7 => k = i /\ U(q[1] - o.x) % 8 = dx(i)
    <3> DEFINE r == U(q[1] - o.x) % 8
    <3>1. InCell(k, r, q[1], o.x, n)
      <4>1. /\ q[1] \in Nat /\ o.x \in Int /\ n \in Nat /\ Word \in Nat \ {0}
            /\ o.x + 8 * n <= Word
        BY <2>1
      <4>2. k = Apart(q[1], o.x) \div 8 + 1 /\ r = Apart(q[1], o.x) % 8
        BY <2>4, <2>6
      <4> HIDE DEF n, k, r
      <4>3. InCell(Apart(q[1], o.x) \div 8 + 1, Apart(q[1], o.x) % 8, q[1], o.x, n)
        BY <4>1, CellHolds, Zenon
      <4> QED
        BY <4>2, <4>3, Zenon
    <3> HIDE DEF n, k, r
    <3> QED
      BY <3>1 DEF InCell, r
  <2>9. /\ U(q[2] - o.y) < 16 => U(q[2] - o.y) = dy
        /\ dy \in 0 .. 15 => U(q[2] - o.y) = dy /\ dy < 16
    <3> HIDE DEF n
    <3> QED
      BY <2>1, <2>3, RowHolds
  <2> HIDE DEF n, dx, dy, k
  <2>10. ASSUME q \in DOMAIN ToText(o)
         PROVE  \E i \in 1 .. n : <<dy, dx(i)>> \in Glyphs[o.text[i]]
    BY <2>5, <2>8, <2>9, <2>10
  <2>11. ASSUME NEW i \in 1 .. n, <<dy, dx(i)>> \in Glyphs[o.text[i]]
         PROVE  q \in DOMAIN ToText(o)
    <3>1. o.text[i] < 128 /\ dy \in 0 .. 15 /\ dx(i) \in 0 .. 7
      BY <2>2, <2>11
    <3>2. k = i /\ U(q[2] - o.y) = dy /\ U(q[1] - o.x) % 8 = dx(i) /\ dy < 16
      BY <2>8, <2>9, <3>1
    <3>3. k <= n
      BY <2>0, <3>2
    <3> QED
      BY <2>5, <2>11, <3>1, <3>2, <3>3
  <2> QED
    BY <2>7, <2>10, <2>11
<1>4. ASSUME NEW q \in Points
      PROVE  Screen!Effect(o, q, Shown(q),
               IF q \in DOMAIN ToText(o) THEN ToText(o)[q] ELSE Shown(q))
  <2>1. (IF q \in DOMAIN ToText(o) THEN ToText(o)[q] ELSE Shown(q))
          = IF Screen!OnText(o, q) THEN o.color ELSE Shown(q)
    BY <1>3 DEF ToText
  <2> QED
    BY <2>1 DEF Screen!Effect
<1> QED
  BY <1>2, <1>4 DEF Keeps

\* A channel of a colour blended with another fits its byte.
Channels == 0 .. 255
Mix(c, b, z) == (c * z + b * (255 - z)) \div 256
Low(n) == n % 256
Mixture(c, b, z) == [i \in 1 .. 3 |-> Mix(c[i], b[i], z)]
LowMixture(c, b, z) == [i \in 1 .. 3 |-> Low(Mix(c[i], b[i], z))]

LEMMA MixIsByte ==
  ASSUME NEW c \in Channels, NEW b \in Channels, NEW z \in Channels
  PROVE  Mix(c, b, z) \in Channels /\ Low(Mix(c, b, z)) = Mix(c, b, z)
PROOF
<1> DEFINE s == c * z
           t == b * (255 - z)
           sum == s + t
<1>0. c \in 0 .. 255 /\ b \in 0 .. 255 /\ z \in 0 .. 255
  BY DEF Channels
<1>1. s \in Nat /\ s <= 255 * z
  BY <1>0
<1>2. t \in Nat /\ t <= 255 * (255 - z)
  BY <1>0
<1>3. Mix(c, b, z) = sum \div 256
  BY DEF Mix
<1> HIDE DEF s, t
<1>4. sum \in Nat /\ sum <= 65025
  BY <1>0, <1>1, <1>2
<1> HIDE DEF sum
<1> QED
  BY <1>3, <1>4 DEF Channels, Low

LEMMA MixedTint ==
  ASSUME NEW c \in Tint, NEW b \in Tint, NEW z \in Channels
  PROVE  Mixture(c, b, z) \in Tint /\ LowMixture(c, b, z) = Mixture(c, b, z)
PROOF
<1>1. ASSUME NEW i \in 1 .. 3
      PROVE  /\ Mix(c[i], b[i], z) \in Channels
             /\ Low(Mix(c[i], b[i], z)) = Mix(c[i], b[i], z)
  <2>1. c[i] \in Channels /\ b[i] \in Channels
    BY DEF Tint, Channels
  <2> QED
    BY <2>1, MixIsByte, Zenon
<1>2. Mixture(c, b, z) \in Tint
  BY <1>1 DEF Tint, Mixture, Channels
<1> QED
  BY <1>1, <1>2 DEF Mixture, LowMixture

\* Blending mixes with what is shown, where that can be read back.
LEMMA BlendKeeps ==
  ASSUME NEW o, Fitting(o), o.kind = "blend"
  PROVE  Keeps(o, ToBlend(o))
PROOF
<1>1. /\ fb \in Geometries /\ Placed(o, fb) /\ o.color \in Tint
      /\ o.x >= 0 /\ o.y >= 0 /\ o.opacity \in 0 .. 255 /\ MemKnown
  BY CallKnown DEF CallFits, OnScreen, Fitting
<1>2. ASSUME NEW q \in Points
      PROVE  /\ GetPixel(q) = IF fb.bpp = 32 THEN Shown(q) ELSE <<0, 0, 0>>
             /\ GetPixel(q) \in Tint
  BY <1>1, ReadsBack DEF Black, Tint
<1>3. ASSUME NEW q \in Rect(Points, o.x, o.y, o.w, o.h)
      PROVE  /\ ToBlend(o)[q] = Mixture(o.color, GetPixel(q), o.opacity)
             /\ ToBlend(o)[q] \in Tint
  <2>1. q \in Points
    BY DEF Rect
  <2>2. ToBlend(o)[q] = LowMixture(o.color, GetPixel(q), o.opacity)
    BY DEF ToBlend, Mix, Low, LowMixture
  <2>3. o.color \in Tint /\ GetPixel(q) \in Tint /\ o.opacity \in Channels
    BY <1>1, <1>2, <2>1 DEF Channels
  <2>4. /\ Mixture(o.color, GetPixel(q), o.opacity) \in Tint
        /\ LowMixture(o.color, GetPixel(q), o.opacity)
             = Mixture(o.color, GetPixel(q), o.opacity)
    BY <2>3, MixedTint, Zenon
  <2> QED
    BY <2>2, <2>4, Zenon
<1>4. DOMAIN ToBlend(o) = Rect(Points, o.x, o.y, o.w, o.h)
      /\ DOMAIN ToBlend(o) \subseteq Points
  BY DEF ToBlend, Rect
<1>5. ASSUME NEW q \in Points
      PROVE  Screen!Effect(o, q, Shown(q),
               IF q \in DOMAIN ToBlend(o) THEN ToBlend(o)[q] ELSE Shown(q))
  <2>1. q \in Rect(Points, o.x, o.y, o.w, o.h) <=> Screen!Inside(o, q)
    BY <1>1, RectInside
  <2>2. Mixture(o.color, GetPixel(q), o.opacity)
          = Screen!Mixed(o.color, GetPixel(q), o.opacity)
    BY DEF Screen!Mixed, Mix, Mixture
  <2>3. (IF q \in DOMAIN ToBlend(o) THEN ToBlend(o)[q] ELSE Shown(q))
          = IF Screen!Inside(o, q)
              THEN Screen!Mixed(o.color, IF fb.bpp = 32 THEN Shown(q) ELSE <<0, 0, 0>>,
                                o.opacity)
              ELSE Shown(q)
    BY <1>2, <1>3, <1>4, <2>1, <2>2
  <2> QED
    BY <2>3 DEF Screen!Effect
<1> QED
  BY <1>3, <1>4, <1>5 DEF Keeps

\* A quotient stays below what the divisor's multiple bounds.
LEMMA QuotientBelow ==
  ASSUME NEW a \in Nat, NEW h \in Nat \ {0}, NEW d \in Nat, a < d * h
  PROVE  a \div h \in 0 .. d - 1
PROOF
<1> DEFINE k == a \div h
<1>1. k \in Nat /\ k * h <= a
  <2>1. k \in Int /\ k * h <= a /\ a < (k + 1) * h
    OBVIOUS
  <2>2. k >= 0
    OBVIOUS
  <2> QED
    BY <2>1, <2>2
<1> HIDE DEF k
<1>2. ASSUME k >= d PROVE FALSE
  <2>1. d * h <= k * h
    BY <1>1, <1>2
  <2> DEFINE u == d * h
             v == k * h
  <2>2. u \in Nat /\ v \in Nat /\ u <= v /\ v <= a /\ a < u
    BY <1>1, <2>1
  <2> HIDE DEF u, v
  <2> QED
    BY <2>2
<1> QED
  BY <1>1, <1>2 DEF k

LEMMA FractionBound ==
  ASSUME NEW d \in Nat, NEW h \in Nat \ {0}, NEW y \in 0 .. h
  PROVE  d * y \in Nat /\ (d * y) \div h \in 0 .. d
PROOF
<1> DEFINE a == d * y
           b == d * h
           e == (d + 1) * h
<1>1. a \in Nat /\ b \in Nat /\ a <= b
  OBVIOUS
<1>2. e = b + h
  OBVIOUS
<1>3. a < e /\ e \in Nat
  <2> HIDE DEF a, b, e
  <2> QED
    BY <1>1, <1>2
<1>4. a \div h \in 0 .. (d + 1) - 1
  <2> HIDE DEF a
  <2> QED
    BY <1>1, <1>3, QuotientBelow
<1> HIDE DEF a
<1>5. a \div h \in 0 .. d
  BY <1>4
<1> QED
  BY <1>1, <1>5 DEF a

\* Row y of h between two colours has a colour between them, the first row the
\* first one.
Fade(t, b, y, h) == t + Quotient((b - t) * y, h)

Fades(f, t, b, y) ==
  /\ f \in Channels /\ Low(f) = f
  /\ f \in t .. b \/ f \in b .. t
  /\ y = 0 => f = t

LEMMA FadeBetween ==
  ASSUME NEW t \in Channels, NEW b \in Channels, NEW h \in Nat \ {0}, NEW y \in 0 .. h
  PROVE  Fades(Fade(t, b, y, h), t, b, y)
PROOF
<1> DEFINE f == Fade(t, b, y, h)
<1>1. t \in 0 .. 255 /\ b \in 0 .. 255
  BY DEF Channels
<1>2. CASE b >= t
  <2> DEFINE d == b - t
             a == d * y
  <2>1. d \in Nat
    BY <1>1, <1>2
  <2>2. a \in Nat /\ a \div h \in 0 .. d
    <3> HIDE DEF d
    <3> QED
      BY <2>1, FractionBound
  <2>3. f = t + (a \div h)
    <3>1. f = t + Quotient(a, h)
      BY DEF Fade
    <3> HIDE DEF a, f
    <3> QED
      BY <2>2, <3>1 DEF Quotient
  <2>4. y = 0 => a = 0
    <3> HIDE DEF d
    <3> QED
      BY <2>1
  <2>5. a = 0 => a \div h = 0
    BY <2>2
  <2> DEFINE k == a \div h
  <2>6. k \in 0 .. d /\ f = t + k /\ (y = 0 => k = 0)
    BY <2>2, <2>3, <2>4, <2>5
  <2> HIDE DEF k, f, a
  <2>7. f \in 0 .. 255 /\ f \in t .. b /\ (y = 0 => f = t)
    BY <1>1, <1>2, <2>6
  <2>8. f % 256 = f
    BY <2>7
  <2> QED
    BY <2>7, <2>8 DEF f, Channels, Low, Fades
<1>3. CASE b < t
  <2> DEFINE d == t - b
             a == d * y
             k == a \div h
  <2>1. d \in Nat
    BY <1>1, <1>3
  <2>2. a \in Nat /\ k \in 0 .. d
    <3> HIDE DEF d
    <3> QED
      BY <2>1, FractionBound
  <2>3. (b - t) * y = -a
    <3>1. b - t = -d /\ y \in Int
      BY <1>1
    <3> HIDE DEF d
    <3>2. (-d) * y = -(d * y)
      BY <2>1, <3>1
    <3> QED
      BY <3>1, <3>2
  <2>4. f = t - k /\ (y = 0 => k = 0)
    <3>1. f = t + Quotient(-a, h)
      BY <2>3 DEF Fade
    <3>2. y = 0 => a = 0
      <4> HIDE DEF d
      <4> QED
        BY <2>1
    <3>3. a = 0 => k = 0
      <4> HIDE DEF a
      <4> QED
        BY <2>2
    <3>4. Quotient(-a, h) = -k
      <4>1. CASE a = 0
        <5>1. -a = 0 /\ k = 0 /\ a \div h = 0
          <6>1. a \div h = 0
            BY <3>3, <4>1
          <6>2. -a = 0
            BY <4>1
          <6> QED
            BY <6>1, <6>2
        <5>2. Quotient(-a, h) = 0 \div h
          <6> HIDE DEF a, k
          <6> QED
            BY <5>1 DEF Quotient
        <5>3. 0 \div h = 0
          OBVIOUS
        <5> HIDE DEF a, k
        <5> QED
          BY <5>1, <5>2, <5>3
      <4>2. CASE a # 0
        <5>1. ~(-a >= 0) /\ -(-a) = a
          <6> HIDE DEF a
          <6> QED
            BY <2>2, <4>2
        <5>2. Quotient(-a, h) = -((-(-a)) \div h)
          <6> HIDE DEF a
          <6> QED
            BY <5>1 DEF Quotient
        <5> HIDE DEF a
        <5> QED
          BY <5>1, <5>2 DEF k
      <4> QED
        BY <4>1, <4>2
    <3> HIDE DEF a, k, f, d
    <3> QED
      BY <1>1, <2>2, <3>1, <3>2, <3>3, <3>4, <2>1
  <2> HIDE DEF k, f, a
  <2>5. f \in 0 .. 255 /\ f \in b .. t /\ (y = 0 => f = t)
    BY <1>1, <1>3, <2>2, <2>4
  <2>6. f % 256 = f
    BY <2>5
  <2> QED
    BY <2>5, <2>6 DEF f, Channels, Low, Fades
<1> QED
  BY <1>1, <1>2, <1>3

\* Every row of a gradient lies between its two colours.
LEMMA GradientKeeps ==
  ASSUME NEW o, Fitting(o), o.kind = "gradient"
  PROVE  Keeps(o, ToGradient(o))
PROOF
<1>1. fb \in Geometries /\ o.color \in Tint /\ o.bottom \in Tint
  BY CallKnown DEF CallFits
<1>2. ASSUME NEW q \in Points
      PROVE  LET new == ToGradient(o)[q]
             IN /\ new \in Tint
                /\ Screen!Between(o.color, new, o.bottom)
                /\ q[2] = 0 => new = o.color
  <2> DEFINE f(i) == Fade(o.color[i], o.bottom[i], q[2], fb.height)
  <2>1. ToGradient(o)[q] = [i \in 1 .. 3 |-> Low(f(i))]
    BY DEF ToGradient, Low, Fade
  <2>2. fb.height \in Nat \ {0} /\ q[2] \in 0 .. fb.height
    BY <1>1, FbKnown, PixelPlace
  <2>3. ASSUME NEW i \in 1 .. 3
        PROVE  /\ f(i) \in Channels /\ Low(f(i)) = f(i)
               /\ f(i) \in o.color[i] .. o.bottom[i] \/ f(i) \in o.bottom[i] .. o.color[i]
               /\ q[2] = 0 => f(i) = o.color[i]
    <3>1. o.color[i] \in Channels /\ o.bottom[i] \in Channels
      BY <1>1 DEF Tint, Channels
    <3>2. Fades(Fade(o.color[i], o.bottom[i], q[2], fb.height),
                o.color[i], o.bottom[i], q[2])
      BY <2>2, <3>1, FadeBetween, Zenon
    <3> QED
      BY <3>2 DEF Fades
  <2> HIDE DEF f
  <2>4. ToGradient(o)[q] = [i \in 1 .. 3 |-> f(i)]
    BY <2>1, <2>3
  <2>5. [i \in 1 .. 3 |-> f(i)] \in Tint
    BY <2>3 DEF Tint, Channels
  <2>6. q[2] = 0 => [i \in 1 .. 3 |-> f(i)] = o.color
    <3>1. o.color = [i \in 1 .. 3 |-> o.color[i]]
      BY <1>1 DEF Tint
    <3> QED
      BY <2>3, <3>1
  <2>7. Screen!Between(o.color, [i \in 1 .. 3 |-> f(i)], o.bottom)
    BY <2>3 DEF Screen!Between
  <2> QED
    BY <2>4, <2>5, <2>6, <2>7
<1>3. DOMAIN ToGradient(o) = Points
  BY DEF ToGradient
<1>4. ASSUME NEW q \in Points
      PROVE  Screen!Effect(o, q, Shown(q),
               IF q \in DOMAIN ToGradient(o) THEN ToGradient(o)[q] ELSE Shown(q))
  <2>1. (IF q \in DOMAIN ToGradient(o) THEN ToGradient(o)[q] ELSE Shown(q))
          = ToGradient(o)[q]
    BY <1>3
  <2> QED
    BY <1>2, <2>1 DEF Screen!Effect
<1> QED
  BY <1>2, <1>3, <1>4 DEF Keeps

\* A channel of the noise is no brighter than the colour's.
Base(c, q) ==
  IF fb.bpp = 32 THEN (c * (fb.height - q[2])) \div fb.height ELSE c
Dimmed(c, q) == IF Base(c, q) > Noise[q] THEN Base(c, q) - Noise[q] ELSE 0

LEMMA NoiseDims ==
  ASSUME fb \in Geometries, NEW q \in Points, Noise[q] \in Nat, NEW c \in Channels
  PROVE  Dimmed(c, q) \in Channels /\ Dimmed(c, q) <= c
PROOF
<1> DEFINE y == fb.height - q[2]
<1>1. fb.height \in Nat \ {0} /\ y \in 0 .. fb.height /\ c \in 0 .. 255 /\ c \in Nat
  BY FbKnown, PixelPlace DEF Channels
<1>2. Base(c, q) \in 0 .. c
  <2>1. (c * y) \div fb.height \in 0 .. c
    <3> HIDE DEF y
    <3> QED
      BY <1>1, FractionBound
  <2> QED
    BY <1>1, <2>1 DEF Base
<1>3. Dimmed(c, q) \in 0 .. c
  BY <1>1, <1>2 DEF Dimmed
<1> QED
  BY <1>1, <1>3 DEF Channels

LEMMA BrightestBounds ==
  ASSUME NEW c \in Tint
  PROVE  /\ Screen!Brightest(c) \in Channels
         /\ \A i \in 1 .. 3 : c[i] <= Screen!Brightest(c)
PROOF
<1>1. c[1] \in 0 .. 255 /\ c[2] \in 0 .. 255 /\ c[3] \in 0 .. 255
  BY DEF Tint
<1>2. \E m \in {c[1], c[2], c[3]} : c[1] <= m /\ c[2] <= m /\ c[3] <= m
  <2>1. CASE c[1] <= c[3] /\ c[2] <= c[3]
    BY <1>1, <2>1
  <2>2. CASE c[1] <= c[2] /\ c[3] <= c[2]
    BY <1>1, <2>2
  <2>3. CASE c[2] <= c[1] /\ c[3] <= c[1]
    BY <1>1, <2>3
  <2>4. \/ c[1] <= c[3] /\ c[2] <= c[3]
        \/ c[1] <= c[2] /\ c[3] <= c[2]
        \/ c[2] <= c[1] /\ c[3] <= c[1]
    <3>1. ASSUME NEW k \in Int, NEW m \in Int, NEW n \in Int
          PROVE  \/ k <= n /\ m <= n
                 \/ k <= m /\ n <= m
                 \/ m <= k /\ n <= k
      OBVIOUS
    <3>2. c[1] \in Int /\ c[2] \in Int /\ c[3] \in Int
      BY <1>1
    <3> QED
      BY <3>1, <3>2, Zenon
  <2> QED
    BY <2>1, <2>2, <2>3, <2>4, Zenon
<1>3. \E m \in {c[1], c[2], c[3]} : \A i \in 1 .. 3 : c[i] <= m
  <2>1. PICK m \in {c[1], c[2], c[3]} : c[1] <= m /\ c[2] <= m /\ c[3] <= m
    BY <1>2
  <2>2. \A i \in 1 .. 3 : i = 1 \/ i = 2 \/ i = 3
    OBVIOUS
  <2>3. \A i \in 1 .. 3 : c[i] <= m
    BY <2>1, <2>2
  <2> QED
    BY <2>1, <2>3
<1> DEFINE b == CHOOSE m \in {c[1], c[2], c[3]} : \A i \in 1 .. 3 : c[i] <= m
<1>4. b \in {c[1], c[2], c[3]} /\ \A i \in 1 .. 3 : c[i] <= b
  BY <1>3, Zenon
<1>5. Screen!Brightest(c) = b
  BY Zenon DEF Screen!Brightest
<1> HIDE DEF b
<1> QED
  BY <1>1, <1>4, <1>5 DEF Channels

\* The channels the noise stores, in the order its loop stores them, are no
\* brighter than the colour's brightest.
LEMMA NoiseKeeps ==
  ASSUME NEW o, Fitting(o), o.kind = "noise"
  PROVE  Keeps(o, ToNoise(o))
PROOF
<1>1. /\ fb \in Geometries /\ Placed(o, fb) /\ o.color \in Tint
      /\ o.x >= 0 /\ o.y >= 0
  BY CallKnown DEF CallFits, OnScreen
<1>2. \A q \in Points : Noise[q] \in Nat
  BY <1>1 DEF Fitting, CallsFit, Points
<1> DEFINE from(i) == IF fb.bpp = 32 THEN 4 - i ELSE i
<1>3. ASSUME NEW q \in Rect(Points, o.x, o.y, o.w, o.h)
      PROVE  /\ ToNoise(o)[q] \in Tint
             /\ \A i \in 1 .. 3 : ToNoise(o)[q][i] <= Screen!Brightest(o.color)
  <2>1. q \in Points
    BY DEF Rect
  <2>2. ToNoise(o)[q] = [i \in 1 .. 3 |-> Dimmed(o.color[from(i)], q)]
    BY DEF ToNoise, Dimmed, Base
  <2>3. ASSUME NEW i \in 1 .. 3
        PROVE  /\ Dimmed(o.color[from(i)], q) \in Channels
               /\ Dimmed(o.color[from(i)], q) <= Screen!Brightest(o.color)
    <3>1. from(i) \in 1 .. 3
      OBVIOUS
    <3> DEFINE c == o.color[from(i)]
    <3>2. c \in Channels /\ c <= Screen!Brightest(o.color)
      <4> HIDE DEF from
      <4> QED
        BY <1>1, <3>1, BrightestBounds DEF Tint, Channels
    <3> HIDE DEF c
    <3>3. Dimmed(c, q) \in Channels /\ Dimmed(c, q) <= c
      BY <1>1, <1>2, <2>1, <3>2, NoiseDims
    <3>4. Screen!Brightest(o.color) \in Channels
      BY <1>1, BrightestBounds
    <3> DEFINE m == Screen!Brightest(o.color)
               d == Dimmed(c, q)
    <3>5. d <= m
      <4>1. /\ c \in 0 .. 255 /\ m \in 0 .. 255 /\ d \in 0 .. 255
            /\ c <= m /\ d <= c
        BY <3>2, <3>3, <3>4, Zenon DEF Channels
      <4> HIDE DEF m, d
      <4> QED
        BY <4>1
    <3> QED
      BY <3>3, <3>5 DEF c
  <2>4. ToNoise(o)[q] \in Tint
    <3>1. \A i \in 1 .. 3 : Dimmed(o.color[from(i)], q) \in 0 .. 255
      BY <2>3, Zenon DEF Channels
    <3> DEFINE dark(i) == Dimmed(o.color[from(i)], q)
    <3>2. ToNoise(o)[q] = [i \in 1 .. 3 |-> dark(i)] /\ \A i \in 1 .. 3 : dark(i) \in 0 .. 255
      BY <2>2, <3>1
    <3> HIDE DEF dark
    <3> QED
      BY <3>2 DEF Tint
  <2>5. \A i \in 1 .. 3 : ToNoise(o)[q][i] <= Screen!Brightest(o.color)
    <3> HIDE DEF from
    <3> QED
      BY <2>2, <2>3
  <2> QED
    BY <2>4, <2>5
<1>4. DOMAIN ToNoise(o) = Rect(Points, o.x, o.y, o.w, o.h)
      /\ DOMAIN ToNoise(o) \subseteq Points
  BY DEF ToNoise, Rect
<1>5. ASSUME NEW q \in Points
      PROVE  Screen!Effect(o, q, Shown(q),
               IF q \in DOMAIN ToNoise(o) THEN ToNoise(o)[q] ELSE Shown(q))
  <2>1. q \in DOMAIN ToNoise(o) <=> Screen!Inside(o, q)
    BY <1>1, <1>4, RectInside
  <2> DEFINE new == IF q \in DOMAIN ToNoise(o) THEN ToNoise(o)[q] ELSE Shown(q)
  <2>2. IF Screen!Inside(o, q) THEN \A i \in 1 .. 3 : new[i] <= Screen!Brightest(o.color)
        ELSE new = Shown(q)
    BY <1>3, <1>4, <2>1
  <2> HIDE DEF new
  <2>3. Screen!Effect(o, q, Shown(q), new)
    BY <2>2 DEF Screen!Effect
  <2> QED
    BY <2>3 DEF new
<1> QED
  BY <1>3, <1>4, <1>5 DEF Keeps

\* A pixel of the screen stands for one of the picture.
LEMMA ScaledInside ==
  ASSUME NEW size \in Nat \ {0}, NEW i \in 0 .. size - 1, NEW n \in Nat \ {0},
         size * n < Word
  PROVE  Scaled(i, n, size) = (i * n) \div size /\ (i * n) \div size \in 0 .. n - 1
PROOF
<1> DEFINE a == i * n
           b == size * n
           c == n * size
<1>1. a \in Nat /\ b \in Nat /\ a < b
  <2>1. (i + 1) * n <= size * n /\ (i + 1) * n = i * n + n
    OBVIOUS
  <2>2. a \in Nat /\ b \in Nat /\ a + n <= b
    BY <2>1
  <2> HIDE DEF a, b
  <2> QED
    BY <2>2
<1>2. c = b
  OBVIOUS
<1>3. a \div size \in 0 .. n - 1
  <2>1. a < c
    BY <1>1, <1>2
  <2> HIDE DEF a
  <2> QED
    BY <1>1, <2>1, QuotientBelow
<1>4. U(a) = a
  <2>1. a < Word /\ a \in Nat
    <3> HIDE DEF a, b
    <3> QED
      BY <1>1, RasterAssumption DEF b
  <2> HIDE DEF a
  <2> QED
    BY <2>1, NoWrap
<1> QED
  BY <1>3, <1>4 DEF Scaled

\* Where a pixel of the screen lies in a picture scaled to it.
SourceRow(picture, q) == (q[2] * Len(picture)) \div fb.height
SourceColumn(picture, q) == (q[1] * Len(picture[1])) \div fb.width

LEMMA PictureScaled ==
  ASSUME fb \in Geometries, NEW picture, PictureFits(picture, fb), NEW q \in Points
  PROVE  /\ Len(picture) \in Nat \ {0} /\ Len(picture[1]) \in Nat \ {0}
         /\ Scaled(q[2], Len(picture), fb.height) = SourceRow(picture, q)
         /\ Scaled(q[1], Len(picture[1]), fb.width) = SourceColumn(picture, q)
         /\ SourceRow(picture, q) \in 0 .. Len(picture) - 1
         /\ SourceColumn(picture, q) \in 0 .. Len(picture[1]) - 1
         /\ Screen!Scaled(picture, q)
              = picture[SourceRow(picture, q) + 1][SourceColumn(picture, q) + 1]
         /\ Screen!Scaled(picture, q) \in Tint
PROOF
<1> DEFINE rows == Len(picture)
           cols == Len(picture[1])
           y == SourceRow(picture, q)
           x == SourceColumn(picture, q)
<1>1. /\ rows \in Nat \ {0} /\ cols \in Nat \ {0}
      /\ picture \in [1 .. rows -> [1 .. cols -> Tint]]
      /\ fb.width * cols < Word /\ fb.height * rows < Word
  BY DEF PictureFits
<1>2. /\ fb.width \in Nat \ {0} /\ fb.height \in Nat \ {0}
      /\ q[1] \in 0 .. fb.width - 1 /\ q[2] \in 0 .. fb.height - 1
  BY FbKnown, PixelPlace
<1>3. Scaled(q[2], rows, fb.height) = y /\ y \in 0 .. rows - 1
  <2> HIDE DEF rows
  <2> QED
    BY <1>1, <1>2, ScaledInside DEF SourceRow, rows
<1>4. Scaled(q[1], cols, fb.width) = x /\ x \in 0 .. cols - 1
  <2> HIDE DEF cols
  <2> QED
    BY <1>1, <1>2, ScaledInside DEF SourceColumn, cols
<1>5. Screen!Scaled(picture, q) = picture[y + 1][x + 1]
  BY DEF Screen!Scaled, SourceRow, SourceColumn
<1>6. picture[y + 1][x + 1] \in Tint
  <2>1. y + 1 \in 1 .. rows /\ x + 1 \in 1 .. cols
    <3> HIDE DEF rows, cols, x, y
    <3> QED
      BY <1>1, <1>3, <1>4
  <2> HIDE DEF rows, cols, x, y
  <2> QED
    BY <1>1, <2>1
<1> QED
  BY <1>1, <1>3, <1>4, <1>5, <1>6

\* An image function that paints each pixel of its rectangle with the picture's
\* colour there keeps the promise.
LEMMA ImageKeeps ==
  ASSUME NEW o, Fitting(o), o.kind \in {"bmp", "png"}, NEW f,
         DOMAIN f = Rect(Points, o.x, o.y, o.w, o.h),
         \A q \in DOMAIN f : f[q] = Screen!Scaled(o.picture, q)
  PROVE  Keeps(o, f)
PROOF
<1>1. /\ fb \in Geometries /\ Placed(o, fb) /\ PictureFits(o.picture, fb)
      /\ o.x >= 0 /\ o.y >= 0
  BY CallKnown DEF CallFits, OnScreen
<1>2. DOMAIN f \subseteq Points
  BY DEF Rect
<1>3. \A q \in DOMAIN f : f[q] \in Tint
  BY <1>1, <1>2, PictureScaled
<1>4. ASSUME NEW q \in Points
      PROVE  Screen!Effect(o, q, Shown(q), IF q \in DOMAIN f THEN f[q] ELSE Shown(q))
  <2>1. q \in DOMAIN f <=> Screen!Inside(o, q)
    BY <1>1, RectInside
  <2> DEFINE new == IF q \in DOMAIN f THEN f[q] ELSE Shown(q)
  <2>2. new = IF Screen!Inside(o, q) THEN Screen!Scaled(o.picture, q) ELSE Shown(q)
    BY <2>1
  <2> HIDE DEF new
  <2>3. Screen!Effect(o, q, Shown(q), new)
    BY <2>2 DEF Screen!Effect
  <2> QED
    BY <2>3 DEF new
<1> QED
  BY <1>2, <1>3, <1>4 DEF Keeps

\* A BMP file's bytes are found where its format puts them.
LEMMA BmpKeeps ==
  ASSUME NEW o, Fitting(o), o.kind = "bmp"
  PROVE  Keeps(o, ToBmp(o))
PROOF
<1> DEFINE file == o.file
           picture == o.picture
           rows == Len(picture)
           cols == Len(picture[1])
           bytes == file.bpp \div 8
           row_size == ((cols * bytes + 3) \div 4) * 4
<1>1. /\ fb \in Geometries /\ PictureFits(picture, fb) /\ BmpHolds(file, picture)
  BY CallKnown DEF CallFits
<1>2. /\ file.type = "BM" /\ file.bpp \in {24, 32}
      /\ file.width = cols /\ file.height \in {rows, -rows}
      /\ \A y \in 0 .. rows - 1, x \in 0 .. cols - 1, i \in 1 .. 3 :
           LET row == IF file.height < 0 THEN y ELSE rows - 1 - y
           IN file.pixels[row * row_size + x * bytes + 3 - i] = picture[y + 1][x + 1][i]
  BY <1>1 DEF BmpHolds
<1> DEFINE lines == IF file.height < 0 THEN -file.height ELSE file.height
           src_y(q) == Scaled(q[2], lines, fb.height)
           row(q) == IF file.height < 0 THEN src_y(q) ELSE lines - 1 - src_y(q)
           at_(q) == row(q) * row_size + Scaled(q[1], cols, fb.width) * bytes
<1>3. ToBmp(o) = [q \in Rect(Points, o.x, o.y, o.w, o.h) |->
                    [i \in 1 .. 3 |-> file.pixels[at_(q) + 3 - i]]]
  BY <1>2 DEF ToBmp
<1>4. lines = rows
  <2>1. PictureFits(picture, fb) => rows \in Nat \ {0}
    BY DEF PictureFits
  <2> HIDE DEF rows
  <2> QED
    BY <1>1, <1>2, <2>1
<1>5. ASSUME NEW q \in DOMAIN ToBmp(o)
      PROVE  ToBmp(o)[q] = Screen!Scaled(picture, q)
  <2> DEFINE y == SourceRow(picture, q)
             x == SourceColumn(picture, q)
  <2>1. q \in Points
    BY <1>3 DEF Rect
  <2>2. /\ Scaled(q[2], rows, fb.height) = y /\ Scaled(q[1], cols, fb.width) = x
        /\ y \in 0 .. rows - 1 /\ x \in 0 .. cols - 1
        /\ Screen!Scaled(picture, q) = picture[y + 1][x + 1]
        /\ Screen!Scaled(picture, q) \in Tint
    BY <1>1, <2>1, PictureScaled
  <2>3. at_(q) = (IF file.height < 0 THEN y ELSE rows - 1 - y) * row_size + x * bytes
    <3> HIDE DEF rows, cols, x, y, bytes, row_size, lines
    <3> QED
      BY <1>4, <2>2
  <2>4. ASSUME NEW i \in 1 .. 3
        PROVE  file.pixels[at_(q) + 3 - i] = picture[y + 1][x + 1][i]
    <3> HIDE DEF rows, cols, x, y, bytes, row_size, at_
    <3> QED
      BY <1>2, <2>2, <2>3
  <2>5. ToBmp(o)[q] = [i \in 1 .. 3 |-> file.pixels[at_(q) + 3 - i]]
    BY <1>3
  <2> HIDE DEF x, y, at_
  <2>6. ToBmp(o)[q] = [i \in 1 .. 3 |-> picture[y + 1][x + 1][i]]
    BY <2>4, <2>5
  <2> QED
    BY <2>2, <2>6 DEF Tint
<1>6. DOMAIN ToBmp(o) = Rect(Points, o.x, o.y, o.w, o.h)
  BY <1>3
<1> QED
  BY <1>5, <1>6, ImageKeeps

\* The chunks left are some of the file's, with the last one.
ChunksOf(file, left) ==
  /\ left \in Seq({file[i] : i \in DOMAIN file})
  /\ Len(left) > 0 /\ left[Len(left)].type = "IEND"

\* The picture is as large as the header read says.
SizeKnown ==
  ihdr.width = Len(call.picture[1]) /\ ihdr.height = Len(call.picture)

CanvasInv ==
  /\ CallsFit /\ MemKnown
  /\ stage # "idle" => call \in Operations /\ call.kind = "png"
  /\ stage = "chunks" => /\ ChunksOf(call.file, chunks)
                         /\ ihdr.bpp # 0 => SizeKnown
  /\ stage \notin {"idle", "chunks"} => SizeKnown

\* Decoded, an image is drawn as the picture it was made from.
LEMMA PngKeeps ==
  ASSUME CanvasInv, PictureRestored, stage = "ready"
  PROVE  Keeps(call, [q \in Rect(Points, call.x, call.y, call.w, call.h) |->
                        PngColor(Scaled(q[1], ihdr.width, fb.width),
                                 Scaled(q[2], ihdr.height, fb.height))])
PROOF
<1> DEFINE picture == call.picture
           f == [q \in Rect(Points, call.x, call.y, call.w, call.h) |->
                   PngColor(Scaled(q[1], ihdr.width, fb.width),
                            Scaled(q[2], ihdr.height, fb.height))]
<1>1. Fitting(call) /\ call.kind = "png" /\ SizeKnown
  BY DEF CanvasInv, Fitting
<1>2. fb \in Geometries /\ PictureFits(picture, fb)
  BY <1>1, CallKnown DEF CallFits
<1>3. ASSUME NEW q \in DOMAIN f PROVE f[q] = Screen!Scaled(picture, q)
  <2> DEFINE y == SourceRow(picture, q)
             x == SourceColumn(picture, q)
             rows == Len(picture)
             cols == Len(picture[1])
  <2>1. q \in Points
    BY DEF Rect
  <2>2. /\ Scaled(q[2], rows, fb.height) = y /\ Scaled(q[1], cols, fb.width) = x
        /\ y \in 0 .. rows - 1 /\ x \in 0 .. cols - 1
        /\ rows \in Nat /\ cols \in Nat
        /\ Screen!Scaled(picture, q) = picture[y + 1][x + 1]
    BY <1>2, <2>1, PictureScaled
  <2>3. f[q] = PngColor(x, y)
    BY <1>1, <2>2 DEF SizeKnown
  <2>4. y + 1 \in DOMAIN picture /\ x + 1 \in DOMAIN picture[y + 1]
    <3>1. picture \in [1 .. rows -> [1 .. cols -> Tint]]
      BY <1>2 DEF PictureFits
    <3> HIDE DEF rows, cols, x, y
    <3>2. y + 1 \in 1 .. rows /\ x + 1 \in 1 .. cols
      BY <2>2
    <3> QED
      BY <3>1, <3>2
  <2>5. PngColor((x + 1) - 1, (y + 1) - 1) = picture[y + 1][x + 1]
    <3> HIDE DEF x, y
    <3> QED
      BY <2>4, Zenon DEF PictureRestored
  <2>6. (x + 1) - 1 = x /\ (y + 1) - 1 = y
    <3> HIDE DEF x, y, rows, cols
    <3> QED
      BY <2>2
  <2> QED
    BY <2>2, <2>3, <2>5, <2>6
<1>4. DOMAIN f = Rect(Points, call.x, call.y, call.w, call.h)
  OBVIOUS
<1> HIDE DEF f
<1>5. Keeps(call, f)
  BY <1>1, <1>3, <1>4, ImageKeeps
<1> QED
  BY <1>5 DEF f

\* A call that keeps the canvas's promise is a step of it.
LEMMA PaintImplements ==
  ASSUME MemKnown, NEW o, NEW f, Keeps(o, f), Paint(o, f)
  PROVE  Screen!Next /\ MemKnown'
PROOF
<1>1. /\ fb' = fb /\ mem' = PutPixels(f) /\ op' = o
      /\ DOMAIN f \subseteq Points /\ \A r \in DOMAIN f : f[r] \in Tint
  BY DEF Paint, Keeps
<1>2. MemKnown'
  BY <1>1, PaintKeepsBytes DEF MemKnown
<1>3. Points' = Points /\ Screen!Points = Points
  BY <1>1 DEF Points, Screen!Points
<1> DEFINE canvas == [q \in Points |-> Shown(q)]
<1>4. ASSUME NEW q \in Points
      PROVE  Screen!Effect(op', q, canvas[q], canvas'[q])
  <2>1. canvas[q] = Shown(q)
    OBVIOUS
  <2>2. canvas'[q] = Shown(q)'
    BY <1>3
  <2>3. Shown(q)' = IF q \in DOMAIN f THEN f[q] ELSE Shown(q)
    BY <1>1, PaintShows
  <2>4. canvas'[q] = IF q \in DOMAIN f THEN f[q] ELSE Shown(q)
    BY <2>2, <2>3
  <2>5. Screen!Effect(o, q, Shown(q), IF q \in DOMAIN f THEN f[q] ELSE Shown(q))
    BY DEF Keeps
  <2> HIDE DEF canvas
  <2> QED
    BY <1>1, <2>1, <2>4, <2>5
<1>5. DOMAIN canvas' = Points
  BY <1>3
<1>6. UNCHANGED [width |-> fb.width, height |-> fb.height, readable |-> fb.bpp = 32]
  BY <1>1
<1> QED
  BY <1>2, <1>3, <1>4, <1>5, <1>6 DEF Screen!Next

\* What the decoder does before it is done is no step of the canvas.
LEMMA DecodeStutters ==
  ASSUME CanvasInv, Decode, UNCHANGED <<fbvars, call>>
  PROVE  CanvasInv'
PROOF
<1>0. fb' = fb /\ mem' = mem /\ call' = call
  BY DEF fbvars
<1>1. CallsFit /\ MemKnown'
  BY <1>0 DEF CanvasInv, MemKnown
<1>2. CASE Chunk
  <2> DEFINE c == Head(chunks)
             S == {call.file[i] : i \in DOMAIN call.file}
  <2>1. /\ stage = "chunks" /\ call \in Operations /\ call.kind = "png"
        /\ ChunksOf(call.file, chunks) /\ (ihdr.bpp # 0 => SizeKnown)
    BY <1>2 DEF Chunk, CanvasInv
  <2>2. chunks \in Seq(S) /\ chunks # <<>> /\ c = chunks[1] /\ c \in S
    BY <2>1 DEF ChunksOf
  <2>3. c.type = "IHDR" => c.width = Len(call.picture[1]) /\ c.height = Len(call.picture)
    <3>1. fb \in Geometries /\ CallFits(call, fb)
      BY <2>1 DEF CanvasInv, MemKnown, CallsFit
    <3>2. PngFrames(call.file, call.picture)
      BY <2>1, <3>1 DEF CallFits
    <3> QED
      BY <2>2, <3>2 DEF PngFrames
  <2>4. /\ ihdr' = IF c.type # "IHDR" THEN ihdr
                   ELSE [width |-> c.width, height |-> c.height, bpp |-> Bpp(c.color)]
        /\ stage' = IF c.type # "IEND" THEN "chunks"
                    ELSE IF ihdr.bpp = 0 THEN "idle" ELSE "block"
        /\ chunks' = Tail(chunks)
    BY <1>2 DEF Chunk
  <2>5. ihdr'.bpp # 0 => SizeKnown'
    <3>1. CASE c.type # "IHDR"
      BY <1>0, <2>1, <2>4, <3>1 DEF SizeKnown
    <3>2. CASE c.type = "IHDR"
      BY <1>0, <2>3, <2>4, <3>2 DEF SizeKnown
    <3> QED
      BY <3>1, <3>2
  <2>6. CASE c.type # "IEND"
    <3>1. Len(chunks) > 1
      BY <2>1, <2>2, <2>6 DEF ChunksOf
    <3>2. /\ Tail(chunks) \in Seq(S) /\ Len(Tail(chunks)) = Len(chunks) - 1
          /\ Tail(chunks)[Len(chunks) - 1] = chunks[Len(chunks)]
      BY <2>2, <3>1
    <3>3. ChunksOf(call.file, Tail(chunks))
      BY <2>1, <2>2, <3>1, <3>2 DEF ChunksOf
    <3>4. stage' = "chunks" /\ ChunksOf(call.file, chunks)'
      BY <1>0, <2>4, <2>6, <3>3 DEF ChunksOf
    <3> QED
      BY <1>0, <1>1, <2>1, <2>5, <3>4 DEF CanvasInv
  <2>7. CASE c.type = "IEND"
    <3>1. ihdr' = ihdr
      BY <2>4, <2>7
    <3>2. stage' = IF ihdr.bpp = 0 THEN "idle" ELSE "block"
      BY <2>4, <2>7
    <3>3. ihdr.bpp # 0 => SizeKnown'
      BY <2>5, <3>1
    <3> QED
      BY <1>0, <1>1, <2>1, <3>2, <3>3 DEF CanvasInv
  <2> QED
    BY <2>6, <2>7
<1>3. ASSUME stage \notin {"idle", "chunks"}, stage' \notin {"idle", "chunks"},
             ihdr' = ihdr
      PROVE  CanvasInv'
  BY <1>0, <1>1, <1>3 DEF CanvasInv, SizeKnown
<1>4. CASE Block
  <2>1. stage = "block" /\ stage' \in {"block", "symbols", "lengths"} /\ ihdr' = ihdr
    BY <1>4 DEF Block
  <2> QED
    BY <1>3, <2>1
<1>5. CASE CodeLength \/ Trees \/ Inflated \/ Literal \/ EndOfBlock \/ Copy
           \/ Unfilter \/ Ready
  <2>1. /\ stage \in {"block", "lengths", "symbols", "unfilter"}
        /\ stage' \in {"block", "lengths", "symbols", "unfilter", "ready"} /\ ihdr' = ihdr
    BY <1>5 DEF CodeLength, Trees, Inflated, Literal, EndOfBlock, Copy, Unfilter, Ready
  <2> QED
    BY <1>3, <2>1
<1> QED
  BY <1>2, <1>4, <1>5 DEF Decode

\* Memory begins as bytes, which show a canvas.
LEMMA CanvasBegins ==
  ASSUME DrawingInit, CallsFit
  PROVE  CanvasInv /\ Screen!Init
PROOF
<1>1. /\ fb \in Geometries /\ op = [kind |-> "none"] /\ stage = "idle"
      /\ mem = [a \in 0 .. fb.pitch * (fb.height + 1) - 1 |-> (37 * a) % 256]
  BY DEF DrawingInit, FbInit, Idle
<1>2. MemKnown
  <2> DEFINE n == fb.pitch * (fb.height + 1)
  <2>1. n \in Int
    BY <1>1, FbKnown
  <2> HIDE DEF n
  <2>2. \A a \in 0 .. n - 1 : (37 * a) % 256 \in 0 .. 255
    BY <2>1
  <2>3. mem = [a \in 0 .. n - 1 |-> (37 * a) % 256]
    BY <1>1 DEF n
  <2>4. mem \in [0 .. n - 1 -> 0 .. 255]
    BY <2>2, <2>3
  <2> QED
    BY <1>1, <2>4 DEF MemKnown, n
<1>3. CanvasInv
  BY <1>1, <1>2 DEF CanvasInv
<1>4. [q \in Points |-> Shown(q)] \in [Screen!Points -> Screen!Color]
  <2>1. Screen!Points = Points
    BY DEF Points, Screen!Points
  <2>2. ASSUME NEW q \in Points PROVE Shown(q) \in Screen!Color
    <3>1. Shown(q) \in Tint
      BY <1>2, ReadsBack
    <3>2. Shown(q) = <<Shown(q)[1], Shown(q)[2], Shown(q)[3]>>
      BY <3>1, TintTriple
    <3> QED
      BY <3>1, <3>2 DEF Tint, Screen!Color, Screen!Byte
  <2> QED
    BY <2>1, <2>2
<1>5. [width |-> fb.width, height |-> fb.height, readable |-> fb.bpp = 32]
        \in {[width |-> g.width, height |-> g.height, readable |-> g.bpp = 32] :
               g \in Geometries}
  BY <1>1
<1> QED
  BY <1>1, <1>3, <1>4, <1>5 DEF Screen!Init

\* Every call changes exactly the pixels, and to exactly the colours, that fb.h
\* promises, in every geometry, depth and channel order; calls for PNG files
\* do if their decoder restores the picture.
THEOREM DrawingImplementsCanvas ==
  DrawingSpec /\ CallsFit /\ []PictureRestored => ImplementsCanvas
PROOF
<1> DEFINE Applied == [Screen!Next]_<<[width |-> fb.width, height |-> fb.height,
                                   readable |-> fb.bpp = 32],
                                  [q \in Points |-> Shown(q)], op>>
<1>1. DrawingInit /\ CallsFit => CanvasInv /\ Screen!Init
  BY CanvasBegins
<1>2. CanvasInv /\ PictureRestored /\ [DrawingNext]_drawing => CanvasInv' /\ Applied
  <2> SUFFICES ASSUME CanvasInv, PictureRestored, [DrawingNext]_drawing
               PROVE  CanvasInv' /\ Applied
    OBVIOUS
  <2>0. CallsFit /\ MemKnown
    BY DEF CanvasInv
  <2>1. ASSUME UNCHANGED fbvars PROVE Applied /\ MemKnown'
    <3>1. fb' = fb /\ mem' = mem /\ op' = op
      BY <2>1 DEF fbvars
    <3> QED
      BY <2>0, <3>1 DEF Points, Shown, MemKnown
  <2>2. ASSUME UNCHANGED fbvars, UNCHANGED <<pngvars, call>> PROVE CanvasInv' /\ Applied
    BY <2>1, <2>2 DEF CanvasInv, SizeKnown, ChunksOf, pngvars
  <2>3. ASSUME NEW o \in Operations, Call(o) PROVE CanvasInv' /\ Applied
    <3>1. Fitting(o)
      BY <2>0 DEF Fitting
    <3>2. Screen!Next /\ MemKnown'
      <4>1. \/ o.kind = "fill" /\ Paint(o, ToFill(o))
            \/ o.kind = "outline" /\ Paint(o, ToOutline(o))
            \/ o.kind = "text" /\ Paint(o, ToText(o))
            \/ o.kind = "blend" /\ Paint(o, ToBlend(o))
            \/ o.kind = "gradient" /\ Paint(o, ToGradient(o))
            \/ o.kind = "noise" /\ Paint(o, ToNoise(o))
            \/ o.kind = "bmp" /\ Paint(o, ToBmp(o))
        BY <2>3 DEF Call, Perform
      <4>2. \E f : Keeps(o, f) /\ Paint(o, f)
        BY <3>1, <4>1, FillKeeps, OutlineKeeps, TextKeeps, BlendKeeps, GradientKeeps,
           NoiseKeeps, BmpKeeps
      <4> QED
        BY <2>0, <4>2, PaintImplements
    <3>3. stage = "idle" /\ stage' = stage
      BY <2>3 DEF Call, pngvars
    <3> QED
      BY <2>0, <3>2, <3>3 DEF CanvasInv
  <2>4. ASSUME NEW o \in Operations, CallPng(o) PROVE CanvasInv' /\ Applied
    <3>1. /\ UNCHANGED fbvars /\ stage' = "chunks" /\ chunks' = o.file /\ call' = o
          /\ ihdr'.bpp = 0 /\ o.kind = "png"
      BY <2>4 DEF CallPng, Open
    <3>2. PngFrames(o.file, o.picture)
      BY <2>0, <3>1 DEF MemKnown, CallsFit, CallFits
    <3>3. ChunksOf(call.file, chunks)'
      BY <3>1, <3>2 DEF PngFrames, ChunksOf
    <3> QED
      BY <2>0, <2>1, <3>1, <3>3 DEF CanvasInv
  <2>5. CASE DrawPng
    <3> DEFINE f == [q \in Rect(Points, call.x, call.y, call.w, call.h) |->
                       PngColor(Scaled(q[1], ihdr.width, fb.width),
                                Scaled(q[2], ihdr.height, fb.height))]
    <3>1. stage = "ready" /\ stage' = "idle" /\ Paint(call, f)
      BY <2>5 DEF DrawPng, Close
    <3>2. Keeps(call, f)
      BY <3>1, PngKeeps
    <3> HIDE DEF f
    <3>3. Screen!Next /\ MemKnown'
      BY <2>0, <3>1, <3>2, PaintImplements
    <3> QED
      BY <2>0, <3>1, <3>3 DEF CanvasInv
  <2>6. CASE Decode /\ UNCHANGED <<fbvars, call>>
    BY <2>1, <2>6, DecodeStutters
  <2> QED
    BY <2>2, <2>3, <2>4, <2>5, <2>6 DEF DrawingNext, Work, AllDrawn, drawing
<1>3. QED
  BY <1>1, <1>2, PTL DEF DrawingSpec, ImplementsCanvas, Screen!Spec

-----------------------------------------------------------------------------
(* The menu: what its steps have in common *)

\* A step draws, waits, presses a key in the menu, or works in the editor.
LEMMA MenuSteps ==
  ASSUME [Next]_vars
  PROVE  \/ Draw \/ Tick \/ EditDraw
         \/ KeyUp \/ KeyDown \/ KeyEnter \/ KeySetup \/ KeyEdit \/ KeyOther
         \/ EditSave \/ EditDiscard
         \/ EditBackspace \/ (\E c \in Chars : EditType(c)) \/ EditIdle
         \/ UNCHANGED vars
PROOF
<1>1. Done => UNCHANGED vars
  BY DEF Done
<1> QED
  BY <1>1, Zenon DEF Next, Unattended, Keys

\* The keys of the editor that do not leave it.
LEMMA EditorGoesOn ==
  EditBackspace \/ (\E c \in Chars : EditType(c)) \/ EditIdle => EditContinues
PROOF
BY DEF EditBackspace, EditType, EditIdle

\* Every key in the menu ends the countdown, whatever else it does.
LEMMA KeysArePressed ==
  KeyUp \/ KeyDown \/ KeyEnter \/ KeySetup \/ KeyEdit \/ KeyOther
    => \E next : Pressed(next)
PROOF
<1>1. KeyUp \/ KeyDown \/ KeyOther => Pressed("draw")
  BY DEF KeyUp, KeyDown, KeyOther
<1>2. KeyEnter \/ KeySetup => Pressed("done")
  BY DEF KeyEnter, KeySetup
<1>3. KeyEdit => Pressed("edit_draw")
  BY DEF KeyEdit
<1> QED
  BY <1>1, <1>2, <1>3, Zenon

\* The configuration and the screen's size are given once.
LEMMA ConfigStays == ASSUME [Next]_vars PROVE UNCHANGED config
PROOF
<1>1. Draw \/ Tick \/ EditDraw => UNCHANGED config
  BY Zenon DEF Draw, Tick, EditDraw
<1>2. (\E next : Pressed(next)) => UNCHANGED config
  BY Zenon DEF Pressed
<1>3. EditSave \/ EditDiscard \/ EditContinues => UNCHANGED config
  BY Zenon DEF EditSave, EditDiscard, LeaveEditor, EditContinues
<1>4. UNCHANGED vars => UNCHANGED config
  BY Zenon DEF vars
<1> QED
  BY <1>1, <1>2, <1>3, <1>4, MenuSteps, KeysArePressed, EditorGoesOn, Zenon

-----------------------------------------------------------------------------
(* The countdown *)

CountdownInv ==
  /\ timeout \in Nat
  /\ touched => cancel_timeout
  /\ timeout = 0 => cancel_timeout

LEMMA CountdownHolds == Spec => []CountdownInv
PROOF
<1>1. Init => CountdownInv
  BY MenuAssumption DEF Init, CountdownInv
<1>2. CountdownInv /\ [Next]_vars => CountdownInv'
  <2> SUFFICES ASSUME CountdownInv, [Next]_vars PROVE CountdownInv'
    OBVIOUS
  <2>1. timeout' = timeout
    BY ConfigStays DEF config
  <2>2. CASE UNCHANGED <<cancel_timeout, touched>>
    BY <2>1, <2>2 DEF CountdownInv
  <2>3. CASE \E next : Pressed(next)
    BY <2>1, <2>3 DEF CountdownInv, Pressed
  <2>4. Draw \/ Tick \/ EditDraw => UNCHANGED <<cancel_timeout, touched>>
    BY DEF Draw, Tick, EditDraw, loop
  <2>5. EditSave \/ EditDiscard \/ EditContinues
          => UNCHANGED <<cancel_timeout, touched>>
    BY DEF EditSave, EditDiscard, LeaveEditor, EditContinues, loop
  <2>6. UNCHANGED vars => UNCHANGED <<cancel_timeout, touched>>
    BY DEF vars, loop
  <2> QED
    BY <2>2, <2>3, <2>4, <2>5, <2>6, MenuSteps, KeysArePressed, EditorGoesOn,
       Zenon
<1> QED
  BY <1>1, <1>2, PTL DEF Spec

\* The menu boots by itself only if no key was ever pressed and a countdown was
\* asked for, and then the first entry: for every timeout, number of entries
\* and length of a tick.
THEOREM BootsUntouchedOnly == Spec => UnattendedBoot
PROOF
<1>1. CountdownInv /\ [Next]_vars =>
        [Tick /\ pc' = "done" => ~touched /\ timeout > 0 /\ result' = 0]_vars
  <2> SUFFICES ASSUME CountdownInv, Tick, pc' = "done"
               PROVE  ~touched /\ timeout > 0 /\ result' = 0
    OBVIOUS
  <2>1. Counting /\ result' = 0
    BY DEF Tick
  <2> QED
    BY <2>1 DEF CountdownInv, Counting
<1> QED
  BY <1>1, CountdownHolds, PTL DEF Spec, UnattendedBoot

-----------------------------------------------------------------------------
(* Where the menu's rectangles lie *)

\* The constants of the loop, as the initial states have them.
Setting ==
  /\ mode \in Nat \X Nat /\ count \in Nat /\ timeout \in Nat
  /\ Drawable

\* A row's stripe, and the countdown's: the parts that a redraw repairs.
Stripe(r) == Rect(Pixels, box_x + 10, RowY(r), box_w - 20, 32)
Foot == Rect(Pixels, box_x + 20, box_y + box_h - 30, box_w - 40, 20)

LEMMA PixelCoordinates ==
  ASSUME Setting, NEW q \in Pixels
  PROVE  /\ width \in Nat /\ height \in Nat /\ Word \in Nat
         /\ q[1] \in Nat /\ q[2] \in Nat
         /\ q[1] < width /\ q[2] < height
         /\ width + 16 < Word /\ height + 16 < Word
PROOF
<1>1. width \in Nat /\ height \in Nat
  BY DEF Setting, width, height
<1>2. q \in Nat \X Nat /\ q[1] < width /\ q[2] < height
  BY MenuAssumption DEF Pixels
<1>3. q[1] \in Nat /\ q[2] \in Nat
  BY <1>2
<1> QED
  BY <1>1, <1>2, <1>3, RasterAssumption DEF Setting, Drawable, InReach

\* A rectangle whose coordinates do not wrap is what one expects.
LEMMA RectPlain ==
  ASSUME NEW q \in Pixels, NEW x \in Nat, NEW y \in Nat, NEW w \in Nat, NEW h \in Nat,
         x + w < Word, y + h < Word
  PROVE  q \in Rect(Pixels, x, y, w, h) <=>
           x <= q[1] /\ q[1] < x + w /\ y <= q[2] /\ q[2] < y + h
PROOF
<1>1. U(x) = x /\ U(x + w) = x + w /\ U(y) = y /\ U(y + h) = y + h
  BY NoWrap, RasterAssumption
<1> QED
  BY <1>1 DEF Rect, Loop

\* So is its outline: the points of the rectangle in a first or last line.
LEMMA OutlinePlain ==
  ASSUME NEW q \in Pixels, q[1] \in Nat, q[2] \in Nat,
         NEW x \in Nat, NEW y \in Nat, NEW w \in Nat \ {0}, NEW h \in Nat \ {0},
         x + w < Word, y + h < Word
  PROVE  q \in Outline(Pixels, x, y, w, h) <=>
           /\ x <= q[1] /\ q[1] < x + w /\ y <= q[2] /\ q[2] < y + h
           /\ \/ q[2] = y \/ q[2] = y + h - 1
              \/ q[1] = x \/ q[1] = x + w - 1
PROOF
<1>1. U(x) = x /\ U(x + w) = x + w /\ U(y) = y /\ U(y + h) = y + h
  BY NoWrap, RasterAssumption
<1>2. U(y + h - 1) = y + h - 1 /\ U(x + w - 1) = x + w - 1
  BY NoWrap, RasterAssumption
<1> QED
  BY <1>1, <1>2 DEF Outline, Loop

\* A text paints sixteen rows, and eight columns for each character.
LEMMA CellsRows ==
  ASSUME NEW q \in Pixels, NEW x, NEW y \in Nat, NEW n,
         q[2] \in Nat, q[2] + 16 < Word, y + 16 < Word,
         q \in Cells(Pixels, x, y, n)
  PROVE  y <= q[2] /\ q[2] < y + 16
PROOF
<1>1. U(q[2] - y) < 16
  BY DEF Cells
<1>2. CASE y <= q[2]
  <2>1. U(q[2] - y) = q[2] - y
    BY <1>2, NoWrap, RasterAssumption
  <2> QED
    BY <1>1, <1>2, <2>1
<1>3. CASE q[2] < y
  <2>1. U(q[2] - y) = (q[2] - y) + Word
    BY <1>3, RasterAssumption DEF U
  <2> QED
    BY <1>1, <1>3, <2>1, RasterAssumption
<1> QED
  BY <1>2, <1>3

LEMMA CellsColumns ==
  ASSUME NEW q \in Pixels, NEW x \in Nat, NEW y, NEW n \in Nat,
         q[1] \in Nat, q[1] < Word, x + 8 * n < Word,
         q \in Cells(Pixels, x, y, n)
  PROVE  x <= q[1] /\ q[1] < x + 8 * n
PROOF
<1>1. U(q[1] - x) \div 8 + 1 <= n
  BY DEF Cells, Column
<1>2. CASE x <= q[1]
  <2>1. U(q[1] - x) = q[1] - x
    BY <1>2, NoWrap, RasterAssumption
  <2> QED
    BY <1>1, <1>2, <2>1
<1>3. CASE q[1] < x
  <2>1. U(q[1] - x) = (q[1] - x) + Word
    BY <1>3, RasterAssumption DEF U
  <2> QED
    BY <1>1, <1>3, <2>1, RasterAssumption
<1> QED
  BY <1>2, <1>3

\* The box lies on the screen, the line of help below it.
LEMMA BoxPlace ==
  ASSUME Setting
  PROVE  /\ width \in Nat /\ height \in Nat /\ Word \in Nat
         /\ width + 16 < Word /\ height + 16 < Word
         /\ box_w \in Nat /\ box_w >= 64
         /\ box_x \in Nat /\ box_x + box_w <= width
         /\ box_h \in Nat /\ box_h = count * 45 + 100 /\ box_h >= 100
         /\ box_y \in Nat /\ box_y + box_h + 80 <= height
PROOF
<1>1. /\ width \in Nat /\ height \in Nat /\ Word \in Nat /\ count \in Nat
      /\ width >= 80
      /\ width + 16 < Word /\ height + 16 < Word /\ box_h + 80 <= height
  BY RasterAssumption DEF Setting, Drawable, InReach, width, height
<1>2. box_w \in Nat /\ box_w >= 64 /\ box_w <= width
  BY <1>1 DEF box_w
<1>3. box_x \in Nat /\ box_x + box_w <= width
  BY <1>1, <1>2 DEF box_x
<1>4. box_h \in Nat /\ box_h = count * 45 + 100 /\ box_h >= 100
  BY <1>1 DEF box_h
<1>5. U(height - box_h) = height - box_h
  BY <1>1, <1>4, NoWrap
<1>6. box_y \in Nat /\ box_y + box_h + 80 <= height
  <2>1. box_y = (height - box_h) \div 2 - 40
    BY <1>5 DEF box_y
  <2> HIDE DEF box_h, box_y, height
  <2> QED
    BY <1>1, <1>4, <2>1
<1> QED
  BY <1>1, <1>2, <1>3, <1>4, <1>6

\* The stripes lie one below the other, below the title and above the foot.
LEMMA RowPlace ==
  ASSUME Setting, NEW r \in Rows
  PROVE  /\ RowY(r) \in Nat
         /\ RowY(r) = box_y + 52 + r * 45
         /\ RowY(r) + 32 + 60 < box_y + box_h
PROOF
<1>1. r \in Nat /\ r <= count - 1 /\ count \in Nat
  BY DEF Rows, Setting
<1>2. box_y \in Nat /\ box_h = count * 45 + 100 /\ box_h >= 100
  BY BoxPlace
<1>3. RowY(r) = box_y + 52 + r * 45
  BY <1>1, <1>2 DEF RowY
<1> QED
  BY <1>1, <1>2, <1>3

LEMMA StripePlain ==
  ASSUME Setting, NEW r \in Rows, NEW q \in Pixels
  PROVE  q \in Stripe(r) <=>
           /\ box_x + 10 <= q[1] /\ q[1] < box_x + box_w - 10
           /\ RowY(r) <= q[2] /\ q[2] < RowY(r) + 32
PROOF
<1> HIDE DEF Rows
<1>1. /\ box_x + 10 \in Nat /\ box_w - 20 \in Nat /\ RowY(r) \in Nat
      /\ (box_x + 10) + (box_w - 20) < Word /\ RowY(r) + 32 < Word
  BY BoxPlace, RowPlace
<1>2. q \in Stripe(r) <=>
        /\ box_x + 10 <= q[1] /\ q[1] < (box_x + 10) + (box_w - 20)
        /\ RowY(r) <= q[2] /\ q[2] < RowY(r) + 32
  BY <1>1, RectPlain DEF Stripe
<1>3. (box_x + 10) + (box_w - 20) = box_x + box_w - 10
  BY BoxPlace
<1> QED
  BY <1>2, <1>3

LEMMA FootPlain ==
  ASSUME Setting, NEW q \in Pixels
  PROVE  q \in Foot <=>
           /\ box_x + 20 <= q[1] /\ q[1] < box_x + box_w - 20
           /\ box_y + box_h - 30 <= q[2] /\ q[2] < box_y + box_h - 10
PROOF
<1>1. /\ box_x + 20 \in Nat /\ box_w - 40 \in Nat /\ box_y + box_h - 30 \in Nat
      /\ (box_x + 20) + (box_w - 40) < Word /\ (box_y + box_h - 30) + 20 < Word
  BY BoxPlace
<1>2. q \in Foot <=>
        /\ box_x + 20 <= q[1] /\ q[1] < (box_x + 20) + (box_w - 40)
        /\ box_y + box_h - 30 <= q[2] /\ q[2] < (box_y + box_h - 30) + 20
  BY <1>1, RectPlain DEF Foot
<1>3. /\ (box_x + 20) + (box_w - 40) = box_x + box_w - 20
      /\ (box_y + box_h - 30) + 20 = box_y + box_h - 10
  BY BoxPlace
<1> QED
  BY <1>2, <1>3

LEMMA StripesApart ==
  ASSUME Setting, NEW r \in Rows, NEW q \in Pixels, q \in Stripe(r)
  PROVE  /\ q \notin Foot
         /\ \A k \in Rows : q \in Stripe(k) => k = r
PROOF
<1>1. q[1] \in Nat /\ q[2] \in Nat
  BY PixelCoordinates
<1>2. box_y \in Nat /\ box_h \in Nat
  BY BoxPlace
<1>3. RowY(r) = box_y + 52 + r * 45 /\ RowY(r) + 32 + 60 < box_y + box_h
  BY RowPlace
<1>4. RowY(r) <= q[2] /\ q[2] < RowY(r) + 32
  BY StripePlain
<1>5. r \in Nat
  BY DEF Rows, Setting
<1>6. q \notin Foot
  BY <1>1, <1>2, <1>3, <1>4, <1>5, FootPlain
<1>7. ASSUME NEW k \in Rows, q \in Stripe(k) PROVE k = r
  <2>1. RowY(k) = box_y + 52 + k * 45
    BY RowPlace
  <2>2. RowY(k) <= q[2] /\ q[2] < RowY(k) + 32
    BY <1>7, StripePlain
  <2>3. k \in Nat
    BY DEF Rows, Setting
  <2> QED
    BY <1>1, <1>2, <1>3, <1>4, <1>5, <2>1, <2>2, <2>3
<1> QED
  BY <1>6, <1>7

-----------------------------------------------------------------------------
(* What the pieces of menu_draw leave at a pixel *)

\* The bottom of a repaired part of a box: the backdrop and the box over it.
Ground(opacity) ==
  Append(<<<<"solid", IF bg_data THEN "image" ELSE "background_color">>>>,
         <<"ui_menu_bg", opacity>>)

LEMMA MaxMin ==
  ASSUME NEW x \in Int, NEW y \in Int, x <= y
  PROVE  /\ Max({x, y}) = y /\ Max({y, x}) = y
         /\ Min({x, y}) = x /\ Min({y, x}) = x
PROOF
<1>1. Max({x, y}) = y /\ Max({y, x}) = y
  BY DEF Max
<1>2. Min({x, y}) = x /\ Min({y, x}) = x
  BY DEF Min
<1> QED
  BY <1>1, <1>2

\* A repair inside the box and below its title bar leaves the ground in its
\* rectangle and nothing else changed, whatever was there.
LEMMA RepairPlain ==
  ASSUME NEW c, NEW opacity,
         NEW x \in Int, NEW y \in Int, NEW w \in Int, NEW h \in Int,
         NEW bx \in Int, NEW by \in Int, NEW bw \in Int, NEW bh \in Int,
         w > 0, h > 0, bx <= x, x + w <= bx + bw, by + 35 <= y, y + h <= by + bh
  PROVE  Repair(c, x, y, w, h, bx, by, bw, bh, opacity) =
           [q \in Pixels |-> IF q \in Rect(Pixels, x, y, w, h)
                               THEN Ground(opacity) ELSE c[q]]
PROOF
<1>1. Max({x, bx}) = x /\ Min({x + w, bx + bw}) = x + w
  <2>1. x + w \in Int /\ bx + bw \in Int
    OBVIOUS
  <2> QED
    BY <2>1, MaxMin
<1>2. Max({y, by}) = y /\ Min({y + h, by + bh}) = y + h
  <2>1. by <= y /\ y + h \in Int /\ by + bh \in Int
    OBVIOUS
  <2> QED
    BY <2>1, MaxMin
<1>3. /\ (x + w) - x = w /\ (y + h) - y = h
      /\ x + w > x /\ y + h > y /\ ~(y < by + 35)
  OBVIOUS
<1> DEFINE S == Rect(Pixels, x, y, w, h)
<1>4. Repair(c, x, y, w, h, bx, by, bw, bh, opacity) =
        Blend(Backdrop(c, S), S, "ui_menu_bg", opacity)
  BY <1>1, <1>2, <1>3 DEF Repair
<1> HIDE DEF S
<1>5. Blend(Backdrop(c, S), S, "ui_menu_bg", opacity) =
        [q \in Pixels |-> IF q \in S THEN Ground(opacity) ELSE c[q]]
  BY DEF Blend, Backdrop, Solid, Ground
<1> QED
  BY <1>4, <1>5 DEF S

LEMMA RepairRowPlain ==
  ASSUME Setting, NEW r \in Rows, NEW c
  PROVE  RepairRow(c, r) =
           [q \in Pixels |-> IF q \in Stripe(r) THEN Ground(190) ELSE c[q]]
PROOF
<1>1. /\ box_x \in Int /\ box_y \in Int /\ box_w \in Int /\ box_h \in Int
      /\ box_w >= 64
  BY BoxPlace
<1>2. RowY(r) = box_y + 52 + r * 45 /\ RowY(r) + 32 + 60 < box_y + box_h
      /\ RowY(r) \in Int /\ r \in Nat
  BY RowPlace DEF Rows, Setting
<1>3. /\ box_w - 20 > 0 /\ 32 > 0 /\ box_x + 10 \in Int /\ box_w - 20 \in Int
      /\ box_x <= box_x + 10 /\ (box_x + 10) + (box_w - 20) <= box_x + box_w
      /\ box_y + 35 <= RowY(r) /\ RowY(r) + 32 <= box_y + box_h
  BY <1>1, <1>2
<1> QED
  BY <1>1, <1>2, <1>3, RepairPlain DEF RepairRow, Stripe

\* A name lies in the stripe of its row.
NameCells(r) == Cells(Pixels, box_x + 30, RowY(r) + 8, 3)
NameLayer(q, r, color) == <<"char", Name(r)[Column(q, box_x + 30)], color>>

LEMMA RowTextPlain ==
  ASSUME NEW c, NEW r, NEW color
  PROVE  RowText(c, r, color) =
           [q \in Pixels |-> IF q \in NameCells(r)
                               THEN Append(c[q], NameLayer(q, r, color)) ELSE c[q]]
PROOF
<1>1. Len(Name(r)) = 3
  BY DEF Name, Caption
<1> QED
  BY <1>1 DEF RowText, Text, NameCells, NameLayer

LEMMA NameInStripe ==
  ASSUME Setting, NEW r \in Rows, NEW q \in Pixels, q \in NameCells(r)
  PROVE  q \in Stripe(r)
PROOF
<1>1. /\ q[1] \in Nat /\ q[2] \in Nat /\ q[1] < width /\ q[2] < height
      /\ width + 16 < Word /\ height + 16 < Word
      /\ width \in Nat /\ height \in Nat /\ Word \in Nat
  BY PixelCoordinates
<1>2. /\ box_x \in Nat /\ box_w \in Nat /\ box_w >= 64 /\ box_x + box_w <= width
      /\ box_y \in Nat /\ box_h \in Nat /\ box_y + box_h + 80 <= height
  BY BoxPlace
<1>3. RowY(r) \in Nat /\ RowY(r) + 32 + 60 < box_y + box_h
  BY RowPlace
<1>4. RowY(r) + 8 <= q[2] /\ q[2] < (RowY(r) + 8) + 16
  <2>1. RowY(r) + 8 \in Nat /\ q[2] + 16 < Word /\ (RowY(r) + 8) + 16 < Word
    BY <1>1, <1>2, <1>3
  <2> QED
    BY <1>1, <2>1, CellsRows DEF NameCells
<1>5. box_x + 30 <= q[1] /\ q[1] < (box_x + 30) + 8 * 3
  <2>1. box_x + 30 \in Nat /\ q[1] < Word /\ (box_x + 30) + 8 * 3 < Word /\ 3 \in Nat
    BY <1>1, <1>2
  <2> QED
    BY <1>1, <2>1, CellsColumns DEF NameCells
<1> QED
  BY <1>1, <1>2, <1>3, <1>4, <1>5, StripePlain

\* A row painted plainly, and one painted as the selected one: only the stripe
\* changes, to what does not depend on what was there.
PlainPixel(q, r) ==
  IF q \in NameCells(r) THEN Append(Ground(190), NameLayer(q, r, "ui_menu_text"))
  ELSE Ground(190)

Edge(r) == Outline(Pixels, box_x + 10, RowY(r), box_w - 20, 32)

SelectedPixel(q, r) ==
  LET under == IF q \in Edge(r) THEN <<<<"solid", "ui_menu_title">>>>
               ELSE Append(Ground(190), <<"ui_menu_sel_bg", 150>>)
  IN IF q \in NameCells(r) THEN Append(under, NameLayer(q, r, "ui_menu_text_sel"))
     ELSE under

LEMMA EdgeInStripe ==
  ASSUME Setting, NEW r \in Rows, NEW q \in Pixels, q \in Edge(r)
  PROVE  q \in Stripe(r)
PROOF
<1>1. q[1] \in Nat /\ q[2] \in Nat
  BY PixelCoordinates
<1>2. /\ box_x + 10 \in Nat /\ box_w - 20 \in Nat \ {0} /\ RowY(r) \in Nat
      /\ 32 \in Nat \ {0}
      /\ (box_x + 10) + (box_w - 20) < Word /\ RowY(r) + 32 < Word
  BY BoxPlace, RowPlace
<1>3. /\ box_x + 10 <= q[1] /\ q[1] < (box_x + 10) + (box_w - 20)
      /\ RowY(r) <= q[2] /\ q[2] < RowY(r) + 32
  BY <1>1, <1>2, OutlinePlain DEF Edge
<1>4. box_w - 20 \in Nat
  BY <1>2
<1> QED
  BY <1>2, <1>3, <1>4, RectPlain DEF Stripe

LEMMA PlainRowPlain ==
  ASSUME Setting, NEW r \in Rows, NEW c
  PROVE  PlainRow(c, r) =
           [q \in Pixels |-> IF q \in Stripe(r) THEN PlainPixel(q, r) ELSE c[q]]
PROOF
<1> DEFINE d == RepairRow(c, r)
<1>1. d = [q \in Pixels |-> IF q \in Stripe(r) THEN Ground(190) ELSE c[q]]
  BY RepairRowPlain
<1>2. PlainRow(c, r) = RowText(d, r, "ui_menu_text")
  BY DEF PlainRow
<1> HIDE DEF d
<1>3. ASSUME NEW q \in Pixels
      PROVE  (IF q \in NameCells(r)
                THEN Append(d[q], NameLayer(q, r, "ui_menu_text")) ELSE d[q])
              = IF q \in Stripe(r) THEN PlainPixel(q, r) ELSE c[q]
  BY <1>1, NameInStripe DEF PlainPixel
<1> QED
  BY <1>2, <1>3, RowTextPlain

LEMMA SelectedRowPlain ==
  ASSUME Setting, NEW r \in Rows, NEW c
  PROVE  SelectedRow(c, r) =
           [q \in Pixels |-> IF q \in Stripe(r) THEN SelectedPixel(q, r) ELSE c[q]]
PROOF
<1> DEFINE d == RepairRow(c, r)
           bar == Blend(d, Stripe(r), "ui_menu_sel_bg", 150)
           lined == Solid(bar, Edge(r), "ui_menu_title")
<1>1. d = [q \in Pixels |-> IF q \in Stripe(r) THEN Ground(190) ELSE c[q]]
  BY RepairRowPlain
<1>2. SelectedRow(c, r) = RowText(lined, r, "ui_menu_text_sel")
  BY DEF SelectedRow, Stripe, Edge
<1> HIDE DEF d
<1>3. bar = [q \in Pixels |-> IF q \in Stripe(r)
                THEN Append(Ground(190), <<"ui_menu_sel_bg", 150>>) ELSE c[q]]
  BY <1>1 DEF Blend
<1> HIDE DEF bar
<1>4. lined = [q \in Pixels |-> IF q \in Edge(r) THEN <<<<"solid", "ui_menu_title">>>>
                ELSE IF q \in Stripe(r)
                THEN Append(Ground(190), <<"ui_menu_sel_bg", 150>>) ELSE c[q]]
  BY <1>3 DEF Solid
<1> HIDE DEF lined
<1>5. ASSUME NEW q \in Pixels
      PROVE  (IF q \in NameCells(r)
                THEN Append(lined[q], NameLayer(q, r, "ui_menu_text_sel"))
                ELSE lined[q])
              = IF q \in Stripe(r) THEN SelectedPixel(q, r) ELSE c[q]
  BY <1>4, NameInStripe, EdgeInStripe DEF SelectedPixel
<1> QED
  BY <1>2, <1>5, RowTextPlain

\* The countdown's line.
FootCells(sec) == Cells(Pixels, box_x + 20, box_y + box_h - 30, Len(Seconds(sec)))

FootPixel(q, sec) ==
  IF sec > 0 /\ q \in FootCells(sec)
    THEN Append(Ground(190), <<"char", Seconds(sec)[Column(q, box_x + 20)],
                               "ui_menu_accent">>)
  ELSE Ground(190)

LEMMA CountdownInFoot ==
  ASSUME Setting, NEW sec \in 0 .. timeout, NEW q \in Pixels, q \in FootCells(sec)
  PROVE  q \in Foot
PROOF
<1>1. /\ q[1] \in Nat /\ q[2] \in Nat /\ q[1] < width /\ q[2] < height
      /\ width + 16 < Word /\ height + 16 < Word
      /\ width \in Nat /\ height \in Nat /\ Word \in Nat
  BY PixelCoordinates
<1>2. /\ box_x \in Nat /\ box_w \in Nat /\ box_w >= 64 /\ box_x + box_w <= width
      /\ box_y \in Nat /\ box_h \in Nat /\ box_y + box_h + 80 <= height
      /\ box_h >= 100
  BY BoxPlace
<1> DEFINE n == Len(Seconds(sec))
<1>3. n \in Nat /\ 8 * n <= box_w - 40
  <2>1. n \in 0 .. (box_w - 40) \div 8
    BY DEF Setting, Drawable
  <2> HIDE DEF n
  <2> QED
    BY <1>2, <2>1
<1>4. box_y + box_h - 30 <= q[2] /\ q[2] < (box_y + box_h - 30) + 16
  <2>1. /\ box_y + box_h - 30 \in Nat /\ q[2] + 16 < Word
        /\ (box_y + box_h - 30) + 16 < Word
    BY <1>1, <1>2
  <2> QED
    BY <1>1, <2>1, CellsRows DEF FootCells
<1>5. box_x + 20 <= q[1] /\ q[1] < (box_x + 20) + 8 * n
  <2>1. box_x + 20 \in Nat /\ q[1] < Word /\ (box_x + 20) + 8 * n < Word
    BY <1>1, <1>2, <1>3
  <2> HIDE DEF n
  <2>2. q \in Cells(Pixels, box_x + 20, box_y + box_h - 30, n)
    BY DEF FootCells, n
  <2> QED
    BY <1>1, <1>3, <2>1, <2>2, CellsColumns
<1>6. q[1] < box_x + box_w - 20
  <2> DEFINE x == box_x
             w == box_w
  <2>1. x \in Nat /\ w \in Nat /\ q[1] \in Nat /\ q[1] < (x + 20) + 8 * n
    BY <1>1, <1>2, <1>5
  <2> HIDE DEF n, x, w
  <2>2. 8 * n <= w - 40
    BY <1>3 DEF w
  <2>3. q[1] < x + w - 20
    BY <1>3, <2>1, <2>2
  <2> QED
    BY <2>3 DEF x, w
<1>7. q[2] < box_y + box_h - 10
  <2> DEFINE y == box_y
             h == box_h
  <2>1. y \in Nat /\ h \in Nat /\ q[2] \in Nat /\ q[2] < (y + h - 30) + 16
    BY <1>1, <1>2, <1>4
  <2> HIDE DEF y, h
  <2>2. q[2] < y + h - 10
    BY <2>1
  <2> QED
    BY <2>2 DEF y, h
<1> QED
  BY <1>4, <1>5, <1>6, <1>7, FootPlain

LEMMA PaintCountdownPlain ==
  ASSUME Setting, NEW sec \in 0 .. timeout, NEW c
  PROVE  PaintCountdown(c, sec) =
           [q \in Pixels |-> IF q \in Foot THEN FootPixel(q, sec) ELSE c[q]]
PROOF
<1> DEFINE bare == Repair(c, box_x + 20, box_y + box_h - 30, box_w - 40, 20,
                          box_x, box_y, box_w, box_h, 190)
<1>1. bare = [q \in Pixels |-> IF q \in Foot THEN Ground(190) ELSE c[q]]
  <2>1. /\ box_x \in Int /\ box_y \in Int /\ box_w \in Int /\ box_h \in Int
        /\ box_w >= 64 /\ box_h >= 100
    BY BoxPlace
  <2>2. /\ box_x + 20 \in Int /\ box_y + box_h - 30 \in Int /\ box_w - 40 \in Int
        /\ box_w - 40 > 0 /\ 20 > 0
        /\ box_x <= box_x + 20 /\ (box_x + 20) + (box_w - 40) <= box_x + box_w
        /\ box_y + 35 <= box_y + box_h - 30
        /\ (box_y + box_h - 30) + 20 <= box_y + box_h
    BY <2>1
  <2> QED
    BY <2>1, <2>2, RepairPlain DEF Foot
<1>2. PaintCountdown(c, sec) =
        IF sec > 0 THEN Text(bare, box_x + 20, box_y + box_h - 30, Seconds(sec),
                             "ui_menu_accent")
        ELSE bare
  BY DEF PaintCountdown
<1> HIDE DEF bare
<1>3. CASE sec > 0
  <2>1. Text(bare, box_x + 20, box_y + box_h - 30, Seconds(sec), "ui_menu_accent") =
          [q \in Pixels |-> IF q \in FootCells(sec)
             THEN Append(bare[q], <<"char", Seconds(sec)[Column(q, box_x + 20)],
                                    "ui_menu_accent">>)
             ELSE bare[q]]
    BY DEF Text, FootCells
  <2>2. ASSUME NEW q \in Pixels
        PROVE  (IF q \in FootCells(sec)
                  THEN Append(bare[q], <<"char", Seconds(sec)[Column(q, box_x + 20)],
                                         "ui_menu_accent">>)
                  ELSE bare[q])
                = IF q \in Foot THEN FootPixel(q, sec) ELSE c[q]
    BY <1>1, <1>3, CountdownInFoot DEF FootPixel
  <2> QED
    BY <1>2, <1>3, <2>1, <2>2
<1>4. CASE ~(sec > 0)
  BY <1>1, <1>2, <1>4 DEF FootPixel
<1> QED
  BY <1>3, <1>4

\* The frame, before rows and countdown are painted, is bare where they are.
LEMMA FrameBare ==
  ASSUME Setting
  PROVE  /\ Frame = [q \in Pixels |-> Frame[q]]
         /\ \A q \in Pixels :
              q \in Foot \/ (\E r \in Rows : q \in Stripe(r)) => Frame[q] = Ground(190)
PROOF
<1> DEFINE area == Rect(Pixels, box_x, box_y, box_w, box_h)
           edges == Outline(Pixels, box_x, box_y, box_w, box_h)
           head == Rect(Pixels, box_x, box_y, box_w, 35)
           headEdges == Outline(Pixels, box_x, box_y, box_w, 35)
           title == Cells(Pixels, box_x + 20, box_y + 10,
                          Len(Caption("KREXO BOOT MANAGER", 18)))
           help == Cells(Pixels, (width - 50 * 8) \div 2, height - 60,
                         Len(Caption("Navigation", 50)))
           box == Blend(Backdrop(Dark, Pixels), area, "ui_menu_bg", 190)
           border == Solid(box, edges, "ui_menu_border")
           bar == Solid(border, head, "ui_menu_bg")
           lined == Solid(bar, headEdges, "ui_menu_border")
           named == Text(lined, box_x + 20, box_y + 10,
                         Caption("KREXO BOOT MANAGER", 18), "ui_menu_title")
<1>1. Frame = Text(named, (width - 50 * 8) \div 2, height - 60,
                   Caption("Navigation", 50), "ui_menu_help")
  BY DEF Frame
<1>2. \A q \in Pixels : q \in area => box[q] = Ground(190)
  <2> HIDE DEF area
  <2> QED
    BY DEF Blend, Backdrop, Solid, Ground
<1>3. \A q \in Pixels : q \notin edges => border[q] = box[q]
  <2> HIDE DEF edges, box
  <2> QED
    BY DEF Solid
<1>4. \A q \in Pixels : q \notin head => bar[q] = border[q]
  <2> HIDE DEF head, border
  <2> QED
    BY DEF Solid
<1>5. \A q \in Pixels : q \notin headEdges => lined[q] = bar[q]
  <2> HIDE DEF headEdges, bar
  <2> QED
    BY DEF Solid
<1>6. \A q \in Pixels : q \notin title => named[q] = lined[q]
  <2> HIDE DEF lined
  <2> QED
    BY DEF Text
<1>7. /\ Frame = [q \in Pixels |-> Frame[q]]
      /\ \A q \in Pixels : q \notin help => Frame[q] = named[q]
  <2> HIDE DEF named
  <2> QED
    BY <1>1 DEF Text
<1>8. ASSUME NEW q \in Pixels, q \in Foot \/ (\E r \in Rows : q \in Stripe(r))
      PROVE  /\ q \in area /\ q \notin edges /\ q \notin head
             /\ q \notin headEdges /\ q \notin title /\ q \notin help
  <2>1. /\ q[1] \in Nat /\ q[2] \in Nat /\ q[2] < height
        /\ width + 16 < Word /\ height + 16 < Word
        /\ width \in Nat /\ height \in Nat /\ Word \in Nat
    BY PixelCoordinates
  <2>2. /\ box_x \in Nat /\ box_w \in Nat /\ box_w >= 64 /\ box_x + box_w <= width
        /\ box_y \in Nat /\ box_h \in Nat /\ box_y + box_h + 80 <= height
        /\ box_h >= 100
    BY BoxPlace
  <2>3. /\ box_x + 10 <= q[1] /\ q[1] < box_x + box_w - 10
        /\ box_y + 52 <= q[2] /\ q[2] < box_y + box_h - 10
    <3>1. CASE q \in Foot
      BY <2>1, <2>2, <3>1, FootPlain
    <3>2. CASE \E r \in Rows : q \in Stripe(r)
      <4>1. PICK r \in Rows : q \in Stripe(r)
        BY <3>2
      <4>2. /\ RowY(r) = box_y + 52 + r * 45 /\ RowY(r) + 32 + 60 < box_y + box_h
            /\ RowY(r) \in Nat /\ r \in Nat
        BY RowPlace DEF Rows, Setting
      <4>3. /\ box_x + 10 <= q[1] /\ q[1] < box_x + box_w - 10
            /\ RowY(r) <= q[2] /\ q[2] < RowY(r) + 32
        BY <4>1, StripePlain
      <4> QED
        BY <2>1, <2>2, <4>2, <4>3
    <3> QED
      BY <1>8, <3>1, <3>2
  <2>4. q \in area
    <3>1. box_x + box_w < Word /\ box_y + box_h < Word
      BY <2>1, <2>2
    <3>2. q \in area <=> /\ box_x <= q[1] /\ q[1] < box_x + box_w
                        /\ box_y <= q[2] /\ q[2] < box_y + box_h
      BY <2>2, <3>1, RectPlain
    <3> HIDE DEF area
    <3> QED
      BY <2>1, <2>2, <2>3, <3>2
  <2>5. q \notin edges
    <3>1. /\ box_x + box_w < Word /\ box_y + box_h < Word
          /\ box_w \in Nat \ {0} /\ box_h \in Nat \ {0}
      BY <2>1, <2>2
    <3>2. q \in edges => \/ q[2] = box_y \/ q[2] = box_y + box_h - 1
                         \/ q[1] = box_x \/ q[1] = box_x + box_w - 1
      BY <2>1, <2>2, <3>1, OutlinePlain
    <3> QED
      BY <2>1, <2>2, <2>3, <3>2
  <2>6. q \notin head
    <3>1. box_x + box_w < Word /\ box_y + 35 < Word /\ 35 \in Nat
      BY <2>1, <2>2
    <3>2. q \in head => q[2] < box_y + 35
      BY <2>2, <3>1, RectPlain
    <3> QED
      BY <2>1, <2>2, <2>3, <3>2
  <2>7. q \notin headEdges
    <3>1. /\ box_x + box_w < Word /\ box_y + 35 < Word
          /\ box_w \in Nat \ {0} /\ 35 \in Nat \ {0}
      BY <2>1, <2>2
    <3>2. q \in headEdges => q[2] < box_y + 35
      BY <2>1, <2>2, <3>1, OutlinePlain
    <3> QED
      BY <2>1, <2>2, <2>3, <3>2
  <2>8. q \notin title
    <3>1. box_y + 10 \in Nat /\ q[2] + 16 < Word /\ (box_y + 10) + 16 < Word
      BY <2>1, <2>2
    <3>2. q \in title => q[2] < (box_y + 10) + 16
      BY <2>1, <3>1, CellsRows
    <3> HIDE DEF title
    <3> QED
      BY <2>1, <2>2, <2>3, <3>2
  <2>9. q \notin help
    <3>1. height - 60 \in Nat /\ q[2] + 16 < Word /\ (height - 60) + 16 < Word
      BY <2>1, <2>2
    <3>2. q \in help => height - 60 <= q[2]
      BY <2>1, <3>1, CellsRows
    <3> QED
      BY <2>1, <2>2, <2>3, <3>2
  <2> QED
    BY <2>4, <2>5, <2>6, <2>7, <2>8, <2>9
<1> HIDE DEF area, edges, head, headEdges, title, help, box, border, bar, lined, named
<1> QED
  BY <1>2, <1>3, <1>4, <1>5, <1>6, <1>7, <1>8

-----------------------------------------------------------------------------
(* A full redraw *)

LEMMA Least ==
  ASSUME NEW S \in SUBSET Nat, S # {}
  PROVE  \E x \in S : \A y \in S : x <= y
PROOF
<1>1. IsWellFoundedOn(OpToRel(<, Nat), Nat)
  BY NatLessThanWellFounded
<1>2. PICK x \in S : \A y \in S : ~(<<y, x>> \in OpToRel(<, Nat))
  BY <1>1, WFMin
<1>3. \A y \in S : ~(y < x)
  BY <1>2 DEF OpToRel
<1> QED
  BY <1>3

\* How every pixel looks when entry sel is selected, without the countdown.
RowsPixel(q, sel) ==
  IF q \in Stripe(sel) THEN SelectedPixel(q, sel)
  ELSE IF \E r \in Rows : q \in Stripe(r)
    THEN PlainPixel(q, CHOOSE r \in Rows : q \in Stripe(r))
  ELSE Frame[q]

LEMMA TheRow ==
  ASSUME Setting, NEW r \in Rows, NEW q \in Pixels, q \in Stripe(r)
  PROVE  (CHOOSE k \in Rows : q \in Stripe(k)) = r
PROOF
BY StripesApart

LEMMA RowsPixelCases ==
  ASSUME Setting, NEW sel \in Rows, NEW q \in Pixels
  PROVE  /\ q \in Stripe(sel) => RowsPixel(q, sel) = SelectedPixel(q, sel)
         /\ \A r \in Rows : q \in Stripe(r) /\ r # sel => RowsPixel(q, sel) = PlainPixel(q, r)
         /\ ~(\E r \in Rows : q \in Stripe(r)) => RowsPixel(q, sel) = Frame[q]
PROOF
<1>1. ASSUME NEW r \in Rows, q \in Stripe(r), r # sel
      PROVE  RowsPixel(q, sel) = PlainPixel(q, r)
  <2>1. q \notin Stripe(sel)
    BY <1>1, StripesApart
  <2>2. (CHOOSE k \in Rows : q \in Stripe(k)) = r
    BY <1>1, TheRow
  <2> QED
    BY <1>1, <2>1, <2>2 DEF RowsPixel
<1> QED
  BY <1>1 DEF RowsPixel

\* The loop that writes the names of the rows not selected, turn by turn.
LEMMA NamesPainted ==
  ASSUME Setting, NEW sel \in Rows
  PROVE  PaintRows(Frame, -1, sel) = [q \in Pixels |-> RowsPixel(q, sel)]
PROOF
<1> DEFINE now == SelectedRow(Frame, sel)
           T == -1 .. count - 1
           Rec(f) == f = [r \in T |->
                            IF r = -1 THEN now
                            ELSE IF r = sel THEN f[r - 1]
                            ELSE RowText(f[r - 1], r, "ui_menu_text")]
           names == CHOOSE f : Rec(f)
           done(r, q) == \E k \in Rows : k <= r /\ q \in Stripe(k)
           turn == [r \in T |-> [q \in Pixels |->
                     IF q \in Stripe(sel) \/ done(r, q) THEN RowsPixel(q, sel)
                     ELSE Frame[q]]]
<1>1. count \in Nat /\ count > 0 /\ Rows = 0 .. count - 1
  BY DEF Setting, Drawable, Rows
<1>2. PaintRows(Frame, -1, sel) = names[count - 1]
  <2>1. -1 \notin Rows
    BY <1>1
  <2> QED
    BY <2>1 DEF PaintRows
<1>3. now = [q \in Pixels |-> IF q \in Stripe(sel) THEN RowsPixel(q, sel)
                              ELSE Frame[q]]
  BY SelectedRowPlain, RowsPixelCases
<1>4. turn[-1] = now
  <2>1. -1 \in T
    BY <1>1
  <2>2. \A q : ~done(-1, q)
    BY <1>1
  <2> HIDE DEF now, T, done
  <2> QED
    BY <1>3, <2>1, <2>2
<1>5. ASSUME NEW r \in Rows, r = sel
      PROVE  turn[r] = turn[r - 1]
  <2>1. r \in T /\ r - 1 \in T
    BY <1>1
  <2>2. ASSUME NEW q \in Pixels
        PROVE  (q \in Stripe(sel) \/ done(r, q)) <=> (q \in Stripe(sel) \/ done(r - 1, q))
    <3>1. \A k \in Rows : k <= r <=> k = r \/ k <= r - 1
      BY <1>1
    <3> QED
      BY <1>5, <3>1
  <2> HIDE DEF T, done
  <2> QED
    BY <2>1, <2>2
<1>6. ASSUME NEW r \in Rows, r # sel
      PROVE  turn[r] = RowText(turn[r - 1], r, "ui_menu_text")
  <2>1. r \in T /\ r - 1 \in T
    BY <1>1
  <2>2. \A q \in Pixels : done(r, q) <=> q \in Stripe(r) \/ done(r - 1, q)
    <3>1. \A k \in Rows : k <= r <=> k = r \/ k <= r - 1
      BY <1>1
    <3> QED
      BY <3>1
  <2>3. ASSUME NEW q \in Pixels, q \in Stripe(r)
        PROVE  /\ q \notin Stripe(sel) /\ ~done(r - 1, q)
               /\ RowsPixel(q, sel) = PlainPixel(q, r)
               /\ Frame[q] = Ground(190)
    <3>1. \A k \in Rows : q \in Stripe(k) => k = r
      BY <2>3, StripesApart
    <3>2. ~(r <= r - 1)
      BY <1>1
    <3>3. RowsPixel(q, sel) = PlainPixel(q, r)
      BY <1>6, <2>3, RowsPixelCases
    <3> QED
      BY <1>6, <2>3, <3>1, <3>2, <3>3, FrameBare
  <2>4. ASSUME NEW q \in Pixels
        PROVE  turn[r][q] = IF q \in NameCells(r)
                 THEN Append(turn[r - 1][q], NameLayer(q, r, "ui_menu_text"))
                 ELSE turn[r - 1][q]
    <3>1. CASE q \in Stripe(r)
      <4>1. turn[r][q] = PlainPixel(q, r)
        <5> HIDE DEF T, done
        <5> QED
          BY <2>1, <2>2, <2>3, <3>1
      <4>2. turn[r - 1][q] = Ground(190)
        <5> HIDE DEF T, done
        <5> QED
          BY <2>1, <2>3, <3>1
      <4> HIDE DEF turn
      <4> QED
        BY <4>1, <4>2 DEF PlainPixel
    <3>2. CASE q \notin Stripe(r)
      <4>1. q \notin NameCells(r)
        BY <3>2, NameInStripe
      <4>2. turn[r][q] = turn[r - 1][q]
        <5> HIDE DEF T, done
        <5> QED
          BY <2>1, <2>2, <3>2
      <4> HIDE DEF turn
      <4> QED
        BY <4>1, <4>2
    <3> QED
      BY <3>1, <3>2
  <2>5. turn[r] = [q \in Pixels |-> turn[r][q]]
    <3> HIDE DEF T, done
    <3> QED
      BY <2>1
  <2> HIDE DEF turn
  <2> QED
    BY <2>4, <2>5, RowTextPlain
<1>7. Rec(turn)
  <2>1. DOMAIN turn = T
    OBVIOUS
  <2>2. turn = [r \in T |-> turn[r]]
    <3> HIDE DEF done
    <3> QED
      OBVIOUS
  <2>3. ASSUME NEW r \in T
        PROVE  turn[r] = IF r = -1 THEN now
                         ELSE IF r = sel THEN turn[r - 1]
                         ELSE RowText(turn[r - 1], r, "ui_menu_text")
    <3>1. r # -1 => r \in Rows
      BY <1>1
    <3> HIDE DEF turn, T, now
    <3> QED
      BY <1>4, <1>5, <1>6, <3>1
  <2> HIDE DEF turn, T, now
  <2> QED
    BY <2>2, <2>3
<1>8. Rec(names)
  <2> HIDE DEF Rec, turn
  <2> QED
    BY <1>7
<1>9. \A r \in T : names[r] = turn[r]
  <2> DEFINE Bad == {m \in 0 .. count : names[m - 1] # turn[m - 1]}
  <2>1. CASE Bad = {}
    <3>1. \A r \in T : r + 1 \in 0 .. count /\ (r + 1) - 1 = r
      BY <1>1
    <3>2. \A r \in T : r + 1 \notin Bad
      BY <2>1
    <3> HIDE DEF T, turn, names
    <3> QED
      BY <3>1, <3>2
  <2>2. CASE Bad # {}
    <3>1. Bad \in SUBSET Nat
      BY <1>1
    <3>2. PICK m \in Bad : \A k \in Bad : m <= k
      <4> HIDE DEF Bad
      <4> QED
        BY <2>2, <3>1, Least
    <3>3. m \in 0 .. count /\ names[m - 1] # turn[m - 1]
      <4> HIDE DEF names, turn
      <4> QED
        BY <3>2
    <3>4. m - 1 \in T
      BY <1>1, <3>3
    <3>5. m # 0 => names[m - 2] = turn[m - 2]
      <4>1. m # 0 => m - 1 \in 0 .. count /\ (m - 1) - 1 = m - 2 /\ ~(m <= m - 1)
        BY <1>1, <3>3
      <4> HIDE DEF names, turn
      <4> QED
        BY <3>2, <4>1
    <3>6. (m - 1) - 1 = m - 2 /\ (m = 0 <=> m - 1 = -1)
      BY <3>3
    <3>7. names[m - 1] = turn[m - 1]
      <4> HIDE DEF names, turn, T, now
      <4>1. names[m - 1] = IF m - 1 = -1 THEN now
                           ELSE IF m - 1 = sel THEN names[(m - 1) - 1]
                           ELSE RowText(names[(m - 1) - 1], m - 1, "ui_menu_text")
        BY <1>8, <3>4
      <4>2. turn[m - 1] = IF m - 1 = -1 THEN now
                          ELSE IF m - 1 = sel THEN turn[(m - 1) - 1]
                          ELSE RowText(turn[(m - 1) - 1], m - 1, "ui_menu_text")
        BY <1>7, <3>4
      <4> QED
        BY <3>5, <3>6, <4>1, <4>2
    <3> QED
      BY <3>3, <3>7
  <2> QED
    BY <2>1, <2>2
<1>10. turn[count - 1] = [q \in Pixels |-> RowsPixel(q, sel)]
  <2>1. count - 1 \in T
    BY <1>1
  <2>2. ASSUME NEW q \in Pixels
        PROVE  (IF q \in Stripe(sel) \/ done(count - 1, q) THEN RowsPixel(q, sel)
                ELSE Frame[q]) = RowsPixel(q, sel)
    <3>1. done(count - 1, q) <=> \E k \in Rows : q \in Stripe(k)
      BY <1>1
    <3> HIDE DEF done
    <3> QED
      BY <3>1, RowsPixelCases
  <2> HIDE DEF T, done
  <2> QED
    BY <2>1, <2>2
<1>11. count - 1 \in T
  BY <1>1
<1> HIDE DEF names, turn, T
<1> QED
  BY <1>2, <1>9, <1>10, <1>11

\* How every pixel looks on a screen that is up to date.
Picture(sel, sec) ==
  [q \in Pixels |-> IF q \in Foot THEN FootPixel(q, sec) ELSE RowsPixel(q, sel)]

LEMMA FullRedrawPaints ==
  ASSUME Setting, NEW sel \in Rows, NEW sec \in 0 .. timeout
  PROVE  FullRedraw(sel, sec) = Picture(sel, sec)
PROOF
<1> DEFINE rows == PaintRows(Frame, -1, sel)
<1>1. rows = [q \in Pixels |-> RowsPixel(q, sel)]
  BY NamesPainted
<1>2. FullRedraw(sel, sec) = PaintCountdown(rows, sec)
  BY DEF FullRedraw
<1> HIDE DEF rows
<1> QED
  BY <1>1, <1>2, PaintCountdownPlain DEF Picture

\* Repainting the two stripes that a move of the selection touches does what a
\* full redraw would.
LEMMA SelectionMoves ==
  ASSUME Setting, NEW from \in Rows, NEW sel \in Rows, NEW sec
  PROVE  PaintRows(Picture(from, sec), from, sel) = Picture(sel, sec)
PROOF
<1> DEFINE c == Picture(from, sec)
           left == PlainRow(c, from)
<1>1. from # -1
  BY DEF Rows, Setting
<1>2. PaintRows(c, from, sel) = SelectedRow(left, sel)
  BY <1>1 DEF PaintRows
<1>3. left = [q \in Pixels |-> IF q \in Stripe(from) THEN PlainPixel(q, from) ELSE c[q]]
  BY PlainRowPlain
<1>4. \A q \in Pixels :
        c[q] = IF q \in Foot THEN FootPixel(q, sec) ELSE RowsPixel(q, from)
  BY DEF Picture
<1> HIDE DEF c, left
<1>5. SelectedRow(left, sel) =
        [q \in Pixels |-> IF q \in Stripe(sel) THEN SelectedPixel(q, sel) ELSE left[q]]
  BY SelectedRowPlain
<1>6. ASSUME NEW q \in Pixels
      PROVE  (IF q \in Stripe(sel) THEN SelectedPixel(q, sel) ELSE left[q])
              = IF q \in Foot THEN FootPixel(q, sec) ELSE RowsPixel(q, sel)
  <2>1. CASE q \in Stripe(sel)
    BY <2>1, StripesApart, RowsPixelCases
  <2>2. CASE q \notin Stripe(sel) /\ q \in Stripe(from)
    <3>1. from # sel
      BY <2>2
    <3>2. RowsPixel(q, sel) = PlainPixel(q, from)
      BY <2>2, <3>1, RowsPixelCases
    <3> QED
      BY <1>3, <2>2, <3>2, StripesApart
  <2>3. CASE q \notin Stripe(sel) /\ q \notin Stripe(from)
    <3>1. left[q] = IF q \in Foot THEN FootPixel(q, sec) ELSE RowsPixel(q, from)
      BY <1>3, <1>4, <2>3
    <3>2. RowsPixel(q, from) = RowsPixel(q, sel)
      BY <2>3 DEF RowsPixel
    <3> QED
      BY <2>3, <3>1, <3>2
  <2> QED
    BY <2>1, <2>2, <2>3
<1> QED
  BY <1>2, <1>5, <1>6 DEF c, Picture

\* So does repainting the countdown's line.
LEMMA CountdownMoves ==
  ASSUME Setting, NEW sel, NEW shown, NEW sec \in 0 .. timeout
  PROVE  PaintCountdown(Picture(sel, shown), sec) = Picture(sel, sec)
PROOF
<1>1. \A q \in Pixels : q \notin Foot => Picture(sel, shown)[q] = RowsPixel(q, sel)
  BY DEF Picture
<1> QED
  BY <1>1, PaintCountdownPlain DEF Picture

\* What is painted depends on the configuration only.
LEMMA PlacesStay ==
  ASSUME UNCHANGED config
  PROVE  /\ width' = width /\ height' = height /\ Pixels' = Pixels /\ Rows' = Rows
         /\ box_x' = box_x /\ box_y' = box_y /\ box_w' = box_w /\ box_h' = box_h
         /\ \A r : RowY(r)' = RowY(r)
PROOF
<1>1. mode' = mode /\ count' = count
  BY DEF config
<1>2. width' = width /\ height' = height
  BY <1>1 DEF width, height
<1>3. Rows' = Rows /\ Pixels' = Pixels
  BY <1>1, <1>2 DEF Rows, Pixels
<1>4. box_w' = box_w /\ box_h' = box_h
  BY <1>1, <1>2 DEF box_w, box_h
<1>5. box_x' = box_x /\ box_y' = box_y
  BY <1>2, <1>4 DEF box_x, box_y
<1>6. \A r : RowY(r)' = RowY(r)
  BY <1>5 DEF RowY
<1> QED
  BY <1>2, <1>3, <1>4, <1>5, <1>6

LEMMA FrameStays ==
  ASSUME UNCHANGED config
  PROVE  Frame' = Frame
PROOF
<1>1. /\ width' = width /\ height' = height /\ Pixels' = Pixels
      /\ box_x' = box_x /\ box_y' = box_y /\ box_w' = box_w /\ box_h' = box_h
  BY PlacesStay
<1>2. bg_data' = bg_data
  BY DEF config
<1> DEFINE area == Rect(Pixels, box_x, box_y, box_w, box_h)
           edges == Outline(Pixels, box_x, box_y, box_w, box_h)
           head == Rect(Pixels, box_x, box_y, box_w, 35)
           headEdges == Outline(Pixels, box_x, box_y, box_w, 35)
           under == Backdrop(Dark, Pixels)
           box == Blend(under, area, "ui_menu_bg", 190)
           border == Solid(box, edges, "ui_menu_border")
           bar == Solid(border, head, "ui_menu_bg")
           lined == Solid(bar, headEdges, "ui_menu_border")
           named == Text(lined, box_x + 20, box_y + 10,
                         Caption("KREXO BOOT MANAGER", 18), "ui_menu_title")
<1>3. area' = area /\ edges' = edges /\ head' = head /\ headEdges' = headEdges
  BY <1>1 DEF Rect, Outline
<1>4. under' = under
  BY <1>1, <1>2 DEF Backdrop, Solid, Dark
<1> HIDE DEF area, edges, head, headEdges, under
<1>5. box' = box
  BY <1>1, <1>3, <1>4 DEF Blend
<1> HIDE DEF box
<1>6. border' = border
  BY <1>1, <1>3, <1>5 DEF Solid
<1> HIDE DEF border
<1>7. bar' = bar
  BY <1>1, <1>3, <1>6 DEF Solid
<1> HIDE DEF bar
<1>8. lined' = lined
  BY <1>1, <1>3, <1>7 DEF Solid
<1> HIDE DEF lined
<1>9. named' = named
  BY <1>1, <1>8 DEF Text
<1> HIDE DEF named
<1> DEFINE all == Text(named, (width - 50 * 8) \div 2, height - 60,
                       Caption("Navigation", 50), "ui_menu_help")
<1>10. all' = all
  BY <1>1, <1>9 DEF Text
<1>11. Frame = all /\ Frame' = all'
  BY DEF Frame, all, named, lined, bar, border, box, under, area, edges, head, headEdges
<1> QED
  BY <1>10, <1>11

LEMMA PictureStays ==
  ASSUME UNCHANGED config, NEW CONSTANT sel, NEW CONSTANT sec
  PROVE  Picture(sel, sec)' = Picture(sel, sec)
PROOF
<1>1. /\ Pixels' = Pixels /\ Rows' = Rows
      /\ box_x' = box_x /\ box_y' = box_y /\ box_w' = box_w /\ box_h' = box_h
      /\ \A r : RowY(r)' = RowY(r)
  BY PlacesStay
<1>2. Frame' = Frame
  BY FrameStays
<1>3. Ground(190)' = Ground(190)
  BY DEF config, Ground
<1>4. /\ Foot' = Foot
      /\ \A r : Stripe(r)' = Stripe(r) /\ Edge(r)' = Edge(r)
                /\ NameCells(r)' = NameCells(r)
  BY <1>1 DEF Foot, Stripe, Edge, NameCells, Rect, Outline, Cells
<1>5. \A q, r, color : NameLayer(q, r, color)' = NameLayer(q, r, color)
  BY <1>1 DEF NameLayer
<1>6. \A q, r : PlainPixel(q, r)' = PlainPixel(q, r)
  BY <1>3, <1>4, <1>5 DEF PlainPixel
<1>7. \A q, r : SelectedPixel(q, r)' = SelectedPixel(q, r)
  BY <1>3, <1>4, <1>5 DEF SelectedPixel
<1>8. \A q : FootPixel(q, sec)' = FootPixel(q, sec)
  BY <1>1, <1>3 DEF FootPixel, FootCells, Cells
<1>9. \A q : RowsPixel(q, sel)' = RowsPixel(q, sel)
  <2> TAKE q
  <2>1. (CHOOSE r \in Rows : q \in Stripe(r))' = CHOOSE r \in Rows : q \in Stripe(r)
    BY <1>1, <1>4, Zenon
  <2> QED
    BY <1>1, <1>2, <1>4, <1>6, <1>7, <2>1 DEF RowsPixel
<1> QED
  BY <1>1, <1>4, <1>8, <1>9 DEF Picture

-----------------------------------------------------------------------------
(* Seconds *)

LEMMA TimesMonotone ==
  ASSUME NEW S \in Nat, NEW d \in Nat, NEW e \in Nat, d <= e
  PROVE  S * d \in Nat /\ S * e \in Nat /\ S * d <= S * e
PROOF
<1>1. PICK f \in Nat : e = d + f
  <2>1. e - d \in Nat /\ e = d + (e - d)
    OBVIOUS
  <2> QED
    BY <2>1
<1>2. S * e = S * d + S * f /\ S * d \in Nat /\ S * f \in Nat
  BY <1>1
<1> QED
  BY <1>2

\* A started second counts as a whole one.
Ceil(x) == (x + SecondMs - 1) \div SecondMs

LEMMA CeilBounds ==
  ASSUME NEW x \in Nat
  PROVE  /\ Ceil(x) \in Nat /\ SecondMs \in Nat \ {0} /\ SecondMs * Ceil(x) \in Nat
         /\ x <= SecondMs * Ceil(x)
         /\ SecondMs * Ceil(x) + 1 <= x + SecondMs
PROOF
<1> DEFINE n == x + SecondMs - 1
           d == n \div SecondMs
           r == n % SecondMs
<1>1. SecondMs \in Nat \ {0} /\ n \in Nat /\ n + 1 = x + SecondMs
  BY MenuAssumption
<1>2. d \in Nat /\ r \in 0 .. SecondMs - 1 /\ n = SecondMs * d + r
  <2> HIDE DEF n
  <2> QED
    BY <1>1
<1>3. Ceil(x) = d
  BY DEF Ceil
<1> HIDE DEF n, d, r
<1>4. SecondMs * d \in Nat
  BY <1>1, <1>2
<1> QED
  BY <1>1, <1>2, <1>3, <1>4

LEMMA CeilAtMost ==
  ASSUME NEW x \in Nat, NEW n \in Nat, x <= SecondMs * n
  PROVE  Ceil(x) <= n
PROOF
<1> DEFINE d == Ceil(x)
<1>1. /\ d \in Nat /\ SecondMs \in Nat \ {0} /\ SecondMs * d \in Nat
      /\ SecondMs * d + 1 <= x + SecondMs
  BY CeilBounds
<1> HIDE DEF d
<1>2. SUFFICES ASSUME n + 1 <= d PROVE FALSE
  BY <1>1 DEF d
<1>3. SecondMs * (n + 1) <= SecondMs * d
  BY <1>1, <1>2, TimesMonotone
<1>4. SecondMs * (n + 1) = SecondMs * n + SecondMs /\ SecondMs * n \in Nat
  BY <1>1
<1> QED
  BY <1>1, <1>3, <1>4

\* Within a second the number shown is at most one too high.
LEMMA CeilStep ==
  ASSUME NEW x \in Nat, NEW y \in Nat, y <= SecondMs
  PROVE  Ceil(x + y) \in {Ceil(x), Ceil(x) + 1}
PROOF
<1> DEFINE d == Ceil(x)
           e == Ceil(x + y)
<1>1. /\ d \in Nat /\ SecondMs \in Nat \ {0} /\ SecondMs * d \in Nat
      /\ x <= SecondMs * d /\ SecondMs * d + 1 <= x + SecondMs
  BY CeilBounds
<1>2. /\ e \in Nat /\ SecondMs * e \in Nat
      /\ x + y <= SecondMs * e /\ SecondMs * e + 1 <= (x + y) + SecondMs
  <2>1. x + y \in Nat
    OBVIOUS
  <2> QED
    BY <2>1, CeilBounds
<1> HIDE DEF d, e
<1>3. ~(e + 1 <= d)
  <2> SUFFICES ASSUME e + 1 <= d PROVE FALSE
    OBVIOUS
  <2>1. SecondMs * (e + 1) <= SecondMs * d
    BY <1>1, <1>2, TimesMonotone
  <2>2. SecondMs * (e + 1) = SecondMs * e + SecondMs
    BY <1>1, <1>2
  <2> QED
    BY <1>1, <1>2, <2>1, <2>2
<1>4. ~(d + 2 <= e)
  <2> SUFFICES ASSUME d + 2 <= e PROVE FALSE
    OBVIOUS
  <2>1. SecondMs * (d + 2) <= SecondMs * e
    BY <1>1, <1>2, TimesMonotone
  <2>2. SecondMs * (d + 2) = SecondMs * d + SecondMs + SecondMs
    BY <1>1, <1>2
  <2> QED
    BY <1>1, <1>2, <2>1, <2>2
<1> QED
  BY <1>1, <1>2, <1>3, <1>4 DEF d, e

-----------------------------------------------------------------------------
(* The screen is up to date *)

\* The statics say what is on the screen.
Current ==
  \E sel \in Rows, sec \in 0 .. timeout :
    /\ last_selected = sel /\ last_display_sec = sec
    /\ drawn.selected = sel /\ drawn.timeout = sec
    /\ screen = Picture(sel, sec)

\* While the loop polls, the second on the screen is the one of the last draw,
\* p ticks ago.
Counted ==
  IF cancel_timeout THEN last_display_sec = 0
  ELSE p < PollsPerDraw /\ last_display_sec = Ceil(timeout_ms + p * TickMs)

LoopTypes ==
  /\ Setting
  /\ selected \in Rows
  /\ timeout_ms \in Int /\ timeout_ms <= SecondMs * timeout
  /\ p \in Nat
  /\ ~cancel_timeout => selected = 0

ScreenInv ==
  /\ LoopTypes
  /\ pc # "done" /\ ~cancel_timeout => timeout_ms > 0
  /\ last_selected = -1 => pc = "draw" /\ drawn.bg = Sentinel
  /\ last_selected # -1 => drawn.bg = background_color /\ drawn.bg_data = bg_data
  /\ pc \in {"draw", "poll"} /\ last_selected \notin {-1, -2} => Current
  /\ pc = "poll" => last_selected = selected /\ Counted
  /\ pc = "done" /\ result # -2 =>
       result \in Rows /\ \E sec \in 0 .. timeout : screen = Picture(result, sec)

LEMMA SettingStays ==
  ASSUME Setting, UNCHANGED config
  PROVE  Setting'
PROOF
<1>1. box_w' = box_w /\ box_h' = box_h /\ width' = width /\ height' = height
  BY PlacesStay
<1>2. \A s : Seconds(s)' = Seconds(s)
  BY DEF Seconds
<1> QED
  BY <1>1, <1>2 DEF Setting, Drawable, InReach, config

LEMMA ScreenInit == ASSUME Init, Drawable PROVE ScreenInv
PROOF
<1>1. /\ mode \in Nat \X Nat /\ count \in Nat /\ timeout \in Nat
      /\ SecondMs \in Nat \ {0}
  BY MenuAssumption DEF Init
<1>2. Setting
  BY <1>1 DEF Setting
<1>3. 0 \in Rows
  BY <1>1 DEF Rows, Drawable
<1>4. /\ timeout_ms = timeout * SecondMs /\ timeout_ms \in Nat
      /\ timeout_ms = SecondMs * timeout
      /\ timeout # 0 => timeout_ms > 0
  <2>1. timeout_ms = timeout * SecondMs
    BY DEF Init
  <2>2. timeout * SecondMs \in Nat /\ timeout * SecondMs = SecondMs * timeout
    BY <1>1
  <2>3. timeout # 0 => SecondMs * 1 <= SecondMs * timeout /\ SecondMs * 1 = SecondMs
    BY <1>1, TimesMonotone
  <2> QED
    BY <1>1, <2>1, <2>2, <2>3
<1>5. cancel_timeout <=> timeout = 0
  BY DEF Init
<1>6. LoopTypes
  BY <1>2, <1>3, <1>4 DEF Init, LoopTypes
<1> QED
  BY <1>4, <1>5, <1>6 DEF Init, ScreenInv

\* The number of seconds that a draw puts on the screen.
LEMMA DisplaySecCounts ==
  ASSUME LoopTypes, ~cancel_timeout => timeout_ms > 0
  PROVE  /\ DisplaySec \in 0 .. timeout
         /\ ~cancel_timeout => DisplaySec = Ceil(timeout_ms)
PROOF
<1>1. CASE cancel_timeout
  BY <1>1 DEF DisplaySec, LoopTypes, Setting
<1>2. CASE ~cancel_timeout
  <2>1. DisplaySec = Ceil(timeout_ms)
    BY <1>2 DEF DisplaySec, Ceil
  <2>2. timeout_ms \in Nat /\ timeout \in Nat /\ timeout_ms <= SecondMs * timeout
    BY <1>2 DEF LoopTypes, Setting
  <2>3. Ceil(timeout_ms) \in Nat /\ Ceil(timeout_ms) <= timeout
    BY <2>2, CeilBounds, CeilAtMost
  <2> QED
    BY <2>1, <2>2, <2>3
<1> QED
  BY <1>1, <1>2

\* A draw, forced or not, leaves the picture of the present state.
LEMMA DrawPaints ==
  ASSUME ScreenInv, Draw
  PROVE  /\ screen' = Picture(selected, DisplaySec)
         /\ last_selected' = selected /\ last_display_sec' = DisplaySec
         /\ drawn'.selected = selected /\ drawn'.timeout = DisplaySec
         /\ drawn'.bg = background_color /\ drawn'.bg_data = bg_data
PROOF
<1>1. /\ Setting /\ selected \in Rows /\ pc = "draw" /\ background_color # Sentinel
      /\ DisplaySec \in 0 .. timeout
  BY DisplaySecCounts DEF ScreenInv, Draw, LoopTypes, Setting, Drawable
<1>2. selected \in Nat /\ selected # -1 /\ selected # -2 /\ DisplaySec # -1
  BY <1>1 DEF Rows, Setting
<1> DEFINE sec == DisplaySec
<1>3. sec \in 0 .. timeout /\ sec # -1
  BY <1>1, <1>2
<1> HIDE DEF sec
<1>4. CASE StateChanged /\ last_selected \in {-1, -2}
  <2>1. MenuDraw(selected, sec, last_selected = -2)
        /\ last_selected' = selected /\ last_display_sec' = sec
    BY <1>4 DEF Draw, sec
  <2>2. \/ last_selected = -2
        \/ background_color # drawn.bg
        \/ bg_data # drawn.bg_data
    BY <1>1, <1>4 DEF ScreenInv
  <2>3. screen' = PaintCountdown(PaintRows(Frame, -1, selected), sec)
    BY <1>2, <1>3, <2>1, <2>2 DEF MenuDraw
  <2>4. screen' = Picture(selected, sec)
    BY <1>1, <1>3, <2>3, FullRedrawPaints DEF FullRedraw
  <2>5. drawn' = [bg |-> background_color, bg_data |-> bg_data,
                  selected |-> selected, timeout |-> sec]
    BY <2>1, <2>2 DEF MenuDraw
  <2> QED
    BY <2>1, <2>4, <2>5 DEF sec
<1>5. CASE StateChanged /\ last_selected \notin {-1, -2}
  <2>1. MenuDraw(selected, sec, last_selected = -2)
        /\ last_selected' = selected /\ last_display_sec' = sec
    BY <1>5 DEF Draw, sec
  <2>2. /\ last_selected # -2
        /\ background_color = drawn.bg
        /\ bg_data = drawn.bg_data
    BY <1>1, <1>5 DEF ScreenInv
  <2>3. PICK from \in Rows, shown \in 0 .. timeout :
          /\ drawn.selected = from /\ drawn.timeout = shown
          /\ screen = Picture(from, shown)
    BY <1>1, <1>5 DEF ScreenInv, Current
  <2>4. from # -1
    BY <1>1 DEF Rows, Setting
  <2> DEFINE rows == IF selected # from THEN PaintRows(screen, from, selected) ELSE screen
  <2>5. screen' = IF sec # shown THEN PaintCountdown(rows, sec) ELSE rows
    BY <2>1, <2>2, <2>3 DEF MenuDraw
  <2>6. rows = Picture(selected, shown)
    BY <1>1, <2>3, SelectionMoves
  <2> HIDE DEF rows
  <2>7. screen' = Picture(selected, sec)
    BY <1>1, <1>3, <2>5, <2>6, CountdownMoves
  <2>8. drawn' = [bg |-> background_color, bg_data |-> bg_data,
                  selected |-> selected, timeout |-> sec]
    BY <2>1, <2>2 DEF MenuDraw
  <2> QED
    BY <2>1, <2>7, <2>8 DEF sec
<1>6. CASE ~StateChanged
  <2>1. UNCHANGED <<drawn, screen, last_selected, last_display_sec>>
    BY <1>6 DEF Draw
  <2>2. selected = last_selected /\ sec = last_display_sec
    BY <1>6 DEF StateChanged, sec
  <2>3. Current
    BY <1>1, <1>2, <2>2 DEF ScreenInv
  <2>4. drawn.bg = background_color /\ drawn.bg_data = bg_data
    BY <1>2, <2>2 DEF ScreenInv
  <2> QED
    BY <2>1, <2>2, <2>3, <2>4 DEF Current, sec
<1> QED
  BY <1>4, <1>5, <1>6

\* The invariant's parts as they are used in the next state.
LEMMA CurrentNext ==
  ASSUME Setting, UNCHANGED config,
         NEW CONSTANT sel \in Rows, NEW CONSTANT sec \in 0 .. timeout,
         last_selected' = sel, last_display_sec' = sec,
         drawn'.selected = sel, drawn'.timeout = sec, screen' = Picture(sel, sec)
  PROVE  Current'
PROOF
<1>1. Picture(sel, sec)' = Picture(sel, sec)
  BY PictureStays
<1>2. Rows' = Rows /\ timeout' = timeout
  BY PlacesStay DEF config
<1> QED
  BY <1>1, <1>2, Zenon DEF Current

LEMMA CurrentStays ==
  ASSUME Setting, Current, UNCHANGED config,
         UNCHANGED <<last_selected, last_display_sec, drawn, screen>>
  PROVE  Current'
PROOF
<1>1. PICK sel \in Rows, sec \in 0 .. timeout :
        /\ last_selected = sel /\ last_display_sec = sec
        /\ drawn.selected = sel /\ drawn.timeout = sec
        /\ screen = Picture(sel, sec)
  BY DEF Current
<1> QED
  BY <1>1, CurrentNext

LEMMA RowsAround ==
  ASSUME LoopTypes
  PROVE  Above(selected) \in Rows /\ Below(selected) \in Rows
PROOF
<1>1. count \in Nat /\ selected \in 0 .. count - 1 /\ Rows = 0 .. count - 1
  BY DEF LoopTypes, Setting, Rows
<1> QED
  BY <1>1 DEF Above, Below

LEMMA ScreenDraw == ASSUME ScreenInv, Draw PROVE ScreenInv'
PROOF
<1>1. UNCHANGED config
  BY Zenon DEF Draw
<1>2. /\ Setting /\ LoopTypes /\ selected \in Rows /\ Rows' = Rows
      /\ DisplaySec \in 0 .. timeout
      /\ ~cancel_timeout => timeout_ms > 0 /\ DisplaySec = Ceil(timeout_ms)
      /\ timeout_ms \in Int
  BY <1>1, PlacesStay, DisplaySecCounts DEF ScreenInv, Draw, LoopTypes
<1>3. selected \in Nat /\ selected # -1 /\ selected # -2
  BY <1>2 DEF Rows, Setting
<1>4. /\ pc' = "poll" /\ p' = 0
      /\ UNCHANGED <<selected, timeout_ms, cancel_timeout, timeout>>
      /\ background_color' = background_color /\ bg_data' = bg_data
  BY <1>1 DEF Draw, config
<1>5. LoopTypes'
  <2>1. Setting'
    BY <1>1, <1>2, SettingStays
  <2> QED
    BY <1>2, <1>4, <2>1 DEF LoopTypes
<1>6. Current'
  BY <1>1, <1>2, DrawPaints, CurrentNext
<1>7. last_selected' = selected /\ last_display_sec' = DisplaySec
  BY DrawPaints
<1>8. drawn'.bg = background_color /\ drawn'.bg_data = bg_data
  BY DrawPaints
<1>9. Counted'
  <2>1. PollsPerDraw \in Nat \ {0} /\ TickMs \in Nat
    BY MenuAssumption
  <2>2. timeout_ms + 0 * TickMs = timeout_ms
    BY <1>2, <2>1
  <2>3. cancel_timeout => DisplaySec = 0
    BY DEF DisplaySec
  <2>4. \A x : Ceil(x)' = Ceil(x)
    BY DEF Ceil
  <2> QED
    BY <1>2, <1>4, <1>7, <2>1, <2>2, <2>3 DEF Counted, Ceil
<1> QED
  BY <1>2, <1>3, <1>4, <1>5, <1>6, <1>7, <1>8, <1>9 DEF ScreenInv

LEMMA ScreenTick == ASSUME ScreenInv, Tick PROVE ScreenInv'
PROOF
<1>1. UNCHANGED config
  BY Zenon DEF Tick
<1>2. /\ Setting /\ LoopTypes /\ selected \in Rows /\ selected \in Nat
      /\ Rows' = Rows /\ timeout' = timeout
      /\ background_color' = background_color /\ bg_data' = bg_data
      /\ timeout_ms \in Int /\ p \in Nat
  BY <1>1, PlacesStay DEF ScreenInv, LoopTypes, Setting, Rows, config
<1>3. /\ pc = "poll"
      /\ UNCHANGED <<selected, cancel_timeout, last_selected, last_display_sec,
                     drawn, screen>>
  BY DEF Tick
<1>4. last_selected = selected /\ Counted
  BY <1>3 DEF ScreenInv
<1>5. selected # -1 /\ selected # -2
  BY <1>2
<1>6. Current /\ drawn.bg = background_color /\ drawn.bg_data = bg_data
  BY <1>3, <1>4, <1>5 DEF ScreenInv
<1>7. Current'
  BY <1>1, <1>2, <1>3, <1>6, CurrentStays
<1>8. Setting'
  BY <1>1, <1>2, SettingStays
<1>9. TickMs \in Nat \ {0} /\ PollsPerDraw \in Nat \ {0}
  BY MenuAssumption
<1>10. /\ timeout_ms' \in Int /\ timeout_ms' <= SecondMs * timeout
       /\ ~cancel_timeout => timeout_ms' = timeout_ms - TickMs
  <2>1. timeout_ms' = IF Counting THEN timeout_ms - TickMs ELSE timeout_ms
    BY DEF Tick
  <2>2. timeout_ms <= SecondMs * timeout /\ SecondMs * timeout \in Nat
    <3>1. SecondMs \in Nat /\ timeout \in Nat
      BY <1>2, MenuAssumption DEF Setting
    <3> QED
      BY <1>2, <3>1 DEF LoopTypes
  <2> QED
    BY <1>2, <1>9, <2>1, <2>2 DEF Counting
<1>11. CASE Counting /\ timeout_ms' <= 0
  <2>1. pc' = "done" /\ result' = 0 /\ p' = p
    BY <1>11 DEF Tick
  <2>2. selected = 0
    BY <1>2, <1>11 DEF LoopTypes, Counting
  <2>3. PICK sec \in 0 .. timeout : screen = Picture(selected, sec)
    BY <1>4, <1>6 DEF Current
  <2>4. Picture(0, sec)' = Picture(0, sec)
    BY <1>1, PictureStays
  <2>5. 0 \in Rows' /\ \E s \in 0 .. timeout' : screen' = Picture(0, s)'
    <3>1. screen' = Picture(0, sec)'
      BY <1>3, <2>2, <2>3, <2>4
    <3> QED
      BY <1>2, <2>2, <3>1
  <2>6. LoopTypes'
    BY <1>2, <1>3, <1>8, <1>10, <2>1 DEF LoopTypes
  <2>7. result' \in Rows' /\ (\E s \in 0 .. timeout : screen = Picture(result, s))'
    BY <2>1, <2>5
  <2>8. pc' \notin {"draw", "poll"} /\ pc' = "done"
    BY <2>1
  <2> QED
    BY <1>2, <1>3, <1>4, <1>5, <1>6, <2>6, <2>7, <2>8 DEF ScreenInv
<1>12. CASE ~(Counting /\ timeout_ms' <= 0)
  <2>1. p' = p + 1 /\ pc' = IF p + 1 = PollsPerDraw THEN "draw" ELSE "poll"
    BY <1>12 DEF Tick
  <2>2. ~cancel_timeout => timeout_ms' > 0
    BY <1>10, <1>12 DEF Counting
  <2>3. LoopTypes'
    BY <1>2, <1>3, <1>8, <1>10, <2>1 DEF LoopTypes
  <2>4. ASSUME pc' = "poll" PROVE Counted'
    <3>1. CASE cancel_timeout
      BY <1>3, <1>4, <3>1 DEF Counted
    <3>2. CASE ~cancel_timeout
      <4>1. /\ p < PollsPerDraw
            /\ last_display_sec = Ceil(timeout_ms + p * TickMs)
        BY <1>4, <3>2 DEF Counted
      <4>2. p' < PollsPerDraw
        BY <1>2, <1>9, <2>1, <2>4, <4>1
      <4>3. timeout_ms' + p' * TickMs = timeout_ms + p * TickMs
        <5>1. (p + 1) * TickMs = p * TickMs + TickMs /\ p * TickMs \in Nat
          BY <1>2, <1>9
        <5> QED
          BY <1>2, <1>9, <1>10, <2>1, <3>2, <5>1
      <4> QED
        BY <1>3, <3>2, <4>1, <4>2, <4>3 DEF Counted, Ceil
    <3> QED
      BY <3>1, <3>2
  <2>5. pc' \in {"draw", "poll"} /\ pc' # "done"
    BY <2>1
  <2> QED
    BY <1>2, <1>3, <1>4, <1>5, <1>6, <1>7, <2>2, <2>3, <2>4, <2>5 DEF ScreenInv
<1> QED
  BY <1>11, <1>12

LEMMA ScreenPressed ==
  ASSUME ScreenInv,
         KeyUp \/ KeyDown \/ KeyEnter \/ KeySetup \/ KeyEdit \/ KeyOther
  PROVE  ScreenInv'
PROOF
<1>1. PICK next : Pressed(next)
  BY KeysArePressed
<1>2. UNCHANGED config
  BY <1>1, Zenon DEF Pressed
<1>3. /\ Setting /\ LoopTypes /\ selected \in Rows /\ selected \in Nat
      /\ Rows' = Rows /\ timeout' = timeout
      /\ background_color' = background_color /\ bg_data' = bg_data
  BY <1>2, PlacesStay DEF ScreenInv, LoopTypes, Setting, Rows, config
<1>4. /\ pc = "poll" /\ cancel_timeout' = TRUE
      /\ UNCHANGED <<timeout_ms, p, last_selected, last_display_sec, drawn, screen>>
  BY <1>1 DEF Pressed
<1>5. last_selected = selected /\ selected # -1 /\ selected # -2
  BY <1>3, <1>4 DEF ScreenInv
<1>6. Current /\ drawn.bg = background_color /\ drawn.bg_data = bg_data
  BY <1>4, <1>5 DEF ScreenInv
<1>7. Current'
  BY <1>2, <1>3, <1>4, <1>6, CurrentStays
<1>8. Setting'
  BY <1>2, <1>3, SettingStays
<1>9. selected' \in Rows
  <2>1. \/ selected' = Above(selected) \/ selected' = Below(selected)
        \/ selected' = selected
    BY DEF KeyUp, KeyDown, KeyEnter, KeySetup, KeyEdit, KeyOther
  <2> QED
    BY <1>3, <2>1, RowsAround
<1>10. LoopTypes'
  BY <1>3, <1>4, <1>8, <1>9 DEF LoopTypes
<1>11. /\ pc' # "poll"
       /\ pc' = "done" => result' = selected \/ result' = -2
  BY DEF KeyUp, KeyDown, KeyEnter, KeySetup, KeyEdit, KeyOther, Pressed
<1>12. PICK sec \in 0 .. timeout : screen = Picture(selected, sec)
  BY <1>5, <1>6 DEF Current
<1>13. \A sel : Picture(sel, sec)' = Picture(sel, sec)
  BY <1>2, PictureStays
<1>14. ASSUME pc' = "done", result' # -2
       PROVE  (result \in Rows /\ \E s \in 0 .. timeout : screen = Picture(result, s))'
  <2>1. PICK sel \in Rows : selected = sel
    BY <1>3
  <2>2. result' = sel /\ screen' = Picture(sel, sec)'
    BY <1>4, <1>11, <1>12, <1>13, <1>14, <2>1
  <2> QED
    BY <1>3, <2>1, <2>2
<1> QED
  BY <1>3, <1>4, <1>5, <1>6, <1>7, <1>10, <1>11, <1>14 DEF ScreenInv

\* The editor paints where it likes: the loop then asks for a forced redraw.
LEMMA ScreenEditor ==
  ASSUME ScreenInv, EditDraw \/ EditSave \/ EditDiscard \/ EditContinues
  PROVE  ScreenInv'
PROOF
<1>1. UNCHANGED config
  BY Zenon DEF EditDraw, EditSave, EditDiscard, LeaveEditor, EditContinues
<1>2. /\ pc \in {"edit_draw", "edit_key"} /\ pc' \in {"edit_draw", "edit_key", "draw"}
      /\ pc' = "draw" => last_selected' = -2
      /\ pc' # "draw" => last_selected' = last_selected
      /\ UNCHANGED <<selected, timeout_ms, cancel_timeout, p, drawn>>
  BY DEF EditDraw, EditSave, EditDiscard, LeaveEditor, EditContinues, loop
<1>3. /\ Setting /\ LoopTypes /\ Rows' = Rows /\ timeout' = timeout
      /\ background_color' = background_color /\ bg_data' = bg_data
  BY <1>1, PlacesStay DEF ScreenInv, LoopTypes, config
<1>4. Setting'
  BY <1>1, <1>3, SettingStays
<1>5. LoopTypes'
  BY <1>2, <1>3, <1>4 DEF LoopTypes
<1> QED
  BY <1>2, <1>3, <1>5 DEF ScreenInv

LEMMA ScreenHolds == Spec /\ Drawable => []ScreenInv
PROOF
<1>1. Init /\ Drawable => ScreenInv
  BY ScreenInit
<1>2. ScreenInv /\ [Next]_vars => ScreenInv'
  <2> SUFFICES ASSUME ScreenInv, [Next]_vars PROVE ScreenInv'
    OBVIOUS
  <2>1. CASE Draw
    BY <2>1, ScreenDraw
  <2>2. CASE Tick
    BY <2>2, ScreenTick
  <2>3. CASE KeyUp \/ KeyDown \/ KeyEnter \/ KeySetup \/ KeyEdit \/ KeyOther
    BY <2>3, ScreenPressed
  <2>4. CASE EditDraw \/ EditSave \/ EditDiscard \/ EditContinues
    BY <2>4, ScreenEditor
  <2>5. CASE UNCHANGED vars
    <3>1. UNCHANGED config
      BY <2>5, Zenon DEF vars
    <3>2. UNCHANGED <<pc, loop, drawn, screen, result>>
      BY <2>5, Zenon DEF vars
    <3>3. /\ Setting /\ Rows' = Rows /\ timeout' = timeout
          /\ background_color' = background_color /\ bg_data' = bg_data
      BY <3>1, PlacesStay DEF ScreenInv, LoopTypes, config
    <3>4. LoopTypes'
      <4>1. Setting'
        BY <3>1, <3>3, SettingStays
      <4> QED
        BY <3>2, <3>3, <4>1 DEF ScreenInv, LoopTypes, loop
    <3>5. Current => Current'
      BY <3>1, <3>2, <3>3, CurrentStays DEF loop
    <3>6. Counted => Counted'
      BY <3>2 DEF Counted, Ceil, loop
    <3>7. \A sel, sec : Picture(sel, sec)' = Picture(sel, sec)
      BY <3>1, PictureStays
    <3>8. (\E sec \in 0 .. timeout : screen = Picture(result, sec))
            => (\E sec \in 0 .. timeout : screen = Picture(result, sec))'
      <4> SUFFICES ASSUME NEW sec \in 0 .. timeout, screen = Picture(result, sec)
                   PROVE  (\E s \in 0 .. timeout : screen = Picture(result, s))'
        OBVIOUS
      <4> QED
        BY <3>2, <3>3, <3>7
    <3> QED
      BY <3>2, <3>3, <3>4, <3>5, <3>6, <3>8 DEF ScreenInv, loop
  <2> QED
    BY <2>1, <2>2, <2>3, <2>4, <2>5, MenuSteps, EditorGoesOn
<1> QED
  BY <1>1, <1>2, PTL DEF Spec

\* Whenever the menu waits for a key every pixel shows what a full redraw would,
\* however the selection moved, the seconds went and the editor was used before,
\* on every screen that holds the menu.
THEOREM ScreenStaysCurrent == Spec /\ Drawable => []ScreenCurrent
PROOF
<1>1. ScreenInv => ScreenCurrent
  <2> SUFFICES ASSUME ScreenInv, pc = "poll"
               PROVE  \E sec \in IF cancel_timeout THEN {0}
                                 ELSE {DisplaySec, DisplaySec + 1} :
                        screen = FullRedraw(selected, sec)
    BY DEF ScreenCurrent
  <2>1. Setting /\ selected \in Rows /\ last_selected = selected /\ Counted
    BY DEF ScreenInv, LoopTypes
  <2>2. selected # -1 /\ selected # -2
    BY <2>1 DEF Rows, Setting
  <2>3. PICK sec \in 0 .. timeout :
          last_display_sec = sec /\ screen = Picture(selected, sec)
    BY <2>1, <2>2 DEF ScreenInv, Current
  <2>4. screen = FullRedraw(selected, sec)
    BY <2>1, <2>3, FullRedrawPaints
  <2>5. CASE cancel_timeout
    BY <2>1, <2>3, <2>4, <2>5 DEF Counted
  <2>6. CASE ~cancel_timeout
    <3>1. /\ timeout_ms \in Nat /\ timeout_ms > 0 /\ p \in Nat /\ p < PollsPerDraw
          /\ sec = Ceil(timeout_ms + p * TickMs)
      BY <2>1, <2>3, <2>6 DEF ScreenInv, LoopTypes, Counted
    <3>2. p * TickMs \in Nat /\ p * TickMs <= SecondMs
      <4>1. TickMs \in Nat /\ PollsPerDraw \in Nat /\ SecondMs \in Nat
            /\ PollsPerDraw * TickMs <= SecondMs
        BY MenuAssumption
      <4>2. TickMs * p <= TickMs * PollsPerDraw /\ TickMs * p \in Nat
        BY <3>1, <4>1, TimesMonotone
      <4>3. p * TickMs = TickMs * p /\ PollsPerDraw * TickMs = TickMs * PollsPerDraw
        BY <3>1, <4>1
      <4> QED
        BY <4>1, <4>2, <4>3
    <3>3. DisplaySec = Ceil(timeout_ms)
      BY <2>6 DEF DisplaySec, Ceil
    <3>4. sec \in {DisplaySec, DisplaySec + 1}
      <4> DEFINE x == p * TickMs
      <4>1. x \in Nat /\ x <= SecondMs /\ sec = Ceil(timeout_ms + x)
        BY <3>1, <3>2
      <4> HIDE DEF x
      <4> QED
        BY <3>1, <3>3, <4>1, CeilStep
    <3> QED
      BY <2>4, <2>6, <3>4
  <2> QED
    BY <2>5, <2>6
<1> QED
  BY <1>1, ScreenHolds, PTL

-----------------------------------------------------------------------------
(* The highlighted entry *)

\* What is painted at a pixel is a sequence; painting one layer more.
Layers(s) == \E S : s \in Seq(S)

LEMMA LayerAdded ==
  ASSUME NEW s, Layers(s), NEW e
  PROVE  /\ Layers(Append(s, e)) /\ Len(s) \in Nat
         /\ DOMAIN s = 1 .. Len(s) /\ DOMAIN Append(s, e) = 1 .. Len(s) + 1
         /\ Len(Append(s, e)) = Len(s) + 1
         /\ \A i \in 1 .. Len(s) : Append(s, e)[i] = s[i]
         /\ Append(s, e)[Len(s) + 1] = e
PROOF
<1>1. PICK S : s \in Seq(S)
  BY DEF Layers
<1> DEFINE T == S \cup {e}
<1>2. s \in Seq(T) /\ e \in T
  BY <1>1
<1> HIDE DEF T
<1>3. Append(s, e) \in Seq(T)
  BY <1>2
<1>4. /\ Len(s) \in Nat /\ DOMAIN s = 1 .. Len(s)
      /\ Len(Append(s, e)) = Len(s) + 1
      /\ \A i \in 1 .. Len(s) : Append(s, e)[i] = s[i]
      /\ Append(s, e)[Len(s) + 1] = e
  BY <1>2
<1>5. DOMAIN Append(s, e) = 1 .. Len(s) + 1
  BY <1>3, <1>4
<1> QED
  BY <1>3, <1>4, <1>5 DEF Layers

LEMMA OneLayer ==
  ASSUME NEW e
  PROVE  Layers(<<e>>) /\ Len(<<e>>) = 1 /\ DOMAIN <<e>> = 1 .. 1 /\ <<e>>[1] = e
PROOF
<1>1. <<e>> \in Seq({e})
  OBVIOUS
<1>2. Layers(<<e>>)
  BY <1>1 DEF Layers
<1>3. Len(<<e>>) = 1 /\ <<e>>[1] = e
  OBVIOUS
<1>4. DOMAIN <<e>> = 1 .. 1
  OBVIOUS
<1> QED
  BY <1>2, <1>3, <1>4

\* Which layers make a pixel of a bar look selected.
Highlights(layers) ==
  \E i \in DOMAIN layers : layers[i] = <<"ui_menu_sel_bg", 150>>

LEMMA HighlightAdded ==
  ASSUME NEW s, Layers(s), NEW e
  PROVE  Highlights(Append(s, e)) <=> Highlights(s) \/ e = <<"ui_menu_sel_bg", 150>>
PROOF
<1> DEFINE a == Append(s, e)
           n == Len(s)
<1>1. /\ n \in Nat /\ DOMAIN s = 1 .. n /\ DOMAIN a = 1 .. n + 1
      /\ \A i \in 1 .. n : a[i] = s[i]
      /\ a[n + 1] = e
  BY LayerAdded
<1> HIDE DEF a, n
<1> DEFINE m == <<"ui_menu_sel_bg", 150>>
<1> HIDE DEF m
<1>2. ASSUME NEW i \in 1 .. n + 1, a[i] = m
      PROVE  (\E k \in 1 .. n : s[k] = m) \/ e = m
  BY <1>1, <1>2
<1>3. ASSUME NEW k \in 1 .. n, s[k] = m
      PROVE  \E i \in 1 .. n + 1 : a[i] = m
  <2>1. k \in 1 .. n + 1
    BY <1>1
  <2> QED
    BY <1>1, <1>3, <2>1
<1>4. n + 1 \in 1 .. n + 1
  BY <1>1
<1>5. (\E i \in 1 .. n + 1 : a[i] = m) <=> (\E k \in 1 .. n : s[k] = m) \/ e = m
  BY <1>1, <1>2, <1>3, <1>4
<1> QED
  BY <1>1, <1>5 DEF Highlights, a, m

LEMMA GroundIsDark ==
  ASSUME NEW opacity
  PROVE  Layers(Ground(opacity)) /\ ~Highlights(Ground(opacity))
PROOF
<1> DEFINE u == <<"solid", IF bg_data THEN "image" ELSE "background_color">>
           v == <<"ui_menu_bg", opacity>>
           m == <<"ui_menu_sel_bg", 150>>
<1>1. u # m /\ v # m
  OBVIOUS
<1>2. Layers(<<u>>) /\ ~Highlights(<<u>>)
  <2> HIDE DEF u
  <2> QED
    BY <1>1, OneLayer DEF Highlights
<1>3. Ground(opacity) = Append(<<u>>, v)
  BY DEF Ground
<1> HIDE DEF u, v
<1>4. Layers(Append(<<u>>, v))
  BY <1>2, LayerAdded
<1>5. ~Highlights(Append(<<u>>, v))
  BY <1>1, <1>2, HighlightAdded
<1> QED
  BY <1>3, <1>4, <1>5

LEMMA PlainIsDark ==
  ASSUME NEW q, NEW r
  PROVE  ~Highlights(PlainPixel(q, r))
PROOF
<1>1. NameLayer(q, r, "ui_menu_text") # <<"ui_menu_sel_bg", 150>>
  BY DEF NameLayer
<1> QED
  BY <1>1, GroundIsDark, HighlightAdded DEF PlainPixel

LEMMA SelectedIsBright ==
  ASSUME NEW q, NEW r, q \notin Edge(r)
  PROVE  Highlights(SelectedPixel(q, r))
PROOF
<1> DEFINE under == Append(Ground(190), <<"ui_menu_sel_bg", 150>>)
<1>1. Layers(under) /\ Highlights(under)
  BY GroundIsDark, LayerAdded, HighlightAdded
<1>2. SelectedPixel(q, r) =
        IF q \in NameCells(r) THEN Append(under, NameLayer(q, r, "ui_menu_text_sel"))
        ELSE under
  BY DEF SelectedPixel
<1> HIDE DEF under
<1> QED
  BY <1>1, <1>2, HighlightAdded

\* A bar is the inside of its row's stripe.
LEMMA BarPlace ==
  ASSUME Setting, NEW r \in Rows, NEW q \in Pixels
  PROVE  q \in Bar(r) <=>
           /\ box_x + 11 <= q[1] /\ q[1] < box_x + box_w - 11
           /\ RowY(r) + 1 <= q[2] /\ q[2] < RowY(r) + 31
PROOF
<1>1. /\ box_x + 11 \in Nat /\ box_w - 22 \in Nat /\ RowY(r) + 1 \in Nat
      /\ (box_x + 11) + (box_w - 22) < Word /\ (RowY(r) + 1) + 30 < Word
      /\ (box_x + 11) + (box_w - 22) = box_x + box_w - 11
      /\ (RowY(r) + 1) + 30 = RowY(r) + 31
  BY BoxPlace, RowPlace
<1>2. q \in Bar(r) <=>
        /\ box_x + 11 <= q[1] /\ q[1] < (box_x + 11) + (box_w - 22)
        /\ RowY(r) + 1 <= q[2] /\ q[2] < (RowY(r) + 1) + 30
  BY <1>1, RectPlain DEF Bar
<1> QED
  BY <1>1, <1>2

LEMMA BarInStripe ==
  ASSUME Setting, NEW r \in Rows, NEW q \in Pixels, q \in Bar(r)
  PROVE  q \in Stripe(r) /\ q \notin Edge(r)
PROOF
<1>1. q[1] \in Nat /\ q[2] \in Nat
  BY PixelCoordinates
<1>2. /\ box_x + 11 <= q[1] /\ q[1] < box_x + box_w - 11
      /\ RowY(r) + 1 <= q[2] /\ q[2] < RowY(r) + 31
  BY BarPlace
<1>3. /\ box_x + 10 \in Nat /\ box_w - 20 \in Nat \ {0} /\ RowY(r) \in Nat
      /\ 32 \in Nat \ {0} /\ box_x \in Nat /\ box_w \in Nat
      /\ (box_x + 10) + (box_w - 20) < Word /\ RowY(r) + 32 < Word
  BY BoxPlace, RowPlace
<1>4. q \in Stripe(r)
  BY <1>1, <1>2, <1>3, StripePlain
<1> DEFINE x == box_x + 10  y == RowY(r)  w == box_w - 20
<1>5. q \in Edge(r) => q[2] = y \/ q[2] = y + 32 - 1 \/ q[1] = x \/ q[1] = x + w - 1
  <2>1. x \in Nat /\ y \in Nat /\ w \in Nat \ {0} /\ x + w < Word /\ y + 32 < Word
    BY <1>3
  <2>2. Edge(r) = Outline(Pixels, x, y, w, 32)
    BY DEF Edge
  <2>3. 32 \in Nat \ {0}
    OBVIOUS
  <2> HIDE DEF x, y, w
  <2> QED
    BY <1>1, <2>1, <2>2, <2>3, OutlinePlain
<1> QED
  BY <1>1, <1>2, <1>3, <1>4, <1>5

\* On an up-to-date screen the selected entry's bar is bright and no other is.
LEMMA PictureHighlights ==
  ASSUME Setting, NEW sel \in Rows, NEW sec, screen = Picture(sel, sec),
         NEW r \in Rows, NEW q \in Pixels, q \in Bar(r)
  PROVE  Marked(q) <=> r = sel
PROOF
<1>1. q \in Stripe(r) /\ q \notin Edge(r) /\ q \notin Foot
  BY BarInStripe, StripesApart
<1>2. screen[q] = RowsPixel(q, sel)
  BY <1>1 DEF Picture
<1>3. Marked(q) <=> Highlights(screen[q])
  BY DEF Marked, Highlights
<1>4. CASE r = sel
  <2>1. screen[q] = SelectedPixel(q, r)
    BY <1>1, <1>2, <1>4, RowsPixelCases
  <2> QED
    BY <1>1, <1>3, <1>4, <2>1, SelectedIsBright
<1>5. CASE r # sel
  <2>1. screen[q] = PlainPixel(q, r)
    BY <1>1, <1>2, <1>5, RowsPixelCases
  <2> QED
    BY <1>3, <1>5, <2>1, PlainIsDark
<1> QED
  BY <1>4, <1>5

\* A pixel of each row's bar is among the samples.
BarsSampled == \A r \in Rows : Bar(r) # {}

\* It is when all pixels of the screen are.
LEMMA WholeScreenSampled ==
  ASSUME Setting, (0 .. width - 1) \X (0 .. height - 1) \subseteq Samples
  PROVE  BarsSampled
PROOF
<1> SUFFICES ASSUME NEW r \in Rows PROVE Bar(r) # {}
  BY DEF BarsSampled
<1>1. /\ width \in Nat /\ height \in Nat
      /\ box_w \in Nat /\ box_w >= 64 /\ box_x \in Nat /\ box_x + box_w <= width
      /\ box_h \in Nat /\ box_y \in Nat /\ box_y + box_h + 80 <= height
  BY BoxPlace
<1>2. RowY(r) \in Nat /\ RowY(r) + 32 + 60 < box_y + box_h
  BY RowPlace
<1> DEFINE q == <<box_x + 11, RowY(r) + 1>>
<1>3. q \in Pixels
  <2>1. box_x + 11 \in 0 .. width - 1 /\ RowY(r) + 1 \in 0 .. height - 1
    BY <1>1, <1>2
  <2> QED
    BY <1>1, <2>1 DEF Pixels
<1>4. q \in Bar(r)
  <2>1. q[1] = box_x + 11 /\ q[2] = RowY(r) + 1
    OBVIOUS
  <2> HIDE DEF q
  <2> QED
    BY <1>1, <1>2, <1>3, <2>1, BarPlace
<1> QED
  BY <1>4

\* menu_loop returns the entry whose bar is the bright one on the screen, and no
\* other bar is, or asks for a reset: on every screen that holds the menu, if a
\* pixel of each bar is looked at.
THEOREM HighlightedBoots == Spec /\ Drawable /\ BarsSampled => []BootsHighlighted
PROOF
<1>1. BarsSampled /\ [Next]_vars => BarsSampled'
  <2> SUFFICES ASSUME BarsSampled, [Next]_vars PROVE BarsSampled'
    OBVIOUS
  <2>1. /\ Pixels' = Pixels /\ Rows' = Rows /\ box_x' = box_x /\ box_w' = box_w
        /\ \A r : RowY(r)' = RowY(r)
    BY ConfigStays, PlacesStay
  <2>2. \A r : Bar(r)' = Bar(r)
    BY <2>1 DEF Bar, Rect
  <2> QED
    BY <2>1, <2>2 DEF BarsSampled
<1>2. ScreenInv /\ BarsSampled => BootsHighlighted
  <2> SUFFICES ASSUME ScreenInv, BarsSampled, pc = "done", result # -2
               PROVE  /\ result \in Rows /\ Bar(result) # {} /\ Highlighted(result)
                      /\ \A r \in Rows \ {result}, q \in Pixels :
                           q \in Bar(r) => ~Marked(q)
    BY DEF BootsHighlighted
  <2>1. Setting /\ result \in Rows
    BY DEF ScreenInv, LoopTypes
  <2>2. PICK sec \in 0 .. timeout : screen = Picture(result, sec)
    BY DEF ScreenInv
  <2>3. \A r \in Rows, q \in Pixels : q \in Bar(r) => (Marked(q) <=> r = result)
    BY <2>1, <2>2, PictureHighlights
  <2> QED
    BY <2>1, <2>3 DEF BarsSampled, Highlighted
<1>3. Spec /\ BarsSampled => []BarsSampled
  BY <1>1, PTL DEF Spec
<1> QED
  BY <1>2, <1>3, ScreenHolds, PTL

-----------------------------------------------------------------------------
(* The editor *)

\* A screen that has layers at each of its pixels.
Layered(c) == \A q \in Pixels : Layers(c[q])

LEMMA PaintingLayers ==
  ASSUME NEW c, Layered(c), NEW S, NEW what, NEW opacity, NEW x, NEW y, NEW text,
         NEW color
  PROVE  /\ Layered(Solid(c, S, what)) /\ Layered(Blend(c, S, what, opacity))
         /\ Layered(Text(c, x, y, text, color))
PROOF
<1>1. Layered(Solid(c, S, what))
  BY OneLayer DEF Layered, Solid
<1>2. Layered(Blend(c, S, what, opacity))
  BY LayerAdded DEF Layered, Blend
<1>3. Layered(Text(c, x, y, text, color))
  BY LayerAdded DEF Layered, Text
<1> QED
  BY <1>1, <1>2, <1>3

LEMMA FrameLayered == Layered(Frame)
PROOF
<1> DEFINE under == Backdrop(Dark, Pixels)
           box == Blend(under, Rect(Pixels, box_x, box_y, box_w, box_h),
                        "ui_menu_bg", 190)
           border == Solid(box, Outline(Pixels, box_x, box_y, box_w, box_h),
                           "ui_menu_border")
           bar == Solid(border, Rect(Pixels, box_x, box_y, box_w, 35), "ui_menu_bg")
           lined == Solid(bar, Outline(Pixels, box_x, box_y, box_w, 35),
                          "ui_menu_border")
           named == Text(lined, box_x + 20, box_y + 10,
                         Caption("KREXO BOOT MANAGER", 18), "ui_menu_title")
<1>1. Layered(under)
  BY OneLayer DEF Layered, Backdrop, Solid
<1>2. Frame = Text(named, (width - 50 * 8) \div 2, height - 60,
                   Caption("Navigation", 50), "ui_menu_help")
  BY DEF Frame
<1> HIDE DEF under
<1>3. Layered(box)
  BY <1>1, PaintingLayers
<1> HIDE DEF box
<1>4. Layered(border)
  BY <1>3, PaintingLayers
<1> HIDE DEF border
<1>5. Layered(bar)
  BY <1>4, PaintingLayers
<1> HIDE DEF bar
<1>6. Layered(lined)
  BY <1>5, PaintingLayers
<1> HIDE DEF lined
<1>7. Layered(named)
  BY <1>6, PaintingLayers
<1> HIDE DEF named
<1> QED
  BY <1>2, <1>7, PaintingLayers

LEMMA PictureLayered ==
  ASSUME NEW sel, NEW sec
  PROVE  Layered(Picture(sel, sec))
PROOF
<1>1. \A q, r : Layers(PlainPixel(q, r))
  BY GroundIsDark, LayerAdded DEF PlainPixel
<1>2. \A q, r : Layers(SelectedPixel(q, r))
  <2> TAKE q, r
  <2> DEFINE under == IF q \in Edge(r) THEN <<<<"solid", "ui_menu_title">>>>
                      ELSE Append(Ground(190), <<"ui_menu_sel_bg", 150>>)
  <2>1. Layers(under)
    BY GroundIsDark, LayerAdded, OneLayer
  <2>2. SelectedPixel(q, r) =
          IF q \in NameCells(r) THEN Append(under, NameLayer(q, r, "ui_menu_text_sel"))
          ELSE under
    BY DEF SelectedPixel
  <2> HIDE DEF under
  <2> QED
    BY <2>1, <2>2, LayerAdded
<1>3. \A q : Layers(FootPixel(q, sec))
  BY GroundIsDark, LayerAdded DEF FootPixel
<1>4. \A q \in Pixels : Layers(RowsPixel(q, sel))
  BY <1>1, <1>2, FrameLayered DEF RowsPixel, Layered
<1> QED
  BY <1>3, <1>4 DEF Picture, Layered

\* The characters at a pixel that nothing was painted over.
Shows(layers) ==
  {layers[i][2] : i \in {i \in DOMAIN layers :
     \A j \in i .. Len(layers) : layers[j][1] = "char"}}

\* One that was just repaired shows none, and a character written there itself.
LEMMA BoxShowsNothing ==
  ASSUME NEW s, Layers(s), NEW b, b[1] # "char"
  PROVE  Shows(Append(s, b)) = {}
PROOF
<1> DEFINE a == Append(s, b)
           n == Len(s)
<1>1. /\ n \in Nat /\ DOMAIN a = 1 .. n + 1 /\ Len(a) = n + 1 /\ a[n + 1] = b
  BY LayerAdded
<1> HIDE DEF a, n
<1>2. ASSUME NEW i \in DOMAIN a PROVE ~\A j \in i .. Len(a) : a[j][1] = "char"
  <2>1. n + 1 \in i .. Len(a)
    BY <1>1
  <2> QED
    BY <1>1, <2>1
<1>3. Shows(a) = {}
  BY <1>2 DEF Shows
<1> QED
  BY <1>3 DEF a

LEMMA TextShows ==
  ASSUME NEW s, Layers(s), NEW b, b[1] # "char", NEW t, t[1] = "char"
  PROVE  Shows(Append(Append(s, b), t)) = {t[2]}
PROOF
<1> DEFINE u == Append(s, b)
           a == Append(u, t)
           n == Len(s)
<1>1. Layers(u) /\ n \in Nat /\ Len(u) = n + 1 /\ u[n + 1] = b
  BY LayerAdded
<1>2. DOMAIN a = 1 .. n + 2 /\ Len(a) = n + 2 /\ a[n + 2] = t /\ a[n + 1] = b
  <2> HIDE DEF u, n
  <2>1. /\ DOMAIN a = 1 .. Len(u) + 1 /\ Len(a) = Len(u) + 1
        /\ \A i \in 1 .. Len(u) : a[i] = u[i]
        /\ a[Len(u) + 1] = t
    BY <1>1, LayerAdded
  <2>2. n + 1 \in 1 .. Len(u) /\ Len(u) + 1 = n + 2
    BY <1>1
  <2> HIDE DEF a
  <2> QED
    BY <1>1, <2>1, <2>2
<1> HIDE DEF a, n, u
<1>3. ASSUME NEW i \in DOMAIN a
      PROVE  (\A j \in i .. Len(a) : a[j][1] = "char") <=> i = n + 2
  <2>1. CASE i = n + 2
    BY <1>1, <1>2, <2>1
  <2>2. CASE i # n + 2
    <3>1. n + 1 \in i .. Len(a)
      BY <1>1, <1>2, <2>2
    <3> QED
      BY <1>2, <2>2, <3>1
  <2> QED
    BY <2>1, <2>2
<1>4. n + 2 \in DOMAIN a
  BY <1>1, <1>2
<1>5. {i \in DOMAIN a : \A j \in i .. Len(a) : a[j][1] = "char"} = {n + 2}
  BY <1>3, <1>4
<1>6. Shows(a) = {a[i][2] : i \in {n + 2}}
  BY <1>5 DEF Shows
<1> QED
  BY <1>2, <1>6 DEF a, u

\* The editor's line, and that the screen c reads like text there.
Line == Rect(Pixels, edit_x + 20, edit_y + 32, edit_w - 40, 16)

ReadsOn(c, text) ==
  \A q \in Line :
    LET k == Column(q, edit_x + 20)
    IN Shows(c[q]) = IF k <= Len(Display(text)) THEN {Display(text)[k]} ELSE {}

LEMMA EditorPlace ==
  ASSUME Setting
  PROVE  /\ width \in Nat /\ height \in Nat /\ Word \in Nat
         /\ width + 16 < Word /\ height + 16 < Word
         /\ edit_x \in Nat /\ edit_w \in Nat /\ edit_w >= 60
         /\ edit_x + edit_w <= width
         /\ edit_y \in Nat /\ edit_y >= 20 /\ edit_y + 180 = height
PROOF
<1>1. /\ width \in Nat /\ height \in Nat /\ Word \in Nat
      /\ width >= 80 /\ height >= 200
      /\ width + 16 < Word /\ height + 16 < Word
  BY RasterAssumption DEF Setting, Drawable, InReach, width, height
<1> QED
  BY <1>1 DEF edit_x, edit_y, edit_w

LEMMA LinePlain ==
  ASSUME Setting, NEW q \in Pixels
  PROVE  q \in Line <=>
           /\ edit_x + 20 <= q[1] /\ q[1] < edit_x + edit_w - 20
           /\ edit_y + 32 <= q[2] /\ q[2] < edit_y + 48
PROOF
<1>1. /\ edit_x + 20 \in Nat /\ edit_w - 40 \in Nat /\ edit_y + 32 \in Nat
      /\ (edit_x + 20) + (edit_w - 40) < Word /\ (edit_y + 32) + 16 < Word
      /\ (edit_x + 20) + (edit_w - 40) = edit_x + edit_w - 20
      /\ (edit_y + 32) + 16 = edit_y + 48
  BY EditorPlace
<1>2. q \in Line <=>
        /\ edit_x + 20 <= q[1] /\ q[1] < (edit_x + 20) + (edit_w - 40)
        /\ edit_y + 32 <= q[2] /\ q[2] < (edit_y + 32) + 16
  BY <1>1, RectPlain DEF Line
<1> QED
  BY <1>1, <1>2

\* Opening the editor puts its box under the line ...
LEMMA EditFramePlain ==
  ASSUME Setting, NEW c, Layered(c)
  PROVE  /\ Layered(EditFrame(c))
         /\ \A q \in Line : EditFrame(c)[q] = Append(c[q], <<"ui_menu_bg", 220>>)
PROOF
<1> DEFINE area == Rect(Pixels, edit_x, edit_y - 10, edit_w, 100)
           edges == Outline(Pixels, edit_x, edit_y - 10, edit_w, 100)
           head == Cells(Pixels, edit_x + 20, edit_y + 3,
                         Len(Caption("EDIT COMMAND LINE:", 18)))
           help == Cells(Pixels, edit_x + 20, edit_y + 61, Len(Caption("[ENTER]", 37)))
           box == Blend(c, area, "ui_menu_bg", 220)
           lined == Solid(box, edges, "ui_menu_help")
           named == Text(lined, edit_x + 20, edit_y + 3,
                         Caption("EDIT COMMAND LINE:", 18), "ui_menu_text_sel")
<1>1. EditFrame(c) = Text(named, edit_x + 20, edit_y + 61, Caption("[ENTER]", 37),
                          "ui_menu_help")
  BY DEF EditFrame
<1>2. \A q \in Pixels : q \in area => box[q] = Append(c[q], <<"ui_menu_bg", 220>>)
  <2> HIDE DEF area
  <2> QED
    BY DEF Blend
<1>3. \A q \in Pixels : q \notin edges => lined[q] = box[q]
  <2> HIDE DEF edges, box
  <2> QED
    BY DEF Solid
<1>4. \A q \in Pixels : q \notin head => named[q] = lined[q]
  <2> HIDE DEF lined
  <2> QED
    BY DEF Text
<1>5. \A q \in Pixels : q \notin help => EditFrame(c)[q] = named[q]
  <2> HIDE DEF named
  <2> QED
    BY <1>1 DEF Text
<1>6. Layered(EditFrame(c))
  <2>1. Layered(box)
    BY PaintingLayers
  <2> HIDE DEF box
  <2>2. Layered(lined)
    BY <2>1, PaintingLayers
  <2> HIDE DEF lined
  <2>3. Layered(named)
    BY <2>2, PaintingLayers
  <2> HIDE DEF named
  <2> QED
    BY <1>1, <2>3, PaintingLayers
<1>7. ASSUME NEW q \in Line
      PROVE  q \in Pixels /\ q \in area /\ q \notin edges /\ q \notin head /\ q \notin help
  <2>0. q \in Pixels
    BY DEF Line, Rect
  <2>1. /\ q[1] \in Nat /\ q[2] \in Nat /\ q[2] < height
        /\ width + 16 < Word /\ height + 16 < Word
        /\ width \in Nat /\ height \in Nat /\ Word \in Nat
    BY <2>0, PixelCoordinates
  <2>2. /\ edit_x \in Nat /\ edit_w \in Nat /\ edit_w >= 60
        /\ edit_x + edit_w <= width
        /\ edit_y \in Nat /\ edit_y >= 20 /\ edit_y + 180 = height
    BY EditorPlace
  <2>3. /\ edit_x + 20 <= q[1] /\ q[1] < edit_x + edit_w - 20
        /\ edit_y + 32 <= q[2] /\ q[2] < edit_y + 48
    BY <2>0, LinePlain
  <2>4. /\ edit_y - 10 \in Nat /\ edit_w \in Nat \ {0} /\ 100 \in Nat \ {0}
        /\ edit_x + edit_w < Word /\ (edit_y - 10) + 100 < Word
    BY <2>1, <2>2
  <2>5. q \in area
    <3>1. q \in area <=> /\ edit_x <= q[1] /\ q[1] < edit_x + edit_w
                         /\ edit_y - 10 <= q[2] /\ q[2] < (edit_y - 10) + 100
      BY <2>0, <2>2, <2>4, RectPlain
    <3> HIDE DEF area
    <3> QED
      BY <2>1, <2>2, <2>3, <3>1
  <2>6. q \notin edges
    <3>1. q \in edges => \/ q[2] = edit_y - 10 \/ q[2] = (edit_y - 10) + 100 - 1
                         \/ q[1] = edit_x \/ q[1] = edit_x + edit_w - 1
      BY <2>0, <2>1, <2>2, <2>4, OutlinePlain
    <3> HIDE DEF edges
    <3> QED
      BY <2>1, <2>2, <2>3, <3>1
  <2>7. q \notin head
    <3>1. edit_y + 3 \in Nat /\ q[2] + 16 < Word /\ (edit_y + 3) + 16 < Word
      BY <2>1, <2>2
    <3>2. q \in head => q[2] < (edit_y + 3) + 16
      BY <2>0, <2>1, <3>1, CellsRows
    <3> HIDE DEF head
    <3> QED
      BY <2>1, <2>2, <2>3, <3>2
  <2>8. q \notin help
    <3>1. edit_y + 61 \in Nat /\ q[2] + 16 < Word /\ (edit_y + 61) + 16 < Word
      BY <2>1, <2>2
    <3>2. q \in help => edit_y + 61 <= q[2]
      BY <2>0, <2>1, <3>1, CellsRows
    <3> HIDE DEF help
    <3> QED
      BY <2>1, <2>2, <2>3, <3>2
  <2> QED
    BY <2>0, <2>5, <2>6, <2>7, <2>8
<1> HIDE DEF area, edges, head, help, box, lined, named
<1> QED
  BY <1>2, <1>3, <1>4, <1>5, <1>6, <1>7

\* ... and so does repairing the line.
LEMMA RepairLinePlain ==
  ASSUME Setting, NEW c, Layered(c)
  PROVE  /\ Layered(RepairLine(c))
         /\ \A q \in Line : RepairLine(c)[q] = Ground(220)
PROOF
<1>1. /\ edit_x \in Nat /\ edit_w \in Nat /\ edit_w >= 60
      /\ edit_x + edit_w <= width /\ width + 16 < Word /\ width \in Nat
      /\ edit_y \in Nat /\ edit_y >= 20 /\ edit_y + 180 = height
      /\ height + 16 < Word /\ height \in Nat /\ Word \in Nat
  BY EditorPlace
<1> DEFINE S == Rect(Pixels, edit_x + 20, edit_y + 32, edit_w - 40, 20)
<1>2. RepairLine(c) = [q \in Pixels |-> IF q \in S THEN Ground(220) ELSE c[q]]
  <2>1. /\ edit_x + 20 \in Int /\ edit_y + 32 \in Int /\ edit_w - 40 \in Int
        /\ edit_x \in Int /\ edit_y - 10 \in Int /\ edit_w \in Int
        /\ edit_w - 40 > 0 /\ 20 > 0 /\ edit_x <= edit_x + 20
        /\ (edit_x + 20) + (edit_w - 40) <= edit_x + edit_w
        /\ (edit_y - 10) + 35 <= edit_y + 32
        /\ (edit_y + 32) + 20 <= (edit_y - 10) + 100
    BY <1>1
  <2> QED
    BY <2>1, RepairPlain DEF RepairLine
<1>3. ASSUME NEW q \in Line PROVE q \in Pixels /\ q \in S
  <2>1. q \in Pixels
    BY DEF Line, Rect
  <2>2. /\ edit_x + 20 <= q[1] /\ q[1] < edit_x + edit_w - 20
        /\ edit_y + 32 <= q[2] /\ q[2] < edit_y + 48
    BY <2>1, LinePlain
  <2>3. /\ edit_x + 20 \in Nat /\ edit_y + 32 \in Nat /\ edit_w - 40 \in Nat
        /\ (edit_x + 20) + (edit_w - 40) < Word /\ (edit_y + 32) + 20 < Word
        /\ (edit_x + 20) + (edit_w - 40) = edit_x + edit_w - 20
    BY <1>1
  <2>4. q[1] \in Nat /\ q[2] \in Nat
    BY <2>1, PixelCoordinates
  <2>5. q \in S <=> /\ edit_x + 20 <= q[1] /\ q[1] < (edit_x + 20) + (edit_w - 40)
                    /\ edit_y + 32 <= q[2] /\ q[2] < (edit_y + 32) + 20
    BY <2>1, <2>3, RectPlain
  <2> HIDE DEF S
  <2> QED
    BY <1>1, <2>1, <2>2, <2>3, <2>4, <2>5
<1> HIDE DEF S
<1> QED
  BY <1>2, <1>3, GroundIsDark DEF Layered

\* After a draw the line reads like the text, whatever it showed before.
LEMMA EditorPaints ==
  ASSUME Setting, NEW c, Layered(c), NEW text,
         NEW d, d = EditFrame(c) \/ d = RepairLine(c)
  PROVE  LET e == Text(d, edit_x + 20, edit_y + 32, Display(text), "ui_menu_text")
         IN Layered(e) /\ ReadsOn(e, text)
PROOF
<1> DEFINE e == Text(d, edit_x + 20, edit_y + 32, Display(text), "ui_menu_text")
           n == Len(Display(text))
<1>1. Layered(d)
  BY EditFramePlain, RepairLinePlain
<1>2. Layered(e)
  BY <1>1, PaintingLayers
<1>3. ASSUME NEW q \in Line
      PROVE  \E s : Layers(s) /\ d[q] = Append(s, <<"ui_menu_bg", 220>>)
  <2>1. q \in Pixels
    BY DEF Line, Rect
  <2>2. CASE d = EditFrame(c)
    BY <2>1, <2>2, EditFramePlain DEF Layered
  <2>3. CASE d = RepairLine(c)
    <3>1. d[q] = Ground(220)
      BY <2>3, RepairLinePlain
    <3> QED
      BY <3>1, OneLayer DEF Ground
  <2> QED
    BY <2>2, <2>3
<1>4. ASSUME NEW q \in Line
      PROVE  Shows(e[q]) = IF Column(q, edit_x + 20) <= n
                             THEN {Display(text)[Column(q, edit_x + 20)]} ELSE {}
  <2>1. q \in Pixels
    BY DEF Line, Rect
  <2>2. U(q[2] - (edit_y + 32)) < 16
    <3>1. /\ edit_y + 32 <= q[2] /\ q[2] < edit_y + 48 /\ edit_y \in Nat
          /\ q[2] \in Nat /\ q[2] < Word
      BY <2>1, LinePlain, EditorPlace, PixelCoordinates
    <3>2. /\ q[2] - (edit_y + 32) \in Nat /\ q[2] - (edit_y + 32) < 16
          /\ q[2] - (edit_y + 32) < Word
      BY <3>1, EditorPlace
    <3>3. U(q[2] - (edit_y + 32)) = q[2] - (edit_y + 32)
      BY <3>2, NoWrap
    <3> QED
      BY <3>2, <3>3
  <2> DEFINE k == Column(q, edit_x + 20)
             t == <<"char", Display(text)[k], "ui_menu_text">>
             b == <<"ui_menu_bg", 220>>
  <2>3. PICK s : Layers(s) /\ d[q] = Append(s, b)
    BY <1>3
  <2>4. e[q] = IF k <= n THEN Append(d[q], t) ELSE d[q]
    BY <2>1, <2>2 DEF Text, Cells
  <2>5. b[1] # "char" /\ t[1] = "char" /\ t[2] = Display(text)[k]
    OBVIOUS
  <2>6. Column(q, edit_x + 20) = k
    OBVIOUS
  <2> DEFINE reads == k <= n
  <2>7. reads => e[q] = Append(d[q], t)
    BY <2>4
  <2>8. ~reads => e[q] = d[q]
    BY <2>4
  <2>9. reads \in BOOLEAN /\ (reads <=> k <= n)
    OBVIOUS
  <2> HIDE DEF k, t, b, n, e, reads
  <2>10. CASE reads
    <3>1. e[q] = Append(Append(s, b), t)
      BY <2>3, <2>7, <2>10
    <3>2. Shows(Append(Append(s, b), t)) = {t[2]}
      BY <2>3, <2>5, TextShows
    <3> QED
      BY <2>5, <2>6, <2>9, <2>10, <3>1, <3>2
  <2>11. CASE ~reads
    <3>1. Shows(e[q]) = {}
      BY <2>3, <2>5, <2>8, <2>11, BoxShowsNothing
    <3> QED
      BY <2>6, <2>9, <2>11, <3>1
  <2> QED
    BY <2>10, <2>11
<1> HIDE DEF e
<1>5. ReadsOn(e, text)
  BY <1>4 DEF ReadsOn
<1> QED
  BY <1>2, <1>5 DEF e

LEMMA ReadsNow == ASSUME NEW text PROVE Reads(text) <=> ReadsOn(screen, text)
PROOF
<1>1. \A q : Visible(q) = Shows(screen[q])
  BY DEF Visible, Shows
<1> QED
  BY <1>1 DEF Reads, ReadsOn, Line

LEMMA ReadsNext ==
  ASSUME UNCHANGED config, NEW CONSTANT text
  PROVE  Reads(text)' <=> ReadsOn(screen', text)
PROOF
<1>1. Pixels' = Pixels /\ edit_x' = edit_x /\ edit_y' = edit_y /\ edit_w' = edit_w
  BY PlacesStay DEF edit_x, edit_y, edit_w
<1>2. \A q : Visible(q)' = Shows(screen'[q])
  BY DEF Visible, Shows
<1>3. Rect(Pixels, edit_x + 20, edit_y + 32, edit_w - 40, 16)' = Line
  BY <1>1 DEF Line, Rect
<1> QED
  BY <1>1, <1>2, <1>3 DEF Reads, ReadsOn


\* The editor's buffer is text, and its line reads like it once it was drawn at
\* its present length; the command lines are texts.
EditInv ==
  /\ cmdlines \in [Rows -> Seq(Chars)]
  /\ last_pos \in Int
  /\ \E text \in Seq(Chars) :
       /\ buffer = text
       /\ pc = "edit_draw" /\ last_pos = Len(text) => Reads(text)
       /\ pc = "edit_key" => last_pos = Len(text) /\ Reads(text)
  /\ pc \in {"edit_draw", "edit_key"} => Layered(screen)

\* Outside the editor nothing is asked of the screen.
LEMMA EditOutside ==
  ASSUME EditInv, UNCHANGED config, UNCHANGED editor,
         cmdlines' \in [Rows -> Seq(Chars)], pc' \notin {"edit_draw", "edit_key"}
  PROVE  EditInv'
PROOF
<1>1. Rows' = Rows
  BY PlacesStay
<1>2. last_pos' = last_pos /\ buffer' = buffer
  BY DEF editor
<1>3. PICK text \in Seq(Chars) : buffer = text
  BY DEF EditInv
<1>4. cmdlines' \in [Rows' -> Seq(Chars)] /\ last_pos' \in Int
  BY <1>1, <1>2 DEF EditInv
<1>5. buffer' = text /\ pc' # "edit_draw" /\ pc' # "edit_key"
  BY <1>2, <1>3
<1> QED
  BY <1>4, <1>5 DEF EditInv

\* What is on the screen stays there while the editor waits.
LEMMA EditWaits ==
  ASSUME UNCHANGED config, UNCHANGED screen, NEW CONSTANT text
  PROVE  /\ Layered(screen) => Layered(screen)'
         /\ Reads(text) => Reads(text)'
PROOF
<1>1. Pixels' = Pixels
  BY PlacesStay
<1>2. Layered(screen) => Layered(screen)'
  BY <1>1 DEF Layered
<1>3. Reads(text) => Reads(text)'
  BY ReadsNow, ReadsNext
<1> QED
  BY <1>2, <1>3

LEMMA EditInit == ASSUME Init PROVE EditInv
PROOF
<1>1. <<>> \in Seq(Chars)
  OBVIOUS
<1>2. cmdlines \in [Rows -> Seq(Chars)]
  BY <1>1 DEF Init
<1>3. buffer = <<>> /\ last_pos \in Int /\ pc \notin {"edit_draw", "edit_key"}
  BY DEF Init
<1>4. PICK text \in Seq(Chars) : buffer = text
  BY <1>1, <1>3
<1> QED
  BY <1>2, <1>3, <1>4 DEF EditInv

\* The editor opens over the menu as a full redraw painted it.
LEMMA EditOpens == ASSUME ScreenInv, EditInv, KeyEdit PROVE EditInv'
PROOF
<1>1. /\ UNCHANGED config /\ UNCHANGED screen /\ UNCHANGED cmdlines
      /\ pc = "poll" /\ pc' = "edit_draw"
      /\ selected \in Rows /\ buffer' = cmdlines[selected] /\ last_pos' = -1
  BY DEF KeyEdit, Pressed
<1>2. Rows' = Rows
  BY <1>1, PlacesStay
<1>3. PICK text \in Seq(Chars) : buffer' = text
  BY <1>1 DEF EditInv
<1>4. Len(text) \in Nat
  BY <1>3
<1>5. Layered(screen)
  <2>1. last_selected = selected /\ selected # -1 /\ selected # -2
    BY <1>1 DEF ScreenInv, LoopTypes, Setting, Rows
  <2>2. Current
    BY <1>1, <2>1 DEF ScreenInv
  <2> QED
    BY <2>2, PictureLayered DEF Current
<1>6. Layered(screen)'
  BY <1>1, <1>5, EditWaits
<1>7. cmdlines' \in [Rows' -> Seq(Chars)] /\ last_pos' \in Int
  BY <1>1, <1>2 DEF EditInv
<1>8. last_pos' # Len(text) /\ pc' # "edit_key"
  BY <1>1, <1>4
<1> QED
  BY <1>3, <1>6, <1>7, <1>8 DEF EditInv

\* A line of another length is drawn anew; one of the same is already right.
LEMMA EditDraws == ASSUME ScreenInv, EditInv, EditDraw PROVE EditInv'
PROOF
<1>1. /\ UNCHANGED config /\ UNCHANGED cmdlines /\ buffer' = buffer
      /\ pc = "edit_draw" /\ pc' = "edit_key"
  BY DEF EditDraw
<1>2. Rows' = Rows /\ Pixels' = Pixels
  BY <1>1, PlacesStay
<1>3. PICK text \in Seq(Chars) :
        buffer = text /\ (pc = "edit_draw" /\ last_pos = Len(text) => Reads(text))
  BY DEF EditInv
<1>4. Len(text) \in Nat /\ Layered(screen) /\ Setting
  BY <1>1, <1>3 DEF EditInv, ScreenInv, LoopTypes
<1>5. Reads(text)' /\ Layered(screen)' /\ last_pos' = Len(text)
  <2>1. CASE EditStale
    <3> DEFINE d == IF last_pos = -1 THEN EditFrame(screen) ELSE RepairLine(screen)
               e == Text(d, edit_x + 20, edit_y + 32, Display(text), "ui_menu_text")
    <3>1. screen' = e /\ last_pos' = Len(text)
      BY <1>3, <2>1 DEF EditDraw
    <3>2. d = EditFrame(screen) \/ d = RepairLine(screen)
      OBVIOUS
    <3> HIDE DEF d
    <3>3. Layered(e) /\ ReadsOn(e, text)
      BY <1>4, <3>2, EditorPaints
    <3> HIDE DEF e
    <3>4. Layered(screen)'
      BY <1>2, <3>1, <3>3 DEF Layered
    <3>5. ReadsOn(screen', text)
      BY <3>1, <3>3
    <3>6. Reads(text)'
      BY <1>1, <3>5, ReadsNext
    <3> QED
      BY <3>1, <3>4, <3>6
  <2>2. CASE ~EditStale
    <3>1. screen' = screen /\ last_pos' = last_pos /\ last_pos = Len(text)
      BY <1>3, <2>2 DEF EditDraw, EditStale
    <3>2. Reads(text)
      BY <1>1, <1>3, <3>1
    <3> QED
      BY <1>1, <1>4, <3>1, <3>2, EditWaits
  <2> QED
    BY <2>1, <2>2
<1>6. cmdlines' \in [Rows' -> Seq(Chars)] /\ last_pos' \in Int
  BY <1>1, <1>2, <1>4, <1>5 DEF EditInv
<1>7. buffer' = text /\ pc' # "edit_draw"
  BY <1>1, <1>3
<1> QED
  BY <1>5, <1>6, <1>7 DEF EditInv

\* A key changes the length, or leaves the text alone.
LEMMA EditKeys ==
  ASSUME ScreenInv, EditInv,
         EditBackspace \/ (\E c \in Chars : EditType(c)) \/ EditIdle
  PROVE  EditInv'
PROOF
<1>1. /\ UNCHANGED config /\ UNCHANGED screen /\ UNCHANGED cmdlines
      /\ last_pos' = last_pos /\ pc = "edit_key" /\ pc' = "edit_draw"
  BY EditorGoesOn, Zenon DEF EditContinues
<1>2. Rows' = Rows
  BY <1>1, PlacesStay
<1>3. PICK text \in Seq(Chars) :
        buffer = text /\ (pc = "edit_key" => last_pos = Len(text) /\ Reads(text))
  BY DEF EditInv
<1>4. last_pos = Len(text) /\ Reads(text) /\ Layered(screen)
  BY <1>1, <1>3 DEF EditInv
<1>5. cmdlines' \in [Rows' -> Seq(Chars)] /\ last_pos' \in Int /\ Layered(screen)'
  BY <1>1, <1>2, <1>4, EditWaits DEF EditInv
<1>6. CASE EditBackspace
  <2>1. text # <<>> /\ buffer' = SubSeq(text, 1, Len(text) - 1)
    BY <1>3, <1>6 DEF EditBackspace
  <2> DEFINE less == SubSeq(text, 1, Len(text) - 1)
  <2>2. less \in Seq(Chars) /\ Len(less) = Len(text) - 1 /\ Len(text) \in Nat
    <3>1. Len(text) \in Nat \ {0}
      BY <1>3, <2>1, EmptySeq
    <3>2. \A i \in 1 .. Len(text) - 1 : text[i] \in Chars
      BY <1>3, <3>1
    <3>3. /\ less \in Seq(Chars)
          /\ Len(less) = IF 1 <= Len(text) - 1 THEN (Len(text) - 1) - 1 + 1 ELSE 0
      BY <3>1, <3>2, SubSeqProperties
    <3> HIDE DEF less
    <3> QED
      BY <3>1, <3>3
  <2> HIDE DEF less
  <2>3. buffer' = less /\ last_pos' # Len(less) /\ pc' # "edit_key"
    BY <1>1, <1>4, <2>1, <2>2 DEF less
  <2> QED
    BY <1>5, <2>2, <2>3 DEF EditInv
<1>7. CASE \E c \in Chars : EditType(c)
  <2>1. PICK c \in Chars : buffer' = Append(text, c)
    BY <1>3, <1>7 DEF EditType
  <2> DEFINE more == Append(text, c)
  <2>2. more \in Seq(Chars) /\ Len(more) = Len(text) + 1 /\ Len(text) \in Nat
    BY <1>3, <2>1
  <2> HIDE DEF more
  <2>3. buffer' = more /\ last_pos' # Len(more) /\ pc' # "edit_key"
    BY <1>1, <1>4, <2>1, <2>2 DEF more
  <2> QED
    BY <1>5, <2>2, <2>3 DEF EditInv
<1>8. CASE EditIdle
  <2>1. buffer' = text /\ Reads(text)' /\ pc' # "edit_key"
    BY <1>1, <1>3, <1>4, <1>8, EditWaits DEF EditIdle
  <2> QED
    BY <1>3, <1>5, <2>1 DEF EditInv
<1> QED
  BY <1>6, <1>7, <1>8

LEMMA EditorLeft ==
  ASSUME ScreenInv, EditInv, EditSave \/ EditDiscard
  PROVE  EditInv'
PROOF
<1>1. /\ UNCHANGED config /\ UNCHANGED editor /\ pc' = "draw"
      /\ cmdlines' = cmdlines \/ cmdlines' = [cmdlines EXCEPT ![selected] = buffer]
  BY Zenon DEF EditSave, EditDiscard, LeaveEditor
<1>2. cmdlines \in [Rows -> Seq(Chars)] /\ buffer \in Seq(Chars)
  BY DEF EditInv
<1>3. cmdlines' \in [Rows -> Seq(Chars)]
  BY <1>1, <1>2
<1> QED
  BY <1>1, <1>3, EditOutside

LEMMA EditHolds == Spec /\ Drawable => [](ScreenInv /\ EditInv)
PROOF
<1>1. Init => EditInv
  BY EditInit
<1>2. ScreenInv /\ EditInv /\ [Next]_vars => EditInv'
  <2> SUFFICES ASSUME ScreenInv, EditInv, [Next]_vars PROVE EditInv'
    OBVIOUS
  <2>1. CASE KeyEdit
    BY <2>1, EditOpens
  <2>2. CASE EditDraw
    BY <2>2, EditDraws
  <2>3. CASE EditBackspace \/ (\E c \in Chars : EditType(c)) \/ EditIdle
    BY <2>3, EditKeys
  <2>4. CASE EditSave \/ EditDiscard
    BY <2>4, EditorLeft
  <2>5. CASE Draw \/ Tick \/ KeyUp \/ KeyDown \/ KeyEnter \/ KeySetup \/ KeyOther
    <3>1. UNCHANGED config
      BY ConfigStays
    <3>2. /\ pc' \in {"draw", "poll", "done"}
          /\ UNCHANGED editor /\ UNCHANGED cmdlines
      BY <2>5, Zenon
         DEF Draw, Tick, KeyUp, KeyDown, KeyEnter, KeySetup, KeyOther, Pressed
    <3>3. pc' \notin {"edit_draw", "edit_key"} /\ cmdlines' \in [Rows -> Seq(Chars)]
      BY <3>2 DEF EditInv
    <3> QED
      BY <3>1, <3>2, <3>3, EditOutside
  <2>6. CASE UNCHANGED vars
    <3>1. UNCHANGED config
      BY ConfigStays
    <3>2. /\ pc' = pc /\ screen' = screen /\ cmdlines' = cmdlines
          /\ buffer' = buffer /\ last_pos' = last_pos
      BY <2>6 DEF vars, editor
    <3>3. Rows' = Rows
      BY <3>1, PlacesStay
    <3>4. PICK text \in Seq(Chars) :
            /\ buffer = text
            /\ pc = "edit_draw" /\ last_pos = Len(text) => Reads(text)
            /\ pc = "edit_key" => last_pos = Len(text) /\ Reads(text)
      BY DEF EditInv
    <3>5. /\ Reads(text) => Reads(text)'
          /\ Layered(screen) => Layered(screen)'
      BY <3>1, <3>2, EditWaits
    <3>6. /\ buffer' = text
          /\ pc' = "edit_draw" /\ last_pos' = Len(text) => Reads(text)'
          /\ pc' = "edit_key" => last_pos' = Len(text) /\ Reads(text)'
      BY <3>2, <3>4, <3>5
    <3> QED
      BY <3>2, <3>3, <3>4, <3>5, <3>6 DEF EditInv
  <2> QED
    BY <2>1, <2>2, <2>3, <2>4, <2>5, <2>6, MenuSteps
<1> QED
  BY <1>1, <1>2, ScreenHolds, PTL DEF Spec

\* Whenever the editor waits for a key its line reads like the buffer, whatever
\* was typed and erased before: for every text, and every screen the box fits.
THEOREM EditorIsTruthful == Spec /\ Drawable => []EditorShowsText
PROOF
<1>1. EditInv => EditorShowsText
  BY DEF EditInv, EditorShowsText
<1> QED
  BY <1>1, EditHolds, PTL

\* A command line changes only when ENTER is pressed in the editor, only that of
\* the entry selected, and into the text that is then on the screen.
THEOREM ShownIsSaved == Spec /\ Drawable => SavesWhatIsShown
PROOF
<1>1. EditInv /\ ScreenInv /\ [Next]_vars =>
        [\A e \in Rows : cmdlines'[e] # cmdlines[e] =>
           e = selected /\ Reads(cmdlines'[e])]_vars
  <2> SUFFICES ASSUME EditInv, ScreenInv, [Next]_vars,
                      NEW e \in Rows, cmdlines'[e] # cmdlines[e]
               PROVE  e = selected /\ Reads(cmdlines'[e])
    OBVIOUS
  <2>1. EditSave
    <3>1. Draw \/ Tick \/ EditDraw \/ EditDiscard \/ EditContinues
            => cmdlines' = cmdlines
      BY Zenon DEF Draw, Tick, EditDraw, EditDiscard, EditContinues
    <3>2. (\E next : Pressed(next)) => cmdlines' = cmdlines
      BY Zenon DEF Pressed
    <3>3. UNCHANGED vars => cmdlines' = cmdlines
      BY Zenon DEF vars
    <3> QED
      BY <3>1, <3>2, <3>3, MenuSteps, EditorGoesOn, KeysArePressed, Zenon
  <2>2. cmdlines' = [cmdlines EXCEPT ![selected] = buffer] /\ pc = "edit_key"
    BY <2>1 DEF EditSave, LeaveEditor
  <2>3. cmdlines \in [Rows -> Seq(Chars)]
    BY DEF EditInv
  <2>4. e = selected /\ cmdlines'[e] = buffer
    BY <2>2, <2>3
  <2>5. PICK text \in Seq(Chars) : buffer = text /\ Reads(text)
    BY <2>2 DEF EditInv
  <2>6. cmdlines'[e] = text
    BY <2>4, <2>5
  <2>7. Reads(cmdlines'[e])
    BY <2>5, <2>6
  <2> QED
    BY <2>4, <2>7
<1> QED
  BY <1>1, EditHolds, PTL DEF Spec, SavesWhatIsShown
=============================================================================
