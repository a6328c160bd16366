-------------------------------- MODULE Png --------------------------------
(***************************************************************************)
(* The PNG decoder of src/common/lib/png.c: the loop over the chunks, the   *)
(* inflater, the filters, and the colour of a pixel for the drawing loop.   *)
(*                                                                         *)
(* The data of an IDAT chunk is its bits in the order tinf_getbits takes    *)
(* them, each byte's lowest bit first.  decompression_buffer and            *)
(* idat_buffer are 15 MB apart; the images here inflate to less, and their  *)
(* streams are complete.                                                    *)
(***************************************************************************)
EXTENDS Integers, Sequences, FiniteSets, FiniteSetsExt, SequencesExt

VARIABLES
  stage,    \* idle, chunks, block, lengths, symbols, unfilter, ready
  chunks,   \* what p has not passed yet: [type, data]
  ihdr,     \* width, height and bpp as the last IHDR gave them
  idat,     \* idat_buffer
  at,       \* bits of it consumed
  bfinal,   \* whether the current block is the last
  want,     \* hlit and hdist of the current block
  lengths,  \* its code lengths read so far
  lt, dt,   \* its trees; while lengths are read, lt is the tree they are coded in
  buf,      \* decompression_buffer as far as out
  unfiltered \* rows png_unfilter has been through

codes == <<want, lengths, lt, dt>>
pngvars == <<stage, chunks, ihdr, idat, at, bfinal, codes, buf, unfiltered>>

-----------------------------------------------------------------------------
(* Reading bits and symbols *)

\* tinf_getbits: num bits from the i-th on, the first the lowest.
Bits(i, num) == MapThenSumSet(LAMBDA k : idat[i + k] * 2 ^ (k - 1), 1 .. num)

\* tinf_build_tree: how many codes have each length, and the symbols in the
\* order of their codes.  ls is a sequence, its first element symbol 0's.
Tree(ls) ==
  [counts |-> [len \in 1 .. 15 |->
                 Cardinality({s \in DOMAIN ls : ls[s] = len})],
   symbols |-> FlattenSeq([len \in 1 .. 15 |->
                 SelectSeq([i \in DOMAIN ls |-> i - 1],
                           LAMBDA s : ls[s + 1] = len)])]

\* tinf_decode_symbol from bit i on: the symbol and the bits it took.  first is
\* the code, index the place in symbols of the first symbol of a length.
Symbol(t, i) ==
  LET cur(len) == MapThenSumSet(LAMBDA k : idat[i + k] * 2 ^ (len - k), 1 .. len)
      first(len) ==
        MapThenSumSet(LAMBDA k : t.counts[k] * 2 ^ (len - k), 1 .. len - 1)
      index(len) == MapThenSumSet(LAMBDA k : t.counts[k], 1 .. len - 1)
      Found(len) == cur(len) < first(len) + t.counts[len]
      n == CHOOSE n \in 1 .. 15 : Found(n) /\ \A m \in 1 .. n - 1 : ~Found(m)
  IN [symbol |-> t.symbols[index(n) + cur(n) - first(n) + 1], next |-> i + n]

order == <<16, 17, 18, 0, 8, 7, 9, 6, 10, 5, 11, 4, 12, 3, 13, 2, 14, 1, 15>>
length_base == <<3, 4, 5, 6, 7, 8, 9, 10, 11, 13, 15, 17, 19, 23, 27, 31, 35, 43,
                 51, 59, 67, 83, 99, 115, 131, 163, 195, 227, 258>>
length_ext == <<0, 0, 0, 0, 0, 0, 0, 0, 1, 1, 1, 1, 2, 2, 2, 2, 3, 3, 3, 3, 4, 4,
                4, 4, 5, 5, 5, 5, 0>>
dist_base == <<1, 2, 3, 4, 5, 7, 9, 13, 17, 25, 33, 49, 65, 97, 129, 193, 257, 385,
               513, 769, 1025, 1537, 2049, 3073, 4097, 6145, 8193, 12289, 16385,
               24577>>
dist_ext == <<0, 0, 0, 0, 1, 1, 2, 2, 3, 3, 4, 4, 5, 5, 6, 6, 7, 7, 8, 8, 9, 9, 10,
              10, 11, 11, 12, 12, 13, 13>>

\* The trees of a block of type 1.
FixedLiterals ==
  Tree([s \in 1 .. 288 |-> CASE s <= 144 -> 8 [] s \in 145 .. 256 -> 9
                             [] s \in 257 .. 280 -> 7 [] OTHER -> 8])
FixedDistances == Tree([s \in 1 .. 32 |-> 5])

-----------------------------------------------------------------------------
(* The steps *)

Idle ==
  /\ stage = "idle" /\ chunks = <<>> /\ ihdr = [width |-> 0, height |-> 0, bpp |-> 0]
  /\ idat = <<>> /\ at = 0 /\ bfinal = FALSE
  /\ want = <<0, 0>> /\ lengths = <<>> /\ lt = <<>> /\ dt = <<>> /\ buf = <<>> /\ unfiltered = 0

\* krexo_fb_draw_png_rect is called with a file.
Open(file) ==
  /\ stage = "idle"
  /\ stage' = "chunks" /\ chunks' = file
  /\ ihdr' = [width |-> 0, height |-> 0, bpp |-> 0] /\ idat' = <<>>
  /\ UNCHANGED <<at, bfinal, codes, buf, unfiltered>>

\* The bytes of a pixel by colour type, 0 for those not handled.
Bpp(color) ==
  CASE color = 2 -> 3 [] color = 6 -> 4 [] color \in {0, 3} -> 1 [] OTHER -> ihdr.bpp

Chunk ==
  /\ stage = "chunks"
  /\ LET c == Head(chunks)
     IN /\ ihdr' = IF c.type # "IHDR" THEN ihdr
                   ELSE [width |-> c.width, height |-> c.height, bpp |-> Bpp(c.color)]
        /\ idat' = IF c.type = "IDAT" THEN idat \o c.data ELSE idat
        /\ stage' = IF c.type # "IEND" THEN "chunks"
                    ELSE IF ihdr.bpp = 0 THEN "idle" ELSE "block"
  /\ chunks' = Tail(chunks)
  /\ at' = 16 /\ bfinal' = FALSE       \* idat_buffer + 2
  /\ buf' = <<>> /\ unfiltered' = 0
  /\ UNCHANGED codes

\* The head of a block.  One of type 0 or 3 has no body here: the next bits
\* are taken for another head.
Block ==
  /\ stage = "block" /\ ~bfinal
  /\ bfinal' = (Bits(at, 1) = 1)
  /\ LET btype == Bits(at + 1, 2)
         hclen == Bits(at + 13, 4) + 4
         Clen(s) == LET k == CHOOSE k \in 1 .. 19 : order[k] = s - 1
                    IN IF k <= hclen THEN Bits(at + 17 + 3 * (k - 1), 3) ELSE 0
     IN \/ /\ btype = 1
           /\ lt' = FixedLiterals /\ dt' = FixedDistances
           /\ at' = at + 3 /\ stage' = "symbols"
           /\ UNCHANGED <<want, lengths>>
        \/ /\ btype = 2
           /\ want' = <<Bits(at + 3, 5) + 257, Bits(at + 8, 5) + 1>>
           /\ lengths' = <<>>
           /\ \E clen \in {[s \in 1 .. 19 |-> Clen(s)]} : lt' = Tree(clen)
           /\ at' = at + 17 + 3 * hclen /\ stage' = "lengths"
           /\ UNCHANGED dt
        \/ /\ btype \in {0, 3}
           /\ at' = at + 3 /\ UNCHANGED <<codes, stage>>
  /\ UNCHANGED <<chunks, ihdr, idat, buf, unfiltered>>

\* A turn of the loop that reads the code lengths: one, or a run of them.
CodeLength ==
  /\ stage = "lengths" /\ Len(lengths) < want[1] + want[2]
  /\ LET s == Symbol(lt, at)
         Add(k, l, bits) ==
           /\ lengths' = lengths \o [j \in 1 .. k |-> l]
           /\ at' = s.next + bits
     IN \/ s.symbol < 16 /\ Add(1, s.symbol, 0)
        \/ s.symbol = 16 /\ Add(Bits(s.next, 2) + 3, lengths[Len(lengths)], 2)
        \/ s.symbol = 17 /\ Add(Bits(s.next, 3) + 3, 0, 3)
        \/ s.symbol = 18 /\ Add(Bits(s.next, 7) + 11, 0, 7)
  /\ UNCHANGED <<stage, chunks, ihdr, idat, bfinal, want, lt, dt, buf, unfiltered>>

Trees ==
  /\ stage = "lengths" /\ Len(lengths) >= want[1] + want[2]
  /\ \E ls \in {SubSeq(lengths, 1, want[1])} : lt' = Tree(ls)
  /\ \E ls \in {SubSeq(lengths, want[1] + 1, want[1] + want[2])} : dt' = Tree(ls)
  /\ stage' = "symbols"
  /\ UNCHANGED <<chunks, ihdr, idat, at, bfinal, want, lengths, buf, unfiltered>>

Inflated ==
  /\ stage = "block" /\ bfinal
  /\ stage' = "unfilter"
  /\ UNCHANGED <<chunks, ihdr, idat, at, bfinal, codes, buf, unfiltered>>

Literal ==
  /\ stage = "symbols"
  /\ LET s == Symbol(lt, at)
     IN s.symbol < 256 /\ buf' = Append(buf, s.symbol) /\ at' = s.next
  /\ UNCHANGED <<stage, chunks, ihdr, idat, bfinal, codes, unfiltered>>

EndOfBlock ==
  /\ stage = "symbols"
  /\ LET s == Symbol(lt, at) IN s.symbol = 256 /\ at' = s.next
  /\ stage' = "block"
  /\ UNCHANGED <<chunks, ihdr, idat, bfinal, codes, buf, unfiltered>>

\* out[0] = out[-dist], one byte at a time: a copy that reaches into itself
\* repeats the last dist bytes.
Copied(length, dist) ==
  [k \in 1 .. length |-> buf[Len(buf) - dist + ((k - 1) % dist) + 1]]

Copy ==
  /\ stage = "symbols"
  /\ LET s == Symbol(lt, at)
         l == s.symbol - 256
         d == Symbol(dt, s.next + length_ext[l])
         length == length_base[l] + Bits(s.next, length_ext[l])
         dist == dist_base[d.symbol + 1] + Bits(d.next, dist_ext[d.symbol + 1])
     IN /\ s.symbol > 256
        /\ buf' = buf \o Copied(length, dist)
        /\ at' = d.next + dist_ext[d.symbol + 1]
  /\ UNCHANGED <<stage, chunks, ihdr, idat, bfinal, codes, unfiltered>>

stride == ihdr.width * ihdr.bpp + 1

AbsDiff(a, b) == IF a < b THEN b - a ELSE a - b

\* Mutant: a tie between the left and the upper left byte goes to the latter.
PaethStrict(a, b, c) ==
  LET pa == AbsDiff(b, c)  pb == AbsDiff(a, c)  pc == AbsDiff(a + b, 2 * c)
  IN IF pa <= pb /\ pa < pc THEN a ELSE IF pb <= pc THEN b ELSE c
Paeth(a, b, c) ==
  LET pa == AbsDiff(b, c)  pb == AbsDiff(a, c)  pc == AbsDiff(a + b, 2 * c)
  IN IF pa <= pb /\ pa <= pc THEN a ELSE IF pb <= pc THEN b ELSE c

\* What filter f adds to a byte with a to its left, b above, c above left.
Predicted(f, a, b, c) ==
  CASE f = 1 -> a [] f = 2 -> b [] f = 3 -> (a + b) \div 2
    [] f = 4 -> Paeth(a, b, c) [] OTHER -> 0

\* png_unfilter of the next row, in place: the bytes to the left are new
\* already, the row above was done before.
Unfilter ==
  /\ stage = "unfilter" /\ unfiltered < ihdr.height
  /\ LET from == unfiltered * stride + 1      \* where the filter's number is
         up(i) == IF unfiltered > 0 THEN buf[i - stride] ELSE 0
         Line[i \in from .. from + stride - 1] ==
           IF i = from THEN buf[i]
           ELSE LET in == i - from > ihdr.bpp   \* not the row's first pixel
                    a == IF in THEN Line[i - ihdr.bpp] ELSE 0
                    c == IF in THEN up(i - ihdr.bpp) ELSE 0
                IN (buf[i] + Predicted(buf[from], a, up(i), c)) % 256
     IN buf' = [i \in DOMAIN buf |-> IF i \in DOMAIN Line THEN Line[i] ELSE buf[i]]
  /\ unfiltered' = unfiltered + 1
  /\ UNCHANGED <<stage, chunks, ihdr, idat, at, bfinal, codes>>

Ready ==
  /\ stage = "unfilter" /\ unfiltered = ihdr.height
  /\ stage' = "ready"
  /\ UNCHANGED <<chunks, ihdr, idat, at, bfinal, codes, buf, unfiltered>>

Decode ==
  \/ Chunk \/ Block \/ CodeLength \/ Trees \/ Inflated \/ Literal \/ EndOfBlock \/ Copy
  \/ Unfilter \/ Ready

\* The colour the drawing loop takes for column x and row y of the image; with
\* one byte to a pixel, indexed images included, a shade of grey.
PngColor(x, y) ==
  LET i == y * stride + 1 + x * ihdr.bpp
  IN IF ihdr.bpp >= 3 THEN <<buf[i + 1], buf[i + 2], buf[i + 3]>>
     ELSE <<buf[i + 1], buf[i + 1], buf[i + 1]>>

Close ==
  /\ stage = "ready" /\ stage' = "idle"
  /\ UNCHANGED <<chunks, ihdr, idat, at, bfinal, codes, buf, unfiltered>>
=============================================================================
