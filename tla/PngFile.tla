------------------------------ MODULE PngFile ------------------------------
(***************************************************************************)
(* PNG files as an encoder writes them, from the PNG and deflate formats and *)
(* not from the decoder: filtered rows, a greedy search for repetitions, and *)
(* codes numbered by how much of the code space shorter ones use up.         *)
(***************************************************************************)
EXTENDS Integers, Sequences, FiniteSets, FiniteSetsExt, SequencesExt

Number(v, n) == [i \in 1 .. n |-> (v \div 2 ^ (i - 1)) % 2]

Zeros(n) == [i \in 1 .. n |-> 0]

\* The code of symbol s, highest bit first.  lengths[s + 1] is its length.
Code(lengths, s) ==
  LET n == lengths[s + 1]
      before(k) == {t \in DOMAIN lengths : lengths[t] = k /\ (k < n \/ t < s + 1)}
      value == MapThenSumSet(LAMBDA k : 2 ^ (n - k) * Cardinality(before(k)), 1 .. n)
  IN Reverse(Number(value, n))

\* Repetitions of 3 to 18 bytes from 1 to 16 bytes back: symbol, extra bits.
LengthSymbol(n) == IF n <= 10 THEN <<254 + n, <<>>>>
                   ELSE <<265 + (n - 11) \div 2, Number((n - 11) % 2, 1)>>
DistanceSymbol(d) == IF d <= 4 THEN <<d - 1, <<>>>>
                     ELSE IF d <= 8 THEN <<4 + (d - 5) \div 2, Number((d - 5) % 2, 1)>>
                     ELSE <<6 + (d - 9) \div 4, Number((d - 9) % 4, 2)>>

\* Bytes as literals <<b>> and repetitions <<length, distance>>.
Items(bytes) ==
  LET Matches(i) == {<<n, d>> \in (3 .. 18) \X (1 .. 16) :
                       /\ i + n - 1 <= Len(bytes) /\ d < i
                       /\ \A k \in i .. i + n - 1 : bytes[k] = bytes[k - d]}
      Longest(i) == CHOOSE m \in Matches(i) : \A o \in Matches(i) : o[1] <= m[1]
      From[i \in 1 .. Len(bytes) + 1] ==
        IF i > Len(bytes) THEN <<>>
        ELSE IF Matches(i) = {} THEN <<<<bytes[i]>>>> \o From[i + 1]
        ELSE <<Longest(i)>> \o From[i + Longest(i)[1]]
  IN From[1]

\* Code lengths for the symbols of a set among n: all the same, or one longer
\* than the other.
Lengths(used, n, shape) ==
  LET m == Cardinality(used)
      rank(s) == Cardinality({t \in used : t <= s})
      flat == CHOOSE k \in 1 .. 15 : (2 ^ k >= m) /\ (k = 1 \/ 2 ^ (k - 1) < m)
  IN [i \in 1 .. n |-> IF i - 1 \notin used THEN 0
                       ELSE IF shape = "flat" THEN flat
                       ELSE Max({1, Min({rank(i - 1), m - 1})})]

\* A sequence of code lengths with its runs, in the five-bit code that gives
\* all 19 symbols of the code length alphabet the same length.
RunLengths(lengths) ==
  LET Run(i) == Max({n \in 1 .. 138 : i + n - 1 <= Len(lengths) /\
                       \A k \in i .. i + n - 1 : lengths[k] = lengths[i]})
      Sym(s) == Code([i \in 1 .. 19 |-> 5], s)
      From[i \in 1 .. Len(lengths) + 1] ==
        IF i > Len(lengths) THEN <<>>
        ELSE LET n == Run(i)  r == Min({n, 6})
             IN IF lengths[i] = 0 /\ n >= 11
                  THEN Sym(18) \o Number(n - 11, 7) \o From[i + n]
                ELSE IF lengths[i] = 0 /\ n >= 3
                  THEN Sym(17) \o Number(Min({n, 10}) - 3, 3) \o From[i + Min({n, 10})]
                ELSE IF i > 1 /\ lengths[i - 1] = lengths[i] /\ n >= 3
                  THEN Sym(16) \o Number(r - 3, 2) \o From[i + r]
                ELSE Sym(lengths[i]) \o From[i + 1]
  IN From[1]

\* One block: fixed codes, or codes of a shape for just the symbols it needs.
DeflateBlock(items, shape, last) ==
  LET lits == {256} \cup {IF Len(it) = 1 THEN it[1] ELSE LengthSymbol(it[1])[1] :
                            it \in ToSet(items)}
      dists == {0} \cup {DistanceSymbol(it[2])[1] : it \in {it \in ToSet(items) : Len(it) = 2}}
      lit == IF shape = "fixed"
               THEN [i \in 1 .. 288 |-> IF i <= 144 THEN 8 ELSE IF i <= 256 THEN 9
                                        ELSE IF i <= 280 THEN 7 ELSE 8]
               ELSE Lengths(lits, Max(lits) + 1, shape)
      dist == IF shape = "fixed" THEN [i \in 1 .. 32 |-> 5]
              ELSE Lengths(dists, Max(dists) + 1, shape)
      head == IF shape = "fixed" THEN Number(1, 2)
              ELSE Number(2, 2) \o Number(Len(lit) - 257, 5) \o Number(Len(dist) - 1, 5)
                   \o Number(15, 4) \o FlattenSeq([i \in 1 .. 19 |-> Number(5, 3)])
                   \o RunLengths(lit \o dist)
      body(it) == IF Len(it) = 1 THEN Code(lit, it[1])
                  ELSE LET l == LengthSymbol(it[1])  d == DistanceSymbol(it[2])
                       IN Code(lit, l[1]) \o l[2] \o Code(dist, d[1]) \o d[2]
  IN Number(IF last THEN 1 ELSE 0, 1) \o head
     \o FlattenSeq([i \in DOMAIN items |-> body(items[i])]) \o Code(lit, 256)

\* Row y of a picture as the bytes of its colour type, alpha being 7.
RowBytes(picture, y, color) ==
  FlattenSeq([x \in DOMAIN picture[y] |->
    CASE color = 0 -> <<picture[y][x][1]>>
      [] color = 2 -> picture[y][x]
      [] color = 6 -> Append(picture[y][x], 7)])

\* The byte at i of a row less what its filter predicts from left, above and
\* above left; filter 4 takes the nearest of them to left + above - above left.
Filtered(picture, y, color, filter) ==
  LET n == CASE color = 0 -> 1 [] color = 2 -> 3 [] color = 6 -> 4
      row(k) == IF k = 0 THEN [i \in DOMAIN RowBytes(picture, 1, color) |-> 0]
                ELSE RowBytes(picture, k, color)
      left(r, i) == IF i > n THEN r[i - n] ELSE 0
      dist(v, t) == IF v < t THEN t - v ELSE v - t
      Paeth3(l, a, al) ==
        LET c == <<l, a, al>>
        IN c[CHOOSE k \in 1 .. 3 : \A m \in 1 .. 3 :
               \/ dist(c[k], l + a - al) < dist(c[m], l + a - al)
               \/ dist(c[k], l + a - al) = dist(c[m], l + a - al) /\ k <= m]
      guess(i) ==
        LET l == left(row(y), i)  a == row(y - 1)[i]  al == left(row(y - 1), i)
        IN <<0, l, a, (l + a) \div 2, Paeth3(l, a, al)>>[filter + 1]
  IN <<filter>> \o [i \in DOMAIN row(y) |-> (row(y)[i] - guess(i)) % 256]

\* The file: the stream of its rows in a block of each shape given, the items
\* shared out among them, and cut into two IDAT chunks after cut bytes.
File(picture, color, filters, shapes, cut) ==
  LET items == Items(FlattenSeq([y \in DOMAIN picture |->
                                   Filtered(picture, y, color, filters[y])]))
      half == IF Len(shapes) = 1 THEN Len(items) ELSE Len(items) \div 2
      stream == Zeros(16)
                \o DeflateBlock(SubSeq(items, 1, half), shapes[1], Len(shapes) = 1)
                \o (IF Len(shapes) = 1 THEN <<>>
                    ELSE DeflateBlock(SubSeq(items, half + 1, Len(items)), shapes[2], TRUE))
                \o Zeros(39)
  IN <<[type |-> "IHDR", width |-> Len(picture[1]), height |-> Len(picture), color |-> color],
       [type |-> "IDAT", data |-> SubSeq(stream, 1, 8 * cut)],
       [type |-> "tEXt", data |-> <<>>],
       [type |-> "IDAT", data |-> SubSeq(stream, 8 * cut + 1, Len(stream))],
       [type |-> "IEND", data |-> <<>>]>>
=============================================================================
