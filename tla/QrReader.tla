------------------------------ MODULE QrReader ------------------------------
(***************************************************************************)
(* A reader of QR symbols, written from the geometry of the code and not   *)
(* from the encoder: what a finished symbol says.  It is the reference     *)
(* QrEncode is checked against.  Of the encoder's tables it uses the total *)
(* of data codewords and the number of blocks of a version and level.      *)
(***************************************************************************)
EXTENDS QrTables, FiniteSetsExt, SequencesExt

Side(v) == 4 * v + 17
Abs(n)  == IF n < 0 THEN -n ELSE n
Far(p, q) == Max({Abs(p[1] - q[1]), Abs(p[2] - q[2])})

-----------------------------------------------------------------------------
(* Geometry *)

\* Coordinates of the alignment patterns: 6 and, evenly spaced, up to Side - 7.
AlignAxis(v) ==
  IF v = 1 THEN {}
  ELSE LET n    == v \div 7 + 2
           step == 2 * ((v * 8 + n * 3 + 5) \div (n * 4 - 4))
       IN {6} \cup {Side(v) - 7 - k * step : k \in 0..(n - 2)}

FinderCentres(v) == {<<3, 3>>, <<Side(v) - 4, 3>>, <<3, Side(v) - 4>>}
AlignCentres(v)  == {c \in AlignAxis(v) \X AlignAxis(v) :
                       \A f \in FinderCentres(v) : Far(c, f) > 5}

VersionArea(v) == IF v < 7 THEN {}
                  ELSE LET r == (Side(v) - 11)..(Side(v) - 9)
                       IN ((0..5) \X r) \cup (r \X (0..5))

\* Format bit k of the two copies.
FormatPlace1(k) == CASE k <= 5 -> <<8, k>> [] k = 6 -> <<8, 7>> [] k = 7 -> <<8, 8>>
                     [] k = 8 -> <<7, 8>> [] OTHER -> <<14 - k, 8>>
FormatPlace2(v, k) == IF k <= 7 THEN <<Side(v) - 1 - k, 8>> ELSE <<8, Side(v) - 15 + k>>
FormatArea(v) == {FormatPlace1(k) : k \in 0..14} \cup {FormatPlace2(v, k) : k \in 0..14}

Reserved(v) ==
  LET S == 0..(Side(v) - 1)
      Box(c, r) == {i \in (c[1] - r)..(c[1] + r) : i \in S} \X {i \in (c[2] - r)..(c[2] + r) : i \in S}
  IN UNION {Box(f, 4) : f \in FinderCentres(v)} \cup UNION {Box(c, 2) : c \in AlignCentres(v)}
       \cup {<<6, i>> : i \in S} \cup {<<i, 6>> : i \in S}
       \cup FormatArea(v) \cup {<<8, Side(v) - 8>>} \cup VersionArea(v)

\* How many modules the patterns leave free.
FreeModules(v) == Side(v) * Side(v) - Cardinality(Reserved(v))

\* The free modules in reading order: pairs of columns from the right, column 6
\* left out, the first pair upwards, the right module of a row first.
Path(v) ==
  LET n == Side(v)
      reserved == Reserved(v)
      At(k) == LET pair == k \div (2 * n)
                   row  == (k % (2 * n)) \div 2
                   col  == n - 2 - 2 * pair - (k % 2)
               IN <<IF col >= 6 THEN col + 1 ELSE col,
                    IF pair % 2 = 0 THEN n - 1 - row ELSE row>>
  IN SelectSeq([k \in 1..(n * (n - 1)) |-> At(k - 1)], LAMBDA p : p \notin reserved)

-----------------------------------------------------------------------------
(* Words of bits *)

\* The value of b[i + 1], ..., b[i + n], highest first.
Value(b, i, n) == LET v[k \in 0..n] == IF k = 0 THEN 0 ELSE 2 * v[k - 1] + b[i + k] IN v[n]

\* The word whose bit k is the colour of Place(k).
WordAt(sym, n, Place(_)) == Value([k \in 1..n |-> sym[Place(n - k)[1]][Place(n - k)[2]]], 0, n)

\* Is w a multiple of the polynomial g of degree d?  (w has at most n bits.)
Divides(g, d, w, n) ==
  LET rem[k \in d..n] == IF k = n THEN w
                         ELSE LET r == rem[k + 1]
                              IN IF (r \div 2^k) % 2 = 1 THEN Xor(r, g * 2^(k - d)) ELSE r
  IN rem[d] = 0

-----------------------------------------------------------------------------
(* The patterns of a symbol sym of version v *)

SizeVersion(sym) == (Cardinality(DOMAIN sym) - 17) \div 4

FixedPatterns(sym, v) ==
  LET S == 0..(Side(v) - 1)
      Shows(p, dark) == (sym[p[1]][p[2]] = 1) = dark
  IN /\ \A f \in FinderCentres(v) : \A p \in S \X S :
          Far(p, f) <= 4 => Shows(p, Far(p, f) \in {0, 1, 3})
     /\ \A c \in AlignCentres(v) : \A p \in S \X S :
          Far(p, c) <= 2 => Shows(p, Far(p, c) # 1)
     /\ \A i \in 8..(Side(v) - 9) : Shows(<<i, 6>>, i % 2 = 0) /\ Shows(<<6, i>>, i % 2 = 0)
     /\ Shows(<<8, Side(v) - 8>>, TRUE)

VersionShown(sym, v) ==
  v >= 7 =>
    LET low == Side(v) - 11
        w1  == WordAt(sym, 18, LAMBDA k : <<low + (k % 3), k \div 3>>)
        w2  == WordAt(sym, 18, LAMBDA k : <<k \div 3, low + (k % 3)>>)
    IN w1 = w2 /\ w1 \div 2^12 = v /\ Divides(7973, 12, w1, 18)

FormatShown(sym, v) ==
  LET w1 == WordAt(sym, 15, FormatPlace1)
      w2 == WordAt(sym, 15, LAMBDA k : FormatPlace2(v, k))
      w  == Xor(w1, 21522)
  IN [sound |-> w1 = w2 /\ Divides(1335, 10, w, 15),
      level |-> <<1, 0, 3, 2>>[w \div 2^13 + 1],
      mask  |-> (w \div 2^10) % 8]

-----------------------------------------------------------------------------
(* Codewords and blocks *)

Mask(n, y, x) ==
  CASE n = 0 -> (y + x) % 2
    [] n = 1 -> y % 2
    [] n = 2 -> x % 3
    [] n = 3 -> (y + x) % 3
    [] n = 4 -> ((y \div 2) + (x \div 3)) % 2
    [] n = 5 -> (y * x) % 6
    [] n = 6 -> (((y * x) % 2) + ((y * x) % 3)) % 2
    [] n = 7 -> (((y + x) % 2) + ((y * x) % 3)) % 2

\* The codewords of sym, unmasked, in reading order.
CodeWords(sym, v, n) ==
  LET path == Path(v)
      Bit(p) == IF Mask(n, p[2], p[1]) = 0 THEN 1 - sym[p[1]][p[2]] ELSE sym[p[1]][p[2]]
  IN [i \in 1..(Len(path) \div 8) |-> Value([k \in 1..8 |-> Bit(path[8 * (i - 1) + k])], 0, 8)]

\* The blocks of a version: as equal as possible, the shorter ones first.
Blocks(v, level) == LET i == QR_VersonInfo[v]
                    IN i.RS_BlockInfo1[level].ncRSBlock + i.RS_BlockInfo2[level].ncRSBlock
DataWords(v, level) == QR_VersonInfo[v].ncDataCodeWord[level]
BlockLength(v, level, b) ==
  LET n == Blocks(v, level)
  IN DataWords(v, level) \div n + (IF b >= n - (DataWords(v, level) % n) THEN 1 ELSE 0)

\* The data codewords of block b (0, 1, ...) among the codewords cw, and its
\* error correction codewords.
BlockData(cw, v, level, b) ==
  LET n == Blocks(v, level)
      short == DataWords(v, level) \div n
  IN [j \in 1..BlockLength(v, level, b) |->
        IF j <= short THEN cw[n * (j - 1) + b + 1]
        ELSE cw[n * short + b + 1 - (n - (DataWords(v, level) % n))]]
BlockRS(cw, v, level, b) ==
  LET n == Blocks(v, level)
  IN [j \in 1..((Len(cw) - DataWords(v, level)) \div n) |-> cw[DataWords(v, level) + n * (j - 1) + b + 1]]

DataOf(cw, v, level) ==
  FlattenSeq([b \in 1..Blocks(v, level) |-> BlockData(cw, v, level, b - 1)])

-----------------------------------------------------------------------------
(* The Galois field, and the codewords of a Reed-Solomon block *)

Times2(a) == IF a < 128 THEN 2 * a ELSE Xor8(2 * a - 256, 29)
Powers ==      \* in runs of sixteen
  LET Run(a) == LET r[k \in 1..16] == IF k = 1 THEN <<a>>
                                      ELSE LET q == r[k - 1] IN Append(q, Times2(q[k - 1]))
                IN r[16]
      p[k \in 1..16] == IF k = 1 THEN Run(1)
                        ELSE LET q == p[k - 1] IN q \o Run(Times2(q[16 * (k - 1)]))
  IN p[16]
Power(k) == Powers[1 + (k % 255)]
Logs == [a \in 1..255 |-> (CHOOSE k \in 1..255 : Powers[k] = a) - 1]
Product(a, b) == IF a = 0 \/ b = 0 THEN 0 ELSE Power(Logs[a] + Logs[b])

\* Is the polynomial w (highest coefficient first) zero at alpha^k?
IsRoot(w, k) ==
  LET term == [i \in 1..Len(w) |-> Product(w[i], Power(k * (Len(w) - i)))] \o <<>>
  IN \A b \in 0..7 : Cardinality({i \in 1..Len(w) : (term[i] \div 2^b) % 2 = 1}) % 2 = 0

IsCodeWord(data, rs) == \A k \in 0..(Len(rs) - 1) : IsRoot(data \o rs, k)

-----------------------------------------------------------------------------
(* The source *)

AlphabetChars == <<48,49,50,51,52,53,54,55,56,57>> \o [i \in 1..26 |-> 64 + i]
                   \o <<32, 36, 37, 42, 43, 45, 46, 47, 58>>

\* Character k (0, 1, ...) of a segment of n whose bits start at o.
NumeralChar(b, o, n, k) ==
  LET t == k \div 3
      size == Min({3, n - 3 * t})
  IN <<48 + ((Value(b, o + 10 * t, <<4, 7, 10>>[size]) \div 10^(size - 1 - (k % 3))) % 10)>>
AlphabetChar(b, o, n, k) ==
  LET t == k \div 2
      pair == Value(b, o + 11 * t, 11)
  IN <<AlphabetChars[1 + (IF 2 * t + 1 < n THEN (IF k % 2 = 0 THEN pair \div 45 ELSE pair % 45)
                          ELSE Value(b, o + 11 * t, 6))]>>
KanjiChar(b, o, k) ==
  LET val == Value(b, o + 13 * k, 13)
      hi  == val \div 192
  IN <<hi + (IF hi < 31 THEN 129 ELSE 193), 64 + (val % 192)>>

\* The bytes the segments of b from start on say, in a symbol of version v.
Segments(b, start, v) ==
  LET g == IF v <= 9 THEN 1 ELSE IF v <= 26 THEN 2 ELSE 3
      from[i \in Nat] ==
        LET mode  == Value(b, i, 4)
            width == CASE mode = 1 -> <<10, 12, 14>>[g] [] mode = 2 -> <<9, 11, 13>>[g]
                       [] mode = 4 -> <<8, 16, 16>>[g]  [] mode = 8 -> <<8, 10, 12>>[g]
            n     == Value(b, i + 4, width)
            o     == i + 4 + width
            Chars(C(_)) == FlattenSeq([k \in 1..n |-> C(k - 1)])
            next  == o + CASE mode = 1 -> 10 * (n \div 3) + <<0, 4, 7>>[1 + (n % 3)]
                           [] mode = 2 -> 11 * (n \div 2) + 6 * (n % 2)
                           [] mode = 4 -> 8 * n
                           [] mode = 8 -> 13 * n
        IN IF Len(b) - i < 4 \/ mode \notin {1, 2, 4, 8} THEN <<>>
           ELSE (CASE mode = 1 -> Chars(LAMBDA k : NumeralChar(b, o, n, k))
                   [] mode = 2 -> Chars(LAMBDA k : AlphabetChar(b, o, n, k))
                   [] mode = 4 -> [k \in 1..n |-> Value(b, o + 8 * (k - 1), 8)]
                   [] mode = 8 -> Chars(LAMBDA k : KanjiChar(b, o, k)))
                \o from[next]
  IN from[start]

BitsOf(data) == [k \in 1..(8 * Len(data)) |-> (data[1 + (k - 1) \div 8] \div 2^(7 - ((k - 1) % 8))) % 2]

\* What a symbol says.
Read(sym) ==
  LET v == SizeVersion(sym)
      f == FormatShown(sym, v)
      cw == CodeWords(sym, v, f.mask)
  IN [version |-> v, level |-> f.level,
      source  |-> Segments(BitsOf(DataOf(cw, v, f.level)), 0, v)]
=============================================================================
