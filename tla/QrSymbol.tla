------------------------------ MODULE QrSymbol ------------------------------
(***************************************************************************)
(* The square of modules: how QR_Encode.cpp lays out the function          *)
(* patterns, walks over the free modules, masks them, counts penalties and *)
(* writes the format information.                                          *)
(*                                                                         *)
(* A symbol m has m[x][y] in the encoding of m_byModuleData: Light and     *)
(* Dark are function modules (bit 5 set, bit 4 the colour); any other      *)
(* module has its data in bit 1 and its masked colour in bit 0.            *)
(***************************************************************************)
EXTENDS QrTables, FiniteSetsExt

Light == 32
Dark  == 48
Paint(dark) == IF dark THEN Dark ELSE Light

SymbleSize(v) == 4 * v + 17
IsFunction(mod) == mod >= 32
IsDark(mod)     == mod = Dark \/ mod \in {1, 3}     \* (mod & 0x11) != 0
Data(mod)       == mod \div 2
BitOf(w, k)     == (w \div 2^k) % 2 = 1             \* w & (1 << k)

-----------------------------------------------------------------------------
(* Words with a BCH remainder *)

\* The remainder of the n low bits of w by the polynomial g of degree d.
Remainder(w, n, g, d) ==
  LET rem[k \in d..n] ==
        IF k = n THEN w
        ELSE LET r == rem[k + 1] IN IF BitOf(r, k) THEN Xor(r, g * 2^(k - d)) ELSE r
  IN rem[d]

\* The extended BCH (18,6) word of version v.
VersionWord(v) == v * 2^12 + Remainder(v * 2^12, 18, 7973, 12)

\* The BCH (15,5) word of a level and a mask.
FormatWord(level, n) ==
  LET info == (CASE level = 1 -> 0 [] level = 0 -> 8 [] level = 2 -> 24 [] level = 3 -> 16) + n
  IN Xor(info * 2^10 + Remainder(info * 2^10, 15, 1335, 10), 21522)

-----------------------------------------------------------------------------
(* Function patterns: where each lies, and the colour it gives a module *)

\* The colour of (x, y) in the square of side n at c, row i of it the bits of
\* pattern[i + 1].
InSquare(c, n, x, y) == x \in c[1]..(c[1] + n - 1) /\ y \in c[2]..(c[2] + n - 1)
Square(c, n, pattern, x, y) == Paint(BitOf(pattern[y - c[2] + 1], n - 1 - (x - c[1])))

FinderCorners(size) == {<<0, 0>>, <<size - 7, 0>>, <<0, size - 7>>}
SetFinderPattern(c, x, y) == Square(c, 7, <<127, 65, 93, 93, 93, 65, 127>>, x, y)

IsSeparator(size, x, y) ==
  \/ x = 7 /\ (y <= 7 \/ y >= size - 8)
  \/ y = 7 /\ (x <= 7 \/ x >= size - 8)
  \/ x = size - 8 /\ y <= 7
  \/ y = size - 8 /\ x <= 7

IsFormatPlace(size, x, y) ==
  \/ y = 8 /\ (x <= 8 \/ x >= size - 8)
  \/ x = 8 /\ (y <= 8 \/ y >= size - 8)

IsVersionPlace(v, x, y) ==
  LET low == SymbleSize(v) - 11
  IN /\ v > 6
     /\ \/ x \in low..(low + 2) /\ y <= 5
        \/ y \in low..(low + 2) /\ x <= 5
SetVersionPattern(v, x, y) ==
  LET low == SymbleSize(v) - 11
      k   == IF y <= 5 THEN 3 * y + (x - low) ELSE 3 * x + (y - low)
  IN Paint(BitOf(VersionWord(v), k))

\* What is laid out before the alignment patterns.
IsCorner(v, x, y) ==
  LET size == SymbleSize(v)
  IN \/ \E c \in FinderCorners(size) : InSquare(c, 7, x, y)
     \/ IsSeparator(size, x, y) \/ IsFormatPlace(size, x, y) \/ IsVersionPlace(v, x, y)

\* The centres of SetFunctionModule()'s loops; SetAlignmentPattern() leaves out
\* those that already lie on a function module.
AlignmentCentres(v) ==
  LET a == {QR_VersonInfo[v].nAlignPoint[i] : i \in DOMAIN QR_VersonInfo[v].nAlignPoint}
  IN {c \in (a \X {6}) \cup ({6} \X a) \cup (a \X a) : ~IsCorner(v, c[1], c[2])}
SetAlignmentPattern(c, x, y) == Square(<<c[1] - 2, c[2] - 2>>, 5, <<31, 17, 21, 17, 31>>, x, y)

IsTiming(size, x, y) == (y = 6 /\ x \in 8..(size - 9)) \/ (x = 6 /\ y \in 8..(size - 9))

\* What is painted last is tested first.
SetFunctionModule(v) ==
  LET size    == SymbleSize(v)
      centres == AlignmentCentres(v)
      At(x, y) ==
        LET align  == {c \in centres : InSquare(<<c[1] - 2, c[2] - 2>>, 5, x, y)}
            finder == {c \in FinderCorners(size) : InSquare(c, 7, x, y)}
        IN CASE IsTiming(size, x, y) -> Paint((IF y = 6 THEN x ELSE y) % 2 = 0)
             [] ~IsTiming(size, x, y) /\ align # {} ->
                  SetAlignmentPattern(CHOOSE c \in align : TRUE, x, y)
             [] OTHER ->
                  IF IsVersionPlace(v, x, y) THEN SetVersionPattern(v, x, y)
                  ELSE IF IsFormatPlace(size, x, y) \/ IsSeparator(size, x, y) THEN Light
                  ELSE IF finder # {} THEN SetFinderPattern(CHOOSE c \in finder : TRUE, x, y)
                  ELSE 0
  IN [x \in 0..(size - 1) |-> [y \in 0..(size - 1) |-> At(x, y)]]

-----------------------------------------------------------------------------
(* The walk of SetCodeWordPattern() *)

\* Where the walk starts: outside, right of the lower right corner.
WalkStart(size) == [x |-> size, y |-> size - 1, cx |-> 1, cy |-> 1]

\* One turn of the do loop.
WalkStep(w, size) ==
  LET x == w.x + w.cx
      y == w.y + w.cy
      back == x - 2
  IN CASE w.cx < 0 -> [w EXCEPT !.x = x, !.cx = 1]
       [] w.cx > 0 /\ y \in 0..(size - 1) -> [w EXCEPT !.x = x, !.cx = -1, !.y = y]
       [] OTHER -> [x  |-> IF back = 6 THEN back - 1 ELSE back,
                    y  |-> IF y < 0 THEN 0 ELSE size - 1,
                    cx |-> -1,
                    cy |-> -w.cy]

\* The next module that is no function module.
NextFree(m, w) ==
  LET size == Cardinality(DOMAIN m)
      from[p \in [x : Int, y : Int, cx : {-1, 1}, cy : {-1, 1}]] ==
        LET u == WalkStep(p, size) IN IF IsFunction(m[u.x][u.y]) THEN from[u] ELSE u
  IN from[w]

-----------------------------------------------------------------------------
(* Masks *)

MaskAt(n, i, j) ==
  CASE n = 0 -> (i + j) % 2 = 0
    [] n = 1 -> i % 2 = 0
    [] n = 2 -> j % 3 = 0
    [] n = 3 -> (i + j) % 3 = 0
    [] n = 4 -> ((i \div 2) + (j \div 3)) % 2 = 0
    [] n = 5 -> ((i * j) % 2) + ((i * j) % 3) = 0
    [] n = 6 -> (((i * j) % 2) + ((i * j) % 3)) % 2 = 0
    [] n = 7 -> (((i * j) % 3) + ((i + j) % 2)) % 2 = 0

\* Bit 0 of every data module from its bit 1 and the mask, whatever it was.
SetMaskingPattern(m, n) ==
  [x \in DOMAIN m |-> [y \in DOMAIN m |->
     IF IsFunction(m[x][y]) THEN m[x][y]
     ELSE LET d == Data(m[x][y])
          IN 2 * d + (IF (d = 1) = MaskAt(n, y, x) THEN 0 ELSE 1)]]

\* The penalty score of a masked symbol.  A run of more than five modules of
\* one colour scores its length minus 2: one for each window of six, and three
\* for the window that starts it.
CountPenalty(m) ==
  LET size == Cardinality(DOMAIN m)
      c[x \in 0..(size - 1)] == [y \in 0..(size - 1) |-> IsDark(m[x][y])]
      Lines == {"column", "row"} \X (0..(size - 1))
      At(l, k) == IF l[1] = "column" THEN c[l[2]][k] ELSE c[k][l[2]]
      Windows  == {w \in Lines \X (0..(size - 6)) :
                     \A k \in 1..5 : At(w[1], w[2] + k) = At(w[1], w[2])}
      Starts   == {w \in Windows : w[2] = 0 \/ At(w[1], w[2] - 1) # At(w[1], w[2])}
      Blocks   == {p \in (0..(size - 2)) \X (0..(size - 2)) :
                     /\ c[p[1]][p[2]] = c[p[1] + 1][p[2]]
                     /\ c[p[1]][p[2]] = c[p[1]][p[2] + 1]
                     /\ c[p[1]][p[2]] = c[p[1] + 1][p[2] + 1]}
      Finders  == {w \in Lines \X (0..(size - 7)) :
                     /\ \A k \in 0..6 : At(w[1], w[2] + k) = (k \notin {1, 5})
                     /\ w[2] < 1 \/ ~At(w[1], w[2] - 1)
                     /\ w[2] >= size - 7 \/ ~At(w[1], w[2] + 7)}
      lights   == Cardinality({p \in (0..(size - 1)) \X (0..(size - 1)) : ~c[p[1]][p[2]]})
      ratio    == 50 - (lights * 100) \div (size * size)
  IN Cardinality(Windows) + 3 * Cardinality(Starts) + 3 * Cardinality(Blocks)
       + 40 * Cardinality(Finders)
       + 10 * ((IF ratio < 0 THEN -ratio ELSE ratio) \div 5)

-----------------------------------------------------------------------------
(* Format information *)

\* Mutant: one arm of the second copy runs the other way.
SetFormatInfoPattern_Reversed(m, level, n) ==
  LET size == Cardinality(DOMAIN m)
      word == FormatWord(level, n)
      Bit(x, y) ==
        CASE y = 8 /\ x >= size - 8 -> x - size + 8
          [] x = 8 /\ y > size - 8  -> y - size + 15
          [] x = 8 /\ y <= 8 -> IF y <= 5 THEN y ELSE y - 1
          [] y = 8 /\ x < 8  -> IF x = 7 THEN 8 ELSE 14 - x
  IN [x \in DOMAIN m |-> [y \in DOMAIN m |->
        IF x = 8 /\ y = size - 8 THEN Dark
        ELSE IF IsFormatPlace(size, x, y) /\ ~(x = 6 \/ y = 6) THEN Paint(BitOf(word, Bit(x, y)))
        ELSE m[x][y]]]

\* Both copies of the word, and the dark module beside the second.
SetFormatInfoPattern(m, level, n) ==
  LET size == Cardinality(DOMAIN m)
      word == FormatWord(level, n)
      Bit(x, y) ==
        CASE y = 8 /\ x >= size - 8 -> size - 1 - x
          [] x = 8 /\ y > size - 8  -> y - size + 15
          [] x = 8 /\ y <= 8 -> IF y <= 5 THEN y ELSE y - 1
          [] y = 8 /\ x < 8  -> IF x = 7 THEN 8 ELSE 14 - x
  IN [x \in DOMAIN m |-> [y \in DOMAIN m |->
        IF x = 8 /\ y = size - 8 THEN Dark
        ELSE IF IsFormatPlace(size, x, y) /\ ~(x = 6 \/ y = 6) THEN Paint(BitOf(word, Bit(x, y)))
        ELSE m[x][y]]]

\* FormatModule()'s last loop: every module becomes its colour.
Booleans(m) == [x \in DOMAIN m |-> [y \in DOMAIN m |-> IF IsDark(m[x][y]) THEN 1 ELSE 0]]
=============================================================================
