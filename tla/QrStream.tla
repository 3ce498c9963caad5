------------------------------ MODULE QrStream ------------------------------
(***************************************************************************)
(* From characters to bits: how EncodeSourceData() of QR_Encode.cpp cuts   *)
(* the source into segments of one mode, and what bits a segment becomes.  *)
(*                                                                         *)
(* A source s is a sequence of bytes; the source's offset c (ncComplete)   *)
(* is the number of bytes already encoded, so the next one is s[c + 1].    *)
(* A bit stream is a sequence of 0 and 1.                                  *)
(***************************************************************************)
EXTENDS QrTables, FiniteSetsExt, SequencesExt

Mode == {"numeral", "alphabet", "8bit", "kanji"}

MAX_DATACODEWORD == 2956

\* The n low bits of w, highest first, as SetBitStream() lays them down.
Bits(w, n) == [k \in 1..n |-> (w \div 2^(n - k)) % 2]

-----------------------------------------------------------------------------
(* Classes of characters *)

IsNumeralData(b) == b \in 48..57
IsAlphabetData(b) ==
  \/ IsNumeralData(b)
  \/ b \in 65..90
  \/ b \in {32, 36, 37, 42, 43, 45, 46, 47, 58}     \* space $ % * + - . / :
IsKanjiData(b1, b2) ==
  /\ b1 \in 129..159 \cup 224..235
  /\ b2 >= 64
  /\ ~(b1 = 159 /\ b2 > 252) /\ ~(b1 = 235 /\ b2 > 191)

KanjiAt(s, i) == i < Len(s) /\ IsKanjiData(s[i], s[i + 1])

AlphabetToBinaly(b) ==
  CASE b \in 48..57 -> b - 48
    [] b \in 65..90 -> b - 55
    [] b = 32 -> 36 [] b = 36 -> 37 [] b = 37 -> 38
    [] b = 42 -> 39 [] b = 43 -> 40 [] b = 45 -> 41
    [] b = 46 -> 42 [] b = 47 -> 43 [] OTHER -> 44

KanjiToBinaly(b1, b2) ==
  LET wc == 256 * b1 + b2
      d  == wc - (IF wc \in 33088..40956 THEN 33088 ELSE 49472)
  IN 192 * (d \div 256) + (d % 256)

-----------------------------------------------------------------------------
(* Modes *)

\* GetContinueCount(s + i - 1, ..., mode) >= n, for the modes of one byte.
\* The modes are given by their bytes.
NumeralBytes  == {b \in 0..255 : IsNumeralData(b)}
AlphabetBytes == {b \in 0..255 : IsAlphabetData(b)}
Continues(s, i, n, bytes) ==
  i + n - 1 <= Len(s) /\ \A k \in i..(i + n - 1) : s[k] \in bytes

\* How far from c on the loop of a mode gets before the first of stops.
Until(s, c, stops) == Min(stops \cup {Len(s) + 1}) - (c + 1)

\* Mutant: a digit is tested against bytes as far as against letters.
GetInitDataMode_Wide(s, c, g) ==
  LET first == s[c + 1]
      Among(n) == {s[i] : i \in (c + 1)..Min({c + n, Len(s)})}
  IN CASE KanjiAt(s, c + 1)      -> "kanji"
       [] ~KanjiAt(s, c + 1) /\ ~IsAlphabetData(first) -> "8bit"
       [] IsAlphabetData(first) /\ ~IsNumeralData(first) ->
            IF \A b \in Among(<<6, 7, 8>>[g + 1]) : IsAlphabetData(b) THEN "alphabet" ELSE "8bit"
       [] IsNumeralData(first) ->
            IF \E b \in Among(<<7, 8, 9>>[g + 1]) : ~IsAlphabetData(b) THEN "8bit"
            ELSE IF \E b \in Among(<<7, 8, 9>>[g + 1]) : IsAlphabetData(b) /\ ~IsNumeralData(b)
                 THEN "alphabet" ELSE "numeral"

GetInitDataMode(s, c, g) ==
  LET first == s[c + 1]
      Among(n) == {s[i] : i \in (c + 1)..Min({c + n, Len(s)})}
  IN CASE KanjiAt(s, c + 1)      -> "kanji"
       [] ~KanjiAt(s, c + 1) /\ ~IsAlphabetData(first) -> "8bit"
       [] IsAlphabetData(first) /\ ~IsNumeralData(first) ->
            IF \A b \in Among(<<6, 7, 8>>[g + 1]) : IsAlphabetData(b) THEN "alphabet" ELSE "8bit"
       [] IsNumeralData(first) ->
            IF \E b \in Among(<<4, 4, 5>>[g + 1]) : ~IsAlphabetData(b) THEN "8bit"
            ELSE IF \E b \in Among(<<7, 8, 9>>[g + 1]) : IsAlphabetData(b) /\ ~IsNumeralData(b)
                 THEN "alphabet" ELSE "numeral"

\* ncContinue: the bytes of the segment in this mode that starts at c.
EightBitCount(s, c, g) == Until(s, c, {i \in (c + 1)..Len(s) :
  \/ KanjiAt(s, i)
  \/ Continues(s, i, <<6, 8, 9>>[g + 1], NumeralBytes)
  \/ Continues(s, i, <<11, 15, 16>>[g + 1], AlphabetBytes)})
AlphabetCount(s, c, g) == Until(s, c, {i \in (c + 1)..Len(s) :
  \/ KanjiAt(s, i)
  \/ ~IsAlphabetData(s[i])
  \/ Continues(s, i, <<13, 15, 17>>[g + 1], NumeralBytes)})
NumeralCount(s, c) == Until(s, c, {i \in (c + 1)..Len(s) : KanjiAt(s, i) \/ ~IsNumeralData(s[i])})
KanjiCount(s, c)   == Until(s, c, {i \in (c + 1)..Len(s) : (i - c) % 2 = 1 /\ ~KanjiAt(s, i)})

-----------------------------------------------------------------------------
(* Segments: mode indicator, number of characters, characters.  A group of *)
(* characters takes a fixed number of bits, the last one perhaps less.     *)

EightBitSegment(s, c, g, n) ==
  Bits(4, 4) \o Bits(n, nIndicatorLen8Bit[g])
    \o [k \in 1..(8 * n) |-> Bits(s[c + 1 + (k - 1) \div 8], 8)[1 + ((k - 1) % 8)]]

AlphabetSegment(s, c, g, n) ==
  LET Char(k) == AlphabetToBinaly(s[c + k])
      Pair(k) == IF k < n THEN Bits(45 * Char(k) + Char(k + 1), 11) ELSE Bits(Char(k), 6)
  IN Bits(2, 4) \o Bits(n, nIndicatorLenAlphabet[g])
       \o [k \in 1..(11 * (n \div 2) + 6 * (n % 2)) |->
             Pair(2 * ((k - 1) \div 11) + 1)[1 + ((k - 1) % 11)]]

NumeralSegment(s, c, g, n) ==
  LET Digit(k) == s[c + k] - 48
      Triple(k) ==
        CASE k + 1 < n -> Bits(100 * Digit(k) + 10 * Digit(k + 1) + Digit(k + 2), 10)
          [] k + 1 = n -> Bits(10 * Digit(k) + Digit(k + 1), 7)
          [] k = n     -> Bits(Digit(k), 4)
  IN Bits(1, 4) \o Bits(n, nIndicatorLenNumeral[g])
       \o [k \in 1..(10 * (n \div 3) + <<0, 4, 7>>[1 + (n % 3)]) |->
             Triple(3 * ((k - 1) \div 10) + 1)[1 + ((k - 1) % 10)]]

KanjiSegment(s, c, g, n) ==
  LET Char(p) == Bits(KanjiToBinaly(s[c + 2 * p - 1], s[c + 2 * p]), 13)
  IN Bits(8, 4) \o Bits(n \div 2, nIndicatorLenKanji[g])
       \o [k \in 1..(13 * (n \div 2)) |-> Char((k - 1) \div 13 + 1)[1 + ((k - 1) % 13)]]

\* One turn of EncodeSourceData()'s loop: the bytes it encodes, and their bits.
Segment(s, c, g, mode) ==
  CASE mode = "8bit"     -> LET n == EightBitCount(s, c, g)
                            IN [count |-> n, bits |-> EightBitSegment(s, c, g, n)]
    [] mode = "alphabet" -> LET n == AlphabetCount(s, c, g)
                            IN [count |-> n, bits |-> AlphabetSegment(s, c, g, n)]
    [] mode = "numeral"  -> LET n == NumeralCount(s, c)
                            IN [count |-> n, bits |-> NumeralSegment(s, c, g, n)]
    [] mode = "kanji"    -> LET n == KanjiCount(s, c)
                            IN [count |-> n, bits |-> KanjiSegment(s, c, g, n)]
=============================================================================
