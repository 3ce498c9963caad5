--------------------------- MODULE QrEncodeProofs ---------------------------
(***************************************************************************)
(* That every index of the encoder stays in its array and every segment    *)
(* takes a byte, for every call of EncodeData().  The lemmas are about, in *)
(* order: numbers and their bits, the tables, the modes and segments of    *)
(* the source, the blocks of codewords, and the actions of QrEncode.       *)
(***************************************************************************)
EXTENDS QrEncode, FiniteSetTheorems, WellFoundedInduction, TLAPS

-----------------------------------------------------------------------------
(* Arithmetic *)

\* A nonempty set of positive numbers below a bound has a least member.
LEMMA MinOfSome ==
  ASSUME NEW N \in Nat, NEW T \in SUBSET (1..N), T # {}
  PROVE  Min(T) \in T /\ \A y \in T : Min(T) <= y
<1> DEFINE Below == {1..x : x \in T}
<1>1. IsFiniteSet(1..N)
  BY FS_Interval
<1>2. IsWellFoundedOn(StrictSubsetOrdering(1..N), SUBSET (1..N))
  BY <1>1, FS_StrictSubsetOrderingWellFounded, FS_FiniteSubsetsOfFinite
<1>3. Below \subseteq SUBSET (1..N) /\ Below # {}
  <2>1. \A x \in T : 1..x \in SUBSET (1..N)
    OBVIOUS
  <2>2. PICK x \in T : TRUE
    OBVIOUS
  <2> QED BY <2>1, <2>2
<1>4. PICK b \in Below : \A d \in Below : ~(<<d, b>> \in StrictSubsetOrdering(1..N))
  <2> HIDE DEF Below
  <2> QED BY <1>2, <1>3, WFMin
<1>5. PICK x \in T : b = 1..x
  OBVIOUS
<1>6. ASSUME NEW y \in T PROVE x <= y
  <2>1. SUFFICES ASSUME y < x PROVE FALSE
    OBVIOUS
  <2>2. 1..y \subseteq 1..x /\ 1..y # 1..x
    <3>1. x \in 1..x /\ x \notin 1..y
      BY <2>1
    <3> QED BY <2>1, <3>1
  <2>3. <<1..y, 1..x>> \in StrictSubsetOrdering(1..N)
    BY <2>2 DEF StrictSubsetOrdering
  <2> QED BY <1>4, <1>5, <2>3
<1> QED BY <1>6 DEF Min

\* The powers of two a word of the encoder has bits for.
LEMMA PowerOfTwo == \A k \in 0..24 : 2^k \in Nat \ {0}
<1> TAKE k \in 0..24
<1>1. CASE k = 0
  BY <1>1
<1>2. CASE k = 1
  BY <1>2
<1>3. CASE k = 2
  BY <1>3
<1>4. CASE k = 3
  BY <1>4
<1>5. CASE k = 4
  BY <1>5
<1>6. CASE k = 5
  BY <1>6
<1>7. CASE k = 6
  BY <1>7
<1>8. CASE k = 7
  BY <1>8
<1>9. CASE k = 8
  BY <1>9
<1>10. CASE k = 9
  BY <1>10
<1>11. CASE k = 10
  BY <1>11
<1>12. CASE k = 11
  BY <1>12
<1>13. CASE k = 12
  BY <1>13
<1>14. CASE k = 13
  BY <1>14
<1>15. CASE k = 14
  BY <1>15
<1>16. CASE k = 15
  BY <1>16
<1>17. CASE k = 16
  BY <1>17
<1>18. CASE k = 17
  BY <1>18
<1>19. CASE k = 18
  BY <1>19
<1>20. CASE k = 19
  BY <1>20
<1>21. CASE k = 20
  BY <1>21
<1>22. CASE k = 21
  BY <1>22
<1>23. CASE k = 22
  BY <1>23
<1>24. CASE k = 23
  BY <1>24
<1>25. CASE k = 24
  BY <1>25
<1> QED BY <1>1, <1>2, <1>3, <1>4, <1>5, <1>6, <1>7, <1>8, <1>9, <1>10, <1>11, <1>12, <1>13, <1>14, <1>15, <1>16, <1>17, <1>18, <1>19, <1>20, <1>21, <1>22, <1>23, <1>24, <1>25

Bit == {0, 1}

\* A bit of a number is a bit.
LEMMA BitAt ==
  ASSUME NEW w \in Int, NEW n \in 0..16, NEW j \in 1..n
  PROVE  Bits(w, n)[j] \in Bit
<1>1. n - j \in 0..24
  OBVIOUS
<1>2. 2^(n - j) \in Nat \ {0}
  BY <1>1, PowerOfTwo
<1>3. (w \div 2^(n - j)) % 2 \in Bit
  BY <1>2 DEF Bit
<1> QED BY <1>3 DEF Bits

\* The bits of a number are bits.
LEMMA BitsAreBits ==
  ASSUME NEW w \in Int, NEW n \in 0..16
  PROVE  Bits(w, n) \in Seq(Bit)
<1>1. Bits(w, n) \in [1..n -> Bit]
  BY BitAt DEF Bits
<1> QED BY <1>1

\* The exclusive or of two bytes is a byte.
LEMMA Xor8IsByte ==
  ASSUME NEW a \in 0..255, NEW b \in 0..255
  PROVE  Xor8(a, b) \in 0..255
<1>1. \A k \in 0..7 : ((a \div 2^k) + (b \div 2^k)) % 2 \in {0, 1}
  BY PowerOfTwo
<1> DEFINE B(k) == ((a \div 2^k) + (b \div 2^k)) % 2
<1>2. /\ B(0) \in {0, 1} /\ B(1) \in {0, 1} /\ B(2) \in {0, 1} /\ B(3) \in {0, 1}
      /\ B(4) \in {0, 1} /\ B(5) \in {0, 1} /\ B(6) \in {0, 1} /\ B(7) \in {0, 1}
  BY <1>1
<1>3. Xor8(a, b) = 2^0 * B(0) + 2^1 * B(1) + 2^2 * B(2) + 2^3 * B(3)
                     + 2^4 * B(4) + 2^5 * B(5) + 2^6 * B(6) + 2^7 * B(7)
  BY DEF Xor8
<1>4. 2^0 = 1 /\ 2^1 = 2 /\ 2^2 = 4 /\ 2^3 = 8 /\ 2^4 = 16 /\ 2^5 = 32 /\ 2^6 = 64 /\ 2^7 = 128
  OBVIOUS
<1> HIDE DEF B
<1> QED BY <1>2, <1>3, <1>4

-----------------------------------------------------------------------------
(* Tables *)

Byte == 0..255

\* The members of a sequence whose length is known.
LEMMA SequenceOfLength ==
  ASSUME NEW S, NEW s \in Seq(S), NEW n \in Nat, Len(s) = n
  PROVE  \A i \in 1..n : s[i] \in S
OBVIOUS

\* The powers of alpha are bytes.
LEMMA ExpToIntIsByte == \A k \in 0..255 : byExpToInt[k] \in Byte
<1>1. ExpToInt \in Seq(0..255) /\ Len(ExpToInt) = 256
  BY DEF ExpToInt
<1>2. ExpToInt \in Seq(Byte)
  BY <1>1, Zenon DEF Byte
<1>3. PICK n \in Nat : n = Len(ExpToInt)
  BY <1>2
<1>4. \A i \in 1..n : ExpToInt[i] \in Byte
  BY <1>2, <1>3, SequenceOfLength
<1>5. n = 256
  BY <1>1, <1>3
<1>6. \A k \in 0..255 : k + 1 \in 1..n
  BY <1>5
<1> QED BY <1>4, <1>6 DEF byExpToInt

\* So are the logarithms.
LEMMA IntToExpIsByte == \A n \in 0..255 : byIntToExp[n] \in Byte
<1>1. IntToExp \in Seq(0..255) /\ Len(IntToExp) = 256
  BY DEF IntToExp
<1>2. IntToExp \in Seq(Byte)
  BY <1>1, Zenon DEF Byte
<1>3. PICK n \in Nat : n = Len(IntToExp)
  BY <1>2
<1>4. \A i \in 1..n : IntToExp[i] \in Byte
  BY <1>2, <1>3, SequenceOfLength
<1>5. n = 256
  BY <1>1, <1>3
<1>6. \A k \in 0..255 : k + 1 \in 1..n
  BY <1>5
<1> QED BY <1>4, <1>6 DEF byIntToExp

\* The degrees of the generator polynomials.
RSDegrees == {7,10,13,15,16,17,18,20,22,24,26,28,30}

\* A generator polynomial has as many coefficients as its degree says.
LEMMA RSExpIsByte ==
  /\ DOMAIN byRSExp = RSDegrees
  /\ \A n \in RSDegrees : \A j \in 1..n : byRSExp[n][j] \in Byte
<1>1. DOMAIN byRSExp = RSDegrees
  BY DEF byRSExp, RSDegrees
<1>2. byRSExp[7] \in Seq(0..255) /\ Len(byRSExp[7]) = 7
  BY DEF byRSExp
<1>3. byRSExp[10] \in Seq(0..255) /\ Len(byRSExp[10]) = 10
  BY DEF byRSExp
<1>4. byRSExp[13] \in Seq(0..255) /\ Len(byRSExp[13]) = 13
  BY DEF byRSExp
<1>5. byRSExp[15] \in Seq(0..255) /\ Len(byRSExp[15]) = 15
  BY DEF byRSExp
<1>6. byRSExp[16] \in Seq(0..255) /\ Len(byRSExp[16]) = 16
  BY DEF byRSExp
<1>7. byRSExp[17] \in Seq(0..255) /\ Len(byRSExp[17]) = 17
  BY DEF byRSExp
<1>8. byRSExp[18] \in Seq(0..255) /\ Len(byRSExp[18]) = 18
  BY DEF byRSExp
<1>9. byRSExp[20] \in Seq(0..255) /\ Len(byRSExp[20]) = 20
  BY DEF byRSExp
<1>10. byRSExp[22] \in Seq(0..255) /\ Len(byRSExp[22]) = 22
  BY DEF byRSExp
<1>11. byRSExp[24] \in Seq(0..255) /\ Len(byRSExp[24]) = 24
  BY DEF byRSExp
<1>12. byRSExp[26] \in Seq(0..255) /\ Len(byRSExp[26]) = 26
  BY DEF byRSExp
<1>13. byRSExp[28] \in Seq(0..255) /\ Len(byRSExp[28]) = 28
  BY DEF byRSExp
<1>14. byRSExp[30] \in Seq(0..255) /\ Len(byRSExp[30]) = 30
  BY DEF byRSExp
<1> SUFFICES ASSUME NEW n \in RSDegrees PROVE \A j \in 1..n : byRSExp[n][j] \in Byte
  BY <1>1
<1>20. byRSExp[n] \in Seq(0..255) /\ Len(byRSExp[n]) = n
  <2> DEFINE P(k) == byRSExp[k] \in Seq(0..255) /\ Len(byRSExp[k]) = k
  <2>1. /\ P(7) /\ P(10) /\ P(13) /\ P(15) /\ P(16) /\ P(17) /\ P(18) /\ P(20) /\ P(22)
        /\ P(24) /\ P(26) /\ P(28) /\ P(30)
    BY <1>2, <1>3, <1>4, <1>5, <1>6, <1>7, <1>8, <1>9, <1>10, <1>11, <1>12, <1>13, <1>14, Zenon
  <2> HIDE DEF P
  <2>2. P(n)
    BY <2>1 DEF RSDegrees
  <2> QED BY <2>2 DEF P
<1>21. byRSExp[n] \in Seq(Byte)
  BY <1>20, Zenon DEF Byte
<1>22. n \in Nat
  BY DEF RSDegrees
<1> QED BY <1>20, <1>21, <1>22, SequenceOfLength

\* What the arithmetic of the blocks rests on: one level of a row as the table
\* gives it, then of the record.
LevelAddsUp(all, d, b1, b2) ==
  /\ all \in 1..MAX_ALLCODEWORD /\ d \in 1..MAX_DATACODEWORD
  /\ b1[1] \in 1..100 /\ b2[1] \in 0..100
  /\ b1[3] \in 1..MAX_CODEBLOCK /\ b2[3] \in 0..MAX_CODEBLOCK
  /\ b1[2] \in Nat /\ b2[2] \in Nat
  /\ b1[2] - b1[3] \in RSDegrees
  /\ b2[1] > 0 => b2[3] = b1[3] + 1 /\ b2[2] = b1[2] + 1
  /\ b1[1] * b1[3] + b2[1] * b2[3] = d
  /\ d + (b1[1] + b2[1]) * (b1[2] - b1[3]) = all

LevelOf(info, l) ==
  LET d  == info.ncDataCodeWord[l]
      b1 == info.RS_BlockInfo1[l]
      b2 == info.RS_BlockInfo2[l]
      rs == b1.ncAllCodeWord - b1.ncDataCodeWord
  IN /\ d \in 1..MAX_DATACODEWORD
     /\ b1.ncRSBlock \in 1..100 /\ b2.ncRSBlock \in 0..100
     /\ b1.ncDataCodeWord \in 1..MAX_CODEBLOCK /\ b2.ncDataCodeWord \in 0..MAX_CODEBLOCK
     /\ b1.ncAllCodeWord \in Nat /\ b2.ncAllCodeWord \in Nat
     /\ rs \in RSDegrees
     /\ b2.ncRSBlock > 0 => /\ b2.ncDataCodeWord = b1.ncDataCodeWord + 1
                            /\ b2.ncAllCodeWord = b1.ncAllCodeWord + 1
     /\ b1.ncRSBlock * b1.ncDataCodeWord + b2.ncRSBlock * b2.ncDataCodeWord = d
     /\ d + (b1.ncRSBlock + b2.ncRSBlock) * rs = info.ncAllCodeWord
RowAddsUp(info) ==
  info.ncAllCodeWord \in 1..MAX_ALLCODEWORD /\ \A l \in Level : LevelOf(info, l)

\* A row adds up when its four levels do.
LEMMA LevelsAddUp ==
  ASSUME NEW all, NEW align,
         NEW x0, NEW x1, NEW x2, NEW x3,
         NEW p0, NEW p1, NEW p2, NEW p3, NEW q0, NEW q1, NEW q2, NEW q3,
         LevelAddsUp(all, x0, p0, q0), LevelAddsUp(all, x1, p1, q1),
         LevelAddsUp(all, x2, p2, q2), LevelAddsUp(all, x3, p3, q3)
  PROVE RowAddsUp(Row(all, <<x0,x1,x2,x3>>, align, <<p0,p1,p2,p3>>, <<q0,q1,q2,q3>>))
<1> DEFINE r == Row(all, <<x0,x1,x2,x3>>, align, <<p0,p1,p2,p3>>, <<q0,q1,q2,q3>>)
<1>0. r.ncAllCodeWord = all
  BY DEF Row
<1>1. LevelOf(r, 0)
  BY DEF Row, Level, LevelOf, LevelAddsUp
<1>2. LevelOf(r, 1)
  BY DEF Row, Level, LevelOf, LevelAddsUp
<1>3. LevelOf(r, 2)
  BY DEF Row, Level, LevelOf, LevelAddsUp
<1>4. LevelOf(r, 3)
  BY DEF Row, Level, LevelOf, LevelAddsUp
<1> HIDE DEF r
<1>5. RowAddsUp(r)
  BY <1>0, <1>1, <1>2, <1>3, <1>4 DEF RowAddsUp, Level, LevelAddsUp
<1> QED BY <1>5 DEF r

\* The rows of the table, one by one.
LEMMA VersionInfo1AddsUp == \A i \in 1..13 : RowAddsUp(VersionInfo1[i])
<1>1. RowAddsUp(VersionInfo1[1])
  <2>1. /\ LevelAddsUp(26, 19, <<1,26,19>>, <<0,0,0>>) /\ LevelAddsUp(26, 16, <<1,26,16>>, <<0,0,0>>)
        /\ LevelAddsUp(26, 13, <<1,26,13>>, <<0,0,0>>) /\ LevelAddsUp(26, 9, <<1,26,9>>, <<0,0,0>>)
    BY DEF LevelAddsUp, RSDegrees, MAX_DATACODEWORD, MAX_CODEBLOCK, MAX_ALLCODEWORD
  <2> QED BY <2>1, LevelsAddUp DEF VersionInfo1
<1>2. RowAddsUp(VersionInfo1[2])
  <2>1. /\ LevelAddsUp(44, 34, <<1,44,34>>, <<0,0,0>>) /\ LevelAddsUp(44, 28, <<1,44,28>>, <<0,0,0>>)
        /\ LevelAddsUp(44, 22, <<1,44,22>>, <<0,0,0>>) /\ LevelAddsUp(44, 16, <<1,44,16>>, <<0,0,0>>)
    BY DEF LevelAddsUp, RSDegrees, MAX_DATACODEWORD, MAX_CODEBLOCK, MAX_ALLCODEWORD
  <2> QED BY <2>1, LevelsAddUp DEF VersionInfo1
<1>3. RowAddsUp(VersionInfo1[3])
  <2>1. /\ LevelAddsUp(70, 55, <<1,70,55>>, <<0,0,0>>) /\ LevelAddsUp(70, 44, <<1,70,44>>, <<0,0,0>>)
        /\ LevelAddsUp(70, 34, <<2,35,17>>, <<0,0,0>>) /\ LevelAddsUp(70, 26, <<2,35,13>>, <<0,0,0>>)
    BY DEF LevelAddsUp, RSDegrees, MAX_DATACODEWORD, MAX_CODEBLOCK, MAX_ALLCODEWORD
  <2> QED BY <2>1, LevelsAddUp DEF VersionInfo1
<1>4. RowAddsUp(VersionInfo1[4])
  <2>1. /\ LevelAddsUp(100, 80, <<1,100,80>>, <<0,0,0>>) /\ LevelAddsUp(100, 64, <<2,50,32>>, <<0,0,0>>)
        /\ LevelAddsUp(100, 48, <<2,50,24>>, <<0,0,0>>) /\ LevelAddsUp(100, 36, <<4,25,9>>, <<0,0,0>>)
    BY DEF LevelAddsUp, RSDegrees, MAX_DATACODEWORD, MAX_CODEBLOCK, MAX_ALLCODEWORD
  <2> QED BY <2>1, LevelsAddUp DEF VersionInfo1
<1>5. RowAddsUp(VersionInfo1[5])
  <2>1. /\ LevelAddsUp(134, 108, <<1,134,108>>, <<0,0,0>>) /\ LevelAddsUp(134, 86, <<2,67,43>>, <<0,0,0>>)
        /\ LevelAddsUp(134, 62, <<2,33,15>>, <<2,34,16>>) /\ LevelAddsUp(134, 46, <<2,33,11>>, <<2,34,12>>)
    BY DEF LevelAddsUp, RSDegrees, MAX_DATACODEWORD, MAX_CODEBLOCK, MAX_ALLCODEWORD
  <2> QED BY <2>1, LevelsAddUp DEF VersionInfo1
<1>6. RowAddsUp(VersionInfo1[6])
  <2>1. /\ LevelAddsUp(172, 136, <<2,86,68>>, <<0,0,0>>) /\ LevelAddsUp(172, 108, <<4,43,27>>, <<0,0,0>>)
        /\ LevelAddsUp(172, 76, <<4,43,19>>, <<0,0,0>>) /\ LevelAddsUp(172, 60, <<4,43,15>>, <<0,0,0>>)
    BY DEF LevelAddsUp, RSDegrees, MAX_DATACODEWORD, MAX_CODEBLOCK, MAX_ALLCODEWORD
  <2> QED BY <2>1, LevelsAddUp DEF VersionInfo1
<1>7. RowAddsUp(VersionInfo1[7])
  <2>1. /\ LevelAddsUp(196, 156, <<2,98,78>>, <<0,0,0>>) /\ LevelAddsUp(196, 124, <<4,49,31>>, <<0,0,0>>)
        /\ LevelAddsUp(196, 88, <<2,32,14>>, <<4,33,15>>) /\ LevelAddsUp(196, 66, <<4,39,13>>, <<1,40,14>>)
    BY DEF LevelAddsUp, RSDegrees, MAX_DATACODEWORD, MAX_CODEBLOCK, MAX_ALLCODEWORD
  <2> QED BY <2>1, LevelsAddUp DEF VersionInfo1
<1>8. RowAddsUp(VersionInfo1[8])
  <2>1. /\ LevelAddsUp(242, 194, <<2,121,97>>, <<0,0,0>>) /\ LevelAddsUp(242, 154, <<2,60,38>>, <<2,61,39>>)
        /\ LevelAddsUp(242, 110, <<4,40,18>>, <<2,41,19>>) /\ LevelAddsUp(242, 86, <<4,40,14>>, <<2,41,15>>)
    BY DEF LevelAddsUp, RSDegrees, MAX_DATACODEWORD, MAX_CODEBLOCK, MAX_ALLCODEWORD
  <2> QED BY <2>1, LevelsAddUp DEF VersionInfo1
<1>9. RowAddsUp(VersionInfo1[9])
  <2>1. /\ LevelAddsUp(292, 232, <<2,146,116>>, <<0,0,0>>) /\ LevelAddsUp(292, 182, <<3,58,36>>, <<2,59,37>>)
        /\ LevelAddsUp(292, 132, <<4,36,16>>, <<4,37,17>>) /\ LevelAddsUp(292, 100, <<4,36,12>>, <<4,37,13>>)
    BY DEF LevelAddsUp, RSDegrees, MAX_DATACODEWORD, MAX_CODEBLOCK, MAX_ALLCODEWORD
  <2> QED BY <2>1, LevelsAddUp DEF VersionInfo1
<1>10. RowAddsUp(VersionInfo1[10])
  <2>1. /\ LevelAddsUp(346, 274, <<2,86,68>>, <<2,87,69>>) /\ LevelAddsUp(346, 216, <<4,69,43>>, <<1,70,44>>)
        /\ LevelAddsUp(346, 154, <<6,43,19>>, <<2,44,20>>) /\ LevelAddsUp(346, 122, <<6,43,15>>, <<2,44,16>>)
    BY DEF LevelAddsUp, RSDegrees, MAX_DATACODEWORD, MAX_CODEBLOCK, MAX_ALLCODEWORD
  <2> QED BY <2>1, LevelsAddUp DEF VersionInfo1
<1>11. RowAddsUp(VersionInfo1[11])
  <2>1. /\ LevelAddsUp(404, 324, <<4,101,81>>, <<0,0,0>>) /\ LevelAddsUp(404, 254, <<1,80,50>>, <<4,81,51>>)
        /\ LevelAddsUp(404, 180, <<4,50,22>>, <<4,51,23>>) /\ LevelAddsUp(404, 140, <<3,36,12>>, <<8,37,13>>)
    BY DEF LevelAddsUp, RSDegrees, MAX_DATACODEWORD, MAX_CODEBLOCK, MAX_ALLCODEWORD
  <2> QED BY <2>1, LevelsAddUp DEF VersionInfo1
<1>12. RowAddsUp(VersionInfo1[12])
  <2>1. /\ LevelAddsUp(466, 370, <<2,116,92>>, <<2,117,93>>) /\ LevelAddsUp(466, 290, <<6,58,36>>, <<2,59,37>>)
        /\ LevelAddsUp(466, 206, <<4,46,20>>, <<6,47,21>>) /\ LevelAddsUp(466, 158, <<7,42,14>>, <<4,43,15>>)
    BY DEF LevelAddsUp, RSDegrees, MAX_DATACODEWORD, MAX_CODEBLOCK, MAX_ALLCODEWORD
  <2> QED BY <2>1, LevelsAddUp DEF VersionInfo1
<1>13. RowAddsUp(VersionInfo1[13])
  <2>1. /\ LevelAddsUp(532, 428, <<4,133,107>>, <<0,0,0>>) /\ LevelAddsUp(532, 334, <<8,59,37>>, <<1,60,38>>)
        /\ LevelAddsUp(532, 244, <<8,44,20>>, <<4,45,21>>) /\ LevelAddsUp(532, 180, <<12,33,11>>, <<4,34,12>>)
    BY DEF LevelAddsUp, RSDegrees, MAX_DATACODEWORD, MAX_CODEBLOCK, MAX_ALLCODEWORD
  <2> QED BY <2>1, LevelsAddUp DEF VersionInfo1
<1> TAKE i \in 1..13
<1> QED BY <1>1, <1>2, <1>3, <1>4, <1>5, <1>6, <1>7, <1>8, <1>9, <1>10, <1>11, <1>12, <1>13

\* The second group of rows.
LEMMA VersionInfo2AddsUp == \A i \in 1..13 : RowAddsUp(VersionInfo2[i])
<1>1. RowAddsUp(VersionInfo2[1])
  <2>1. /\ LevelAddsUp(581, 461, <<3,145,115>>, <<1,146,116>>) /\ LevelAddsUp(581, 365, <<4,64,40>>, <<5,65,41>>)
        /\ LevelAddsUp(581, 261, <<11,36,16>>, <<5,37,17>>) /\ LevelAddsUp(581, 197, <<11,36,12>>, <<5,37,13>>)
    BY DEF LevelAddsUp, RSDegrees, MAX_DATACODEWORD, MAX_CODEBLOCK, MAX_ALLCODEWORD
  <2> QED BY <2>1, LevelsAddUp DEF VersionInfo2
<1>2. RowAddsUp(VersionInfo2[2])
  <2>1. /\ LevelAddsUp(655, 523, <<5,109,87>>, <<1,110,88>>) /\ LevelAddsUp(655, 415, <<5,65,41>>, <<5,66,42>>)
        /\ LevelAddsUp(655, 295, <<5,54,24>>, <<7,55,25>>) /\ LevelAddsUp(655, 223, <<11,36,12>>, <<7,37,13>>)
    BY DEF LevelAddsUp, RSDegrees, MAX_DATACODEWORD, MAX_CODEBLOCK, MAX_ALLCODEWORD
  <2> QED BY <2>1, LevelsAddUp DEF VersionInfo2
<1>3. RowAddsUp(VersionInfo2[3])
  <2>1. /\ LevelAddsUp(733, 589, <<5,122,98>>, <<1,123,99>>) /\ LevelAddsUp(733, 453, <<7,73,45>>, <<3,74,46>>)
        /\ LevelAddsUp(733, 325, <<15,43,19>>, <<2,44,20>>) /\ LevelAddsUp(733, 253, <<3,45,15>>, <<13,46,16>>)
    BY DEF LevelAddsUp, RSDegrees, MAX_DATACODEWORD, MAX_CODEBLOCK, MAX_ALLCODEWORD
  <2> QED BY <2>1, LevelsAddUp DEF VersionInfo2
<1>4. RowAddsUp(VersionInfo2[4])
  <2>1. /\ LevelAddsUp(815, 647, <<1,135,107>>, <<5,136,108>>) /\ LevelAddsUp(815, 507, <<10,74,46>>, <<1,75,47>>)
        /\ LevelAddsUp(815, 367, <<1,50,22>>, <<15,51,23>>) /\ LevelAddsUp(815, 283, <<2,42,14>>, <<17,43,15>>)
    BY DEF LevelAddsUp, RSDegrees, MAX_DATACODEWORD, MAX_CODEBLOCK, MAX_ALLCODEWORD
  <2> QED BY <2>1, LevelsAddUp DEF VersionInfo2
<1>5. RowAddsUp(VersionInfo2[5])
  <2>1. /\ LevelAddsUp(901, 721, <<5,150,120>>, <<1,151,121>>) /\ LevelAddsUp(901, 563, <<9,69,43>>, <<4,70,44>>)
        /\ LevelAddsUp(901, 397, <<17,50,22>>, <<1,51,23>>) /\ LevelAddsUp(901, 313, <<2,42,14>>, <<19,43,15>>)
    BY DEF LevelAddsUp, RSDegrees, MAX_DATACODEWORD, MAX_CODEBLOCK, MAX_ALLCODEWORD
  <2> QED BY <2>1, LevelsAddUp DEF VersionInfo2
<1>6. RowAddsUp(VersionInfo2[6])
  <2>1. /\ LevelAddsUp(991, 795, <<3,141,113>>, <<4,142,114>>) /\ LevelAddsUp(991, 627, <<3,70,44>>, <<11,71,45>>)
        /\ LevelAddsUp(991, 445, <<17,47,21>>, <<4,48,22>>) /\ LevelAddsUp(991, 341, <<9,39,13>>, <<16,40,14>>)
    BY DEF LevelAddsUp, RSDegrees, MAX_DATACODEWORD, MAX_CODEBLOCK, MAX_ALLCODEWORD
  <2> QED BY <2>1, LevelsAddUp DEF VersionInfo2
<1>7. RowAddsUp(VersionInfo2[7])
  <2>1. /\ LevelAddsUp(1085, 861, <<3,135,107>>, <<5,136,108>>) /\ LevelAddsUp(1085, 669, <<3,67,41>>, <<13,68,42>>)
        /\ LevelAddsUp(1085, 485, <<15,54,24>>, <<5,55,25>>) /\ LevelAddsUp(1085, 385, <<15,43,15>>, <<10,44,16>>)
    BY DEF LevelAddsUp, RSDegrees, MAX_DATACODEWORD, MAX_CODEBLOCK, MAX_ALLCODEWORD
  <2> QED BY <2>1, LevelsAddUp DEF VersionInfo2
<1>8. RowAddsUp(VersionInfo2[8])
  <2>1. /\ LevelAddsUp(1156, 932, <<4,144,116>>, <<4,145,117>>) /\ LevelAddsUp(1156, 714, <<17,68,42>>, <<0,0,0>>)
        /\ LevelAddsUp(1156, 512, <<17,50,22>>, <<6,51,23>>) /\ LevelAddsUp(1156, 406, <<19,46,16>>, <<6,47,17>>)
    BY DEF LevelAddsUp, RSDegrees, MAX_DATACODEWORD, MAX_CODEBLOCK, MAX_ALLCODEWORD
  <2> QED BY <2>1, LevelsAddUp DEF VersionInfo2
<1>9. RowAddsUp(VersionInfo2[9])
  <2>1. /\ LevelAddsUp(1258, 1006, <<2,139,111>>, <<7,140,112>>) /\ LevelAddsUp(1258, 782, <<17,74,46>>, <<0,0,0>>)
        /\ LevelAddsUp(1258, 568, <<7,54,24>>, <<16,55,25>>) /\ LevelAddsUp(1258, 442, <<34,37,13>>, <<0,0,0>>)
    BY DEF LevelAddsUp, RSDegrees, MAX_DATACODEWORD, MAX_CODEBLOCK, MAX_ALLCODEWORD
  <2> QED BY <2>1, LevelsAddUp DEF VersionInfo2
<1>10. RowAddsUp(VersionInfo2[10])
  <2>1. /\ LevelAddsUp(1364, 1094, <<4,151,121>>, <<5,152,122>>) /\ LevelAddsUp(1364, 860, <<4,75,47>>, <<14,76,48>>)
        /\ LevelAddsUp(1364, 614, <<11,54,24>>, <<14,55,25>>) /\ LevelAddsUp(1364, 464, <<16,45,15>>, <<14,46,16>>)
    BY DEF LevelAddsUp, RSDegrees, MAX_DATACODEWORD, MAX_CODEBLOCK, MAX_ALLCODEWORD
  <2> QED BY <2>1, LevelsAddUp DEF VersionInfo2
<1>11. RowAddsUp(VersionInfo2[11])
  <2>1. /\ LevelAddsUp(1474, 1174, <<6,147,117>>, <<4,148,118>>) /\ LevelAddsUp(1474, 914, <<6,73,45>>, <<14,74,46>>)
        /\ LevelAddsUp(1474, 664, <<11,54,24>>, <<16,55,25>>) /\ LevelAddsUp(1474, 514, <<30,46,16>>, <<2,47,17>>)
    BY DEF LevelAddsUp, RSDegrees, MAX_DATACODEWORD, MAX_CODEBLOCK, MAX_ALLCODEWORD
  <2> QED BY <2>1, LevelsAddUp DEF VersionInfo2
<1>12. RowAddsUp(VersionInfo2[12])
  <2>1. /\ LevelAddsUp(1588, 1276, <<8,132,106>>, <<4,133,107>>) /\ LevelAddsUp(1588, 1000, <<8,75,47>>, <<13,76,48>>)
        /\ LevelAddsUp(1588, 718, <<7,54,24>>, <<22,55,25>>) /\ LevelAddsUp(1588, 538, <<22,45,15>>, <<13,46,16>>)
    BY DEF LevelAddsUp, RSDegrees, MAX_DATACODEWORD, MAX_CODEBLOCK, MAX_ALLCODEWORD
  <2> QED BY <2>1, LevelsAddUp DEF VersionInfo2
<1>13. RowAddsUp(VersionInfo2[13])
  <2>1. /\ LevelAddsUp(1706, 1370, <<10,142,114>>, <<2,143,115>>) /\ LevelAddsUp(1706, 1062, <<19,74,46>>, <<4,75,47>>)
        /\ LevelAddsUp(1706, 754, <<28,50,22>>, <<6,51,23>>) /\ LevelAddsUp(1706, 596, <<33,46,16>>, <<4,47,17>>)
    BY DEF LevelAddsUp, RSDegrees, MAX_DATACODEWORD, MAX_CODEBLOCK, MAX_ALLCODEWORD
  <2> QED BY <2>1, LevelsAddUp DEF VersionInfo2
<1> TAKE i \in 1..13
<1> QED BY <1>1, <1>2, <1>3, <1>4, <1>5, <1>6, <1>7, <1>8, <1>9, <1>10, <1>11, <1>12, <1>13

\* The third group of rows.
LEMMA VersionInfo3AddsUp == \A i \in 1..14 : RowAddsUp(VersionInfo3[i])
<1>1. RowAddsUp(VersionInfo3[1])
  <2>1. /\ LevelAddsUp(1828, 1468, <<8,152,122>>, <<4,153,123>>) /\ LevelAddsUp(1828, 1128, <<22,73,45>>, <<3,74,46>>)
        /\ LevelAddsUp(1828, 808, <<8,53,23>>, <<26,54,24>>) /\ LevelAddsUp(1828, 628, <<12,45,15>>, <<28,46,16>>)
    BY DEF LevelAddsUp, RSDegrees, MAX_DATACODEWORD, MAX_CODEBLOCK, MAX_ALLCODEWORD
  <2> QED BY <2>1, LevelsAddUp DEF VersionInfo3
<1>2. RowAddsUp(VersionInfo3[2])
  <2>1. /\ LevelAddsUp(1921, 1531, <<3,147,117>>, <<10,148,118>>) /\ LevelAddsUp(1921, 1193, <<3,73,45>>, <<23,74,46>>)
        /\ LevelAddsUp(1921, 871, <<4,54,24>>, <<31,55,25>>) /\ LevelAddsUp(1921, 661, <<11,45,15>>, <<31,46,16>>)
    BY DEF LevelAddsUp, RSDegrees, MAX_DATACODEWORD, MAX_CODEBLOCK, MAX_ALLCODEWORD
  <2> QED BY <2>1, LevelsAddUp DEF VersionInfo3
<1>3. RowAddsUp(VersionInfo3[3])
  <2>1. /\ LevelAddsUp(2051, 1631, <<7,146,116>>, <<7,147,117>>) /\ LevelAddsUp(2051, 1267, <<21,73,45>>, <<7,74,46>>)
        /\ LevelAddsUp(2051, 911, <<1,53,23>>, <<37,54,24>>) /\ LevelAddsUp(2051, 701, <<19,45,15>>, <<26,46,16>>)
    BY DEF LevelAddsUp, RSDegrees, MAX_DATACODEWORD, MAX_CODEBLOCK, MAX_ALLCODEWORD
  <2> QED BY <2>1, LevelsAddUp DEF VersionInfo3
<1>4. RowAddsUp(VersionInfo3[4])
  <2>1. /\ LevelAddsUp(2185, 1735, <<5,145,115>>, <<10,146,116>>) /\ LevelAddsUp(2185, 1373, <<19,75,47>>, <<10,76,48>>)
        /\ LevelAddsUp(2185, 985, <<15,54,24>>, <<25,55,25>>) /\ LevelAddsUp(2185, 745, <<23,45,15>>, <<25,46,16>>)
    BY DEF LevelAddsUp, RSDegrees, MAX_DATACODEWORD, MAX_CODEBLOCK, MAX_ALLCODEWORD
  <2> QED BY <2>1, LevelsAddUp DEF VersionInfo3
<1>5. RowAddsUp(VersionInfo3[5])
  <2>1. /\ LevelAddsUp(2323, 1843, <<13,145,115>>, <<3,146,116>>) /\ LevelAddsUp(2323, 1455, <<2,74,46>>, <<29,75,47>>)
        /\ LevelAddsUp(2323, 1033, <<42,54,24>>, <<1,55,25>>) /\ LevelAddsUp(2323, 793, <<23,45,15>>, <<28,46,16>>)
    BY DEF LevelAddsUp, RSDegrees, MAX_DATACODEWORD, MAX_CODEBLOCK, MAX_ALLCODEWORD
  <2> QED BY <2>1, LevelsAddUp DEF VersionInfo3
<1>6. RowAddsUp(VersionInfo3[6])
  <2>1. /\ LevelAddsUp(2465, 1955, <<17,145,115>>, <<0,0,0>>) /\ LevelAddsUp(2465, 1541, <<10,74,46>>, <<23,75,47>>)
        /\ LevelAddsUp(2465, 1115, <<10,54,24>>, <<35,55,25>>) /\ LevelAddsUp(2465, 845, <<19,45,15>>, <<35,46,16>>)
    BY DEF LevelAddsUp, RSDegrees, MAX_DATACODEWORD, MAX_CODEBLOCK, MAX_ALLCODEWORD
  <2> QED BY <2>1, LevelsAddUp DEF VersionInfo3
<1>7. RowAddsUp(VersionInfo3[7])
  <2>1. /\ LevelAddsUp(2611, 2071, <<17,145,115>>, <<1,146,116>>) /\ LevelAddsUp(2611, 1631, <<14,74,46>>, <<21,75,47>>)
        /\ LevelAddsUp(2611, 1171, <<29,54,24>>, <<19,55,25>>) /\ LevelAddsUp(2611, 901, <<11,45,15>>, <<46,46,16>>)
    BY DEF LevelAddsUp, RSDegrees, MAX_DATACODEWORD, MAX_CODEBLOCK, MAX_ALLCODEWORD
  <2> QED BY <2>1, LevelsAddUp DEF VersionInfo3
<1>8. RowAddsUp(VersionInfo3[8])
  <2>1. /\ LevelAddsUp(2761, 2191, <<13,145,115>>, <<6,146,116>>) /\ LevelAddsUp(2761, 1725, <<14,74,46>>, <<23,75,47>>)
        /\ LevelAddsUp(2761, 1231, <<44,54,24>>, <<7,55,25>>) /\ LevelAddsUp(2761, 961, <<59,46,16>>, <<1,47,17>>)
    BY DEF LevelAddsUp, RSDegrees, MAX_DATACODEWORD, MAX_CODEBLOCK, MAX_ALLCODEWORD
  <2> QED BY <2>1, LevelsAddUp DEF VersionInfo3
<1>9. RowAddsUp(VersionInfo3[9])
  <2>1. /\ LevelAddsUp(2876, 2306, <<12,151,121>>, <<7,152,122>>) /\ LevelAddsUp(2876, 1812, <<12,75,47>>, <<26,76,48>>)
        /\ LevelAddsUp(2876, 1286, <<39,54,24>>, <<14,55,25>>) /\ LevelAddsUp(2876, 986, <<22,45,15>>, <<41,46,16>>)
    BY DEF LevelAddsUp, RSDegrees, MAX_DATACODEWORD, MAX_CODEBLOCK, MAX_ALLCODEWORD
  <2> QED BY <2>1, LevelsAddUp DEF VersionInfo3
<1>10. RowAddsUp(VersionInfo3[10])
  <2>1. /\ LevelAddsUp(3034, 2434, <<6,151,121>>, <<14,152,122>>) /\ LevelAddsUp(3034, 1914, <<6,75,47>>, <<34,76,48>>)
        /\ LevelAddsUp(3034, 1354, <<46,54,24>>, <<10,55,25>>) /\ LevelAddsUp(3034, 1054, <<2,45,15>>, <<64,46,16>>)
    BY DEF LevelAddsUp, RSDegrees, MAX_DATACODEWORD, MAX_CODEBLOCK, MAX_ALLCODEWORD
  <2> QED BY <2>1, LevelsAddUp DEF VersionInfo3
<1>11. RowAddsUp(VersionInfo3[11])
  <2>1. /\ LevelAddsUp(3196, 2566, <<17,152,122>>, <<4,153,123>>) /\ LevelAddsUp(3196, 1992, <<29,74,46>>, <<14,75,47>>)
        /\ LevelAddsUp(3196, 1426, <<49,54,24>>, <<10,55,25>>) /\ LevelAddsUp(3196, 1096, <<24,45,15>>, <<46,46,16>>)
    BY DEF LevelAddsUp, RSDegrees, MAX_DATACODEWORD, MAX_CODEBLOCK, MAX_ALLCODEWORD
  <2> QED BY <2>1, LevelsAddUp DEF VersionInfo3
<1>12. RowAddsUp(VersionInfo3[12])
  <2>1. /\ LevelAddsUp(3362, 2702, <<4,152,122>>, <<18,153,123>>) /\ LevelAddsUp(3362, 2102, <<13,74,46>>, <<32,75,47>>)
        /\ LevelAddsUp(3362, 1502, <<48,54,24>>, <<14,55,25>>) /\ LevelAddsUp(3362, 1142, <<42,45,15>>, <<32,46,16>>)
    BY DEF LevelAddsUp, RSDegrees, MAX_DATACODEWORD, MAX_CODEBLOCK, MAX_ALLCODEWORD
  <2> QED BY <2>1, LevelsAddUp DEF VersionInfo3
<1>13. RowAddsUp(VersionInfo3[13])
  <2>1. /\ LevelAddsUp(3532, 2812, <<20,147,117>>, <<4,148,118>>) /\ LevelAddsUp(3532, 2216, <<40,75,47>>, <<7,76,48>>)
        /\ LevelAddsUp(3532, 1582, <<43,54,24>>, <<22,55,25>>) /\ LevelAddsUp(3532, 1222, <<10,45,15>>, <<67,46,16>>)
    BY DEF LevelAddsUp, RSDegrees, MAX_DATACODEWORD, MAX_CODEBLOCK, MAX_ALLCODEWORD
  <2> QED BY <2>1, LevelsAddUp DEF VersionInfo3
<1>14. RowAddsUp(VersionInfo3[14])
  <2>1. /\ LevelAddsUp(3706, 2956, <<19,148,118>>, <<6,149,119>>) /\ LevelAddsUp(3706, 2334, <<18,75,47>>, <<31,76,48>>)
        /\ LevelAddsUp(3706, 1666, <<34,54,24>>, <<34,55,25>>) /\ LevelAddsUp(3706, 1276, <<20,45,15>>, <<61,46,16>>)
    BY DEF LevelAddsUp, RSDegrees, MAX_DATACODEWORD, MAX_CODEBLOCK, MAX_ALLCODEWORD
  <2> QED BY <2>1, LevelsAddUp DEF VersionInfo3
<1> TAKE i \in 1..14
<1> QED BY <1>1, <1>2, <1>3, <1>4, <1>5, <1>6, <1>7, <1>8, <1>9, <1>10, <1>11, <1>12, <1>13, <1>14

\* In all 40 versions and at every level the tables agree with each other: the
\* blocks add up to the data codewords, with their error correction codewords to
\* all codewords, a block of the second kind has one codeword more, and the
\* degree of its generator polynomial is in the table.  QR_VersonInfo, byRSExp.
THEOREM TablesAddUp == \A v \in 1..40 : RowAddsUp(QR_VersonInfo[v])
<1> DEFINE S == {VersionInfo1[i] : i \in 1..13} \cup {VersionInfo2[i] : i \in 1..13}
                  \cup {VersionInfo3[i] : i \in 1..14}
<1>1. VersionInfo1 \in Seq({VersionInfo1[i] : i \in 1..13}) /\ Len(VersionInfo1) = 13
  BY DEF VersionInfo1
<1>2. VersionInfo2 \in Seq({VersionInfo2[i] : i \in 1..13}) /\ Len(VersionInfo2) = 13
  BY DEF VersionInfo2
<1>3. VersionInfo3 \in Seq({VersionInfo3[i] : i \in 1..14}) /\ Len(VersionInfo3) = 14
  BY DEF VersionInfo3
<1>4. VersionInfo1 \in Seq(S) /\ VersionInfo2 \in Seq(S) /\ VersionInfo3 \in Seq(S)
  BY <1>1, <1>2, <1>3
<1> HIDE DEF S
<1>5. PICK m \in Nat, n \in Nat, k \in Nat :
        m = Len(VersionInfo1) /\ n = Len(VersionInfo2) /\ k = Len(VersionInfo3)
  BY <1>4
<1>6. m = 13 /\ n = 13 /\ k = 14
  BY <1>1, <1>2, <1>3, <1>5
<1>7. Len(VersionInfo1) = m /\ Len(VersionInfo2) = n /\ Len(VersionInfo3) = k
  BY <1>5
<1> DEFINE first == VersionInfo1 \o VersionInfo2
<1>8. /\ first \in Seq(S) /\ Len(first) = m + n
      /\ \A i \in 1..m : first[i] = VersionInfo1[i]
      /\ \A i \in 1..n : first[m + i] = VersionInfo2[i]
  <2>1. /\ first \in Seq(S) /\ Len(first) = Len(VersionInfo1) + Len(VersionInfo2)
        /\ \A i \in 1..Len(VersionInfo1) : first[i] = VersionInfo1[i]
        /\ \A i \in 1..Len(VersionInfo2) : first[Len(VersionInfo1) + i] = VersionInfo2[i]
    <3>1. first \in Seq(S) /\ Len(first) = Len(VersionInfo1) + Len(VersionInfo2)
      BY <1>4
    <3>2. \A i \in 1..Len(VersionInfo1) : first[i] = VersionInfo1[i]
      BY <1>4
    <3>3. \A i \in 1..Len(VersionInfo2) : first[Len(VersionInfo1) + i] = VersionInfo2[i]
      BY <1>4
    <3> QED BY <3>1, <3>2, <3>3
  <2> HIDE DEF first
  <2> QED BY <2>1, <1>7
<1> HIDE DEF first
<1>13. m + n \in Nat
  OBVIOUS
<1>14. /\ \A i \in 1..(m + n) : (first \o VersionInfo3)[i] = first[i]
      /\ \A i \in 1..k : (first \o VersionInfo3)[m + n + i] = VersionInfo3[i]
  <2>1. /\ \A i \in 1..Len(first) : (first \o VersionInfo3)[i] = first[i]
        /\ \A i \in 1..Len(VersionInfo3) : (first \o VersionInfo3)[Len(first) + i] = VersionInfo3[i]
    <3>1. \A i \in 1..Len(first) : (first \o VersionInfo3)[i] = first[i]
      BY <1>4, <1>8
    <3>2. \A i \in 1..Len(VersionInfo3) : (first \o VersionInfo3)[Len(first) + i] = VersionInfo3[i]
      BY <1>4, <1>8
    <3> QED BY <3>1, <3>2
  <2> QED BY <2>1, <1>7, <1>8
<1>9. QR_VersonInfo = first \o VersionInfo3
  BY DEF QR_VersonInfo, first
<1> TAKE v \in 1..40
<1>10. CASE v \in 1..13
  <2>1. v \in 1..m /\ v \in 1..(m + n)
    BY <1>6, <1>10
  <2>2. QR_VersonInfo[v] = VersionInfo1[v]
    BY <1>8, <1>9, <1>14, <2>1
  <2> QED BY <2>2, <1>10, VersionInfo1AddsUp
<1>11. CASE v \in 14..26
  <2>1. PICK i \in 1..13 : v = m + i
    BY <1>6, <1>11
  <2>2. i \in 1..n /\ v \in 1..(m + n)
    BY <1>6, <2>1
  <2>3. QR_VersonInfo[v] = VersionInfo2[i]
    BY <1>8, <1>9, <1>14, <2>1, <2>2
  <2> QED BY <2>3, VersionInfo2AddsUp
<1>12. CASE v \in 27..40
  <2>1. PICK i \in 1..14 : v = m + n + i
    BY <1>6, <1>12
  <2>2. i \in 1..k
    BY <1>6
  <2>3. QR_VersonInfo[v] = VersionInfo3[i]
    BY <1>9, <1>14, <2>1, <2>2
  <2> QED BY <2>3, VersionInfo3AddsUp
<1> QED BY <1>10, <1>11, <1>12

-----------------------------------------------------------------------------
(* Modes and segments *)

\* The lesser of two numbers.
LEMMA MinOfTwo ==
  ASSUME NEW a \in Int, NEW b \in Int
  PROVE  Min({a, b}) \in {a, b} /\ Min({a, b}) <= a /\ Min({a, b}) <= b
<1>1. \E x \in {a, b} : \A y \in {a, b} : x <= y
  <2>1. CASE a <= b
    BY <2>1
  <2>2. CASE ~(a <= b)
    BY <2>2
  <2> QED BY <2>1, <2>2
<1> QED BY <1>1 DEF Min

\* A segment that does not stop at its first byte has one, and ends in the source.
LEMMA UntilAdvances ==
  ASSUME NEW s, NEW n \in Nat, Len(s) = n, NEW c \in Nat, c < n,
         NEW stops \in SUBSET ((c + 1)..n), c + 1 \notin stops
  PROVE  Until(s, c, stops) \in 1..(n - c)
<1> DEFINE T == stops \cup {n + 1}
<1>1. T \in SUBSET (1..(n + 1)) /\ T # {} /\ n + 1 \in Nat
  OBVIOUS
<1>2. \A x \in T : x \in (c + 2)..(n + 1)
  <2> TAKE x \in T
  <2>1. CASE x = n + 1
    BY <2>1
  <2>2. CASE x \in stops
    <3>1. x \in (c + 1)..n /\ x # c + 1
      BY <2>2
    <3> QED BY <3>1
  <2> QED BY <2>1, <2>2
<1> DEFINE m == Min(T)
<1>3. m \in T
  <2> HIDE DEF T
  <2> QED BY <1>1, MinOfSome
<1>4. Until(s, c, stops) = m - (c + 1)
  BY DEF Until
<1> HIDE DEF m, T
<1>5. m \in (c + 2)..(n + 1)
  BY <1>2, <1>3
<1> QED BY <1>4, <1>5

\* The first byte of a kanji is neither a letter nor a digit.
LEMMA KanjiIsNoAlphabet ==
  ASSUME NEW s, NEW i, KanjiAt(s, i)
  PROVE  ~IsAlphabetData(s[i]) /\ ~IsNumeralData(s[i])
<1>1. s[i] \in 129..159 \cup 224..235
  BY Zenon DEF KanjiAt, IsKanjiData
<1>2. PICK b \in 129..235 : b = s[i]
  BY <1>1
<1> QED BY <1>2 DEF IsAlphabetData, IsNumeralData

\* Every digit may stand among letters.
LEMMA NumeralIsAlphabet ==
  ASSUME NEW b, IsNumeralData(b)
  PROVE  IsAlphabetData(b)
BY DEF IsAlphabetData

\* What the choice of a mode says of the bytes that come next.
LEMMA ModeOfFirst ==
  ASSUME NEW s \in Seq(Byte), NEW n \in Nat, Len(s) = n, NEW c \in Nat, c < n, NEW g \in Group
  PROVE  LET mode == GetInitDataMode(s, c, g)
         IN \/ mode = "kanji" /\ KanjiAt(s, c + 1)
            \/ /\ mode = "8bit" /\ ~KanjiAt(s, c + 1)
               /\ \E i \in (c + 1)..n : i <= c + 6 + g /\ ~IsAlphabetData(s[i])
            \/ /\ mode = "alphabet" /\ IsAlphabetData(s[c + 1])
               /\ \E i \in (c + 1)..n : i <= c + 7 + g /\ ~IsNumeralData(s[i])
            \/ mode = "numeral" /\ IsNumeralData(s[c + 1])
<1> DEFINE first == s[c + 1]
           Among(m) == {s[i] : i \in (c + 1)..Min({c + m, Len(s)})}
<1>1. ASSUME NEW m \in Nat, NEW b \in Among(m)
      PROVE  \E i \in (c + 1)..n : i <= c + m /\ b = s[i]
  <2> DEFINE last == Min({c + m, n})
  <2>1. last <= c + m /\ last <= n /\ last \in {c + m, n}
    <3>1. c + m \in Int /\ n \in Int
      OBVIOUS
    <3> QED BY <3>1, MinOfTwo
  <2>2. PICK i \in (c + 1)..last : b = s[i]
    OBVIOUS
  <2> HIDE DEF last
  <2>3. i \in (c + 1)..n /\ i <= c + m
    BY <2>1, <2>2
  <2> QED BY <2>2, <2>3
<1>3. /\ <<6, 7, 8>>[g + 1] = 6 + g /\ <<7, 8, 9>>[g + 1] = 7 + g
      /\ <<4, 4, 5>>[g + 1] \in Nat /\ g \in Nat
      /\ \A i \in Int : i <= c + <<4, 4, 5>>[g + 1] => i <= c + 6 + g
  <2>1. CASE g = 0
    BY <2>1
  <2>2. CASE g = 1
    BY <2>2
  <2>3. CASE g = 2
    BY <2>3
  <2> QED BY <2>1, <2>2, <2>3 DEF Group
<1> DEFINE mode == GetInitDataMode(s, c, g)
<1>9. /\ \A b \in Among(6 + g) : \E i \in (c + 1)..n : i <= c + (6 + g) /\ b = s[i]
      /\ \A b \in Among(7 + g) : \E i \in (c + 1)..n : i <= c + (7 + g) /\ b = s[i]
      /\ \A b \in Among(<<4, 4, 5>>[g + 1]) :
           \E i \in (c + 1)..n : i <= c + <<4, 4, 5>>[g + 1] /\ b = s[i]
  <2>1. 6 + g \in Nat /\ 7 + g \in Nat
    BY <1>3
  <2> HIDE DEF Among
  <2> QED BY <1>1, <1>3, <2>1, Zenon
<1>4. c + 1 \in (c + 1)..n /\ c + 1 <= c + 6 + g /\ c + 1 <= c + 7 + g
  BY <1>3
<1>5. CASE KanjiAt(s, c + 1)
  <2>1. mode = "kanji"
    BY <1>5, KanjiIsNoAlphabet DEF GetInitDataMode
  <2> QED BY <2>1, <1>5
<1>6. CASE ~KanjiAt(s, c + 1) /\ ~IsAlphabetData(first)
  <2>1. mode = "8bit"
    BY <1>6, NumeralIsAlphabet DEF GetInitDataMode
  <2> QED BY <2>1, <1>4, <1>6
<1>7. CASE ~KanjiAt(s, c + 1) /\ IsAlphabetData(first) /\ ~IsNumeralData(first)
  <2>1. mode = IF \A b \in Among(6 + g) : IsAlphabetData(b) THEN "alphabet" ELSE "8bit"
    BY <1>3, <1>7 DEF GetInitDataMode
  <2>2. CASE \A b \in Among(6 + g) : IsAlphabetData(b)
    <3>1. mode = "alphabet"
      BY <2>1, <2>2
    <3> QED BY <3>1, <1>4, <1>7
  <2>3. CASE ~(\A b \in Among(6 + g) : IsAlphabetData(b))
    <3>1. mode = "8bit"
      BY <2>1, <2>3
    <3>2. PICK b \in Among(6 + g) : ~IsAlphabetData(b)
      BY <2>3
    <3>3. PICK i \in (c + 1)..n : i <= c + (6 + g) /\ b = s[i]
      BY <1>9, <3>2
    <3>4. i <= c + 6 + g
      BY <1>3, <3>3
    <3> QED BY <3>1, <3>2, <3>3, <3>4, <1>7
  <2> QED BY <2>2, <2>3
<1>8. CASE ~KanjiAt(s, c + 1) /\ IsNumeralData(first)
  <2> DEFINE near == Among(<<4, 4, 5>>[g + 1])
             far  == Among(7 + g)
             some8   == \E b \in near : ~IsAlphabetData(b)
             someAlpha == \E b \in far : IsAlphabetData(b) /\ ~IsNumeralData(b)
  <2>1. mode = IF some8 THEN "8bit" ELSE IF someAlpha THEN "alphabet" ELSE "numeral"
    BY <1>3, <1>8, NumeralIsAlphabet DEF GetInitDataMode
  <2>2. CASE some8
    <3>1. mode = "8bit"
      BY <2>1, <2>2
    <3>2. PICK b \in near : ~IsAlphabetData(b)
      BY <2>2
    <3>3. PICK i \in (c + 1)..n : i <= c + <<4, 4, 5>>[g + 1] /\ b = s[i]
      BY <1>9, <3>2
    <3>4. i <= c + 6 + g
      <4>1. i \in Int
        OBVIOUS
      <4> QED BY <1>3, <3>3, <4>1, Zenon
    <3> QED BY <3>1, <3>2, <3>3, <3>4, <1>8
  <2>3. CASE ~some8 /\ someAlpha
    <3>1. mode = "alphabet"
      BY <2>1, <2>3
    <3>2. PICK b \in far : ~IsNumeralData(b)
      BY <2>3
    <3>3. PICK i \in (c + 1)..n : i <= c + (7 + g) /\ b = s[i]
      BY <1>9, <3>2
    <3>4. i <= c + 7 + g
      BY <1>3, <3>3
    <3> QED BY <3>1, <3>2, <3>3, <3>4, <1>8, NumeralIsAlphabet
  <2>4. CASE ~some8 /\ ~someAlpha
    BY <2>1, <2>4, <1>8
  <2> QED BY <2>2, <2>3, <2>4
<1> QED BY <1>5, <1>6, <1>7, <1>8

\* The segment of the mode that was chosen takes at least one byte, and none
\* that is not there.
LEMMA SegmentAdvances ==
  ASSUME NEW s \in Seq(Byte), NEW n \in Nat, Len(s) = n, NEW c \in Nat, c < n, NEW g \in Group
  PROVE  LET mode == GetInitDataMode(s, c, g)
         IN mode \in Mode /\ Segment(s, c, g, mode).count \in 1..(n - c)
<1> SUFFICES ASSUME NEW mode, mode = GetInitDataMode(s, c, g)
             PROVE  mode \in Mode /\ Segment(s, c, g, mode).count \in 1..(n - c)
  OBVIOUS
<1>0. /\ c + 1 \in (c + 1)..n
      /\ <<6, 8, 9>>[g + 1] \in Nat /\ <<11, 15, 16>>[g + 1] \in Nat /\ <<13, 15, 17>>[g + 1] \in Nat
      /\ \A i \in Int : i <= c + 6 + g => i <= c + <<6, 8, 9>>[g + 1] /\ i <= c + <<11, 15, 16>>[g + 1]
      /\ \A i \in Int : i <= c + 7 + g => i <= c + <<13, 15, 17>>[g + 1]
  <2>1. CASE g = 0
    BY <2>1
  <2>2. CASE g = 1
    BY <2>2
  <2>3. CASE g = 2
    BY <2>3
  <2> QED BY <2>1, <2>2, <2>3 DEF Group
<1>1. ASSUME NEW i \in (c + 1)..n, NEW m \in Nat, i <= c + m, NEW bytes, s[i] \notin bytes
      PROVE  ~Continues(s, c + 1, m, bytes)
  <2>1. i \in (c + 1)..(c + 1 + m - 1)
    BY <1>1
  <2> QED BY <1>1, <2>1 DEF Continues
<1>2. CASE mode = "kanji" /\ KanjiAt(s, c + 1)
  <2> DEFINE stops == {i \in (c + 1)..n : (i - c) % 2 = 1 /\ ~KanjiAt(s, i)}
  <2>1. stops \in SUBSET ((c + 1)..n) /\ c + 1 \notin stops
    BY <1>2
  <2>2. Until(s, c, stops) \in 1..(n - c)
    <3> HIDE DEF stops
    <3> QED BY <2>1, UntilAdvances
  <2>3. KanjiCount(s, c) = Until(s, c, stops)
    BY DEF KanjiCount
  <2>4. Segment(s, c, g, "kanji").count = KanjiCount(s, c)
    BY DEF Segment
  <2> HIDE DEF stops
  <2> QED BY <1>2, <2>2, <2>3, <2>4 DEF Mode
<1>3. CASE mode = "numeral" /\ IsNumeralData(s[c + 1])
  <2> DEFINE stops == {i \in (c + 1)..n : KanjiAt(s, i) \/ ~IsNumeralData(s[i])}
  <2>1. stops \in SUBSET ((c + 1)..n) /\ c + 1 \notin stops
    BY <1>3, KanjiIsNoAlphabet
  <2>2. Until(s, c, stops) \in 1..(n - c)
    <3> HIDE DEF stops
    <3> QED BY <2>1, UntilAdvances
  <2>3. NumeralCount(s, c) = Until(s, c, stops)
    BY DEF NumeralCount
  <2>4. Segment(s, c, g, "numeral").count = NumeralCount(s, c)
    BY DEF Segment
  <2> HIDE DEF stops
  <2> QED BY <1>3, <2>2, <2>3, <2>4 DEF Mode
<1>4. CASE /\ mode = "alphabet" /\ IsAlphabetData(s[c + 1])
           /\ \E i \in (c + 1)..n : i <= c + 7 + g /\ ~IsNumeralData(s[i])
  <2> DEFINE stops == {i \in (c + 1)..n :
        \/ KanjiAt(s, i)
        \/ ~IsAlphabetData(s[i])
        \/ Continues(s, i, <<13, 15, 17>>[g + 1], NumeralBytes)}
  <2>1. PICK i \in (c + 1)..n : i <= c + 7 + g /\ ~IsNumeralData(s[i])
    BY <1>4
  <2>2. i <= c + <<13, 15, 17>>[g + 1]
    BY <1>0, <2>1
  <2>3. s[i] \notin NumeralBytes
    BY <2>1 DEF NumeralBytes
  <2>4. ~Continues(s, c + 1, <<13, 15, 17>>[g + 1], NumeralBytes)
    BY <1>0, <1>1, <2>2, <2>3
  <2>5. stops \in SUBSET ((c + 1)..n) /\ c + 1 \notin stops
    BY <1>4, <2>4, KanjiIsNoAlphabet
  <2>6. Until(s, c, stops) \in 1..(n - c)
    <3> HIDE DEF stops
    <3> QED BY <2>5, UntilAdvances
  <2>7. AlphabetCount(s, c, g) = Until(s, c, stops)
    BY DEF AlphabetCount
  <2>8. Segment(s, c, g, "alphabet").count = AlphabetCount(s, c, g)
    BY DEF Segment
  <2> HIDE DEF stops
  <2> QED BY <1>4, <2>6, <2>7, <2>8 DEF Mode
<1>5. CASE /\ mode = "8bit" /\ ~KanjiAt(s, c + 1)
           /\ \E i \in (c + 1)..n : i <= c + 6 + g /\ ~IsAlphabetData(s[i])
  <2> DEFINE stops == {i \in (c + 1)..n :
        \/ KanjiAt(s, i)
        \/ Continues(s, i, <<6, 8, 9>>[g + 1], NumeralBytes)
        \/ Continues(s, i, <<11, 15, 16>>[g + 1], AlphabetBytes)}
  <2>1. PICK i \in (c + 1)..n : i <= c + 6 + g /\ ~IsAlphabetData(s[i])
    BY <1>5
  <2>2. i <= c + <<6, 8, 9>>[g + 1] /\ i <= c + <<11, 15, 16>>[g + 1]
    BY <1>0, <2>1
  <2>3. s[i] \notin NumeralBytes /\ s[i] \notin AlphabetBytes
    BY <2>1, NumeralIsAlphabet DEF NumeralBytes, AlphabetBytes
  <2>4. /\ ~Continues(s, c + 1, <<6, 8, 9>>[g + 1], NumeralBytes)
        /\ ~Continues(s, c + 1, <<11, 15, 16>>[g + 1], AlphabetBytes)
    BY <1>0, <1>1, <2>2, <2>3
  <2>5. stops \in SUBSET ((c + 1)..n) /\ c + 1 \notin stops
    BY <1>5, <2>4
  <2>6. Until(s, c, stops) \in 1..(n - c)
    <3> HIDE DEF stops
    <3> QED BY <2>5, UntilAdvances
  <2>7. EightBitCount(s, c, g) = Until(s, c, stops)
    BY DEF EightBitCount
  <2>8. Segment(s, c, g, "8bit").count = EightBitCount(s, c, g)
    BY DEF Segment
  <2> HIDE DEF stops
  <2> QED BY <1>5, <2>6, <2>7, <2>8 DEF Mode
<1>6. \/ mode = "kanji" /\ KanjiAt(s, c + 1)
      \/ /\ mode = "8bit" /\ ~KanjiAt(s, c + 1)
         /\ \E i \in (c + 1)..n : i <= c + 6 + g /\ ~IsAlphabetData(s[i])
      \/ /\ mode = "alphabet" /\ IsAlphabetData(s[c + 1])
         /\ \E i \in (c + 1)..n : i <= c + 7 + g /\ ~IsNumeralData(s[i])
      \/ mode = "numeral" /\ IsNumeralData(s[c + 1])
  BY ModeOfFirst
<1> QED BY <1>2, <1>3, <1>4, <1>5, <1>6

\* A segment is two words and a run of bits, one after the other.
LEMMA SegmentOfBits ==
  ASSUME NEW a \in Int, NEW m \in Int, NEW width \in 0..16,
         NEW total \in Nat, NEW b, \A k \in 1..total : b[k] \in Bit,
         b = [k \in 1..total |-> b[k]]
  PROVE  Bits(a, 4) \o Bits(m, width) \o b \in Seq(Bit)
<1>1. Bits(a, 4) \in Seq(Bit) /\ Bits(m, width) \in Seq(Bit)
  <2>1. 4 \in 0..16
    OBVIOUS
  <2> QED BY <2>1, BitsAreBits, Zenon
<1>2. b \in Seq(Bit)
  <2>1. b \in [1..total -> Bit]
    OBVIOUS
  <2> QED BY <2>1
<1> QED BY <1>1, <1>2

\* The lengths of the character counts.
LEMMA IndicatorLengths ==
  \A g \in Group : /\ nIndicatorLenNumeral[g] \in 0..16 /\ nIndicatorLenAlphabet[g] \in 0..16
                   /\ nIndicatorLen8Bit[g] \in 0..16 /\ nIndicatorLenKanji[g] \in 0..16
BY DEF Group, nIndicatorLenNumeral, nIndicatorLenAlphabet, nIndicatorLen8Bit, nIndicatorLenKanji

\* Bit k of a run of groups of the same width belongs to one of the groups.
LEMMA GroupsOf8 ==
  ASSUME NEW m \in Nat, NEW k \in 1..(8 * m)
  PROVE  (k - 1) \div 8 \in 0..(m - 1) /\ 1 + ((k - 1) % 8) \in 1..8
OBVIOUS

\* The bits of a segment of bytes.
LEMMA EightBitSegmentOfBits ==
  ASSUME NEW s \in Seq(Byte), NEW n \in Nat, Len(s) = n, NEW c \in Nat, NEW g \in Group,
         NEW m \in Nat, c + m <= n
  PROVE  EightBitSegment(s, c, g, m) \in Seq(Bit)
<1> DEFINE b == [k \in 1..(8 * m) |-> Bits(s[c + 1 + (k - 1) \div 8], 8)[1 + ((k - 1) % 8)]]
<1>1. ASSUME NEW k \in 1..(8 * m) PROVE b[k] \in Bit
  <2>1. PICK i \in 1..n : i = c + 1 + (k - 1) \div 8
    BY GroupsOf8
  <2>2. s[i] \in Int
    <3>1. s[i] \in Byte
      BY SequenceOfLength
    <3>2. Byte \subseteq Int
      BY DEF Byte
    <3> QED BY <3>1, <3>2
  <2>3. PICK j \in 1..8 : j = 1 + ((k - 1) % 8)
    BY GroupsOf8
  <2>4. Bits(s[i], 8)[j] \in Bit
    <3>1. 8 \in 0..16
      OBVIOUS
    <3> QED BY <2>2, <3>1, BitAt, Zenon
  <2> QED BY <2>1, <2>3, <2>4
<1>2. b = [k \in 1..(8 * m) |-> b[k]]
  OBVIOUS
<1>3. EightBitSegment(s, c, g, m) = Bits(4, 4) \o Bits(m, nIndicatorLen8Bit[g]) \o b
  BY DEF EightBitSegment
<1> HIDE DEF b
<1>4. nIndicatorLen8Bit[g] \in 0..16 /\ 8 * m \in Nat /\ m \in Int /\ 4 \in Int
  BY IndicatorLengths
<1>5. \A k \in 1..(8 * m) : b[k] \in Bit
  BY <1>1
<1> QED BY <1>2, <1>3, <1>4, <1>5, SegmentOfBits, Zenon

\* A letter has a number.
LEMMA AlphabetToBinalyIsInt ==
  ASSUME NEW b \in Byte
  PROVE  AlphabetToBinaly(b) \in Int
<1>1. b \in Int
  BY DEF Byte
<1> QED BY <1>1 DEF AlphabetToBinaly

\* So has a kanji.
LEMMA KanjiToBinalyIsInt ==
  ASSUME NEW b1 \in Byte, NEW b2 \in Byte
  PROVE  KanjiToBinaly(b1, b2) \in Int
<1>1. b1 \in Int /\ b2 \in Int
  BY DEF Byte
<1> QED BY <1>1 DEF KanjiToBinaly

\* The last group of an alphabet segment may have one character.
LEMMA GroupsOf11 ==
  ASSUME NEW m \in Nat, NEW k \in 1..(11 * (m \div 2) + 6 * (m % 2))
  PROVE  LET q == 2 * ((k - 1) \div 11) + 1
             r == 1 + ((k - 1) % 11)
         IN \/ q \in 1..m /\ q < m /\ q + 1 \in 1..m /\ r \in 1..11
            \/ q \in 1..m /\ ~(q < m) /\ r \in 1..6
<1> DEFINE h == m \div 2
           p == (k - 1) \div 11
<1>1. h \in Nat /\ m = 2 * h + (m % 2) /\ m % 2 \in {0, 1}
  OBVIOUS
<1>2. p \in Nat /\ k - 1 = 11 * p + ((k - 1) % 11) /\ (k - 1) % 11 \in 0..10
  OBVIOUS
<1> HIDE DEF h, p
<1>3. k - 1 < 11 * h + 6 * (m % 2)
  BY DEF h
<1>4. p < h \/ (p = h /\ m % 2 = 1 /\ (k - 1) % 11 < 6)
  BY <1>1, <1>2, <1>3
<1>5. CASE p < h
  <2>1. 2 * p + 1 < m /\ 2 * p + 1 >= 1
    BY <1>1, <1>2, <1>5
  <2> QED BY <2>1, <1>2 DEF p
<1>6. CASE p = h /\ m % 2 = 1 /\ (k - 1) % 11 < 6
  <2>1. 2 * p + 1 = m
    BY <1>1, <1>6
  <2> QED BY <2>1, <1>2, <1>6 DEF p
<1> QED BY <1>4, <1>5, <1>6

\* The last group of a numeral segment may have one digit or two.
LEMMA GroupsOf10 ==
  ASSUME NEW m \in Nat, NEW k \in 1..(10 * (m \div 3) + <<0, 4, 7>>[1 + (m % 3)])
  PROVE  LET q == 3 * ((k - 1) \div 10) + 1
             r == 1 + ((k - 1) % 10)
         IN \/ q \in 1..m /\ q + 1 < m /\ q + 1 \in 1..m /\ q + 2 \in 1..m /\ r \in 1..10
            \/ q \in 1..m /\ q + 1 = m /\ q + 1 \in 1..m /\ r \in 1..7
            \/ q \in 1..m /\ q = m /\ r \in 1..4
<1> DEFINE h == m \div 3
           p == (k - 1) \div 10
<1>1. h \in Nat /\ m = 3 * h + (m % 3) /\ m % 3 \in {0, 1, 2}
  OBVIOUS
<1>7. \/ m % 3 = 0 /\ k \in 1..(10 * h)
      \/ m % 3 = 1 /\ k \in 1..(10 * h + 4)
      \/ m % 3 = 2 /\ k \in 1..(10 * h + 7)
  OBVIOUS
<1>8. k \in Nat
  BY <1>1, <1>7
<1>2. p \in Nat /\ k - 1 = 10 * p + ((k - 1) % 10) /\ (k - 1) % 10 \in 0..9
  BY <1>1, <1>7
<1> HIDE DEF h, p
<1>4. \/ p < h
      \/ p = h /\ m % 3 = 1 /\ (k - 1) % 10 < 4
      \/ p = h /\ m % 3 = 2 /\ (k - 1) % 10 < 7
  BY <1>1, <1>2, <1>7
<1>5. CASE p < h
  <2>1. 3 * p + 2 < m /\ 3 * p + 1 >= 1
    BY <1>1, <1>2, <1>5
  <2> QED BY <2>1, <1>2 DEF p
<1>6. CASE p = h /\ m % 3 = 1 /\ (k - 1) % 10 < 4
  <2>1. 3 * p + 1 = m
    BY <1>1, <1>6
  <2> QED BY <2>1, <1>2, <1>6 DEF p
<1>9. CASE p = h /\ m % 3 = 2 /\ (k - 1) % 10 < 7
  <2>1. 3 * p + 2 = m
    BY <1>1, <1>9
  <2> QED BY <2>1, <1>2, <1>9 DEF p
<1> QED BY <1>4, <1>5, <1>6, <1>9

\* Thirteen bits are a kanji, two bytes of the source.
LEMMA GroupsOf13 ==
  ASSUME NEW m \in Nat, NEW k \in 1..(13 * (m \div 2))
  PROVE  LET q == (k - 1) \div 13 + 1
         IN 2 * q - 1 \in 1..m /\ 2 * q \in 1..m /\ 1 + ((k - 1) % 13) \in 1..13
<1> DEFINE h == m \div 2
           p == (k - 1) \div 13
<1>1. h \in Nat /\ 2 * h <= m
  OBVIOUS
<1>2. p \in Nat /\ k - 1 = 13 * p + ((k - 1) % 13) /\ (k - 1) % 13 \in 0..12 /\ k - 1 < 13 * h
  OBVIOUS
<1> HIDE DEF h, p
<1>3. p < h
  BY <1>1, <1>2
<1> QED BY <1>1, <1>2, <1>3 DEF p

\* The bits of a segment of letters.
LEMMA AlphabetSegmentOfBits ==
  ASSUME NEW s \in Seq(Byte), NEW n \in Nat, Len(s) = n, NEW c \in Nat, NEW g \in Group,
         NEW m \in Nat, c + m <= n
  PROVE  AlphabetSegment(s, c, g, m) \in Seq(Bit)
<1> DEFINE Char(k) == AlphabetToBinaly(s[c + k])
           Pair(k) == IF k < m THEN Bits(45 * Char(k) + Char(k + 1), 11) ELSE Bits(Char(k), 6)
           total == 11 * (m \div 2) + 6 * (m % 2)
           b == [k \in 1..total |-> Pair(2 * ((k - 1) \div 11) + 1)[1 + ((k - 1) % 11)]]
<1>1. \A k \in 1..m : Char(k) \in Int
  <2> TAKE k \in 1..m
  <2>1. c + k \in 1..n
    OBVIOUS
  <2>2. s[c + k] \in Byte
    BY <2>1, SequenceOfLength
  <2> QED BY <2>2, AlphabetToBinalyIsInt
<1>2. ASSUME NEW k \in 1..total PROVE b[k] \in Bit
  <2> DEFINE q == 2 * ((k - 1) \div 11) + 1
             r == 1 + ((k - 1) % 11)
  <2>1. \/ q \in 1..m /\ q < m /\ q + 1 \in 1..m /\ r \in 1..11
        \/ q \in 1..m /\ ~(q < m) /\ r \in 1..6
    BY GroupsOf11
  <2>2. b[k] = Pair(q)[r]
    OBVIOUS
  <2> HIDE DEF q, r, b
  <2>3. CASE q \in 1..m /\ q < m /\ q + 1 \in 1..m /\ r \in 1..11
    <3>1. 45 * Char(q) + Char(q + 1) \in Int
      <4>1. Char(q) \in Int /\ Char(q + 1) \in Int
        BY <1>1, <2>3
      <4> HIDE DEF Char
      <4> QED BY <4>1
    <3>2. Pair(q) = Bits(45 * Char(q) + Char(q + 1), 11)
      BY <2>3
    <3>3. 11 \in 0..16
      OBVIOUS
    <3> HIDE DEF Char, Pair
    <3>4. Bits(45 * Char(q) + Char(q + 1), 11)[r] \in Bit
      BY <2>3, <3>1, <3>3, BitAt, Zenon
    <3> QED BY <2>2, <3>2, <3>4
  <2>4. CASE q \in 1..m /\ ~(q < m) /\ r \in 1..6
    <3>1. Char(q) \in Int
      BY <1>1, <2>4
    <3>2. Pair(q) = Bits(Char(q), 6)
      BY <2>4
    <3>3. 6 \in 0..16
      OBVIOUS
    <3> HIDE DEF Char, Pair
    <3>4. Bits(Char(q), 6)[r] \in Bit
      BY <2>4, <3>1, <3>3, BitAt, Zenon
    <3> QED BY <2>2, <3>2, <3>4
  <2> QED BY <2>1, <2>3, <2>4
<1>3. b = [k \in 1..total |-> b[k]]
  OBVIOUS
<1>4. AlphabetSegment(s, c, g, m) = Bits(2, 4) \o Bits(m, nIndicatorLenAlphabet[g]) \o b
  BY DEF AlphabetSegment
<1>5. nIndicatorLenAlphabet[g] \in 0..16 /\ total \in Nat /\ m \in Int /\ 2 \in Int
  BY IndicatorLengths
<1> HIDE DEF b, total
<1>6. \A k \in 1..total : b[k] \in Bit
  BY <1>2
<1> QED BY <1>3, <1>4, <1>5, <1>6, SegmentOfBits, Zenon

\* Three digits make a number.
LEMMA ThreeDigits ==
  ASSUME NEW x \in Int, NEW y \in Int, NEW z \in Int
  PROVE  100 * x + 10 * y + z \in Int
OBVIOUS

\* The bits of a segment of digits.
LEMMA NumeralSegmentOfBits ==
  ASSUME NEW s \in Seq(Byte), NEW n \in Nat, Len(s) = n, NEW c \in Nat, NEW g \in Group,
         NEW m \in Nat, c + m <= n
  PROVE  NumeralSegment(s, c, g, m) \in Seq(Bit)
<1> DEFINE Digit(k) == s[c + k] - 48
           Triple(k) ==
             CASE k + 1 < m -> Bits(100 * Digit(k) + 10 * Digit(k + 1) + Digit(k + 2), 10)
               [] k + 1 = m -> Bits(10 * Digit(k) + Digit(k + 1), 7)
               [] k = m     -> Bits(Digit(k), 4)
           total == 10 * (m \div 3) + <<0, 4, 7>>[1 + (m % 3)]
           b == [k \in 1..total |-> Triple(3 * ((k - 1) \div 10) + 1)[1 + ((k - 1) % 10)]]
<1>1. \A k \in 1..m : Digit(k) \in Int
  <2> TAKE k \in 1..m
  <2>1. c + k \in 1..n
    OBVIOUS
  <2>2. s[c + k] \in Byte
    BY <2>1, SequenceOfLength
  <2>3. Byte \subseteq Int
    BY DEF Byte
  <2>4. PICK x \in Int : x = s[c + k]
    BY <2>2, <2>3
  <2> QED BY <2>4
<1>2. ASSUME NEW k \in 1..total PROVE b[k] \in Bit
  <2> DEFINE q == 3 * ((k - 1) \div 10) + 1
             r == 1 + ((k - 1) % 10)
  <2>1. \/ q \in 1..m /\ q + 1 < m /\ q + 1 \in 1..m /\ q + 2 \in 1..m /\ r \in 1..10
        \/ q \in 1..m /\ q + 1 = m /\ q + 1 \in 1..m /\ r \in 1..7
        \/ q \in 1..m /\ q = m /\ r \in 1..4
    BY GroupsOf10
  <2>2. b[k] = Triple(q)[r]
    OBVIOUS
  <2> HIDE DEF q, r, b
  <2>3. CASE q \in 1..m /\ q + 1 < m /\ q + 1 \in 1..m /\ q + 2 \in 1..m /\ r \in 1..10
    <3>1. 100 * Digit(q) + 10 * Digit(q + 1) + Digit(q + 2) \in Int
      <4>1. Digit(q) \in Int /\ Digit(q + 1) \in Int /\ Digit(q + 2) \in Int
        BY <1>1, <2>3
      <4> HIDE DEF Digit
      <4> QED BY <4>1, ThreeDigits, Zenon
    <3>2. Triple(q) = Bits(100 * Digit(q) + 10 * Digit(q + 1) + Digit(q + 2), 10)
      <4> HIDE DEF Digit
      <4> DEFINE b3 == Bits(100 * Digit(q) + 10 * Digit(q + 1) + Digit(q + 2), 10)
                 b2 == Bits(10 * Digit(q) + Digit(q + 1), 7)
                 b1 == Bits(Digit(q), 4)
      <4>1. Triple(q) = CASE q + 1 < m -> b3 [] q + 1 = m -> b2 [] q = m -> b1
        OBVIOUS
      <4>2. q + 1 < m /\ q + 1 # m /\ q # m
        BY <2>3
      <4> HIDE DEF b1, b2, b3, Triple
      <4>3. Triple(q) = b3
        BY <4>1, <4>2
      <4> QED BY <4>3 DEF b3
    <3>3. 10 \in 0..16
      OBVIOUS
    <3> HIDE DEF Digit, Triple
    <3>4. Bits(100 * Digit(q) + 10 * Digit(q + 1) + Digit(q + 2), 10)[r] \in Bit
      BY <2>3, <3>1, <3>3, BitAt, Zenon
    <3> QED BY <2>2, <3>2, <3>4
  <2>4. CASE q \in 1..m /\ q + 1 = m /\ q + 1 \in 1..m /\ r \in 1..7
    <3>1. 10 * Digit(q) + Digit(q + 1) \in Int
      <4>1. Digit(q) \in Int /\ Digit(q + 1) \in Int
        BY <1>1, <2>4
      <4> HIDE DEF Digit
      <4> QED BY <4>1
    <3>2. Triple(q) = Bits(10 * Digit(q) + Digit(q + 1), 7)
      <4> HIDE DEF Digit
      <4> DEFINE b3 == Bits(100 * Digit(q) + 10 * Digit(q + 1) + Digit(q + 2), 10)
                 b2 == Bits(10 * Digit(q) + Digit(q + 1), 7)
                 b1 == Bits(Digit(q), 4)
      <4>1. Triple(q) = CASE q + 1 < m -> b3 [] q + 1 = m -> b2 [] q = m -> b1
        OBVIOUS
      <4>2. ~(q + 1 < m) /\ q + 1 = m /\ q # m
        BY <2>4
      <4> HIDE DEF b1, b2, b3, Triple
      <4>3. Triple(q) = b2
        BY <4>1, <4>2
      <4> QED BY <4>3 DEF b2
    <3>3. 7 \in 0..16
      OBVIOUS
    <3> HIDE DEF Digit, Triple
    <3>4. Bits(10 * Digit(q) + Digit(q + 1), 7)[r] \in Bit
      BY <2>4, <3>1, <3>3, BitAt, Zenon
    <3> QED BY <2>2, <3>2, <3>4
  <2>5. CASE q \in 1..m /\ q = m /\ r \in 1..4
    <3>1. Digit(q) \in Int
      BY <1>1, <2>5
    <3>2. Triple(q) = Bits(Digit(q), 4)
      <4> HIDE DEF Digit
      <4> QED BY <2>5
    <3>3. 4 \in 0..16
      OBVIOUS
    <3> HIDE DEF Digit, Triple
    <3>4. Bits(Digit(q), 4)[r] \in Bit
      BY <2>5, <3>1, <3>3, BitAt, Zenon
    <3> QED BY <2>2, <3>2, <3>4
  <2> QED BY <2>1, <2>3, <2>4, <2>5
<1>3. b = [k \in 1..total |-> b[k]]
  <2> HIDE DEF Triple, total
  <2> QED OBVIOUS
<1>4. NumeralSegment(s, c, g, m) = Bits(1, 4) \o Bits(m, nIndicatorLenNumeral[g]) \o b
  BY DEF NumeralSegment
<1>5. nIndicatorLenNumeral[g] \in 0..16 /\ total \in Nat /\ m \in Int /\ 1 \in Int
  BY IndicatorLengths
<1> HIDE DEF b, total
<1>6. \A k \in 1..total : b[k] \in Bit
  BY <1>2
<1> QED BY <1>3, <1>4, <1>5, <1>6, SegmentOfBits, Zenon

\* The bits of a segment of kanji.
LEMMA KanjiSegmentOfBits ==
  ASSUME NEW s \in Seq(Byte), NEW n \in Nat, Len(s) = n, NEW c \in Nat, NEW g \in Group,
         NEW m \in Nat, c + m <= n
  PROVE  KanjiSegment(s, c, g, m) \in Seq(Bit)
<1> DEFINE Char(p) == Bits(KanjiToBinaly(s[c + 2 * p - 1], s[c + 2 * p]), 13)
           total == 13 * (m \div 2)
           b == [k \in 1..total |-> Char((k - 1) \div 13 + 1)[1 + ((k - 1) % 13)]]
<1>1. ASSUME NEW k \in 1..total PROVE b[k] \in Bit
  <2> DEFINE q == (k - 1) \div 13 + 1
             r == 1 + ((k - 1) % 13)
  <2>1. 2 * q - 1 \in 1..m /\ 2 * q \in 1..m /\ r \in 1..13
    BY GroupsOf13
  <2>2. q \in Int
    OBVIOUS
  <2>3. b[k] = Char(q)[r]
    OBVIOUS
  <2> HIDE DEF q, r, b
  <2>4. c + 2 * q - 1 \in 1..n /\ c + 2 * q \in 1..n
    BY <2>1, <2>2
  <2>5. s[c + 2 * q - 1] \in Byte /\ s[c + 2 * q] \in Byte
    BY <2>4, SequenceOfLength
  <2>6. KanjiToBinaly(s[c + 2 * q - 1], s[c + 2 * q]) \in Int
    BY <2>5, KanjiToBinalyIsInt
  <2>7. 13 \in 0..16
    OBVIOUS
  <2>8. Bits(KanjiToBinaly(s[c + 2 * q - 1], s[c + 2 * q]), 13)[r] \in Bit
    BY <2>1, <2>6, <2>7, BitAt, Zenon
  <2> QED BY <2>3, <2>8
<1>2. b = [k \in 1..total |-> b[k]]
  OBVIOUS
<1>3. KanjiSegment(s, c, g, m) = Bits(8, 4) \o Bits(m \div 2, nIndicatorLenKanji[g]) \o b
  BY DEF KanjiSegment
<1>4. nIndicatorLenKanji[g] \in 0..16 /\ total \in Nat /\ m \div 2 \in Int /\ 8 \in Int
  BY IndicatorLengths
<1> HIDE DEF b, total
<1>5. \A k \in 1..total : b[k] \in Bit
  BY <1>1
<1> QED BY <1>2, <1>3, <1>4, <1>5, SegmentOfBits, Zenon

\* Whatever the mode, the bits of the segment are bits.
LEMMA SegmentHasBits ==
  ASSUME NEW s \in Seq(Byte), NEW n \in Nat, Len(s) = n, NEW c \in Nat, NEW g \in Group,
         NEW mode \in Mode, Segment(s, c, g, mode).count \in 1..(n - c)
  PROVE  Segment(s, c, g, mode).bits \in Seq(Bit)
<1> DEFINE m == Segment(s, c, g, mode).count
<1>1. m \in Nat /\ c + m <= n
  OBVIOUS
<1>2. CASE mode = "8bit"
  <2>1. Segment(s, c, g, mode).bits = EightBitSegment(s, c, g, m)
    BY <1>2 DEF Segment
  <2> HIDE DEF m
  <2> QED BY <1>1, <2>1, EightBitSegmentOfBits
<1>3. CASE mode = "alphabet"
  <2>1. Segment(s, c, g, mode).bits = AlphabetSegment(s, c, g, m)
    BY <1>3 DEF Segment
  <2> HIDE DEF m
  <2> QED BY <1>1, <2>1, AlphabetSegmentOfBits
<1>4. CASE mode = "numeral"
  <2>1. Segment(s, c, g, mode).bits = NumeralSegment(s, c, g, m)
    BY <1>4 DEF Segment
  <2> HIDE DEF m
  <2> QED BY <1>1, <2>1, NumeralSegmentOfBits
<1>5. CASE mode = "kanji"
  <2>1. Segment(s, c, g, mode).bits = KanjiSegment(s, c, g, m)
    BY <1>5 DEF Segment
  <2> HIDE DEF m
  <2> QED BY <1>1, <2>1, KanjiSegmentOfBits
<1> QED BY <1>2, <1>3, <1>4, <1>5 DEF Mode

-----------------------------------------------------------------------------
(* The inductive invariant *)

\* The steps at which a version is chosen, and at which there are codewords.
Versioned == {"pad", "data", "rs", "divide", "function", "place", "mask", "format", "done"}
Padded    == {"data", "rs", "divide", "function", "place", "mask", "format", "done"}
InBlocks  == {"data", "rs", "divide"}

\* The source has been encoded up to ncComplete, and the loop goes on in the
\* mode of the byte that comes next.
StreamOK ==
  /\ pc \in {"call", "source", "version", "refused"} \cup Versioned
  /\ group \in Group /\ nDataMode \in Mode
  /\ ncComplete \in 0..Len(call.source)
  /\ bits \in Seq(Bit) /\ Len(bits) <= 8 * MAX_DATACODEWORD
  /\ pc = "source" => /\ ncComplete < Len(call.source)
                      /\ nDataMode = GetInitDataMode(call.source, ncComplete, group)
  /\ pc = "version" => call.source # <<>>

VersionOK == m_nVersion \in 0..40 /\ (pc \in Versioned => m_nVersion \in 1..40)

\* The codewords are those of the version and level.
DataOK ==
  /\ m_byDataCodeWord \in Seq(Byte) /\ Len(m_byDataCodeWord) <= MAX_DATACODEWORD
  /\ pc \in Padded => Len(m_byDataCodeWord) = Info.ncDataCodeWord[call.level]
AllOK ==
  /\ DOMAIN m_byAllCodeWord \subseteq 0..(MAX_ALLCODEWORD - 1)
  /\ \A p \in DOMAIN m_byAllCodeWord : m_byAllCodeWord[p] \in Byte
  /\ pc \in Padded => DOMAIN m_byAllCodeWord = 0..(Info.ncAllCodeWord - 1)

\* Where block b starts in m_byDataCodeWord.
StartOf(b) ==
  IF b <= Block1.ncRSBlock THEN b * Block1.ncDataCodeWord
  ELSE Block1.ncRSBlock * Block1.ncDataCodeWord + (b - Block1.ncRSBlock) * Block2.ncDataCodeWord
BlockOK ==
  pc \in InBlocks => nBlockNo \in 0..(ncBlockSum - 1) /\ nDataCwIndex = StartOf(nBlockNo)

WorkOK ==
  pc = "divide" => turn \in 0..nData /\ m_byRSWork \in [1..(MAX_CODEBLOCK + 1) -> Byte]

PlaceOK == pc = "place" => placed \in 0..(Info.ncAllCodeWord - 1)

MaskOK ==
  /\ trial \in 0..8 /\ (trial = 8 => pc \in {"format", "done"})
  /\ m_nMaskingNo \in -1..7

IInv == /\ call \in Calls
        /\ StreamOK /\ VersionOK /\ DataOK /\ AllOK /\ BlockOK /\ WorkOK /\ PlaceOK /\ MaskOK

-----------------------------------------------------------------------------
(* Blocks *)

\* The numbers of a level, and a block b of it: the blocks start one after the
\* other and end with the data, and the last places b writes lie in the array.
BlockNumbers(n1, n2, d1, d2, d, rs, all, b) ==
  /\ n1 \in 1..100 /\ n2 \in 0..100 /\ d1 \in Nat /\ d2 \in Nat
  /\ d \in Nat /\ rs \in Nat \ {0} /\ all \in Nat /\ b \in 0..(n1 + n2 - 1)
  /\ n2 > 0 => d2 = d1 + 1
  /\ n1 * d1 + n2 * d2 = d /\ d + (n1 + n2) * rs = all
BlockPlaces(n1, n2, d1, d2, d, rs, all, b) ==
  LET Start(k) == IF k <= n1 THEN k * d1 ELSE n1 * d1 + (k - n1) * d2
      n == IF b < n1 THEN d1 ELSE d2
  IN /\ Start(b) \in Nat /\ Start(b) + n <= d /\ Start(b + 1) = Start(b) + n
     /\ (IF n > d1 THEN (n1 + n2) * d1 + (b - n1) ELSE (n1 + n2) * n - (n1 + n2) + b) < d
     /\ d + (n1 + n2) * rs - (n1 + n2) + b \in 0..(all - 1)

\* The numbers put the blocks in their places.
LEMMA BlockArithmetic ==
  ASSUME NEW n1, NEW n2, NEW d1, NEW d2, NEW d, NEW rs, NEW all, NEW b,
         BlockNumbers(n1, n2, d1, d2, d, rs, all, b)
  PROVE  BlockPlaces(n1, n2, d1, d2, d, rs, all, b)
<1> DEFINE start == IF b <= n1 THEN b * d1 ELSE n1 * d1 + (b - n1) * d2
           next == IF b + 1 <= n1 THEN (b + 1) * d1 ELSE n1 * d1 + ((b + 1) - n1) * d2
           n == IF b < n1 THEN d1 ELSE d2
           last == IF n > d1 THEN (n1 + n2) * d1 + (b - n1) ELSE (n1 + n2) * n - (n1 + n2) + b
<1> SUFFICES /\ start \in Nat /\ start + n <= d /\ next = start + n
             /\ last < d
             /\ d + (n1 + n2) * rs - (n1 + n2) + b \in 0..(all - 1)
  BY Zenon DEF BlockPlaces
<1>0. /\ n1 \in 1..100 /\ n2 \in 0..100 /\ d1 \in Nat /\ d2 \in Nat
      /\ d \in Nat /\ rs \in Nat /\ rs > 0 /\ all \in Nat /\ b \in 0..(n1 + n2 - 1)
      /\ n2 > 0 => d2 = d1 + 1
      /\ n1 * d1 + n2 * d2 = d /\ d + (n1 + n2) * rs = all
  BY DEF BlockNumbers
<1> USE <1>0
<1>1. d + (n1 + n2) * rs - (n1 + n2) + b \in 0..(all - 1)
  <2>1. PICK r \in Nat : rs = r + 1
    <3>1. rs - 1 \in Nat /\ rs = (rs - 1) + 1
      OBVIOUS
    <3> QED BY <3>1
  <2>2. (n1 + n2) * rs = (n1 + n2) * r + (n1 + n2) /\ (n1 + n2) * r \in Nat
    BY <2>1
  <2> QED BY <2>2
<1>2. (n1 + n2) * d1 = n1 * d1 + n2 * d1 /\ n1 * d1 \in Nat /\ n2 * d1 \in Nat /\ n2 * d2 \in Nat
  OBVIOUS
<1>3. n2 > 0 => n2 * d2 = n2 * d1 + n2
  OBVIOUS
<1>4. CASE b < n1
  <2>1. start = b * d1 /\ next = (b + 1) * d1 /\ n = d1
    BY <1>4
  <2>2. b * d1 \in Nat /\ (b + 1) * d1 = b * d1 + d1
    OBVIOUS
  <2>3. PICK c \in Nat : n1 = b + 1 + c
    <3>1. n1 - (b + 1) \in Nat /\ n1 = b + 1 + (n1 - (b + 1))
      BY <1>4
    <3> QED BY <3>1
  <2>4. n1 * d1 = (b + 1) * d1 + c * d1 /\ c * d1 \in Nat
    BY <2>3
  <2>5. (n1 + n2) * d1 <= d
    <3>1. CASE n2 = 0
      <4>1. n2 * d1 = 0 /\ n2 * d2 = 0
        BY <3>1
      <4> QED BY <1>2, <4>1
    <3>2. CASE n2 > 0
      BY <3>2, <1>2, <1>3
    <3> QED BY <3>1, <3>2
  <2>6. last < d
    <3>1. last = (n1 + n2) * d1 - (n1 + n2) + b
      <4>1. n = d1 /\ ~(n > d1)
        BY <2>1
      <4> QED BY <4>1, Zenon
    <3> QED BY <1>4, <2>5, <3>1
  <2> QED BY <1>1, <1>2, <2>1, <2>2, <2>4, <2>6
<1>5. CASE ~(b < n1)
  <2>1. n2 > 0 /\ n = d2 /\ d2 = d1 + 1
    BY <1>5
  <2>2. start = n1 * d1 + (b - n1) * d2
    <3>1. CASE b = n1
      <4>1. (b - n1) * d2 = 0
        BY <3>1
      <4>2. b * d1 = n1 * d1
        BY <3>1
      <4> QED BY <3>1, <4>1, <4>2, <1>2
    <3>2. CASE b # n1
      BY <3>2, <1>5
    <3> QED BY <3>1, <3>2
  <2>3. next = n1 * d1 + ((b + 1) - n1) * d2
    BY <1>5
  <2>4. ((b + 1) - n1) * d2 = (b - n1) * d2 + d2 /\ (b - n1) * d2 \in Nat
    BY <1>5
  <2>5. PICK c \in Nat : n2 = b + 1 - n1 + c
    <3>1. n2 - ((b + 1) - n1) \in Nat /\ n2 = b + 1 - n1 + (n2 - ((b + 1) - n1))
      BY <1>5
    <3> QED BY <3>1
  <2>6. n2 * d2 = ((b + 1) - n1) * d2 + c * d2 /\ c * d2 \in Nat
    BY <2>5
  <2>7. last < d
    <3>1. last = (n1 + n2) * d1 + (b - n1)
      BY <2>1
    <3> QED BY <1>2, <1>3, <2>1, <3>1
  <2> QED BY <1>1, <1>2, <2>1, <2>2, <2>3, <2>4, <2>6, <2>7
<1> QED BY <1>4, <1>5

\* What a call consists of.
LEMMA CallOK ==
  ASSUME call \in Calls
  PROVE  /\ call.level \in Level /\ call.version \in 0..40 /\ call.extent \in BOOLEAN
         /\ call.mask \in -1..7 /\ call.source \in Seq(Byte)
<1>1. call \in [level : Level, version : 0..40, extent : BOOLEAN, mask : -1..7,
                source : Seq(0..255)]
  BY CallsAssumption, Zenon
<1>2. call.level \in Level /\ call.version \in 0..40 /\ call.extent \in BOOLEAN
      /\ call.mask \in -1..7 /\ call.source \in Seq(0..255)
  BY <1>1, Zenon
<1> QED BY <1>2, Zenon DEF Byte

\* The tables add up at the version and level of the call.
LEMMA ChosenVersion ==
  ASSUME call \in Calls, m_nVersion \in 1..40
  PROVE  LevelOf(Info, call.level) /\ Info.ncAllCodeWord \in 1..MAX_ALLCODEWORD
<1>1. RowAddsUp(Info)
  BY TablesAddUp, Zenon DEF Info
<1>2. call.level \in Level
  BY CallOK
<1> QED BY <1>1, <1>2, Zenon DEF RowAddsUp

\* The current block lies in the data, and its places in m_byAllCodeWord.
LEMMA CurrentBlock ==
  ASSUME call \in Calls, m_nVersion \in 1..40,
         nBlockNo \in 0..(ncBlockSum - 1), nDataCwIndex = StartOf(nBlockNo)
  PROVE  /\ ncBlockSum \in Nat \ {0}
         /\ nData \in 1..MAX_CODEBLOCK /\ nRS \in RSDegrees /\ nDataCwIndex \in Nat
         /\ nDataCwIndex + nData <= Info.ncDataCodeWord[call.level]
         /\ StartOf(nBlockNo + 1) = nDataCwIndex + nData
         /\ LastDataPlace < Info.ncDataCodeWord[call.level]
         /\ LastRSPlace \in 0..(Info.ncAllCodeWord - 1)
<1> DEFINE n1 == Block1.ncRSBlock
           n2 == Block2.ncRSBlock
           d1 == Block1.ncDataCodeWord
           d2 == Block2.ncDataCodeWord
           rs == Block1.ncAllCodeWord - Block1.ncDataCodeWord
           d  == Info.ncDataCodeWord[call.level]
<1>1. LevelOf(Info, call.level) /\ Info.ncAllCodeWord \in 1..MAX_ALLCODEWORD
  BY ChosenVersion
<1>2. /\ n1 \in 1..100 /\ n2 \in 0..100 /\ d1 \in 1..MAX_CODEBLOCK /\ d2 \in 0..MAX_CODEBLOCK
      /\ d \in 1..MAX_DATACODEWORD /\ rs \in RSDegrees
      /\ n1 * d1 + n2 * d2 = d /\ d + (n1 + n2) * rs = Info.ncAllCodeWord
  BY <1>1, Zenon DEF LevelOf, Block1, Block2
<1>3. n2 > 0 => d2 = d1 + 1
  BY <1>1, Zenon DEF LevelOf, Block1, Block2
<1>4. n2 > 0 => Block2.ncAllCodeWord = Block1.ncAllCodeWord + 1
  BY <1>1, Zenon DEF LevelOf, Block1, Block2
<1>5. Block1.ncAllCodeWord \in Nat
  BY <1>1, Zenon DEF LevelOf, Block1
<1>6. nBlockNo \in 0..(n1 + n2 - 1) /\ ncBlockSum = n1 + n2
  <2>1. ncBlockSum = n1 + n2
    BY DEF ncBlockSum
  <2> HIDE DEF n1, n2
  <2>2. 0..(ncBlockSum - 1) = 0..(n1 + n2 - 1)
    <3>1. n1 \in Int /\ n2 \in Int
      BY <1>2
    <3>2. ncBlockSum - 1 = n1 + n2 - 1
      BY <2>1, <3>1
    <3> QED BY <3>2, Zenon
  <2> QED BY <2>1, <2>2, Zenon
<1>7. nData = IF nBlockNo < n1 THEN d1 ELSE d2
  BY DEF nData, BlockOf
<1>8. nRS = rs
  <2>1. CASE nBlockNo < n1
    BY <2>1 DEF nRS, nData, BlockOf
  <2>2. CASE ~(nBlockNo < n1)
    <3>1. n2 > 0
      <4> HIDE DEF n1, n2
      <4> QED BY <1>2, <1>6, <2>2
    <3>2. nRS = Block2.ncAllCodeWord - d2
      BY <2>2 DEF nRS, nData, BlockOf
    <3> HIDE DEF n1, n2
    <3> QED BY <1>2, <1>3, <1>4, <1>5, <3>1, <3>2
  <2> QED BY <2>1, <2>2
<1>9. rs \in Nat \ {0} /\ d1 \in Nat \ {0} /\ d2 \in Nat /\ d \in Nat /\ Info.ncAllCodeWord \in Nat
  <2> HIDE DEF n1, n2, d1, d2, rs, d
  <2>1. rs \in Nat \ {0}
    BY <1>2 DEF RSDegrees
  <2>2. d1 \in Nat \ {0} /\ d2 \in Nat
    BY <1>2 DEF MAX_CODEBLOCK
  <2> QED BY <1>1, <1>2, <2>1, <2>2
<1>10. \A k : StartOf(k) = IF k <= n1 THEN k * d1 ELSE n1 * d1 + (k - n1) * d2
  BY DEF StartOf
<1>11. LastDataPlace = IF nData > d1 THEN (n1 + n2) * d1 + (nBlockNo - n1)
                       ELSE (n1 + n2) * nData - (n1 + n2) + nBlockNo
  BY DEF LastDataPlace, ncBlockSum
<1>12. LastRSPlace = d + (n1 + n2) * rs - (n1 + n2) + nBlockNo
  BY <1>8 DEF LastRSPlace, ncBlockSum
<1>13. nData \in 1..MAX_CODEBLOCK
  <2>1. ~(nBlockNo < n1) => n2 > 0
    <3> HIDE DEF n1, n2
    <3> QED BY <1>2, <1>6
  <2> HIDE DEF n1, n2, d1, d2
  <2> QED BY <1>2, <1>3, <1>7, <1>9, <2>1
<1> HIDE DEF n1, n2, d1, d2, rs, d
<1>14. /\ StartOf(nBlockNo) \in Nat /\ StartOf(nBlockNo) + nData <= d
       /\ StartOf(nBlockNo + 1) = StartOf(nBlockNo) + nData
       /\ LastDataPlace < d /\ LastRSPlace \in 0..(Info.ncAllCodeWord - 1)
  <2>1. BlockNumbers(n1, n2, d1, d2, d, rs, Info.ncAllCodeWord, nBlockNo)
    BY <1>2, <1>3, <1>6, <1>9 DEF BlockNumbers
  <2>2. BlockPlaces(n1, n2, d1, d2, d, rs, Info.ncAllCodeWord, nBlockNo)
    BY <2>1, BlockArithmetic, Zenon
  <2>3. /\ StartOf(nBlockNo) \in Nat /\ StartOf(nBlockNo) + nData <= d
        /\ StartOf(nBlockNo + 1) = StartOf(nBlockNo) + nData
    BY <1>7, <1>10, <2>2 DEF BlockPlaces
  <2>4. LastDataPlace < d
    BY <1>7, <1>11, <2>2 DEF BlockPlaces
  <2>5. LastRSPlace \in 0..(Info.ncAllCodeWord - 1)
    BY <1>12, <2>2 DEF BlockPlaces
  <2> QED BY <2>3, <2>4, <2>5
<1>15. ncBlockSum \in Nat \ {0}
  BY <1>2, <1>6
<1> QED BY <1>2, <1>8, <1>13, <1>14, <1>15 DEF d

-----------------------------------------------------------------------------
(* The source becomes a stream of bits *)

\* What holds until there are codewords does so as long as nothing but the
\* stream and the version changes.
LEMMA BeforeCodewords ==
  ASSUME IInv, UNCHANGED <<call, words, symbol, masking>>,
         pc \in {"call", "source", "version"},
         \/ pc' \in {"source", "version", "refused"} /\ m_nVersion' = m_nVersion
         \/ pc' = "pad" /\ m_nVersion' \in 1..40
  PROVE  /\ VersionOK' /\ DataOK' /\ AllOK' /\ BlockOK' /\ WorkOK' /\ PlaceOK' /\ MaskOK'
         /\ call' \in Calls
<1>1. pc' \notin Padded /\ pc' \notin InBlocks /\ pc' # "divide" /\ pc' # "place"
  BY DEF Padded, InBlocks
<1>2. VersionOK'
  BY DEF VersionOK, Versioned, IInv
<1>3. DataOK'
  BY <1>1 DEF DataOK, IInv, words
<1>4. AllOK'
  BY <1>1 DEF AllOK, IInv, words
<1>5. BlockOK' /\ WorkOK' /\ PlaceOK'
  BY <1>1 DEF BlockOK, WorkOK, PlaceOK
<1>6. MaskOK'
  BY DEF MaskOK, IInv, masking
<1> QED BY <1>2, <1>3, <1>4, <1>5, <1>6 DEF IInv

\* A byte that is left begins a segment.
LEMMA NextMode ==
  ASSUME call \in Calls, NEW c \in Nat, c < Len(call.source), NEW g \in Group
  PROVE  /\ GetInitDataMode(call.source, c, g) \in Mode
         /\ Segment(call.source, c, g, GetInitDataMode(call.source, c, g)).count
              \in 1..(Len(call.source) - c)
<1>1. call.source \in Seq(Byte)
  BY CallOK
<1>2. PICK n \in Nat : n = Len(call.source)
  BY <1>1
<1> QED BY <1>1, <1>2, SegmentAdvances

\* The encoding starts anew in a group of versions.
LEMMA BeginGroupOK ==
  ASSUME IInv, call' = call, call.source # <<>>, NEW g \in Group, BeginGroup(g)
  PROVE  StreamOK' /\ pc' = "source"
<1>1. /\ pc' = "source" /\ group' = g /\ ncComplete' = 0 /\ bits' = <<>>
      /\ nDataMode' = GetInitDataMode(call.source, 0, g)
  BY DEF BeginGroup
<1>2. call.source \in Seq(Byte) /\ 0 < Len(call.source) /\ call \in Calls
  <2>1. call.source \in Seq(Byte)
    BY CallOK DEF IInv
  <2> QED BY <2>1 DEF IInv
<1>3. nDataMode' \in Mode
  BY <1>1, <1>2, NextMode
<1>4. ncComplete' \in 0..Len(call.source) /\ ncComplete' < Len(call.source)
  BY <1>1, <1>2
<1>5. bits' \in Seq(Bit) /\ Len(bits') <= 8 * MAX_DATACODEWORD
  BY <1>1 DEF MAX_DATACODEWORD
<1> QED BY <1>1, <1>3, <1>4, <1>5 DEF StreamOK

\* It starts anew in the next group, or the call is refused.
LEMMA NextGroupOK ==
  ASSUME IInv, call' = call, call.source # <<>>, NextGroup
  PROVE  StreamOK' /\ pc' \in {"source", "refused"}
<1>1. CASE group < 2
  <2>1. BeginGroup(group + 1) /\ group + 1 \in Group
    BY <1>1 DEF NextGroup, IInv, StreamOK, Group
  <2> QED BY <2>1, BeginGroupOK
<1>2. CASE ~(group < 2)
  BY <1>2 DEF NextGroup, IInv, StreamOK, stream
<1> QED BY <1>1, <1>2

\* Call: there is a source, or the call is refused.
LEMMA CallPreserves == IInv /\ Call => IInv'
<1> SUFFICES ASSUME IInv, Call PROVE IInv'
  OBVIOUS
<1>1. StreamOK' /\ pc' \in {"source", "refused"}
  <2>1. CASE call.source = <<>>
    BY <2>1 DEF Call, IInv, StreamOK, stream
  <2>2. CASE call.source # <<>>
    <3> DEFINE g == IF call.version >= 27 THEN 2 ELSE IF call.version >= 10 THEN 1 ELSE 0
    <3>1. g \in Group
      BY DEF Group
    <3>2. BeginGroup(g) /\ call' = call
      BY <2>2 DEF Call
    <3> HIDE DEF g
    <3> QED BY <2>2, <3>1, <3>2, BeginGroupOK
  <2> QED BY <2>1, <2>2
<1>2. /\ VersionOK' /\ DataOK' /\ AllOK' /\ BlockOK' /\ WorkOK' /\ PlaceOK' /\ MaskOK'
      /\ call' \in Calls
  BY <1>1, BeforeCodewords DEF Call
<1> QED BY <1>1, <1>2 DEF IInv

\* EncodeSegment: the segment takes bytes that are there, and becomes bits.
LEMMA SegmentPreserves == IInv /\ EncodeSegment => IInv'
<1> SUFFICES ASSUME IInv, EncodeSegment PROVE IInv'
  OBVIOUS
<1> DEFINE seg == Segment(call.source, ncComplete, group, nDataMode)
           end == ncComplete + seg.count
<1>1. /\ pc = "source" /\ call' = call
      /\ UNCHANGED <<call, m_nVersion, words, symbol, masking>>
      /\ IF Len(bits) + Len(seg.bits) > 8 * MAX_DATACODEWORD
         THEN NextGroup
         ELSE /\ bits' = bits \o seg.bits
              /\ ncComplete' = end
              /\ IF end < Len(call.source)
                 THEN nDataMode' = GetInitDataMode(call.source, end, group) /\ pc' = "source"
                 ELSE nDataMode' = nDataMode /\ pc' = "version"
              /\ group' = group
  BY DEF EncodeSegment
<1>2. /\ call \in Calls /\ group \in Group /\ nDataMode \in Mode /\ bits \in Seq(Bit)
      /\ ncComplete \in Nat /\ ncComplete < Len(call.source)
      /\ nDataMode = GetInitDataMode(call.source, ncComplete, group)
  BY <1>1 DEF IInv, StreamOK
<1>3. call.source \in Seq(Byte)
  BY <1>2, CallOK
<1>4. seg.count \in 1..(Len(call.source) - ncComplete)
  BY <1>2, NextMode
<1>5. seg.bits \in Seq(Bit)
  <2>1. PICK n \in Nat : n = Len(call.source)
    BY <1>3
  <2> QED BY <1>2, <1>3, <1>4, <2>1, SegmentHasBits
<1> HIDE DEF seg
<1>6. StreamOK' /\ pc' \in {"source", "version", "refused"}
  <2>1. CASE Len(bits) + Len(seg.bits) > 8 * MAX_DATACODEWORD
    <3>1. call.source # <<>>
      BY <1>2
    <3> QED BY <1>1, <2>1, <3>1, NextGroupOK
  <2>2. CASE ~(Len(bits) + Len(seg.bits) > 8 * MAX_DATACODEWORD)
    <3>1. bits' \in Seq(Bit) /\ Len(bits') <= 8 * MAX_DATACODEWORD
      <4>1. bits' = bits \o seg.bits
        BY <1>1, <2>2
      <4>2. Len(bits') = Len(bits) + Len(seg.bits) /\ bits' \in Seq(Bit)
        BY <1>2, <1>5, <4>1
      <4>3. Len(bits) \in Nat /\ Len(seg.bits) \in Nat
        BY <1>2, <1>5
      <4> QED BY <2>2, <4>2, <4>3 DEF MAX_DATACODEWORD
    <3>2. end \in 0..Len(call.source) /\ ncComplete' = end
      BY <1>1, <1>2, <1>3, <1>4, <2>2
    <3> HIDE DEF end
    <3>3. CASE end < Len(call.source)
      <4>1. /\ nDataMode' = GetInitDataMode(call.source, end, group) /\ pc' = "source"
            /\ group' = group
        BY <1>1, <2>2, <3>3
      <4>2. nDataMode' \in Mode
        BY <1>2, <3>2, <3>3, <4>1, NextMode
      <4> QED BY <1>1, <1>2, <3>1, <3>2, <3>3, <4>1, <4>2 DEF StreamOK
    <3>4. CASE ~(end < Len(call.source))
      <4>1. nDataMode' = nDataMode /\ pc' = "version" /\ group' = group
        BY <1>1, <2>2, <3>4
      <4>2. call.source # <<>>
        BY <1>2
      <4> QED BY <1>1, <1>2, <3>1, <3>2, <4>1, <4>2 DEF StreamOK
    <3> QED BY <3>3, <3>4
  <2> QED BY <2>1, <2>2
<1>7. /\ VersionOK' /\ DataOK' /\ AllOK' /\ BlockOK' /\ WorkOK' /\ PlaceOK' /\ MaskOK'
      /\ call' \in Calls
  BY <1>1, <1>6, BeforeCodewords
<1> QED BY <1>6, <1>7 DEF IInv

\* The greater of two numbers.
LEMMA MaxOfTwo ==
  ASSUME NEW a \in Int, NEW b \in Int
  PROVE  Max({a, b}) \in {a, b} /\ Max({a, b}) >= a /\ Max({a, b}) >= b
<1>1. \E x \in {a, b} : \A y \in {a, b} : x >= y
  <2>1. CASE a >= b
    BY <2>1
  <2>2. CASE ~(a >= b)
    BY <2>2
  <2> QED BY <2>1, <2>2
<1> QED BY <1>1 DEF Max

\* ChooseVersion: the version is one of the table.
LEMMA VersionPreserves == IInv /\ ChooseVersion => IInv'
<1> SUFFICES ASSUME IInv, ChooseVersion PROVE IInv'
  OBVIOUS
<1> DEFINE fits == {v \in GroupVersions(group) :
                      (Len(bits) + 7) \div 8 <= QR_VersonInfo[v].ncDataCodeWord[call.level]}
           least == Min(fits)
<1>1. /\ pc = "version" /\ call' = call
      /\ UNCHANGED <<call, words, symbol, masking>>
      /\ \/ fits = {} /\ NextGroup /\ m_nVersion' = m_nVersion
         \/ /\ fits # {} /\ m_nVersion' = Max({least, call.version}) /\ pc' = "pad"
            /\ UNCHANGED stream
         \/ pc' = "refused" /\ UNCHANGED <<m_nVersion, stream>>
  BY DEF ChooseVersion
<1>2. fits # {} => least \in 1..40
  <2>1. GroupVersions(group) \subseteq 1..40
    <3>1. group = 0 \/ group = 1 \/ group = 2
      BY DEF IInv, StreamOK, Group
    <3>2. \A v : v \in 1..9 \/ v \in 10..26 \/ v \in 27..40 => v \in 1..40
      OBVIOUS
    <3>3. GroupVersions(0) = 1..9 /\ GroupVersions(1) = 10..26 /\ GroupVersions(2) = 27..40
      BY DEF GroupVersions
    <3> QED BY <3>1, <3>2, <3>3, Zenon
  <2>2. fits \in SUBSET (1..40) /\ 40 \in Nat
    BY <2>1
  <2> HIDE DEF fits
  <2>3. fits # {} => Min(fits) \in fits
    BY <2>2, MinOfSome, Zenon
  <2> QED BY <2>2, <2>3
<1> HIDE DEF fits, least
<1>3. StreamOK' /\ \/ pc' \in {"source", "version", "refused"} /\ m_nVersion' = m_nVersion
                   \/ pc' = "pad" /\ m_nVersion' \in 1..40
  <2>1. CASE NextGroup /\ m_nVersion' = m_nVersion
    <3>1. call.source # <<>>
      BY <1>1 DEF IInv, StreamOK
    <3> QED BY <1>1, <2>1, <3>1, NextGroupOK
  <2>2. CASE fits # {} /\ m_nVersion' = Max({least, call.version}) /\ pc' = "pad" /\ UNCHANGED stream
    <3>1. call.version \in 0..40
      BY CallOK DEF IInv
    <3>2. m_nVersion' \in 1..40
      <4>1. least \in 1..40
        BY <1>2, <2>2
      <4> DEFINE a == call.version
      <4>2. a \in 0..40 /\ m_nVersion' = Max({least, a})
        BY <2>2, <3>1
      <4> HIDE DEF a
      <4>3. Max({least, a}) \in {least, a} /\ Max({least, a}) >= least
        BY <4>1, <4>2, MaxOfTwo
      <4> QED BY <4>1, <4>2, <4>3
    <3>3. StreamOK'
      BY <1>1, <2>2 DEF IInv, StreamOK, stream, Versioned
    <3> QED BY <2>2, <3>2, <3>3
  <2>3. CASE pc' = "refused" /\ UNCHANGED <<m_nVersion, stream>>
    BY <1>1, <2>3 DEF IInv, StreamOK, stream
  <2> QED BY <1>1, <2>1, <2>2, <2>3
<1>4. /\ VersionOK' /\ DataOK' /\ AllOK' /\ BlockOK' /\ WorkOK' /\ PlaceOK' /\ MaskOK'
      /\ call' \in Calls
  BY <1>1, <1>3, BeforeCodewords
<1> QED BY <1>3, <1>4 DEF IInv

-----------------------------------------------------------------------------
(* The stream becomes codewords *)

\* What depends on the version and the call alone stays with them.
LEMMA SameTables ==
  ASSUME UNCHANGED <<call, m_nVersion>>
  PROVE  /\ Info' = Info /\ Block1' = Block1 /\ Block2' = Block2 /\ ncBlockSum' = ncBlockSum
         /\ \A b : BlockOf(b)' = BlockOf(b) /\ StartOf(b)' = StartOf(b)
<1>1. Info' = Info
  BY DEF Info
<1>2. Block1' = Block1 /\ Block2' = Block2
  BY <1>1 DEF Block1, Block2
<1>3. ncBlockSum' = ncBlockSum
  BY <1>2 DEF ncBlockSum
<1>4. \A b : BlockOf(b)' = BlockOf(b) /\ StartOf(b)' = StartOf(b)
  BY <1>2 DEF BlockOf, StartOf
<1> QED BY <1>1, <1>2, <1>3, <1>4

\* The stream stays as it is.
LEMMA StreamStays ==
  ASSUME IInv, UNCHANGED <<call, stream, m_nVersion>>, pc \in Versioned, pc' \in Versioned
  PROVE  call' \in Calls /\ m_nVersion \in 1..40 /\ StreamOK' /\ VersionOK'
<1>1. StreamOK'
  BY DEF IInv, StreamOK, stream, Versioned
<1>2. VersionOK' /\ m_nVersion \in 1..40
  BY DEF IInv, VersionOK
<1> QED BY <1>1, <1>2 DEF IInv

\* So do the masks.
LEMMA MasksStay ==
  ASSUME IInv, UNCHANGED masking, pc \notin {"format", "done"}
  PROVE  MaskOK'
BY DEF IInv, MaskOK, masking

\* What is in an interval is below its bound.
LEMMA BelowBound ==
  ASSUME NEW m \in Nat, NEW x \in 0..(m - 1)
  PROVE  x < m
OBVIOUS

\* An interval that starts at one.
LEMMA OneUpTo ==
  ASSUME NEW m \in Nat, NEW x \in 1..m
  PROVE  x \in Nat /\ x \in Int /\ 0 < x /\ 0 <= x /\ x <= m /\ 0..(x - 1) \subseteq 0..(m - 1)
OBVIOUS

\* The sizes of the version and level of the call.
LEMMA Sizes ==
  ASSUME call \in Calls, m_nVersion \in 1..40
  PROVE  /\ Info.ncAllCodeWord \in Nat /\ 0 < Info.ncAllCodeWord
         /\ 0..(Info.ncAllCodeWord - 1) \subseteq 0..(MAX_ALLCODEWORD - 1)
         /\ Info.ncDataCodeWord[call.level] \in Nat
         /\ Info.ncDataCodeWord[call.level] <= MAX_DATACODEWORD
         /\ ncBlockSum \in Nat \ {0} /\ StartOf(0) = 0
<1>1. LevelOf(Info, call.level) /\ Info.ncAllCodeWord \in 1..MAX_ALLCODEWORD
  BY ChosenVersion
<1>2. MAX_ALLCODEWORD \in Nat /\ MAX_DATACODEWORD \in Nat /\ MAX_CODEBLOCK \in Nat
  BY DEF MAX_ALLCODEWORD, MAX_DATACODEWORD, MAX_CODEBLOCK
<1>3. /\ Info.ncAllCodeWord \in Nat /\ 0 < Info.ncAllCodeWord
      /\ 0..(Info.ncAllCodeWord - 1) \subseteq 0..(MAX_ALLCODEWORD - 1)
  BY <1>1, <1>2, OneUpTo, Zenon
<1>4. Info.ncDataCodeWord[call.level] \in 1..MAX_DATACODEWORD
  BY <1>1, Zenon DEF LevelOf
<1>5. /\ Info.ncDataCodeWord[call.level] \in Nat
      /\ Info.ncDataCodeWord[call.level] <= MAX_DATACODEWORD
  BY <1>2, <1>4, OneUpTo, Zenon
<1> DEFINE n1 == Block1.ncRSBlock
           n2 == Block2.ncRSBlock
           d1 == Block1.ncDataCodeWord
<1>6. n1 \in 1..100 /\ n2 \in 0..100 /\ d1 \in 1..MAX_CODEBLOCK
  BY <1>1, Zenon DEF LevelOf, Block1, Block2
<1>7. ncBlockSum = n1 + n2
  BY DEF ncBlockSum
<1>8. StartOf(0) = IF 0 <= n1 THEN 0 * d1 ELSE n1 * d1 + (0 - n1) * Block2.ncDataCodeWord
  BY DEF StartOf
<1> HIDE DEF n1, n2, d1
<1>9. ncBlockSum \in Nat \ {0}
  BY <1>6, <1>7
<1>10. 0 <= n1 /\ 0 * d1 = 0
  BY <1>2, <1>6
<1> QED BY <1>3, <1>5, <1>8, <1>9, <1>10

\* Pad: the stream becomes the data codewords.
LEMMA PadPreserves == IInv /\ Pad => IInv'
<1> SUFFICES ASSUME IInv, Pad PROVE IInv'
  OBVIOUS
<1>0. /\ pc = "pad" /\ pc' = "data" /\ UNCHANGED <<call, stream, m_nVersion>>
      /\ UNCHANGED masking /\ pc \in Versioned /\ pc' \in Versioned
      /\ nBlockNo' = 0 /\ nDataCwIndex' = 0
      /\ m_byAllCodeWord' = [p \in 0..(Info.ncAllCodeWord - 1) |-> 0]
  BY DEF Pad, Versioned
<1>1. call' \in Calls /\ call \in Calls /\ m_nVersion \in 1..40 /\ StreamOK' /\ VersionOK' /\ MaskOK'
  BY <1>0, StreamStays, MasksStay DEF IInv
<1> DEFINE n == Info.ncDataCodeWord[call.level]
<1>3. n \in Nat /\ n <= MAX_DATACODEWORD
  BY <1>1, Sizes
<1>4. DataOK'
  <2> DEFINE pad == Min({4, 8 * n - Len(bits)})
             closed == bits \o Bits(0, pad)
             used == (Len(closed) + 7) \div 8
             At(k) == IF k <= Len(closed) THEN closed[k] ELSE 0
             B(i) == 128 * At(8 * (i - 1) + 1) + 64 * At(8 * (i - 1) + 2)
                       + 32 * At(8 * (i - 1) + 3) + 16 * At(8 * (i - 1) + 4)
                       + 8 * At(8 * (i - 1) + 5) + 4 * At(8 * (i - 1) + 6)
                       + 2 * At(8 * (i - 1) + 7) + At(8 * (i - 1) + 8)
             word(i) == IF i <= used THEN B(i) ELSE IF (i - used) % 2 = 1 THEN 236 ELSE 17
  <2>1. m_byDataCodeWord' = [i \in 1..n |-> word(i)]
    BY DEF Pad
  <2>2. bits \in Seq(Bit) /\ Len(bits) \in Nat
    BY DEF IInv, StreamOK
  <2>3. pad \in Int /\ pad <= 4
    <3> DEFINE room == 8 * n - Len(bits)
    <3>1. room \in Int
      <4> HIDE DEF n
      <4> QED BY <1>3, <2>2
    <3>2. pad = Min({4, room})
      OBVIOUS
    <3> HIDE DEF room, pad
    <3>3. Min({4, room}) \in {4, room} /\ Min({4, room}) <= 4
      BY <3>1, MinOfTwo
    <3> QED BY <3>1, <3>2, <3>3
  <2> HIDE DEF pad
  <2>4. Bits(0, pad) \in Seq(Bit)
    <3>1. CASE pad \in 0..16
      <4>1. 0 \in Int
        OBVIOUS
      <4> QED BY <3>1, <4>1, BitsAreBits, Zenon
    <3>2. CASE pad \notin 0..16
      <4>1. 1..pad = {} /\ 1..0 = {}
        BY <2>3, <3>2
      <4>2. Bits(0, pad) = [k \in 1..0 |-> 0]
        BY <4>1 DEF Bits
      <4>3. Bits(0, pad) \in [1..0 -> Bit] /\ 0 \in Nat
        BY <4>1, <4>2
      <4> QED BY <4>3
    <3> QED BY <3>1, <3>2
  <2>5. closed \in Seq(Bit)
    BY <2>2, <2>4
  <2> HIDE DEF closed
  <2>6. \A k \in Nat \ {0} : At(k) \in Bit
    BY <2>5 DEF Bit
  <2> HIDE DEF At
  <2>7. \A i \in 1..n : B(i) \in Byte
    <3> TAKE i \in 1..n
    <3>1. \A k \in 1..8 : 8 * (i - 1) + k \in Nat \ {0}
      BY <1>3
    <3>2. \A k \in 1..8 : At(8 * (i - 1) + k) \in Bit
      BY <2>6, <3>1
    <3> DEFINE b(k) == At(8 * (i - 1) + k)
    <3>3. B(i) = 128 * b(1) + 64 * b(2) + 32 * b(3) + 16 * b(4)
                   + 8 * b(5) + 4 * b(6) + 2 * b(7) + b(8)
      OBVIOUS
    <3> HIDE DEF b, B
    <3>4. /\ b(1) \in Bit /\ b(2) \in Bit /\ b(3) \in Bit /\ b(4) \in Bit
          /\ b(5) \in Bit /\ b(6) \in Bit /\ b(7) \in Bit /\ b(8) \in Bit
      BY <3>2 DEF b
    <3> QED BY <3>3, <3>4 DEF Bit, Byte
  <2> HIDE DEF B
  <2>8. \A i \in 1..n : word(i) \in Byte
    <3>1. 236 \in Byte /\ 17 \in Byte
      BY DEF Byte
    <3> QED BY <2>7, <3>1, Zenon
  <2> HIDE DEF word
  <2>9. m_byDataCodeWord' \in Seq(Byte) /\ Len(m_byDataCodeWord') = n
    <3> HIDE DEF n
    <3>1. m_byDataCodeWord' \in [1..n -> Byte]
      BY <2>1, <2>8
    <3> QED BY <1>3, <3>1
  <2>10. Info'.ncDataCodeWord[call'.level] = n
    BY <1>0, SameTables
  <2> HIDE DEF n
  <2> QED BY <1>3, <2>9, <2>10 DEF DataOK
<1>5. AllOK'
  <2>1. 0 \in Byte
    BY DEF Byte
  <2>2. Info' = Info
    BY <1>0, SameTables
  <2>3. DOMAIN m_byAllCodeWord' = 0..(Info.ncAllCodeWord - 1)
    BY <1>0
  <2>4. \A p \in DOMAIN m_byAllCodeWord' : m_byAllCodeWord'[p] \in Byte
    BY <1>0, <2>1
  <2>5. 0..(Info.ncAllCodeWord - 1) \subseteq 0..(MAX_ALLCODEWORD - 1)
    BY <1>1, Sizes
  <2> QED BY <2>2, <2>3, <2>4, <2>5 DEF AllOK
<1>6. BlockOK'
  <2>1. ncBlockSum' = ncBlockSum
    BY <1>0, SameTables
  <2>2. ncBlockSum \in Nat \ {0} /\ StartOf(0) = 0
    BY <1>1, Sizes
  <2>3. StartOf(nBlockNo)' = 0
    <3>1. StartOf(0)' = StartOf(0)
      BY <1>0, SameTables
    <3>2. StartOf(nBlockNo)' = StartOf(0)'
      BY <1>0 DEF StartOf
    <3> QED BY <2>2, <3>1, <3>2
  <2> QED BY <1>0, <2>1, <2>2, <2>3 DEF BlockOK
<1>7. WorkOK' /\ PlaceOK'
  BY <1>0 DEF WorkOK, PlaceOK
<1> QED BY <1>1, <1>4, <1>5, <1>6, <1>7 DEF IInv

-----------------------------------------------------------------------------
(* The codewords, block by block *)

\* The current block, as the invariant describes it.
LEMMA InBlock ==
  ASSUME IInv, pc \in InBlocks
  PROVE  /\ pc \in Padded /\ pc \in Versioned /\ call \in Calls /\ m_nVersion \in 1..40
         /\ ncBlockSum \in Nat \ {0} /\ nBlockNo \in 0..(ncBlockSum - 1)
         /\ nData \in 1..MAX_CODEBLOCK /\ nRS \in RSDegrees /\ nDataCwIndex \in Nat
         /\ nDataCwIndex + nData <= Len(m_byDataCodeWord)
         /\ Len(m_byDataCodeWord) = Info.ncDataCodeWord[call.level]
         /\ StartOf(nBlockNo + 1) = nDataCwIndex + nData
         /\ LastDataPlace < Info.ncDataCodeWord[call.level]
         /\ LastRSPlace \in 0..(Info.ncAllCodeWord - 1)
         /\ DOMAIN m_byAllCodeWord = 0..(Info.ncAllCodeWord - 1)
         /\ m_byDataCodeWord \in Seq(Byte)
<1>1. pc \in Padded /\ pc \in Versioned
  BY DEF InBlocks, Padded, Versioned
<1>2. call \in Calls /\ m_nVersion \in 1..40
  BY <1>1 DEF IInv, VersionOK
<1>3. nBlockNo \in 0..(ncBlockSum - 1) /\ nDataCwIndex = StartOf(nBlockNo)
  BY DEF IInv, BlockOK
<1>4. Len(m_byDataCodeWord) = Info.ncDataCodeWord[call.level] /\ m_byDataCodeWord \in Seq(Byte)
  BY <1>1 DEF IInv, DataOK
<1>5. DOMAIN m_byAllCodeWord = 0..(Info.ncAllCodeWord - 1)
  BY <1>1 DEF IInv, AllOK
<1>6. /\ ncBlockSum \in Nat \ {0}
      /\ nData \in 1..MAX_CODEBLOCK /\ nRS \in RSDegrees /\ nDataCwIndex \in Nat
      /\ nDataCwIndex + nData <= Info.ncDataCodeWord[call.level]
      /\ StartOf(nBlockNo + 1) = nDataCwIndex + nData
      /\ LastDataPlace < Info.ncDataCodeWord[call.level]
      /\ LastRSPlace \in 0..(Info.ncAllCodeWord - 1)
  BY <1>2, <1>3, CurrentBlock, Zenon
<1> QED BY <1>1, <1>2, <1>3, <1>4, <1>5, <1>6

\* The next block starts where this one ends, or the loop starts anew.
LEMMA NextBlockOK ==
  ASSUME IInv, pc \in InBlocks, UNCHANGED <<call, m_nVersion>>,
         NEW again, NEW loop, NextBlock(again, loop)
  PROVE  BlockOK' /\ (pc' = again \/ pc' = loop)
<1>1. /\ ncBlockSum' = ncBlockSum /\ StartOf(0)' = StartOf(0)
      /\ StartOf(nBlockNo + 1) = nDataCwIndex + nData
      /\ ncBlockSum \in Nat \ {0} /\ nBlockNo \in 0..(ncBlockSum - 1)
      /\ Block1' = Block1 /\ Block2' = Block2
  BY InBlock, SameTables
<1>2. StartOf(0) = 0
  BY InBlock, Sizes
<1>3. CASE nBlockNo + 1 < ncBlockSum
  <2>1. nBlockNo' = nBlockNo + 1 /\ nDataCwIndex' = nDataCwIndex + nData /\ pc' = again
    BY <1>3 DEF NextBlock, nData
  <2>2. StartOf(nBlockNo)' = StartOf(nBlockNo + 1)
    BY <1>1, <2>1 DEF StartOf
  <2>3. nBlockNo' \in 0..(ncBlockSum - 1)
    BY <1>1, <1>3, <2>1
  <2> QED BY <1>1, <2>1, <2>2, <2>3 DEF BlockOK
<1>4. CASE ~(nBlockNo + 1 < ncBlockSum)
  <2>1. nBlockNo' = 0 /\ nDataCwIndex' = 0 /\ pc' = loop
    BY <1>4 DEF NextBlock
  <2>2. StartOf(nBlockNo)' = 0
    BY <1>1, <1>2, <2>1 DEF StartOf
  <2>3. nBlockNo' \in 0..(ncBlockSum - 1)
    BY <1>1, <2>1
  <2> QED BY <1>1, <2>1, <2>2, <2>3 DEF BlockOK
<1> QED BY <1>3, <1>4

\* The data codewords stay, and those placed are bytes on the same places.
LEMMA AllCodewordsStay ==
  ASSUME IInv, pc \in Padded, pc' \in Padded, UNCHANGED <<call, m_nVersion, m_byDataCodeWord>>,
         DOMAIN m_byAllCodeWord' = DOMAIN m_byAllCodeWord,
         \A p \in DOMAIN m_byAllCodeWord : m_byAllCodeWord'[p] \in Byte
  PROVE  DataOK' /\ AllOK'
<1>1. Info' = Info
  BY SameTables
<1>2. DataOK'
  BY <1>1 DEF IInv, DataOK
<1>3. AllOK'
  BY <1>1 DEF IInv, AllOK
<1> QED BY <1>2, <1>3

\* PlaceData: the codewords come from inside the block.
LEMMA DataPreserves == IInv /\ PlaceData => IInv'
<1> SUFFICES ASSUME IInv, PlaceData PROVE IInv'
  OBVIOUS
<1> DEFINE n      == BlockOf(nBlockNo).ncDataCodeWord
           common == Min({n, Block1.ncDataCodeWord})
           extra  == ncBlockSum * Block1.ncDataCodeWord + (nBlockNo - Block1.ncRSBlock)
           place(p) ==
             CASE p % ncBlockSum = nBlockNo /\ p \div ncBlockSum < common ->
                    m_byDataCodeWord[nDataCwIndex + 1 + (p \div ncBlockSum)]
               [] n > common /\ p = extra -> m_byDataCodeWord[nDataCwIndex + n]
               [] OTHER -> m_byAllCodeWord[p]
<1>1. /\ pc = "data" /\ UNCHANGED <<call, stream, m_nVersion, m_byDataCodeWord>>
      /\ UNCHANGED masking /\ NextBlock("data", "rs")
      /\ m_byAllCodeWord' = [p \in DOMAIN m_byAllCodeWord |-> place(p)]
  BY DEF PlaceData
<1>2. pc \in InBlocks
  BY <1>1 DEF InBlocks
<1>3. BlockOK' /\ pc' \in {"data", "rs"}
  BY <1>1, <1>2, NextBlockOK
<1>4. pc' \in Versioned /\ pc' \in Padded /\ pc' # "divide" /\ pc' # "place"
  BY <1>3 DEF Versioned, Padded
<1>5. call' \in Calls /\ StreamOK' /\ VersionOK' /\ MaskOK'
  BY <1>1, <1>2, <1>4, InBlock, StreamStays, MasksStay
<1>6. ASSUME NEW p \in DOMAIN m_byAllCodeWord PROVE place(p) \in Byte
  <2>1. /\ nDataCwIndex \in Nat /\ nDataCwIndex + n <= Len(m_byDataCodeWord)
        /\ m_byDataCodeWord \in Seq(Byte) /\ ncBlockSum \in Nat \ {0}
    BY <1>2, InBlock DEF nData
  <2>2. n \in 1..MAX_CODEBLOCK
    BY <1>2, InBlock DEF nData
  <2>3. n \in Nat /\ 0 < n /\ n \in Int
    <3>1. MAX_CODEBLOCK \in Nat
      BY DEF MAX_CODEBLOCK
    <3> HIDE DEF n
    <3> QED BY <2>2, <3>1, OneUpTo
  <2>4. m_byAllCodeWord[p] \in Byte
    BY DEF IInv, AllOK
  <2>5. p \in Nat
    BY <1>2, InBlock
  <2>6. common <= n /\ common \in Int
    <3> DEFINE d1 == Block1.ncDataCodeWord
    <3>1. d1 \in Int
      <4>1. LevelOf(Info, call.level)
        BY <1>2, InBlock, ChosenVersion
      <4>2. d1 \in 1..MAX_CODEBLOCK
        BY <4>1, Zenon DEF LevelOf, Block1
      <4>3. MAX_CODEBLOCK \in Nat
        BY DEF MAX_CODEBLOCK
      <4> HIDE DEF d1
      <4> QED BY <4>2, <4>3, OneUpTo
    <3> HIDE DEF n, d1
    <3>2. Min({n, d1}) \in {n, d1} /\ Min({n, d1}) <= n
      BY <2>3, <3>1, MinOfTwo
    <3> QED BY <2>3, <3>1, <3>2 DEF d1
  <2> HIDE DEF n, common, extra
  <2>7. nDataCwIndex + n \in 1..Len(m_byDataCodeWord)
    BY <2>1, <2>3
  <2>8. m_byDataCodeWord[nDataCwIndex + n] \in Byte
    BY <2>1, <2>7
  <2>9. CASE p % ncBlockSum = nBlockNo /\ p \div ncBlockSum < common
    <3> DEFINE q == p \div ncBlockSum
    <3>1. q \in Nat /\ q < common
      BY <2>1, <2>5, <2>9
    <3> HIDE DEF q
    <3>2. nDataCwIndex + 1 + q \in 1..Len(m_byDataCodeWord)
      BY <2>1, <2>3, <2>6, <3>1
    <3>3. m_byDataCodeWord[nDataCwIndex + 1 + q] \in Byte
      BY <2>1, <3>2
    <3> QED BY <2>4, <2>9, <2>8, <3>3 DEF q
  <2>10. CASE ~(p % ncBlockSum = nBlockNo /\ p \div ncBlockSum < common)
    BY <2>4, <2>8, <2>10
  <2> QED BY <2>9, <2>10
<1> HIDE DEF place
<1>7. DataOK' /\ AllOK'
  BY <1>1, <1>2, <1>4, <1>6, InBlock, AllCodewordsStay
<1>8. WorkOK' /\ PlaceOK'
  BY <1>4 DEF WorkOK, PlaceOK
<1> QED BY <1>3, <1>5, <1>7, <1>8 DEF IInv

\* A part of a sequence, filled up.
Filled(s, a, n, m, z) == SubSeq(s, a + 1, a + n) \o [j \in 1..(m - n) |-> z]

LEMMA FilledUp ==
  ASSUME NEW S, NEW s \in Seq(S), NEW a \in Nat, NEW n \in Nat, a + n <= Len(s),
         NEW m \in Nat, n <= m, NEW z \in S
  PROVE  Filled(s, a, n, m, z) \in [1..m -> S]
<1> DEFINE t == SubSeq(s, a + 1, a + n)
           u == [j \in 1..(m - n) |-> z]
<1>1. t \in Seq(S) /\ Len(t) = n
  OBVIOUS
<1>2. m - n \in Nat /\ u \in [1..(m - n) -> S]
  OBVIOUS
<1>3. u \in Seq(S) /\ Len(u) = m - n
  BY <1>2
<1> HIDE DEF t, u
<1>4. t \o u \in Seq(S) /\ Len(t \o u) = m
  <2>1. t \o u \in Seq(S) /\ Len(t \o u) = Len(t) + Len(u)
    BY <1>1, <1>3
  <2> QED BY <1>1, <1>3, <2>1
<1> DEFINE v == t \o u
<1> HIDE DEF v
<1>5. v \in [1..m -> S]
  <2>1. v \in Seq(S) /\ Len(v) = m
    BY <1>4 DEF v
  <2>2. DOMAIN v = 1..m /\ \A i \in 1..m : v[i] \in S
    BY <2>1
  <2>3. v = [i \in DOMAIN v |-> v[i]]
    BY <2>1
  <2> QED BY <2>2, <2>3
<1> QED BY <1>5 DEF t, u, v, Filled

\* The block and its place stay as they are.
LEMMA BlockStays ==
  ASSUME IInv, pc \in InBlocks, UNCHANGED <<call, m_nVersion, nBlockNo, nDataCwIndex>>
  PROVE  BlockOK' /\ nData' = nData
<1>1. /\ ncBlockSum' = ncBlockSum /\ Block1' = Block1 /\ Block2' = Block2
  BY SameTables
<1>2. StartOf(nBlockNo)' = StartOf(nBlockNo)
  BY <1>1 DEF StartOf
<1>3. nData' = nData
  BY <1>1 DEF nData, BlockOf
<1> QED BY <1>1, <1>2, <1>3 DEF BlockOK, IInv

\* LoadBlock: the block fits into the work area.
LEMMA LoadPreserves == IInv /\ LoadBlock => IInv'
<1> SUFFICES ASSUME IInv, LoadBlock PROVE IInv'
  OBVIOUS
<1>1. /\ pc = "rs" /\ pc' = "divide" /\ turn' = 0
      /\ UNCHANGED <<call, stream, m_nVersion, m_byDataCodeWord>>
      /\ UNCHANGED <<m_byAllCodeWord, nBlockNo, nDataCwIndex>> /\ UNCHANGED masking
      /\ m_byRSWork' = SubSeq(m_byDataCodeWord, nDataCwIndex + 1, nDataCwIndex + nData)
                         \o [j \in 1..(MAX_CODEBLOCK + 1 - nData) |-> 0]
  BY DEF LoadBlock
<1>2. pc \in InBlocks /\ pc' \in Versioned /\ pc' \in Padded
  BY <1>1 DEF InBlocks, Versioned, Padded
<1>3. call' \in Calls /\ StreamOK' /\ VersionOK' /\ MaskOK'
  BY <1>1, <1>2, InBlock, StreamStays, MasksStay
<1>4. BlockOK' /\ nData' = nData
  BY <1>1, <1>2, BlockStays
<1>5. DataOK' /\ AllOK'
  <2>1. \A p \in DOMAIN m_byAllCodeWord : m_byAllCodeWord[p] \in Byte
    BY DEF IInv, AllOK
  <2> QED BY <1>1, <1>2, <2>1, InBlock, AllCodewordsStay
<1>6. WorkOK'
  <2>1. /\ m_byDataCodeWord \in Seq(Byte) /\ nDataCwIndex \in Nat
        /\ nDataCwIndex + nData <= Len(m_byDataCodeWord)
        /\ nData \in 1..MAX_CODEBLOCK /\ 0 \in Byte
    BY <1>2, InBlock DEF Byte
  <2>2. MAX_CODEBLOCK \in Nat /\ MAX_CODEBLOCK + 1 \in Nat
    BY DEF MAX_CODEBLOCK
  <2>3. nData \in Nat /\ nData <= MAX_CODEBLOCK + 1 /\ 0 \in 0..nData
    <3>1. nData \in Nat /\ nData <= MAX_CODEBLOCK
      BY <2>1, <2>2, OneUpTo
    <3> QED BY <2>2, <3>1
  <2>4. m_byRSWork' \in [1..(MAX_CODEBLOCK + 1) -> Byte]
    <3> DEFINE m == MAX_CODEBLOCK + 1
    <3>1. m \in Nat /\ nData <= m
      BY <2>2, <2>3
    <3>2. MAX_CODEBLOCK + 1 - nData = m - nData
      BY <2>2, <2>3
    <3> HIDE DEF m
    <3>3. Filled(m_byDataCodeWord, nDataCwIndex, nData, m, 0) \in [1..m -> Byte]
      BY <2>1, <2>3, <3>1, FilledUp
    <3>4. m_byRSWork' = Filled(m_byDataCodeWord, nDataCwIndex, nData, m, 0)
      BY <1>1, <3>2 DEF Filled
    <3> QED BY <3>3, <3>4 DEF m
  <2> QED BY <1>1, <1>4, <2>3, <2>4 DEF WorkOK
<1>7. PlaceOK'
  BY <1>1 DEF PlaceOK
<1> QED BY <1>3, <1>4, <1>5, <1>6, <1>7 DEF IInv

\* DivideTurn: the work area is read one place ahead, never past its end.
LEMMA TurnPreserves == IInv /\ DivideTurn => IInv'
<1> SUFFICES ASSUME IInv, DivideTurn PROVE IInv'
  OBVIOUS
<1> DEFINE w == m_byRSWork
           Term(j) == byExpToInt[(byRSExp[nRS][j] + byIntToExp[w[1]]) % 255]
           word(j) == IF w[1] # 0 /\ j <= nRS THEN Xor8(w[j + 1], Term(j))
                      ELSE IF j <= nData THEN w[j + 1] ELSE w[j]
<1>1. /\ pc = "divide" /\ pc' = "divide" /\ turn < nData /\ turn' = turn + 1
      /\ UNCHANGED <<call, stream, m_nVersion, m_byDataCodeWord>>
      /\ UNCHANGED <<m_byAllCodeWord, nBlockNo, nDataCwIndex>> /\ UNCHANGED masking
      /\ m_byRSWork' = [j \in DOMAIN w |-> word(j)]
  BY DEF DivideTurn
<1> HIDE DEF word
<1>2. pc \in InBlocks /\ pc' \in Versioned /\ pc' \in Padded
  BY <1>1 DEF InBlocks, Versioned, Padded
<1>3. call' \in Calls /\ StreamOK' /\ VersionOK' /\ MaskOK'
  BY <1>1, <1>2, InBlock, StreamStays, MasksStay
<1>4. BlockOK' /\ nData' = nData
  BY <1>1, <1>2, BlockStays
<1>5. DataOK' /\ AllOK'
  <2>1. \A p \in DOMAIN m_byAllCodeWord : m_byAllCodeWord[p] \in Byte
    BY DEF IInv, AllOK
  <2> QED BY <1>1, <1>2, <2>1, InBlock, AllCodewordsStay
<1>6. WorkOK'
  <2>1. w \in [1..(MAX_CODEBLOCK + 1) -> Byte] /\ turn \in 0..nData
    BY <1>1 DEF IInv, WorkOK
  <2>2. nData \in 1..MAX_CODEBLOCK /\ nRS \in RSDegrees
    BY <1>2, InBlock
  <2>3. nData \in Nat /\ nData <= 123 /\ nRS \in 7..30
    <3>1. nData \in Nat /\ nData <= MAX_CODEBLOCK
      <4>1. MAX_CODEBLOCK \in Nat
        BY DEF MAX_CODEBLOCK
      <4> QED BY <2>2, <4>1, OneUpTo
    <3> QED BY <2>2, <3>1 DEF MAX_CODEBLOCK, RSDegrees
  <2>4. \A j \in 1..124 : w[j] \in Byte
    BY <2>1 DEF MAX_CODEBLOCK
  <2> HIDE DEF w
  <2>5. ASSUME NEW j \in 1..124 PROVE word(j) \in Byte
    <3>1. CASE w[1] # 0 /\ j <= nRS
      <4>1. j + 1 \in 1..124 /\ 1 \in 1..124 /\ j \in 1..nRS
        BY <2>3, <3>1
      <4>2. w[j + 1] \in Byte /\ w[1] \in Byte
        BY <2>4, <4>1
      <4>3. byRSExp[nRS][j] \in Byte
        BY <2>2, <4>1, RSExpIsByte
      <4>4. byIntToExp[w[1]] \in Byte
        BY <4>2, IntToExpIsByte, Zenon DEF Byte
      <4>5. Term(j) \in Byte
        <5> DEFINE x == byRSExp[nRS][j]
                   y == byIntToExp[w[1]]
        <5>1. x \in Byte /\ y \in Byte
          BY <4>3, <4>4
        <5> HIDE DEF x, y
        <5>2. (x + y) % 255 \in 0..255
          BY <5>1 DEF Byte
        <5>3. byExpToInt[(x + y) % 255] \in Byte
          BY <5>2, ExpToIntIsByte, Zenon
        <5> QED BY <5>3 DEF x, y
      <4> HIDE DEF Term
      <4>6. Xor8(w[j + 1], Term(j)) \in Byte
        BY <4>2, <4>5, Xor8IsByte, Zenon DEF Byte
      <4> QED BY <3>1, <4>6 DEF word
    <3>2. CASE ~(w[1] # 0 /\ j <= nRS) /\ j <= nData
      <4>1. j + 1 \in 1..124
        BY <2>3, <3>2
      <4>2. w[j + 1] \in Byte
        BY <2>4, <4>1
      <4> QED BY <3>2, <4>2, Zenon DEF word
    <3>3. CASE ~(w[1] # 0 /\ j <= nRS) /\ ~(j <= nData)
      BY <2>4, <3>3, Zenon DEF word
    <3> QED BY <3>1, <3>2, <3>3
  <2>6. m_byRSWork' \in [1..124 -> Byte]
    <3>1. DOMAIN w = 1..124
      BY <2>1 DEF MAX_CODEBLOCK
    <3> QED BY <1>1, <2>5, <3>1
  <2>7. turn' \in 0..nData
    BY <1>1, <2>1, <2>3
  <2>8. MAX_CODEBLOCK + 1 = 124
    BY DEF MAX_CODEBLOCK
  <2> QED BY <1>4, <2>6, <2>7, <2>8 DEF WorkOK
<1>7. PlaceOK'
  BY <1>1 DEF PlaceOK
<1> QED BY <1>3, <1>4, <1>5, <1>6, <1>7 DEF IInv

\* PlaceRS: the remainder lies in the work area.
LEMMA RSPreserves == IInv /\ PlaceRS => IInv'
<1> SUFFICES ASSUME IInv, PlaceRS PROVE IInv'
  OBVIOUS
<1> DEFINE first == Info.ncDataCodeWord[call.level] + nBlockNo
           place(p) == IF p >= first /\ (p - first) % ncBlockSum = 0
                           /\ (p - first) \div ncBlockSum < nRS
                       THEN m_byRSWork[1 + ((p - first) \div ncBlockSum)]
                       ELSE m_byAllCodeWord[p]
<1>1. /\ pc = "divide" /\ UNCHANGED <<call, stream, m_nVersion, m_byDataCodeWord>>
      /\ UNCHANGED masking /\ NextBlock("rs", "function")
      /\ m_byAllCodeWord' = [p \in DOMAIN m_byAllCodeWord |-> place(p)]
  BY DEF PlaceRS
<1>2. pc \in InBlocks
  BY <1>1 DEF InBlocks
<1>3. BlockOK' /\ pc' \in {"rs", "function"}
  BY <1>1, <1>2, NextBlockOK
<1>4. pc' \in Versioned /\ pc' \in Padded /\ pc' # "divide" /\ pc' # "place"
  BY <1>3 DEF Versioned, Padded
<1>5. call' \in Calls /\ StreamOK' /\ VersionOK' /\ MaskOK'
  BY <1>1, <1>2, <1>4, InBlock, StreamStays, MasksStay
<1>6. ASSUME NEW p \in DOMAIN m_byAllCodeWord PROVE place(p) \in Byte
  <2>1. m_byAllCodeWord[p] \in Byte
    BY DEF IInv, AllOK
  <2>2. /\ p \in Nat /\ nBlockNo \in Nat /\ ncBlockSum \in Nat \ {0} /\ nRS \in RSDegrees
        /\ Info.ncDataCodeWord[call.level] \in Nat
    BY <1>2, InBlock, Sizes
  <2>3. first \in Nat
    <3> DEFINE d == Info.ncDataCodeWord[call.level]
    <3>1. d \in Nat /\ first = d + nBlockNo
      BY <2>2
    <3> HIDE DEF d, first
    <3> QED BY <2>2, <3>1
  <2> HIDE DEF first
  <2>4. nRS \in 7..30
    BY <2>2 DEF RSDegrees
  <2>5. \A j \in 1..124 : m_byRSWork[j] \in Byte
    BY <1>1 DEF IInv, WorkOK, MAX_CODEBLOCK
  <2>6. CASE p >= first /\ (p - first) % ncBlockSum = 0 /\ (p - first) \div ncBlockSum < nRS
    <3> DEFINE q == (p - first) \div ncBlockSum
    <3>1. q \in Nat /\ q < nRS
      <4>1. p - first \in Nat
        BY <2>2, <2>3, <2>6
      <4> QED BY <2>2, <2>6, <4>1
    <3> HIDE DEF q
    <3>2. 1 + q \in 1..124
      BY <2>4, <3>1
    <3>3. m_byRSWork[1 + q] \in Byte
      BY <2>5, <3>2
    <3> QED BY <2>6, <3>3 DEF q
  <2>7. CASE ~(p >= first /\ (p - first) % ncBlockSum = 0 /\ (p - first) \div ncBlockSum < nRS)
    BY <2>1, <2>7
  <2> QED BY <2>6, <2>7
<1> HIDE DEF place
<1>7. DataOK' /\ AllOK'
  BY <1>1, <1>2, <1>4, <1>6, InBlock, AllCodewordsStay
<1>8. WorkOK' /\ PlaceOK'
  BY <1>4 DEF WorkOK, PlaceOK
<1> QED BY <1>3, <1>5, <1>7, <1>8 DEF IInv

-----------------------------------------------------------------------------
(* The codewords become modules *)

\* The codewords are there, and stay as they are.
LEMMA AfterCodewords ==
  ASSUME IInv, UNCHANGED <<call, stream, m_nVersion, words>>,
         pc \in {"function", "place", "mask", "format"},
         pc' \in {"place", "mask", "format", "done"}
  PROVE  /\ call \in Calls /\ m_nVersion \in 1..40
         /\ call' \in Calls /\ StreamOK' /\ VersionOK' /\ DataOK' /\ AllOK' /\ BlockOK' /\ WorkOK'
<1>1. pc \in Versioned /\ pc' \in Versioned /\ pc \in Padded /\ pc' \in Padded
      /\ pc' \notin InBlocks /\ pc' # "divide"
  BY DEF Versioned, Padded, InBlocks
<1>2. call' \in Calls /\ call \in Calls /\ m_nVersion \in 1..40 /\ StreamOK' /\ VersionOK'
  BY <1>1, StreamStays DEF IInv
<1>3. DataOK' /\ AllOK'
  <2>1. \A p \in DOMAIN m_byAllCodeWord : m_byAllCodeWord[p] \in Byte
    BY DEF IInv, AllOK
  <2>2. m_byDataCodeWord' = m_byDataCodeWord /\ m_byAllCodeWord' = m_byAllCodeWord
    BY DEF words
  <2> QED BY <1>1, <2>1, <2>2, AllCodewordsStay
<1>4. BlockOK' /\ WorkOK'
  BY <1>1 DEF BlockOK, WorkOK
<1> QED BY <1>2, <1>3, <1>4

\* DrawFunctions: there is a first codeword.
LEMMA DrawPreserves == IInv /\ DrawFunctions => IInv'
<1> SUFFICES ASSUME IInv, DrawFunctions PROVE IInv'
  OBVIOUS
<1>1. /\ pc = "function" /\ pc' = "place" /\ placed' = 0
      /\ UNCHANGED <<call, stream, m_nVersion, words>> /\ UNCHANGED masking
  BY DEF DrawFunctions
<1>2. /\ call \in Calls /\ m_nVersion \in 1..40
      /\ call' \in Calls /\ StreamOK' /\ VersionOK' /\ DataOK' /\ AllOK' /\ BlockOK' /\ WorkOK'
  BY <1>1, AfterCodewords
<1>3. PlaceOK'
  <2>1. Info' = Info
    BY <1>1, SameTables
  <2>2. Info.ncAllCodeWord \in Nat /\ 0 < Info.ncAllCodeWord
    BY <1>2, Sizes
  <2> QED BY <1>1, <2>1, <2>2 DEF PlaceOK
<1>4. MaskOK'
  <2>1. pc \notin {"format", "done"}
    BY <1>1
  <2> QED BY <1>1, <2>1, MasksStay, Zenon
<1> QED BY <1>2, <1>3, <1>4 DEF IInv

\* PlaceCodeWord: the loop ends with the last codeword.
LEMMA CodeWordPreserves == IInv /\ PlaceCodeWord => IInv'
<1> SUFFICES ASSUME IInv, PlaceCodeWord PROVE IInv'
  OBVIOUS
<1>1. /\ pc = "place" /\ placed' = placed + 1
      /\ UNCHANGED <<call, stream, m_nVersion, words>>
      /\ \/ placed' < Info.ncAllCodeWord /\ pc' = pc /\ UNCHANGED masking
         \/ pc' = "mask" /\ UNCHANGED masking
         \/ pc' = "format" /\ m_nMaskingNo' = call.mask /\ UNCHANGED <<trial, nMinPenalty>>
  BY Zenon DEF PlaceCodeWord
<1>2. /\ call \in Calls /\ m_nVersion \in 1..40
      /\ call' \in Calls /\ StreamOK' /\ VersionOK' /\ DataOK' /\ AllOK' /\ BlockOK' /\ WorkOK'
  BY <1>1, AfterCodewords
<1>3. PlaceOK'
  <2>1. Info' = Info
    BY <1>1, SameTables
  <2>2. Info.ncAllCodeWord \in Nat /\ 0 < Info.ncAllCodeWord
    BY <1>2, Sizes
  <2>3. placed \in 0..(Info.ncAllCodeWord - 1)
    BY <1>1 DEF IInv, PlaceOK
  <2>4. CASE pc' = "place"
    <3>1. placed' < Info.ncAllCodeWord
      BY <1>1, <2>4
    <3>2. placed' \in 0..(Info.ncAllCodeWord - 1)
      BY <1>1, <2>2, <2>3, <3>1
    <3> QED BY <2>1, <3>2 DEF PlaceOK
  <2> QED BY <2>4 DEF PlaceOK
<1>4. MaskOK'
  <2>1. CASE UNCHANGED masking
    BY <1>1, <2>1, MasksStay
  <2>2. CASE pc' = "format" /\ m_nMaskingNo' = call.mask /\ UNCHANGED <<trial, nMinPenalty>>
    <3>1. call.mask \in -1..7
      BY <1>2, CallOK
    <3> QED BY <2>2, <3>1 DEF IInv, MaskOK
  <2> QED BY <1>1, <2>1, <2>2
<1> QED BY <1>2, <1>3, <1>4 DEF IInv

\* TryMask: there are eight trials.
LEMMA MaskPreserves == IInv /\ TryMask => IInv'
<1> SUFFICES ASSUME IInv, TryMask PROVE IInv'
  OBVIOUS
<1>1. /\ pc = "mask" /\ trial' = trial + 1
      /\ UNCHANGED <<call, stream, m_nVersion, words>>
      /\ m_nMaskingNo' = trial \/ m_nMaskingNo' = m_nMaskingNo
      /\ pc' = IF trial = 7 THEN "format" ELSE pc
  BY DEF TryMask
<1>2. pc' \in {"mask", "format"}
  BY <1>1
<1>3. call' \in Calls /\ StreamOK' /\ VersionOK' /\ DataOK' /\ AllOK' /\ BlockOK' /\ WorkOK'
  BY <1>1, <1>2, AfterCodewords
<1>4. PlaceOK'
  BY <1>2 DEF PlaceOK
<1>5. MaskOK'
  <2>1. trial \in 0..7 /\ m_nMaskingNo \in -1..7
    BY <1>1 DEF IInv, MaskOK
  <2> QED BY <1>1, <2>1 DEF MaskOK
<1> QED BY <1>3, <1>4, <1>5 DEF IInv

\* Finish: nothing is indexed any more.
LEMMA FinishPreserves == IInv /\ Finish => IInv'
<1> SUFFICES ASSUME IInv, Finish PROVE IInv'
  OBVIOUS
<1>1. /\ pc = "format" /\ pc' = "done"
      /\ UNCHANGED <<call, stream, m_nVersion, words>> /\ UNCHANGED masking
  BY DEF Finish
<1>2. call' \in Calls /\ StreamOK' /\ VersionOK' /\ DataOK' /\ AllOK' /\ BlockOK' /\ WorkOK'
  BY <1>1, AfterCodewords
<1>3. PlaceOK'
  BY <1>1 DEF PlaceOK
<1>4. MaskOK'
  BY <1>1 DEF IInv, MaskOK, masking
<1> QED BY <1>2, <1>3, <1>4 DEF IInv

-----------------------------------------------------------------------------
(* The theorems *)

\* The invariant holds when the call is made.
LEMMA InitOK == Init => IInv
<1> SUFFICES ASSUME Init PROVE IInv
  OBVIOUS
<1>1. /\ call \in Calls /\ pc = "call" /\ group = 0 /\ nDataMode = "8bit" /\ ncComplete = 0
      /\ bits = <<>> /\ m_nVersion = 0 /\ m_byDataCodeWord = <<>> /\ m_byAllCodeWord = <<>>
      /\ m_nMaskingNo = -1 /\ trial = 0
  BY DEF Init
<1>2. StreamOK
  <2>1. call.source \in Seq(Byte)
    BY <1>1, CallOK
  <2>2. 0 \in 0..Len(call.source)
    BY <2>1
  <2> QED BY <1>1, <2>2 DEF StreamOK, Group, Mode, MAX_DATACODEWORD
<1>3. pc \notin Versioned /\ pc \notin Padded /\ pc \notin InBlocks
  BY <1>1 DEF Versioned, Padded, InBlocks
<1>4. VersionOK
  BY <1>1, <1>3 DEF VersionOK
<1>5. DataOK
  BY <1>1, <1>3 DEF DataOK, MAX_DATACODEWORD
<1>6. AllOK
  BY <1>1, <1>3 DEF AllOK
<1>7. BlockOK /\ WorkOK /\ PlaceOK
  BY <1>1, <1>3 DEF BlockOK, WorkOK, PlaceOK
<1>8. MaskOK
  BY <1>1 DEF MaskOK
<1> QED BY <1>1, <1>2, <1>4, <1>5, <1>6, <1>7, <1>8 DEF IInv

\* It depends on nothing else.
LEMMA StutterPreserves == IInv /\ UNCHANGED vars => IInv'
<1> SUFFICES ASSUME IInv, UNCHANGED vars PROVE IInv'
  OBVIOUS
<1>1. /\ UNCHANGED <<call, pc, stream, m_nVersion, words, placed>> /\ UNCHANGED masking
      /\ UNCHANGED <<m_byDataCodeWord, m_byAllCodeWord, nBlockNo, nDataCwIndex, m_byRSWork, turn>>
  BY DEF vars, symbol, words
<1>2. /\ Info' = Info /\ ncBlockSum' = ncBlockSum /\ Block1' = Block1 /\ Block2' = Block2
  BY <1>1, SameTables
<1>3. nData' = nData /\ StartOf(nBlockNo)' = StartOf(nBlockNo)
  BY <1>1, <1>2 DEF nData, BlockOf, StartOf
<1>4. StreamOK' /\ VersionOK'
  BY <1>1 DEF IInv, StreamOK, VersionOK, stream
<1>5. DataOK' /\ AllOK'
  BY <1>1, <1>2 DEF IInv, DataOK, AllOK
<1>6. BlockOK' /\ WorkOK' /\ PlaceOK'
  BY <1>1, <1>2, <1>3 DEF IInv, BlockOK, WorkOK, PlaceOK
<1>7. MaskOK'
  BY <1>1 DEF IInv, MaskOK, masking
<1> QED BY <1>1, <1>4, <1>5, <1>6, <1>7 DEF IInv

\* Every step preserves it.
LEMMA NextPreserves == IInv /\ [Next]_vars => IInv'
BY CallPreserves, SegmentPreserves, VersionPreserves, PadPreserves, DataPreserves, LoadPreserves,
   TurnPreserves, RSPreserves, DrawPreserves, CodeWordPreserves, MaskPreserves, FinishPreserves,
   StutterPreserves, Zenon DEF Next

\* So it is an invariant.
LEMMA Inductive == Spec => []IInv
BY InitOK, NextPreserves, PTL DEF Spec

\* The bounds follow from it.
LEMMA IInvInBounds == IInv => InBounds
<1> SUFFICES ASSUME IInv PROVE InBounds
  OBVIOUS
<1>1. /\ pc \in {"call", "source", "version", "pad", "data", "rs", "divide", "function",
                 "place", "mask", "format", "done", "refused"}
      /\ group \in Group /\ nDataMode \in Mode /\ ncComplete \in 0..Len(call.source)
      /\ Len(bits) <= 8 * MAX_DATACODEWORD
  BY DEF IInv, StreamOK, Versioned
<1>2. m_nVersion \in 0..40
  BY DEF IInv, VersionOK
<1>3. m_byDataCodeWord \in Seq(0..255) /\ Len(m_byDataCodeWord) <= MAX_DATACODEWORD
  BY Zenon DEF IInv, DataOK, Byte
<1>4. \A p \in DOMAIN m_byAllCodeWord : p < MAX_ALLCODEWORD /\ m_byAllCodeWord[p] \in 0..255
  <2> TAKE p \in DOMAIN m_byAllCodeWord
  <2>1. p \in 0..(MAX_ALLCODEWORD - 1) /\ m_byAllCodeWord[p] \in Byte
    BY DEF IInv, AllOK
  <2>2. m_byAllCodeWord[p] \in 0..255
    BY <2>1, Zenon DEF Byte
  <2>3. p < MAX_ALLCODEWORD
    <3>1. MAX_ALLCODEWORD \in Nat
      BY DEF MAX_ALLCODEWORD
    <3> QED BY <2>1, <3>1, BelowBound
  <2> QED BY <2>2, <2>3
<1>5. ASSUME pc \in {"data", "rs", "divide"}
      PROVE  /\ nBlockNo \in 0..(ncBlockSum - 1) /\ nData \in 1..MAX_CODEBLOCK
             /\ nDataCwIndex + nData <= Len(m_byDataCodeWord)
             /\ nRS \in DOMAIN byRSExp /\ LastRSPlace \in DOMAIN m_byAllCodeWord
             /\ LastDataPlace < Info.ncDataCodeWord[call.level]
  <2>1. pc \in InBlocks
    BY <1>5 DEF InBlocks
  <2> QED BY <2>1, InBlock, RSExpIsByte
<1>6. ASSUME pc = "divide"
      PROVE  turn \in 0..nData /\ m_byRSWork \in [1..(MAX_CODEBLOCK + 1) -> 0..255]
  BY <1>6, Zenon DEF IInv, WorkOK, Byte
<1>7. ASSUME pc = "place" PROVE placed \in DOMAIN m_byAllCodeWord
  <2>1. pc \in Padded
    BY <1>7 DEF Padded
  <2> QED BY <1>7, <2>1 DEF IInv, PlaceOK, AllOK
<1>8. trial \in 0..8 /\ m_nMaskingNo \in -1..7
  BY DEF IInv, MaskOK
<1> QED BY <1>1, <1>2, <1>3, <1>4, <1>5, <1>6, <1>7, <1>8, Zenon DEF InBounds

\* Whatever the call, every index the encoder computes from its tables stays in
\* its array, and every codeword stays a byte: EncodeData() and all it calls.
THEOREM InBoundsCorrect == Spec => []InBounds
BY Inductive, IInvInBounds, PTL

\* A step of the loop takes the count that NextMode speaks of.
LEMMA SegmentStep ==
  ASSUME IInv, Next, pc = "source", pc' = "source", group' = group
  PROVE  ncComplete' > ncComplete
<1>1. EncodeSegment
  BY DEF Next, Call, ChooseVersion, Pad, PlaceData, LoadBlock, DivideTurn, PlaceRS,
         DrawFunctions, PlaceCodeWord, TryMask, Finish
<1> DEFINE seg == Segment(call.source, ncComplete, group, nDataMode)
<1>2. /\ call \in Calls /\ group \in Group /\ call.source \in Seq(Byte)
      /\ ncComplete \in Nat /\ ncComplete < Len(call.source)
      /\ nDataMode = GetInitDataMode(call.source, ncComplete, group)
  BY CallOK DEF IInv, StreamOK
<1>3. seg.count \in 1..(Len(call.source) - ncComplete)
  BY <1>2, NextMode
<1>4. CASE Len(bits) + Len(seg.bits) > 8 * MAX_DATACODEWORD
  <2>1. NextGroup
    BY <1>1, <1>4 DEF EncodeSegment
  <2>2. group' = group + 1
    BY <2>1 DEF NextGroup, BeginGroup
  <2>3. group \in Int
    BY <1>2 DEF Group
  <2> QED BY <2>2, <2>3
<1>5. CASE ~(Len(bits) + Len(seg.bits) > 8 * MAX_DATACODEWORD)
  <2>1. ncComplete' = ncComplete + seg.count
    BY <1>1, <1>5 DEF EncodeSegment
  <2> HIDE DEF seg
  <2>2. PICK m \in Nat : m = Len(call.source)
    BY <1>2
  <2> QED BY <1>2, <1>3, <2>1, <2>2
<1> QED BY <1>4, <1>5

\* Whatever the source, a segment takes at least one byte of it, so that the loop
\* of EncodeSourceData() comes to its end: GetInitDataMode() never chooses a mode
\* whose count of bytes stops at the first one.
THEOREM AdvanceCorrect == Spec => SegmentsAdvance
<1>1. IInv /\ [Next]_vars =>
        [pc = "source" /\ pc' = "source" /\ group' = group => ncComplete' > ncComplete]_vars
  BY SegmentStep
<1> QED BY <1>1, Inductive, PTL DEF Spec, SegmentsAdvance
=============================================================================
