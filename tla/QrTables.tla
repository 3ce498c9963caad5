------------------------------ MODULE QrTables ------------------------------
(***************************************************************************)
(* The tables at the head of QR_Encode.cpp: the geometry and capacity of   *)
(* the 40 versions of a symbol, the powers and logarithms of alpha in the  *)
(* Galois field of 256 elements, and the generator polynomials of the      *)
(* Reed-Solomon codes.  The tables hold the source's values; what follows  *)
(* from them is checked where they are used (module QrEncode).             *)
(***************************************************************************)
EXTENDS Integers, Sequences

\* The exclusive or of two words of up to 24 bits.
Xor8(a, b) ==
  LET B(k) == 2^k * (((a \div 2^k) + (b \div 2^k)) % 2)
  IN B(0) + B(1) + B(2) + B(3) + B(4) + B(5) + B(6) + B(7)
Xor(a, b) == Xor8(a, b) + 256 * Xor8(a \div 256, b \div 256)
               + 65536 * Xor8(a \div 65536, b \div 65536)

Level == 0..3      \* QR_LEVEL_L, M, Q, H
Group == 0..2      \* QR_VRESION_S, M, L

-----------------------------------------------------------------------------
(* Versions *)

\* QR_VERSIONINFO: codewords in all, data codewords per level, centres of the
\* alignment patterns, RS_BlockInfo1 and RS_BlockInfo2 per level as
\* <<ncRSBlock, ncAllCodeWord, ncDataCodeWord>>.
Row(all, data, align, b1, b2) ==
  LET Block(b) == [ncRSBlock |-> b[1], ncAllCodeWord |-> b[2], ncDataCodeWord |-> b[3]]
  IN [ncAllCodeWord  |-> all,
      ncDataCodeWord |-> [l \in Level |-> data[l + 1]],
      nAlignPoint    |-> align,
      RS_BlockInfo1  |-> [l \in Level |-> Block(b1[l + 1])],
      RS_BlockInfo2  |-> [l \in Level |-> Block(b2[l + 1])]]

\* Versions 1 to 13.
VersionInfo1 == <<
  Row(26, <<19,16,13,9>>, <<>>,
      <<<<1,26,19>>,<<1,26,16>>,<<1,26,13>>,<<1,26,9>>>>, <<<<0,0,0>>,<<0,0,0>>,<<0,0,0>>,<<0,0,0>>>>),
  Row(44, <<34,28,22,16>>, <<18>>,
      <<<<1,44,34>>,<<1,44,28>>,<<1,44,22>>,<<1,44,16>>>>, <<<<0,0,0>>,<<0,0,0>>,<<0,0,0>>,<<0,0,0>>>>),
  Row(70, <<55,44,34,26>>, <<22>>,
      <<<<1,70,55>>,<<1,70,44>>,<<2,35,17>>,<<2,35,13>>>>, <<<<0,0,0>>,<<0,0,0>>,<<0,0,0>>,<<0,0,0>>>>),
  Row(100, <<80,64,48,36>>, <<26>>,
      <<<<1,100,80>>,<<2,50,32>>,<<2,50,24>>,<<4,25,9>>>>, <<<<0,0,0>>,<<0,0,0>>,<<0,0,0>>,<<0,0,0>>>>),
  Row(134, <<108,86,62,46>>, <<30>>,
      <<<<1,134,108>>,<<2,67,43>>,<<2,33,15>>,<<2,33,11>>>>, <<<<0,0,0>>,<<0,0,0>>,<<2,34,16>>,<<2,34,12>>>>),
  Row(172, <<136,108,76,60>>, <<34>>,
      <<<<2,86,68>>,<<4,43,27>>,<<4,43,19>>,<<4,43,15>>>>, <<<<0,0,0>>,<<0,0,0>>,<<0,0,0>>,<<0,0,0>>>>),
  Row(196, <<156,124,88,66>>, <<22,38>>,
      <<<<2,98,78>>,<<4,49,31>>,<<2,32,14>>,<<4,39,13>>>>, <<<<0,0,0>>,<<0,0,0>>,<<4,33,15>>,<<1,40,14>>>>),
  Row(242, <<194,154,110,86>>, <<24,42>>,
      <<<<2,121,97>>,<<2,60,38>>,<<4,40,18>>,<<4,40,14>>>>, <<<<0,0,0>>,<<2,61,39>>,<<2,41,19>>,<<2,41,15>>>>),
  Row(292, <<232,182,132,100>>, <<26,46>>,
      <<<<2,146,116>>,<<3,58,36>>,<<4,36,16>>,<<4,36,12>>>>, <<<<0,0,0>>,<<2,59,37>>,<<4,37,17>>,<<4,37,13>>>>),
  Row(346, <<274,216,154,122>>, <<28,50>>,
      <<<<2,86,68>>,<<4,69,43>>,<<6,43,19>>,<<6,43,15>>>>, <<<<2,87,69>>,<<1,70,44>>,<<2,44,20>>,<<2,44,16>>>>),
  Row(404, <<324,254,180,140>>, <<30,54>>,
      <<<<4,101,81>>,<<1,80,50>>,<<4,50,22>>,<<3,36,12>>>>, <<<<0,0,0>>,<<4,81,51>>,<<4,51,23>>,<<8,37,13>>>>),
  Row(466, <<370,290,206,158>>, <<32,58>>,
      <<<<2,116,92>>,<<6,58,36>>,<<4,46,20>>,<<7,42,14>>>>, <<<<2,117,93>>,<<2,59,37>>,<<6,47,21>>,<<4,43,15>>>>),
  Row(532, <<428,334,244,180>>, <<34,62>>,
      <<<<4,133,107>>,<<8,59,37>>,<<8,44,20>>,<<12,33,11>>>>, <<<<0,0,0>>,<<1,60,38>>,<<4,45,21>>,<<4,34,12>>>>)>>

\* Versions 14 to 26.
VersionInfo2 == <<
  Row(581, <<461,365,261,197>>, <<26,46,66>>,
      <<<<3,145,115>>,<<4,64,40>>,<<11,36,16>>,<<11,36,12>>>>, <<<<1,146,116>>,<<5,65,41>>,<<5,37,17>>,<<5,37,13>>>>),
  Row(655, <<523,415,295,223>>, <<26,48,70>>,
      <<<<5,109,87>>,<<5,65,41>>,<<5,54,24>>,<<11,36,12>>>>, <<<<1,110,88>>,<<5,66,42>>,<<7,55,25>>,<<7,37,13>>>>),
  Row(733, <<589,453,325,253>>, <<26,50,74>>,
      <<<<5,122,98>>,<<7,73,45>>,<<15,43,19>>,<<3,45,15>>>>, <<<<1,123,99>>,<<3,74,46>>,<<2,44,20>>,<<13,46,16>>>>),
  Row(815, <<647,507,367,283>>, <<30,54,78>>,
      <<<<1,135,107>>,<<10,74,46>>,<<1,50,22>>,<<2,42,14>>>>, <<<<5,136,108>>,<<1,75,47>>,<<15,51,23>>,<<17,43,15>>>>),
  Row(901, <<721,563,397,313>>, <<30,56,82>>,
      <<<<5,150,120>>,<<9,69,43>>,<<17,50,22>>,<<2,42,14>>>>, <<<<1,151,121>>,<<4,70,44>>,<<1,51,23>>,<<19,43,15>>>>),
  Row(991, <<795,627,445,341>>, <<30,58,86>>,
      <<<<3,141,113>>,<<3,70,44>>,<<17,47,21>>,<<9,39,13>>>>, <<<<4,142,114>>,<<11,71,45>>,<<4,48,22>>,<<16,40,14>>>>),
  Row(1085, <<861,669,485,385>>, <<34,62,90>>,
      <<<<3,135,107>>,<<3,67,41>>,<<15,54,24>>,<<15,43,15>>>>, <<<<5,136,108>>,<<13,68,42>>,<<5,55,25>>,<<10,44,16>>>>),
  Row(1156, <<932,714,512,406>>, <<28,50,72,94>>,
      <<<<4,144,116>>,<<17,68,42>>,<<17,50,22>>,<<19,46,16>>>>, <<<<4,145,117>>,<<0,0,0>>,<<6,51,23>>,<<6,47,17>>>>),
  Row(1258, <<1006,782,568,442>>, <<26,50,74,98>>,
      <<<<2,139,111>>,<<17,74,46>>,<<7,54,24>>,<<34,37,13>>>>, <<<<7,140,112>>,<<0,0,0>>,<<16,55,25>>,<<0,0,0>>>>),
  Row(1364, <<1094,860,614,464>>, <<30,54,78,102>>,
      <<<<4,151,121>>,<<4,75,47>>,<<11,54,24>>,<<16,45,15>>>>, <<<<5,152,122>>,<<14,76,48>>,<<14,55,25>>,<<14,46,16>>>>),
  Row(1474, <<1174,914,664,514>>, <<28,54,80,106>>,
      <<<<6,147,117>>,<<6,73,45>>,<<11,54,24>>,<<30,46,16>>>>, <<<<4,148,118>>,<<14,74,46>>,<<16,55,25>>,<<2,47,17>>>>),
  Row(1588, <<1276,1000,718,538>>, <<32,58,84,110>>,
      <<<<8,132,106>>,<<8,75,47>>,<<7,54,24>>,<<22,45,15>>>>, <<<<4,133,107>>,<<13,76,48>>,<<22,55,25>>,<<13,46,16>>>>),
  Row(1706, <<1370,1062,754,596>>, <<30,58,86,114>>,
      <<<<10,142,114>>,<<19,74,46>>,<<28,50,22>>,<<33,46,16>>>>, <<<<2,143,115>>,<<4,75,47>>,<<6,51,23>>,<<4,47,17>>>>)>>

\* Versions 27 to 40.
VersionInfo3 == <<
  Row(1828, <<1468,1128,808,628>>, <<34,62,90,118>>,
      <<<<8,152,122>>,<<22,73,45>>,<<8,53,23>>,<<12,45,15>>>>, <<<<4,153,123>>,<<3,74,46>>,<<26,54,24>>,<<28,46,16>>>>),
  Row(1921, <<1531,1193,871,661>>, <<26,50,74,98,122>>,
      <<<<3,147,117>>,<<3,73,45>>,<<4,54,24>>,<<11,45,15>>>>, <<<<10,148,118>>,<<23,74,46>>,<<31,55,25>>,<<31,46,16>>>>),
  Row(2051, <<1631,1267,911,701>>, <<30,54,78,102,126>>,
      <<<<7,146,116>>,<<21,73,45>>,<<1,53,23>>,<<19,45,15>>>>, <<<<7,147,117>>,<<7,74,46>>,<<37,54,24>>,<<26,46,16>>>>),
  Row(2185, <<1735,1373,985,745>>, <<26,52,78,104,130>>,
      <<<<5,145,115>>,<<19,75,47>>,<<15,54,24>>,<<23,45,15>>>>, <<<<10,146,116>>,<<10,76,48>>,<<25,55,25>>,<<25,46,16>>>>),
  Row(2323, <<1843,1455,1033,793>>, <<30,56,82,108,134>>,
      <<<<13,145,115>>,<<2,74,46>>,<<42,54,24>>,<<23,45,15>>>>, <<<<3,146,116>>,<<29,75,47>>,<<1,55,25>>,<<28,46,16>>>>),
  Row(2465, <<1955,1541,1115,845>>, <<34,60,86,112,138>>,
      <<<<17,145,115>>,<<10,74,46>>,<<10,54,24>>,<<19,45,15>>>>, <<<<0,0,0>>,<<23,75,47>>,<<35,55,25>>,<<35,46,16>>>>),
  Row(2611, <<2071,1631,1171,901>>, <<30,58,86,114,142>>,
      <<<<17,145,115>>,<<14,74,46>>,<<29,54,24>>,<<11,45,15>>>>, <<<<1,146,116>>,<<21,75,47>>,<<19,55,25>>,<<46,46,16>>>>),
  Row(2761, <<2191,1725,1231,961>>, <<34,62,90,118,146>>,
      <<<<13,145,115>>,<<14,74,46>>,<<44,54,24>>,<<59,46,16>>>>, <<<<6,146,116>>,<<23,75,47>>,<<7,55,25>>,<<1,47,17>>>>),
  Row(2876, <<2306,1812,1286,986>>, <<30,54,78,102,126,150>>,
      <<<<12,151,121>>,<<12,75,47>>,<<39,54,24>>,<<22,45,15>>>>, <<<<7,152,122>>,<<26,76,48>>,<<14,55,25>>,<<41,46,16>>>>),
  Row(3034, <<2434,1914,1354,1054>>, <<24,50,76,102,128,154>>,
      <<<<6,151,121>>,<<6,75,47>>,<<46,54,24>>,<<2,45,15>>>>, <<<<14,152,122>>,<<34,76,48>>,<<10,55,25>>,<<64,46,16>>>>),
  Row(3196, <<2566,1992,1426,1096>>, <<28,54,80,106,132,158>>,
      <<<<17,152,122>>,<<29,74,46>>,<<49,54,24>>,<<24,45,15>>>>, <<<<4,153,123>>,<<14,75,47>>,<<10,55,25>>,<<46,46,16>>>>),
  Row(3362, <<2702,2102,1502,1142>>, <<32,58,84,110,136,162>>,
      <<<<4,152,122>>,<<13,74,46>>,<<48,54,24>>,<<42,45,15>>>>, <<<<18,153,123>>,<<32,75,47>>,<<14,55,25>>,<<32,46,16>>>>),
  Row(3532, <<2812,2216,1582,1222>>, <<26,54,82,110,138,166>>,
      <<<<20,147,117>>,<<40,75,47>>,<<43,54,24>>,<<10,45,15>>>>, <<<<4,148,118>>,<<7,76,48>>,<<22,55,25>>,<<67,46,16>>>>),
  Row(3706, <<2956,2334,1666,1276>>, <<30,58,86,114,142,170>>,
      <<<<19,148,118>>,<<18,75,47>>,<<34,54,24>>,<<20,45,15>>>>, <<<<6,149,119>>,<<31,76,48>>,<<34,55,25>>,<<61,46,16>>>>)>>

\* Mutant: one digit of a row is wrong.
QR_VersonInfo_Typo ==
  [VersionInfo1 \o VersionInfo2 \o VersionInfo3 EXCEPT ![32].nAlignPoint = <<34, 60, 86, 112, 136>>]

QR_VersonInfo == VersionInfo1 \o VersionInfo2 \o VersionInfo3

-----------------------------------------------------------------------------
(* The field *)

\* alpha^k, k = 0..255.
ExpToInt == <<
  1,2,4,8,16,32,64,128,29,58,116,232,205,135,19,38,76,152,45,90,
  180,117,234,201,143,3,6,12,24,48,96,192,157,39,78,156,37,74,148,53,
  106,212,181,119,238,193,159,35,70,140,5,10,20,40,80,160,93,186,105,210,
  185,111,222,161,95,190,97,194,153,47,94,188,101,202,137,15,30,60,120,240,
  253,231,211,187,107,214,177,127,254,225,223,163,91,182,113,226,217,175,67,134,
  17,34,68,136,13,26,52,104,208,189,103,206,129,31,62,124,248,237,199,147,
  59,118,236,197,151,51,102,204,133,23,46,92,184,109,218,169,79,158,33,66,
  132,21,42,84,168,77,154,41,82,164,85,170,73,146,57,114,228,213,183,115,
  230,209,191,99,198,145,63,126,252,229,215,179,123,246,241,255,227,219,171,75,
  150,49,98,196,149,55,110,220,165,87,174,65,130,25,50,100,200,141,7,14,
  28,56,112,224,221,167,83,166,81,162,89,178,121,242,249,239,195,155,43,86,
  172,69,138,9,18,36,72,144,61,122,244,245,247,243,251,235,203,139,11,22,
  44,88,176,125,250,233,207,131,27,54,108,216,173,71,142,1>>

\* The logarithm of n, n = 0..255 (that of 0 is never used).
IntToExp == <<
  0,0,1,25,2,50,26,198,3,223,51,238,27,104,199,75,4,100,224,14,
  52,141,239,129,28,193,105,248,200,8,76,113,5,138,101,47,225,36,15,33,
  53,147,142,218,240,18,130,69,29,181,194,125,106,39,249,185,201,154,9,120,
  77,228,114,166,6,191,139,98,102,221,48,253,226,152,37,179,16,145,34,136,
  54,208,148,206,143,150,219,189,241,210,19,92,131,56,70,64,30,66,182,163,
  195,72,126,110,107,58,40,84,250,133,186,61,202,94,155,159,10,21,121,43,
  78,212,229,172,115,243,167,87,7,112,192,247,140,128,99,13,103,74,222,237,
  49,197,254,24,227,165,153,119,38,184,180,124,17,68,146,217,35,32,137,46,
  55,63,209,91,149,188,207,205,144,135,151,178,220,252,190,97,242,86,211,171,
  20,42,93,158,132,60,57,83,71,109,65,162,31,45,67,216,183,123,164,118,
  196,23,73,236,127,12,111,246,108,161,59,82,41,157,85,170,251,96,134,177,
  187,204,62,90,203,89,95,176,156,169,160,81,11,245,22,235,122,117,44,215,
  79,174,213,233,230,231,173,232,116,214,244,234,168,80,88,175>>

byExpToInt == [k \in 0..255 |-> ExpToInt[k + 1]]
byIntToExp == [n \in 0..255 |-> IntToExp[n + 1]]

\* Coefficients, as exponents of alpha, of the generator polynomials whose
\* degree some block of QR_VersonInfo has; the source's table goes on to 68.
byRSExp == [n \in {7,10,13,15,16,17,18,20,22,24,26,28,30} |-> CASE
     n = 7 -> <<87,229,146,149,238,102,21>>
  [] n = 10 -> <<251,67,46,61,118,70,64,94,32,45>>
  [] n = 13 -> <<74,152,176,100,86,100,106,104,130,218,206,140,78>>
  [] n = 15 -> <<8,183,61,91,202,37,51,58,58,237,140,124,5,99,105>>
  [] n = 16 -> <<120,104,107,109,102,161,76,3,91,191,147,169,182,194,225,120>>
  [] n = 17 -> <<43,139,206,78,43,239,123,206,214,147,24,99,150,39,243,163,136>>
  [] n = 18 -> <<215,234,158,94,184,97,118,170,79,187,152,148,252,179,5,98,96,153>>
  [] n = 20 -> <<17,60,79,50,61,163,26,187,202,180,221,225,83,239,156,164,212,212,188,190>>
  [] n = 22 -> <<210,171,247,242,93,230,14,109,221,53,200,74,8,172,98,80,219,134,160,105,
                 165,231>>
  [] n = 24 -> <<229,121,135,48,211,117,251,126,159,180,169,152,192,226,228,218,111,0,117,232,
                 87,96,227,21>>
  [] n = 26 -> <<173,125,158,2,103,182,118,17,145,201,111,28,165,53,161,21,245,142,13,102,
                 48,227,153,145,218,70>>
  [] n = 28 -> <<168,223,200,104,224,234,108,180,110,190,195,147,205,27,232,201,21,43,245,87,
                 42,195,212,119,242,37,9,123>>
  [] n = 30 -> <<41,173,145,152,216,31,179,182,50,48,110,86,239,96,222,125,42,173,226,193,
                 224,130,156,37,251,216,238,40,192,180>>]

-----------------------------------------------------------------------------
(* Lengths of the character count, per group of versions *)

nIndicatorLenNumeral  == [g \in Group |-> <<10, 12, 14>>[g + 1]]
nIndicatorLenAlphabet == [g \in Group |-> << 9, 11, 13>>[g + 1]]
nIndicatorLen8Bit     == [g \in Group |-> << 8, 16, 16>>[g + 1]]
nIndicatorLenKanji    == [g \in Group |-> << 8, 10, 12>>[g + 1]]
=============================================================================
