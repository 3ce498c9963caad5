------------------------------ MODULE QrEncode ------------------------------
(***************************************************************************)
(* One call of CQR_Encode::EncodeData(), from the source to the square of  *)
(* modules.  A step is one turn of the outermost loop the call is in: one  *)
(* segment of the source, one block, one codeword, one mask.               *)
(*                                                                         *)
(* Variables are the members and locals of the same name; bits is the      *)
(* stream m_byDataCodeWord holds while m_ncDataCodeWordBit counts it, and  *)
(* walk is the place SetCodeWordPattern() has reached.                     *)
(***************************************************************************)
EXTENDS QrStream, QrSymbol, QrReader

\* The calls: [level, version (0: any), extent, mask (-1: the best), source].
CONSTANT Calls

ASSUME CallsAssumption ==
  Calls \subseteq [level : Level, version : 0..40, extent : BOOLEAN, mask : -1..7,
                  source : Seq(0..255)]

VARIABLES call, pc,
          group, nDataMode, ncComplete, bits,            \* EncodeSourceData
          m_nVersion, m_byDataCodeWord, m_byAllCodeWord,
          nBlockNo, nDataCwIndex, m_byRSWork, turn,      \* blocks, GetRSCodeWord
          m_byModuleData, walk, placed,                  \* SetCodeWordPattern
          m_nMaskingNo, trial, nMinPenalty               \* FormatModule

stream  == <<group, nDataMode, ncComplete, bits>>
words   == <<m_byDataCodeWord, m_byAllCodeWord, nBlockNo, nDataCwIndex, m_byRSWork, turn>>
symbol  == <<m_byModuleData, walk, placed>>
masking == <<m_nMaskingNo, trial, nMinPenalty>>
vars    == <<call, pc, stream, m_nVersion, words, symbol, masking>>

Init ==
  /\ call \in Calls
  /\ pc = "call"
  /\ group = 0 /\ nDataMode = "8bit" /\ ncComplete = 0 /\ bits = <<>>
  /\ m_nVersion = 0
  /\ m_byDataCodeWord = <<>> /\ m_byAllCodeWord = <<>> /\ nBlockNo = 0 /\ nDataCwIndex = 0
  /\ m_byRSWork = <<>> /\ turn = 0
  /\ m_byModuleData = <<>> /\ walk = WalkStart(0) /\ placed = 0
  /\ m_nMaskingNo = -1 /\ trial = 0 /\ nMinPenalty = 0

-----------------------------------------------------------------------------
(* The source becomes a stream of bits *)

MAX_CODEBLOCK   == 123
MAX_ALLCODEWORD == 3706

GroupVersions(g) == <<1..9, 10..26, 27..40>>[g + 1]

BeginGroup(g) ==
  /\ group' = g
  /\ nDataMode' = GetInitDataMode(call.source, 0, g)
  /\ ncComplete' = 0
  /\ bits' = <<>>
  /\ pc' = "source"

\* No version of this group holds the source.
NextGroup ==
  IF group < 2 THEN BeginGroup(group + 1) ELSE pc' = "refused" /\ UNCHANGED stream

Call ==
  /\ pc = "call"
  /\ IF call.source = <<>> THEN pc' = "refused" /\ UNCHANGED stream
     ELSE BeginGroup(IF call.version >= 27 THEN 2 ELSE IF call.version >= 10 THEN 1 ELSE 0)
  /\ UNCHANGED <<call, m_nVersion, words, symbol, masking>>

\* One turn of EncodeSourceData()'s loop; SetBitStream() refuses what does not
\* fit into its buffer.
EncodeSegment ==
  /\ pc = "source"
  /\ LET seg == Segment(call.source, ncComplete, group, nDataMode)
         end == ncComplete + seg.count
     IN IF Len(bits) + Len(seg.bits) > 8 * MAX_DATACODEWORD
        THEN NextGroup
        ELSE /\ bits' = bits \o seg.bits
             /\ ncComplete' = end
             /\ IF end < Len(call.source)
                THEN nDataMode' = GetInitDataMode(call.source, end, group) /\ pc' = "source"
                ELSE nDataMode' = nDataMode /\ pc' = "version"
             /\ group' = group
  /\ UNCHANGED <<call, m_nVersion, words, symbol, masking>>

\* The least version of the group that holds the stream, against the caller's.
ChooseVersion ==
  /\ pc = "version"
  /\ LET fits == {v \in GroupVersions(group) :
                    (Len(bits) + 7) \div 8 <= QR_VersonInfo[v].ncDataCodeWord[call.level]}
         least == Min(fits)
     IN \/ /\ fits = {}
           /\ NextGroup
           /\ m_nVersion' = m_nVersion
        \/ /\ fits # {} /\ (least <= call.version \/ call.version = 0 \/ call.extent)
           /\ m_nVersion' = Max({least, call.version})
           /\ pc' = "pad"
           /\ UNCHANGED stream
        \/ /\ fits # {} /\ least > call.version /\ call.version # 0 /\ ~call.extent
           /\ pc' = "refused"
           /\ UNCHANGED <<m_nVersion, stream>>
  /\ UNCHANGED <<call, words, symbol, masking>>

-----------------------------------------------------------------------------
(* The stream becomes codewords *)

Info   == QR_VersonInfo[m_nVersion]
Block1 == Info.RS_BlockInfo1[call.level]
Block2 == Info.RS_BlockInfo2[call.level]
ncBlockSum == Block1.ncRSBlock + Block2.ncRSBlock
BlockOf(b) == IF b < Block1.ncRSBlock THEN Block1 ELSE Block2

\* Terminator and padding.
Pad ==
  /\ pc = "pad"
  /\ LET n      == Info.ncDataCodeWord[call.level]
         closed == bits \o Bits(0, Min({4, 8 * n - Len(bits)}))
         used   == (Len(closed) + 7) \div 8
         Bit(k) == IF k <= Len(closed) THEN closed[k] ELSE 0
         Byte(i) == LET b(k) == Bit(8 * (i - 1) + k)
                    IN 128 * b(1) + 64 * b(2) + 32 * b(3) + 16 * b(4)
                         + 8 * b(5) + 4 * b(6) + 2 * b(7) + b(8)
     IN m_byDataCodeWord' = [i \in 1..n |-> IF i <= used THEN Byte(i)
                                            ELSE IF (i - used) % 2 = 1 THEN 236 ELSE 17]
  /\ m_byAllCodeWord' = [p \in 0..(Info.ncAllCodeWord - 1) |-> 0]
  /\ nBlockNo' = 0 /\ nDataCwIndex' = 0
  /\ pc' = "data"
  /\ UNCHANGED <<call, stream, m_nVersion, m_byRSWork, turn, symbol, masking>>

\* Mutant: the second loop goes on from where the first left the data.
NextBlock_KeepsIndex(again, loop) ==
  /\ nDataCwIndex' = nDataCwIndex + BlockOf(nBlockNo).ncDataCodeWord
  /\ IF nBlockNo + 1 < ncBlockSum THEN nBlockNo' = nBlockNo + 1 /\ pc' = again
     ELSE nBlockNo' = 0 /\ pc' = loop

\* After a block: the same again for the next one, or the next loop.
NextBlock(again, loop) ==
  IF nBlockNo + 1 < ncBlockSum
  THEN /\ nBlockNo' = nBlockNo + 1
       /\ nDataCwIndex' = nDataCwIndex + BlockOf(nBlockNo).ncDataCodeWord
       /\ pc' = again
  ELSE nBlockNo' = 0 /\ nDataCwIndex' = 0 /\ pc' = loop

\* Mutant: the odd codeword is put at the block's own number.
PlaceData_Offset ==
  /\ pc = "data"
  /\ LET n      == BlockOf(nBlockNo).ncDataCodeWord
         common == Min({n, Block1.ncDataCodeWord})
         extra  == ncBlockSum * Block1.ncDataCodeWord + nBlockNo
     IN m_byAllCodeWord' = [p \in DOMAIN m_byAllCodeWord |->
          CASE p % ncBlockSum = nBlockNo /\ p \div ncBlockSum < common ->
                 m_byDataCodeWord[nDataCwIndex + 1 + (p \div ncBlockSum)]
            [] n > common /\ p = extra -> m_byDataCodeWord[nDataCwIndex + n]
            [] OTHER -> m_byAllCodeWord[p]]
  /\ NextBlock("data", "rs")
  /\ UNCHANGED <<call, stream, m_nVersion, m_byDataCodeWord, m_byRSWork, turn, symbol, masking>>

\* A block's data codewords, interleaved with those of the other blocks; what a
\* block of the second kind has more than the first kind goes to the end.
PlaceData ==
  /\ pc = "data"
  /\ LET n      == BlockOf(nBlockNo).ncDataCodeWord
         common == Min({n, Block1.ncDataCodeWord})
         extra  == ncBlockSum * Block1.ncDataCodeWord + (nBlockNo - Block1.ncRSBlock)
     IN m_byAllCodeWord' = [p \in DOMAIN m_byAllCodeWord |->
          CASE p % ncBlockSum = nBlockNo /\ p \div ncBlockSum < common ->
                 m_byDataCodeWord[nDataCwIndex + 1 + (p \div ncBlockSum)]
            [] n > common /\ p = extra -> m_byDataCodeWord[nDataCwIndex + n]
            [] OTHER -> m_byAllCodeWord[p]]
  /\ NextBlock("data", "rs")
  /\ UNCHANGED <<call, stream, m_nVersion, m_byDataCodeWord, m_byRSWork, turn, symbol, masking>>

nData == BlockOf(nBlockNo).ncDataCodeWord
nRS   == BlockOf(nBlockNo).ncAllCodeWord - nData

\* The block's data codewords in the cleared work area.
LoadBlock ==
  /\ pc = "rs"
  /\ m_byRSWork' = SubSeq(m_byDataCodeWord, nDataCwIndex + 1, nDataCwIndex + nData)
                     \o [j \in 1..(MAX_CODEBLOCK + 1 - nData) |-> 0]
  /\ turn' = 0
  /\ pc' = "divide"
  /\ UNCHANGED <<call, stream, m_nVersion, m_byDataCodeWord, m_byAllCodeWord,
                 nBlockNo, nDataCwIndex, symbol, masking>>

\* Mutant: nothing is shifted when the leading coefficient is zero.
DivideTurn_NoShift ==
  /\ pc = "divide" /\ turn < nData
  /\ LET w == m_byRSWork
         Term(j) == byExpToInt[(byRSExp[nRS][j] + byIntToExp[w[1]]) % 255]
     IN m_byRSWork' = [j \in DOMAIN w |->
          IF w[1] # 0 /\ j <= nRS THEN Xor8(w[j + 1], Term(j))
          ELSE IF w[1] # 0 /\ j <= nData THEN w[j + 1] ELSE w[j]]
  /\ turn' = turn + 1
  /\ UNCHANGED <<call, pc, stream, m_nVersion, m_byDataCodeWord, m_byAllCodeWord,
                 nBlockNo, nDataCwIndex, symbol, masking>>

\* One turn of GetRSCodeWord()'s loop.
DivideTurn ==
  /\ pc = "divide" /\ turn < nData
  /\ LET w == m_byRSWork
         Term(j) == byExpToInt[(byRSExp[nRS][j] + byIntToExp[w[1]]) % 255]
     IN m_byRSWork' = [j \in DOMAIN w |->
          IF w[1] # 0 /\ j <= nRS THEN Xor8(w[j + 1], Term(j))
          ELSE IF j <= nData THEN w[j + 1] ELSE w[j]]
  /\ turn' = turn + 1
  /\ UNCHANGED <<call, pc, stream, m_nVersion, m_byDataCodeWord, m_byAllCodeWord,
                 nBlockNo, nDataCwIndex, symbol, masking>>

\* The remainder becomes the block's error correction codewords.
PlaceRS ==
  /\ pc = "divide" /\ turn = nData
  /\ LET first == Info.ncDataCodeWord[call.level] + nBlockNo
     IN m_byAllCodeWord' = [p \in DOMAIN m_byAllCodeWord |->
          IF p >= first /\ (p - first) % ncBlockSum = 0 /\ (p - first) \div ncBlockSum < nRS
          THEN m_byRSWork[1 + ((p - first) \div ncBlockSum)] ELSE m_byAllCodeWord[p]]
  /\ NextBlock("rs", "function")
  /\ UNCHANGED <<call, stream, m_nVersion, m_byDataCodeWord, m_byRSWork, turn, symbol, masking>>

-----------------------------------------------------------------------------
(* The codewords become modules *)

DrawFunctions ==
  /\ pc = "function"
  /\ m_byModuleData' = SetFunctionModule(m_nVersion)
  /\ walk' = WalkStart(SymbleSize(m_nVersion)) /\ placed' = 0
  /\ pc' = "place"
  /\ UNCHANGED <<call, stream, m_nVersion, words, masking>>

\* The eight modules of the next codeword.
PlaceCodeWord ==
  /\ pc = "place"
  /\ LET word == m_byAllCodeWord[placed]
         set[j \in 0..8] ==
           IF j = 0 THEN [at |-> walk, m |-> m_byModuleData]
           ELSE LET s == set[j - 1]
                    u == NextFree(s.m, s.at)
                IN [at |-> u, m |-> [s.m EXCEPT ![u.x][u.y] = IF BitOf(word, 8 - j) THEN 2 ELSE 0]]
     IN walk' = set[8].at /\ m_byModuleData' = set[8].m
  /\ placed' = placed + 1
  /\ IF placed' < Info.ncAllCodeWord THEN pc' = pc /\ UNCHANGED masking
     ELSE IF call.mask = -1 THEN pc' = "mask" /\ UNCHANGED masking
     ELSE pc' = "format" /\ m_nMaskingNo' = call.mask /\ UNCHANGED <<trial, nMinPenalty>>
  /\ UNCHANGED <<call, stream, m_nVersion, words>>

\* One trial of FormatModule(): the first mask of the least penalty stays.
TryMask ==
  /\ pc = "mask"
  /\ m_byModuleData' = SetMaskingPattern(m_byModuleData, trial)
  /\ LET penalty == CountPenalty(m_byModuleData')
     IN IF trial = 0 \/ penalty < nMinPenalty
        THEN nMinPenalty' = penalty /\ m_nMaskingNo' = trial
        ELSE UNCHANGED <<nMinPenalty, m_nMaskingNo>>
  /\ trial' = trial + 1
  /\ pc' = IF trial = 7 THEN "format" ELSE pc
  /\ UNCHANGED <<call, stream, m_nVersion, words, walk, placed>>

Finish ==
  /\ pc = "format"
  /\ m_byModuleData' = Booleans(SetFormatInfoPattern(
                         SetMaskingPattern(m_byModuleData, m_nMaskingNo), call.level, m_nMaskingNo))
  /\ pc' = "done"
  /\ UNCHANGED <<call, stream, m_nVersion, words, walk, placed, masking>>

Next == \/ Call \/ EncodeSegment \/ ChooseVersion
        \/ Pad \/ PlaceData \/ LoadBlock \/ DivideTurn \/ PlaceRS
        \/ DrawFunctions \/ PlaceCodeWord \/ TryMask \/ Finish

Spec == Init /\ [][Next]_vars

-----------------------------------------------------------------------------
(* Properties *)

\* The last places of m_byAllCodeWord the current block writes.
LastDataPlace ==
  IF nData > Block1.ncDataCodeWord
  THEN ncBlockSum * Block1.ncDataCodeWord + (nBlockNo - Block1.ncRSBlock)
  ELSE ncBlockSum * nData - ncBlockSum + nBlockNo
LastRSPlace ==
  Info.ncDataCodeWord[call.level] + ncBlockSum * nRS - ncBlockSum + nBlockNo

\* Every index stays in its array, and every stored value in its range.  The
\* encoder reads and writes its arrays by arithmetic over the tables, and looks
\* at no bound but that of SetBitStream().
InBounds ==
  /\ pc \in {"call", "source", "version", "pad", "data", "rs", "divide", "function",
             "place", "mask", "format", "done", "refused"}
  /\ group \in Group /\ nDataMode \in Mode /\ ncComplete \in 0..Len(call.source)
  /\ Len(bits) <= 8 * MAX_DATACODEWORD
  /\ m_nVersion \in 0..40
  /\ m_byDataCodeWord \in Seq(0..255) /\ Len(m_byDataCodeWord) <= MAX_DATACODEWORD
  /\ \A p \in DOMAIN m_byAllCodeWord : p < MAX_ALLCODEWORD /\ m_byAllCodeWord[p] \in 0..255
  /\ pc \in {"data", "rs", "divide"} =>
       /\ nBlockNo \in 0..(ncBlockSum - 1) /\ nData \in 1..MAX_CODEBLOCK
       /\ nDataCwIndex + nData <= Len(m_byDataCodeWord)
       /\ nRS \in DOMAIN byRSExp /\ LastRSPlace \in DOMAIN m_byAllCodeWord
       /\ LastDataPlace < Info.ncDataCodeWord[call.level]
  /\ pc = "divide" => turn \in 0..nData /\ m_byRSWork \in [1..(MAX_CODEBLOCK + 1) -> 0..255]
  /\ pc = "place" => placed \in DOMAIN m_byAllCodeWord
  /\ trial \in 0..8 /\ m_nMaskingNo \in -1..7

\* The tables agree with what they describe: in every version and level the
\* blocks add up to the codewords, the codewords fill the modules the patterns
\* leave free, the alignment patterns are where a reader looks for them, and
\* alpha^0, alpha^1, ... are the roots of each generator polynomial.
TablesConsistent ==
  pc = "call" /\ call.source = <<>> =>
    /\ \A v \in 1..40 :
         LET info == QR_VersonInfo[v]
         IN /\ FreeModules(v) \div 8 = info.ncAllCodeWord
            /\ {info.nAlignPoint[i] : i \in DOMAIN info.nAlignPoint} \cup {6} = AlignAxis(v) \cup {6}
            /\ \A l \in Level :
                 LET b1 == info.RS_BlockInfo1[l]
                     b2 == info.RS_BlockInfo2[l]
                 IN /\ b1.ncRSBlock * b1.ncAllCodeWord + b2.ncRSBlock * b2.ncAllCodeWord
                         = info.ncAllCodeWord
                    /\ b1.ncRSBlock * b1.ncDataCodeWord + b2.ncRSBlock * b2.ncDataCodeWord
                         = info.ncDataCodeWord[l]
                    /\ b2.ncRSBlock > 0 => b2.ncDataCodeWord = b1.ncDataCodeWord + 1
    /\ \A n \in DOMAIN byRSExp : \A k \in 0..(n - 1) :
         IsRoot(<<1>> \o [j \in 1..n |-> Power(byRSExp[n][j])], k)

\* Whatever mode is chosen for the characters that come next, the segment takes
\* at least one of them: the loop comes to its end.  GetInitDataMode() against
\* the counts of EncodeSourceData().
SegmentsAdvance ==
  [][pc = "source" /\ pc' = "source" /\ group' = group => ncComplete' > ncComplete]_vars

\* A finished symbol, read the way a scanner reads it (size, format
\* information, unmasking, zigzag, blocks, segments), says the level, the
\* version and the source the call was made with.  EncodeData(), FormatModule().
SymbolReadable ==
  pc = "done" => Read(m_byModuleData)
                   = [version |-> m_nVersion, level |-> call.level, source |-> call.source]

\* The finished symbol shows its fixed patterns whole, though they are painted
\* over each other, and both copies of the version and format information are
\* the same word of their BCH code.  SetFunctionModule(), SetFormatInfoPattern().
PatternsIntact ==
  pc = "done" => /\ FixedPatterns(m_byModuleData, m_nVersion)
                 /\ VersionShown(m_byModuleData, m_nVersion)
                 /\ FormatShown(m_byModuleData, m_nVersion).sound

\* Is block b a word of the Reed-Solomon code?
IsBlockValid(b) ==
  LET cw == [i \in 1..Info.ncAllCodeWord |-> m_byAllCodeWord[i - 1]]
  IN IsCodeWord(BlockData(cw, m_nVersion, call.level, b),
                BlockRS(cw, m_nVersion, call.level, b))

\* Every block is a word of the Reed-Solomon code whenever it has no more error
\* correction than data codewords.  GetRSCodeWord() with PlaceData and PlaceRS.
BlocksValid ==
  pc = "function" =>
    \A b \in 0..(ncBlockSum - 1) :
      LET k == BlockOf(b)
      IN k.ncAllCodeWord <= 2 * k.ncDataCodeWord => IsBlockValid(b)

\* GetRSCodeWord() is there to obtain the error correction codewords of every
\* block, whatever its lengths.
EveryBlockValid == pc = "function" => \A b \in 0..(ncBlockSum - 1) : IsBlockValid(b)
=============================================================================
