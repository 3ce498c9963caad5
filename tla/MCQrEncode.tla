----------------------------- MODULE MCQrEncode -----------------------------
(***************************************************************************)
(* Calls of EncodeData() for TLC.  The program itself makes one kind of    *)
(* call, Program below; the others reach the rest of the encoder.          *)
(***************************************************************************)
EXTENDS QrEncode

EncodeData(level, version, extent, mask, source) ==
  [level |-> level, version |-> version, extent |-> extent, mask |-> mask, source |-> source]

\* Runs of one class of characters.
Run(b, n)  == [i \in 1..n |-> b]
Digits(n)  == [i \in 1..n |-> 48 + ((7 * i) % 10)]
Letters(n) == [i \in 1..n |-> <<65, 90, 32, 36, 37, 42, 43, 45, 46, 47, 58>>[1 + (i % 11)]]
Bytes(n)   == [i \in 1..n |-> <<97, 255, 0, 127>>[1 + (i % 4)]]
Kanji(n)   == FlattenSeq([i \in 1..n |->
                <<<<129, 64>>, <<159, 252>>, <<224, 64>>, <<235, 191>>, <<136, 159>>>>[1 + (i % 5)]])

\* An IP address, as the window of the server asks for it.
Program == {EncodeData(1, 0, TRUE, -1, <<49,57,50,46,49,54,56,46,49,46,49,51>>)}

\* Two and three runs of characters, of lengths around those the modes of the
\* smallest versions are chosen by.
Pairs == {a \o b : a \in {Digits(n) : n \in {1, 3, 4, 6, 7}} \cup {Letters(n) : n \in {1, 5, 6}}
                          \cup {Bytes(1), Kanji(1), <<129>>, <<235>>},
                   b \in {Digits(n) : n \in {5, 6, 13}} \cup {Letters(n) : n \in {10, 11}}
                          \cup {Bytes(1), Kanji(2), <<159, 253>>, <<235, 192>>}}
Triples == {a \o b \o Bytes(1) : a \in {Letters(6), Bytes(1)},
                                 b \in {Digits(n) : n \in {5, 6, 12, 13}} \cup {Letters(n) : n \in {10, 11}}}
Short == {EncodeData(0, 0, TRUE, Len(s) % 8, s) : s \in Pairs \cup Triples}

\* All the lengths that matter to the modes of the larger versions, in one source.
Mixed(digits, letters) ==
  FlattenSeq([i \in 1..Len(digits)  |-> Digits(digits[i]) \o Letters(3) \o Bytes(1)])
    \o FlattenSeq([i \in 1..Len(letters) |-> Letters(letters[i]) \o Bytes(1)])
    \o Letters(9) \o Digits(14) \o Letters(9) \o Digits(15) \o Letters(9) \o Digits(17)
    \o Kanji(3) \o Digits(9) \o Kanji(1)
Large == {EncodeData(1, 10, TRUE, 5, Mixed(<<3, 4, 7, 8>>, <<6, 7, 14, 15>>)),
          EncodeData(2, 27, TRUE, 6, Mixed(<<4, 5, 8, 9>>, <<7, 8, 15, 16>>))}

\* Versions with each number of alignment patterns, and the two kinds of block.
Layouts == {EncodeData(l, v, TRUE, (l + v) % 8, Digits(3)) :
              l \in Level, v \in {2, 3, 5, 6, 7, 8}}
             \cup {EncodeData(3, 14, TRUE, 2, Bytes(2)), EncodeData(0, 21, TRUE, 7, Bytes(3)),
                   EncodeData(2, 32, TRUE, 4, Bytes(2))}
             \cup {EncodeData(l, 1, TRUE, -1, Bytes(5)) : l \in Level}

\* Sources that fill a version or overflow it, a group or the largest symbol.
Limits == {EncodeData(3, 1, FALSE, 0, Run(97, n)) : n \in {7, 8}}
            \cup {EncodeData(3, 0, FALSE, 1, Run(97, n)) : n \in {98, 99}}
            \cup {EncodeData(0, 40, TRUE, 0, Run(97, n)) : n \in {2954, 3000}}
            \cup {EncodeData(1, 0, TRUE, -1, <<>>)}

\* The largest source there is.
Largest == {EncodeData(0, 40, TRUE, 0, Run(97, 2953))}

\* Blocks with more error correction than data.
SmallBlocks == {EncodeData(3, 1, FALSE, 0, Run(b, n)) : b \in 97..122, n \in {6, 7}}

MCCalls == Program \cup Short \cup Large \cup Layouts \cup Limits \cup Largest
=============================================================================
