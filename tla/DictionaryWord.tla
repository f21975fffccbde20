--------------------------- MODULE DictionaryWord ---------------------------
(***************************************************************************)
(* Words of the static dictionary (src/src/dictionary/mod.rs) and what a   *)
(* transform makes of them (src/src/transform.rs).                         *)
(*                                                                         *)
(* Only places and lengths are modelled: where a word lies in the          *)
(* dictionary, how many bytes its transform writes, and which bytes behind *)
(* them the upper-casing touches.  Of a byte the model knows how far it    *)
(* says its character reaches, one byte to three.                          *)
(***************************************************************************)
EXTENDS Integers, Sequences, FiniteSetsExt

kBrotliMinDictionaryWordLength == 4
kBrotliMaxDictionaryWordLength == 24
DictionarySize == 122784

\* By word length, from 0.
kBrotliDictionaryOffsetsByLength ==
  <<0, 0, 0, 0, 0, 4096, 9216, 21504, 35840, 44032, 53248, 63488, 74752, 87040,
    93696, 100864, 104704, 106752, 108928, 113536, 115968, 118528, 119872,
    121280, 122016>>
kBrotliDictionarySizeBitsByLength ==
  <<0, 0, 0, 0, 10, 10, 11, 11, 10, 10, 10, 10, 10, 9, 9, 8, 7, 7, 8, 7, 7, 6, 6,
    5, 5>>

Offset(length) == kBrotliDictionaryOffsetsByLength[length + 1]
SizeBits(length) == kBrotliDictionarySizeBitsByLength[length + 1]

kIdentity == 0
kOmitLast9 == 9
kUppercaseFirst == 10
kUppercaseAll == 11
kOmitFirst1 == 12
kNumTransforms == 121

\* kPrefixSuffix is strings, each ended by a NUL; these are the places of the
\* NULs.  A prefix or a suffix is named by the place it starts at, so one may
\* be the tail of another.
kPrefixSuffixEnds ==
  {0, 2, 5, 14, 19, 22, 24, 30, 35, 37, 42, 45, 47, 50, 52, 58, 62, 69, 71, 78, 85,
   90, 92, 99, 104, 109, 114, 119, 122, 124, 128, 131, 136, 140, 142, 145, 151, 159,
   165, 169, 173, 178, 183, 189, 194, 199, 202, 207}

PrefixSuffixLength(id) == Min({e \in kPrefixSuffixEnds : e >= id}) - id

\* kTransforms: the prefix, the transform of the word, the suffix.
Transforms0 ==
  <<<<0, 0, 0>>, <<0, 0, 1>>, <<1, 0, 1>>, <<0, 12, 0>>, <<0, 10, 1>>,
    <<0, 0, 9>>, <<1, 0, 0>>, <<20, 0, 1>>, <<0, 0, 15>>, <<0, 10, 0>>,
    <<0, 0, 25>>, <<0, 13, 0>>, <<0, 1, 0>>, <<3, 0, 1>>, <<0, 0, 3>>,
    <<1, 10, 1>>, <<0, 0, 31>>, <<0, 0, 38>>, <<12, 0, 1>>, <<0, 0, 36>>,
    <<0, 0, 23>>, <<0, 0, 43>>, <<0, 0, 46>>, <<0, 3, 0>>, <<0, 0, 51>>,
    <<0, 0, 53>>, <<0, 14, 0>>, <<0, 2, 0>>, <<0, 0, 59>>, <<0, 0, 63>>>>
Transforms30 ==
  <<<<1, 10, 0>>, <<0, 0, 48>>, <<23, 0, 0>>, <<1, 0, 3>>, <<0, 15, 0>>,
    <<0, 0, 72>>, <<0, 0, 70>>, <<0, 0, 79>>, <<0, 0, 86>>, <<0, 16, 0>>,
    <<0, 17, 0>>, <<9, 0, 0>>, <<0, 4, 0>>, <<0, 0, 93>>, <<0, 11, 0>>,
    <<0, 0, 100>>, <<0, 0, 105>>, <<0, 0, 110>>, <<0, 7, 0>>, <<0, 1, 115>>,
    <<0, 0, 120>>, <<0, 0, 123>>, <<1, 0, 48>>, <<0, 0, 125>>, <<0, 20, 0>>,
    <<0, 18, 0>>, <<0, 6, 0>>, <<0, 0, 91>>, <<0, 10, 3>>, <<0, 8, 0>>>>
Transforms60 ==
  <<<<0, 0, 132>>, <<0, 0, 137>>, <<9, 0, 15>>, <<0, 5, 0>>, <<0, 9, 0>>,
    <<1, 10, 3>>, <<0, 10, 36>>, <<23, 0, 91>>, <<0, 11, 1>>, <<0, 10, 43>>,
    <<0, 0, 129>>, <<1, 0, 23>>, <<146, 0, 0>>, <<9, 0, 6>>, <<0, 10, 70>>,
    <<0, 0, 152>>, <<0, 0, 141>>, <<23, 0, 1>>, <<0, 10, 91>>, <<0, 10, 23>>,
    <<0, 0, 160>>, <<1, 0, 129>>, <<0, 0, 166>>, <<1, 11, 1>>, <<0, 0, 170>>,
    <<1, 11, 0>>, <<0, 0, 143>>, <<0, 11, 36>>, <<0, 10, 48>>, <<1, 0, 91>>>>
Transforms90 ==
  <<<<0, 0, 174>>, <<1, 10, 48>>, <<0, 0, 179>>, <<0, 0, 184>>, <<0, 11, 70>>,
    <<0, 0, 190>>, <<1, 10, 23>>, <<0, 11, 43>>, <<1, 0, 143>>, <<0, 10, 141>>,
    <<0, 0, 195>>, <<0, 11, 23>>, <<200, 0, 0>>, <<1, 0, 141>>, <<0, 10, 129>>,
    <<0, 11, 129>>, <<0, 0, 203>>, <<0, 11, 3>>, <<0, 10, 143>>, <<1, 10, 141>>,
    <<1, 11, 129>>, <<1, 11, 3>>, <<0, 11, 141>>, <<0, 11, 91>>, <<0, 11, 48>>,
    <<1, 11, 23>>, <<0, 11, 143>>, <<1, 11, 48>>, <<1, 10, 129>>, <<1, 11, 143>>,
    <<1, 10, 143>>>>
kTransforms == Transforms0 \o Transforms30 \o Transforms60 \o Transforms90

\* ToUpperCase goes on by one byte to three, as the first byte says, and
\* changes none behind them.
Steps == 1..3

\* How far the upper-casing of `length` bytes may change bytes, from the first
\* of them: the last character may begin at any of them, and go on behind the
\* end.  (Mutant: it starts behind the word.)
MutantUpperBehindWord(t, length) ==
  IF t = kUppercaseFirst THEN {length + step : step \in Steps}
  ELSE IF t = kUppercaseAll /\ length > 0 THEN {2 * length - 1 + step : step \in Steps}
  ELSE {length}
Changed(t, length) ==
  IF t = kUppercaseFirst THEN Steps
  ELSE IF t = kUppercaseAll /\ length > 0 THEN {length - 1 + step : step \in Steps}
  ELSE {length}

\* TransformDictionaryWord: the bytes of the word it leaves out, the length it
\* returns and the end of the bytes it changed, one outcome for each way the
\* upper-casing may go.
TransformDictionaryWord(len, transform) ==
  LET row == kTransforms[transform + 1]
      t == row[2]
      before == PrefixSuffixLength(row[1])
      behind == PrefixSuffixLength(row[3])
      omitted == IF t < kOmitFirst1 THEN 0 ELSE t - (kOmitFirst1 - 1)
      skip == Min({omitted, len})
      rest == len - skip - (IF t <= kOmitLast9 THEN t ELSE 0)
      kept == Max({rest, 0})
  IN  {[skip |-> skip, length |-> before + kept + behind,
        changed |-> Max({before + kept + behind, before + upper})] :
       upper \in Changed(t, kept)}

\* The word a distance beyond the window names.  (Mutant: the length of the
\* word does not part its number from the transform.)
MutantNoShift(i, word_id) == [index |-> 0, transform |-> word_id]
Named(i, word_id) ==
  [index |-> word_id % 2 ^ SizeBits(i), transform |-> word_id \div 2 ^ SizeBits(i)]

\* Where it starts in the dictionary.
Place(i, index) == Offset(i) + index * i
=============================================================================
