--------------------------- MODULE CommandBudget ---------------------------
(***************************************************************************)
(* What one command may cost (src/src/decode.rs, ProcessCommands on its    *)
(* fast path): the bytes of input its reads may look at, the bits they     *)
(* need in the accumulator, and the bytes a word of the dictionary may     *)
(* touch.  All sizes are those of the code.                                *)
(*                                                                         *)
(* The fast path asks once for 28 bytes of input, at the beginning of a    *)
(* command and before each literal, and then reads without asking.  When   *)
(* there are fewer it leaves to the safe path, which asks for every byte   *)
(* (StreamInput, PrefixCode) and may leave the bit reader and the command  *)
(* at any point; OUT is the time between two runs of the fast path.        *)
(*                                                                         *)
(* The bit reader is its bit_pos_, the bytes it took since the last check, *)
(* and how far its loads reached since then: a load may look at more bytes *)
(* than it takes.  What the bits mean is the stream's choice.              *)
(***************************************************************************)
EXTENDS Integers, Sequences, PrefixTables, DictionaryWord

CONSTANTS
  Symbols,      (* insert-and-copy symbols of streams, among 0..703         *)
  LongCopy      (* bound: stands for it and for every longer copy; a copy   *)
                (* whose length has extra bits is as long                   *)

ASSUME BudgetConstants ==
  /\ Symbols \subseteq 0..703
  /\ LongCopy \in Nat
  /\ \A i \in DOMAIN Copy.nbits : Copy.nbits[i] > 0 => Copy.offset[i] >= LongCopy

VARIABLES
  state,
  reader,       (* bit_pos_, used, reach                                    *)
  category,     (* of a block switch: 0 literals, 1 commands, 2 distances   *)
  trivial,      (* trivial_literal_context                                  *)
  copy_length,
  last,         (* is the distance the last one, without a symbol?          *)
  far,          (* history: did the distance have bits of its own?          *)
  advanced,     (* history: has the command dropped a bit or written a byte *)
                (* since it began?                                          *)
  word,         (* a word of the dictionary that was just used, or NoWord   *)
  distances     (* the parameters of the distance alphabet, until its trees *)
                (* are built                                                *)

commandVars == <<copy_length, last>>
vars == <<state, reader, category, trivial, commandVars, far, advanced, word, distances>>

RegBits == 64
CheckedBytes == 28
HUFFMAN_TABLE_BITS == 8
BROTLI_HUFFMAN_MAX_CODE_LENGTH == 15
kBrotliMaxAllowedDistance == 2147483644
kRingBufferWriteAheadSlack == 42
WindowGap == 16

Unknown == [bit_pos_ |-> RegBits, used |-> 0, reach |-> 0]
NoWord == [from |-> 0, to |-> 0, skip |-> 0, len |-> 0, length |-> 0, changed |-> 0]
Built == [npostfix |-> 0, ndirect |-> 0, large |-> FALSE]

-----------------------------------------------------------------------------
(* The bit reader                                                          *)

\* Looks at `size` bytes, takes `n` of them.
Load(r, size, n) ==
  [bit_pos_ |-> r.bit_pos_ - 8 * n, used |-> r.used + n,
   reach |-> Max({r.reach, r.used + size})]

\* BrotliFillBitWindow.
FillBitWindow(r, n_bits) ==
  IF n_bits <= 8 /\ r.bit_pos_ >= 56 THEN Load(r, 8, 7)
  ELSE IF n_bits <= 16 /\ r.bit_pos_ >= 48 THEN Load(r, 8, 6)
  ELSE IF r.bit_pos_ >= 32 THEN Load(r, 4, 4)
  ELSE r

\* BrotliFillBitWindowCompileTimeNbits: one of the three, by n_bits alone.
FillCompileTime(r, n_bits) ==
  CASE n_bits <= 8 -> IF r.bit_pos_ >= 56 THEN Load(r, 8, 7) ELSE r
    [] n_bits \in 9..16 -> IF r.bit_pos_ >= 48 THEN Load(r, 8, 6) ELSE r
    [] n_bits > 16 -> IF r.bit_pos_ >= 32 THEN Load(r, 4, 4) ELSE r

DropBits(r, n) == [r EXCEPT !.bit_pos_ = @ + n]

\* ReadSymbol of a symbol of n bits.  (Mutant: fills for the first table only.)
MutantShortPeek(r, n) == DropBits(FillCompileTime(r, HUFFMAN_TABLE_BITS), n)
ReadSymbol(r, n) == DropBits(FillCompileTime(r, 16), n)

ReadBits(r, n) == DropBits(FillBitWindow(r, n), n)

PreloadSymbol(r) == FillBitWindow(r, HUFFMAN_TABLE_BITS)

\* ReadPreloadedSymbol: a symbol of the first table is there already.
ReadPreloadedSymbol(r, n) ==
  PreloadSymbol(IF n <= HUFFMAN_TABLE_BITS THEN DropBits(r, n) ELSE ReadSymbol(r, n))

\* BrotliCheckInputAmount(28) has succeeded.
Checked(r) == [r EXCEPT !.used = 0, !.reach = 0]

\* BrotliWarmupBitReader pulls a byte into an empty accumulator.
WarmedUp(r) == IF r.bit_pos_ = RegBits THEN Load(r, 1, 1) ELSE r

CodeLengths == 0..BROTLI_HUFFMAN_MAX_CODE_LENGTH

-----------------------------------------------------------------------------
(* The alphabet of distances                                               *)

NUM_DISTANCE_SHORT_CODES == 16

DistanceAlphabetSize(npostfix, ndirect, maxnbits) ==
  NUM_DISTANCE_SHORT_CODES + ndirect + maxnbits * 2 ^ (npostfix + 1)

\* (Mutant: one symbol more where the direct distances end between the bounds.)
MutantOneMore(ndirect, npostfix) ==
  LET bound == <<0, 4, 12, 28>>[npostfix + 1]
      diff == <<73, 126, 228, 424>>[npostfix + 1]
      postfix == 2 ^ npostfix
  IN  IF ndirect < bound THEN ndirect + diff + postfix
      ELSE ndirect + diff + postfix
BrotliMaxDistanceSymbol(ndirect, npostfix) ==
  LET bound == <<0, 4, 12, 28>>[npostfix + 1]
      diff == <<73, 126, 228, 424>>[npostfix + 1]
      postfix == 2 ^ npostfix
  IN  IF ndirect < bound THEN ndirect + diff + postfix
      ELSE IF ndirect > bound + postfix THEN ndirect + diff
      ELSE bound + diff + postfix

\* The symbols of an alphabet; a code that names another one is refused.
SymbolCount(d) ==
  IF d.large THEN BrotliMaxDistanceSymbol(d.ndirect, d.npostfix)
  ELSE DistanceAlphabetSize(d.npostfix, d.ndirect, 24)

\* ReadDistanceInternal: bits behind a symbol that has some.
NBits(d, symbol) ==
  ((symbol - NUM_DISTANCE_SHORT_CODES - d.ndirect) \div 2 ^ (d.npostfix + 1)) + 1

\* The largest distance of a symbol is at most `limit`.  In the order of the
\* sums no part leaves 31 bits when the first conjunct holds.
AtMost(d, symbol, limit) ==
  LET distval == symbol - NUM_DISTANCE_SHORT_CODES - d.ndirect
      nbits == NBits(d, symbol)
      offset == (2 + ((distval \div 2 ^ d.npostfix) % 2)) * 2 ^ nbits - 4
      postfix == distval % 2 ^ d.npostfix
  IN  /\ nbits + d.npostfix <= 29
      /\ (offset + (2 ^ nbits - 1)) * 2 ^ d.npostfix
           <= limit - (postfix + d.ndirect + 1)

Parameters ==
  {[npostfix |-> n, ndirect |-> k * 2 ^ n, large |-> l] :
     n \in 0..3, k \in 0..15, l \in BOOLEAN}

SymbolsWithBits(d) == (NUM_DISTANCE_SHORT_CODES + d.ndirect)..(SymbolCount(d) - 1)

\* The most bits behind a symbol, of any parameters.
MaxNBits ==
  Max(UNION {{NBits(d, symbol) : symbol \in SymbolsWithBits(d)} : d \in Parameters})

\* A distance without bits is a direct one or near to an earlier one; the
\* window is not empty behind the earlier one, but for 16, 15, 11 and 4.
MostWithoutBits == Max({d.ndirect : d \in Parameters} \cup {16 + 3})

-----------------------------------------------------------------------------
Init ==
  /\ state = "METABLOCK_HEADER_2"
  /\ reader = Unknown
  /\ category = 0
  /\ trivial = FALSE
  /\ copy_length = 0
  /\ last = FALSE
  /\ far = FALSE
  /\ advanced = TRUE
  /\ word = NoWord
  /\ distances \in Parameters

\* The trees are read; the commands below are those of any parameters.
BuildTrees ==
  /\ state = "METABLOCK_HEADER_2"
  /\ state' = "OUT"
  /\ distances' = Built
  /\ UNCHANGED <<reader, category, trivial, commandVars, far, advanced, word>>

\* What a command of `symbol`, read in n bits, sets.
Begun(symbol, n) ==
  LET row == kCmdLut[symbol]
  IN  /\ copy_length' = Min({row.copy_len_offset, LongCopy})
      /\ last' = (row.distance_code = 0)
      /\ advanced' = (n + row.insert_len_extra_bits + row.copy_len_extra_bits > 0)

NoCommand ==
  /\ copy_length' = 0
  /\ last' = FALSE
  /\ advanced' = TRUE

\* ProcessCommandsInternal(false): the first check succeeds.  The safe path
\* may have begun the command.
Enter(bit_pos) ==
  /\ state = "OUT"
  /\ word = NoWord
  /\ reader' = WarmedUp([bit_pos_ |-> bit_pos, used |-> 0, reach |-> 0])
  /\ \/ state' = "COMMAND_BEGIN" /\ NoCommand
     \/ /\ state' \in {"COMMAND_INNER", "COMMAND_POST_DECODE_LITERALS"}
        /\ \E symbol \in Symbols, n \in {0, 1} : Begun(symbol, n)
     \/ /\ state' = "COMMAND_POST_WRAP_COPY"
        /\ \E symbol \in Symbols, n \in {0, 1} : Begun(symbol, n)
  /\ UNCHANGED <<category, trivial, far, word, distances>>

\* Leaves the fast path; what the next run of it finds, Enter chooses.
Leave ==
  /\ state' = "OUT"
  /\ reader' = Unknown
  /\ copy_length' = 0 /\ last' = FALSE /\ far' = FALSE /\ advanced' = TRUE
  /\ category' = 0 /\ trivial' = FALSE

(* Block switches: a type, a length symbol, the bits of the length.        *)

BeginSwitch(kind) ==
  /\ state' = "SWITCH_TYPE"
  /\ category' = kind

SwitchType(n) ==
  /\ state = "SWITCH_TYPE"
  /\ reader' = ReadSymbol(reader, n)
  /\ state' = "SWITCH_LENGTH"
  /\ UNCHANGED <<category, trivial, commandVars, far, advanced, word, distances>>

SwitchLength(n) ==
  /\ state = "SWITCH_LENGTH"
  /\ reader' = ReadSymbol(reader, n)
  /\ state' = "SWITCH_SUFFIX"
  /\ UNCHANGED <<category, trivial, commandVars, far, advanced, word, distances>>

\* The suffix.  A literal switch preloads a symbol when the loop it is in does,
\* and restarts the loop when the other kind of loop is due.
SwitchSuffix(n) ==
  LET r == ReadBits(reader, n)
  IN  /\ state = "SWITCH_SUFFIX"
      /\ category' = 0
      /\ \/ /\ category = 1
            /\ state' = "COMMAND_BEGIN"
            /\ reader' = r
            /\ UNCHANGED trivial
         \/ /\ category = 2
            /\ state' = "READ_DISTANCE"
            /\ reader' = r
            /\ UNCHANGED trivial
         \/ /\ category = 0
            /\ reader' = IF trivial THEN PreloadSymbol(r) ELSE r
            /\ \/ state' = "READ_LITERAL" /\ UNCHANGED trivial
               \/ state' = "COMMAND_INNER" /\ trivial' = FALSE
      /\ advanced' = IF category = 1 THEN advanced ELSE TRUE
      /\ UNCHANGED <<commandVars, far, word, distances>>

(* COMMAND_BEGIN                                                           *)

BeginCommand ==
  /\ state = "COMMAND_BEGIN"
  /\ reader' = Checked(reader)
  /\ \/ state' = "READ_COMMAND" /\ UNCHANGED category
     \/ BeginSwitch(1)
  /\ UNCHANGED <<trivial, commandVars, far, advanced, word, distances>>

\* The check fails, or the switch finds a single block type.
LeaveAtBegin ==
  /\ state = "COMMAND_BEGIN"
  /\ Leave
  /\ UNCHANGED <<word, distances>>

\* ReadCommandInternal.
ReadCommand(symbol, n) ==
  LET row == kCmdLut[symbol]
      r == ReadSymbol(reader, n)
      s == IF row.insert_len_extra_bits = 0 THEN r
           ELSE ReadBits(r, row.insert_len_extra_bits)
  IN  /\ state = "READ_COMMAND"
      /\ reader' = ReadBits(s, row.copy_len_extra_bits)
      /\ Begun(symbol, n)
      /\ state' = IF row.insert_len_offset = 0 THEN "COMMAND_POST_DECODE_LITERALS"
                  ELSE "COMMAND_INNER"
      /\ UNCHANGED <<category, trivial, far, word, distances>>

(* COMMAND_INNER: the loop over literals, in one of two forms.  Which form *)
(* the block type of the literals takes is known in the loop only.         *)

BeginLiterals ==
  /\ state = "COMMAND_INNER"
  /\ trivial' \in BOOLEAN
  /\ reader' = IF trivial' THEN PreloadSymbol(reader) ELSE reader
  /\ state' = "LITERAL"
  /\ UNCHANGED <<category, commandVars, far, advanced, word, distances>>

\* The check of an iteration succeeds.
CheckLiteral ==
  /\ state = "LITERAL"
  /\ reader' = Checked(reader)
  /\ \/ state' = "READ_LITERAL" /\ UNCHANGED category
     \/ BeginSwitch(0)
  /\ UNCHANGED <<trivial, commandVars, far, advanced, word, distances>>

LeaveAtLiteral ==
  /\ state = "LITERAL"
  /\ Leave
  /\ UNCHANGED <<word, distances>>

\* A literal is read and stored, and the command goes on.
ReadLiteral(n) ==
  /\ state = "READ_LITERAL"
  /\ reader' = IF trivial THEN ReadPreloadedSymbol(reader, n) ELSE ReadSymbol(reader, n)
  /\ \/ state' = "LITERAL" /\ UNCHANGED trivial
     \/ state' = "COMMAND_POST_DECODE_LITERALS" /\ trivial' = FALSE
  /\ advanced' = TRUE
  /\ UNCHANGED <<category, commandVars, far, word, distances>>

\* It was the last one of the ring buffer or of the meta-block.
LeaveAfterLiteral ==
  /\ state = "READ_LITERAL"
  /\ Leave
  /\ UNCHANGED <<word, distances>>

(* COMMAND_POST_DECODE_LITERALS: no check                                  *)

LastDistance ==
  /\ state = "COMMAND_POST_DECODE_LITERALS"
  /\ last
  /\ far' = FALSE
  /\ state' = "COPY"
  /\ UNCHANGED <<reader, category, trivial, commandVars, advanced, word, distances>>

BeginDistance ==
  /\ state = "COMMAND_POST_DECODE_LITERALS"
  /\ ~last
  /\ \/ state' = "READ_DISTANCE" /\ UNCHANGED category
     \/ BeginSwitch(2)
  /\ UNCHANGED <<reader, trivial, commandVars, far, advanced, word, distances>>

\* A symbol of n bits, and nbits behind it or none.
ReadDistance(n, nbits) ==
  LET r == ReadSymbol(reader, n)
  IN  /\ state = "READ_DISTANCE"
      /\ reader' = IF nbits = 0 THEN r ELSE ReadBits(r, nbits)
      /\ far' = (nbits > 0)
      /\ advanced' = (advanced \/ n + nbits > 0)
      /\ state' = "COPY"
      /\ UNCHANGED <<category, trivial, commandVars, word, distances>>

(* The copy                                                                *)

NextCommand ==
  /\ state' = "COMMAND_BEGIN"
  /\ copy_length' = 0 /\ last' = FALSE /\ far' = FALSE
  /\ UNCHANGED <<category, trivial>>

\* The distance is inside the window.
CopyBack ==
  /\ state \in {"COPY", "COMMAND_POST_WRAP_COPY"}
  /\ \/ /\ NextCommand
        /\ advanced' = (advanced \/ copy_length > 0)
        /\ UNCHANGED reader
     \/ Leave
  /\ UNCHANGED <<word, distances>>

\* The numbers of words of a length that a distance beyond the window may name:
\* the first and the last word of each transform, or the words near the window.
WordIds(length, with_bits) ==
  IF with_bits THEN {t * 2 ^ SizeBits(length) + w :
                       t \in 0..kNumTransforms, w \in {0, 2 ^ SizeBits(length) - 1}}
  ELSE 0..(MostWithoutBits - 1)

WordLengths == kBrotliMinDictionaryWordLength..kBrotliMaxDictionaryWordLength

\* What the words of a length may do; a transform there is not is refused.
Words(length, with_bits) ==
  UNION {LET named == Named(length, word_id)
         IN  IF named.transform >= kNumTransforms THEN {} ELSE
             {[from |-> Place(length, named.index),
               to |-> Place(length, named.index) + length, skip |-> w.skip,
               len |-> length, length |-> w.length, changed |-> w.changed] :
              w \in TransformDictionaryWord(length, named.transform)} :
         word_id \in WordIds(length, with_bits)}

\* Whether they add bytes to the output, for each length a command may have.
Added ==
  UNION {{[copy_length |-> Min({length, LongCopy}), far |-> with_bits,
           some |-> w.length > 0] : w \in Words(length, with_bits)} :
         length \in WordLengths, with_bits \in BOOLEAN}

\* The distance is beyond the window and names a word.
CopyWord ==
  /\ state = "COPY"
  /\ \E added \in Added :
       /\ added.copy_length = copy_length /\ added.far = far
       /\ NextCommand
       /\ advanced' = (advanced \/ added.some)
  /\ UNCHANGED <<reader, word, distances>>

\* What it does to the ring buffer, on either path.
UseWord ==
  /\ state = "OUT"
  /\ IF word # NoWord THEN word' = NoWord
     ELSE \E length \in WordLengths : word' \in Words(length, TRUE)
  /\ UNCHANGED <<state, reader, category, trivial, commandVars, far, advanced, distances>>

\* No word has this length, there is no such transform, or the distance is
\* beyond what any stream may name.
RefuseWord ==
  /\ state = "COPY"
  /\ Leave
  /\ UNCHANGED <<word, distances>>

Next ==
  \/ BuildTrees
  \/ \E bit_pos \in 0..RegBits : Enter(bit_pos)
  \/ BeginCommand \/ LeaveAtBegin
  \/ \E symbol \in Symbols, n \in CodeLengths : ReadCommand(symbol, n)
  \/ BeginLiterals \/ CheckLiteral \/ LeaveAtLiteral \/ LeaveAfterLiteral
  \/ \E n \in CodeLengths :
       ReadLiteral(n) \/ SwitchType(n) \/ SwitchLength(n)
  \/ \E i \in DOMAIN kBlockLengthPrefixCode.nbits :
       SwitchSuffix(kBlockLengthPrefixCode.nbits[i])
  \/ LastDistance \/ BeginDistance
  \/ \E n \in CodeLengths, nbits \in 0..MaxNBits : ReadDistance(n, nbits)
  \/ CopyBack \/ CopyWord \/ UseWord \/ RefuseWord

Spec == Init /\ [][Next]_vars
-----------------------------------------------------------------------------
(* Properties                                                              *)

\* Between two checks no load of the fast path looks at a byte beyond the 28
\* the check found, whatever the lengths of the codes, the block switches and
\* the extra bits between them (the comments "156 bits + 7 bytes" and "162
\* bits + 7 bytes" of ProcessCommandsInternal).  And no read drops a bit that
\* was not loaded: the fill before it leaves as many bits as it may take, also
\* where that was the preload of the literal before.
InputWithinBudget ==
  /\ reader.reach <= CheckedBytes
  /\ reader.bit_pos_ <= RegBits

\* A command takes a bit of input or makes a byte of output, so that a
\* meta-block cannot go on without either: a word that a transform cuts to
\* nothing is only named by a distance with bits of its own.
EveryCommandAdvances == state = "COMMAND_BEGIN" => advanced

\* A word lies among those of its length, and what its transform writes, the
\* bytes the upper-casing changes behind its end included, lies in the slack
\* behind the ring buffer and in the 16 bytes no distance reaches ("5 prefix +
\* 24 base + 8 suffix").
WordInPlace ==
  /\ Offset(word.len) <= word.from
  /\ word.to <= IF word.len < kBrotliMaxDictionaryWordLength THEN Offset(word.len + 1)
                ELSE DictionarySize
  /\ word.skip <= word.len
  /\ word.length \in 0..(5 + 24 + 8)
  /\ word.changed <= kRingBufferWriteAheadSlack
  /\ word.changed - word.length < WindowGap

\* The symbols of an alphabet stand for distances no larger than the largest
\* allowed one, which fit in an i32; a large window has as many such symbols
\* as there are (the comment on BrotliMaxDistanceSymbol).
DistancesFit ==
  state = "METABLOCK_HEADER_2" =>
    /\ \A symbol \in SymbolsWithBits(distances) :
         AtMost(distances, symbol, kBrotliMaxAllowedDistance)
    /\ distances.large =>
         ~AtMost(distances, SymbolCount(distances), kBrotliMaxAllowedDistance)
=============================================================================
