---------------------------- MODULE StreamHeader ----------------------------
(***************************************************************************)
(* The header fields of a stream and of its meta-blocks                    *)
(* (src/src/decode.rs): the window size, DecodeMetaBlockLength, the        *)
(* numbers of block types read by DecodeVarLenUint8, the parameters of     *)
(* distances and the context modes.                                        *)
(*                                                                         *)
(* Every field may be the last one the input holds.  The decoder then      *)
(* returns from wherever it is; what it holds in local variables is lost,  *)
(* and a later call resumes with what it has saved.  `read` has the fields *)
(* of the part that is read, as the stream gave them; the properties       *)
(* compare what the decoder made of them with their meaning at once.       *)
(***************************************************************************)
EXTENDS Integers, Sequences

CONSTANTS
  Nibbles,      (* values of the nibbles of a length                        *)
  Bytes,        (* values of the bytes of a metadata length                 *)
  Offsets,      (* bits of a byte up to which codes and commands are read   *)
  MaxBlocks     (* bound: meta-blocks of a stream                           *)

ASSUME StreamHeaderConstants ==
  /\ Nibbles \subseteq 0..15 /\ Bytes \subseteq 0..255
  /\ Offsets \subseteq 0..7 /\ MaxBlocks \in Nat

Categories == 0..2     (* literals, commands, distances                     *)

VARIABLES
  state,
  running,                    (* a call is in the state machine             *)
  large_window,
  window_bits,
  substate_metablock_header,
  is_last_metablock, is_uncompressed, is_metadata,
  meta_block_remaining_len,
  size_nibbles,
  loop_counter,
  i,                          (* the local copy of loop_counter             *)
  substate_decode_uint8,
  num_block_types,
  distance_postfix_bits,
  num_direct_distance_codes,
  context_modes,
  offset,                     (* history: bits read, modulo 8               *)
  asked_large,                (* history: large windows are admitted        *)
  part, read,                 (* history: what is read, and its fields      *)
  skipped,                    (* history: bytes of metadata skipped         *)
  blocks                      (* history: meta-blocks before this one       *)

windowVars == <<large_window, window_bits, asked_large>>
lengthVars == <<substate_metablock_header, is_last_metablock, is_uncompressed,
                is_metadata, meta_block_remaining_len, size_nibbles>>
loopVars == <<loop_counter, i>>
countVars == <<substate_decode_uint8, num_block_types>>
modeVars == <<distance_postfix_bits, num_direct_distance_codes, context_modes>>
readVars == <<offset, part, read>>
blockVars == <<skipped, blocks>>
vars == <<state, running, windowVars, lengthVars, loopVars, countVars, modeVars,
          readVars, blockVars>>

-----------------------------------------------------------------------------
(* Fields                                                                  *)

In(s) == running /\ state = s

\* The first field of a part, or a further one, of w bits and with value v.
First(p, w, v) == part' = p /\ read' = <<v>> /\ offset' = (offset + w) % 8
Field(w, v) ==
  read' = Append(read, v) /\ offset' = (offset + w) % 8 /\ UNCHANGED part

\* BrotliJumpToByteBoundary behind `at` bits: those skipped, if any, may be zero
\* or not.
Padding(zero, at) == offset' = 0 /\ (zero \/ at # 0)

Init ==
  /\ state = "UNINITED"
  /\ running = FALSE
  /\ large_window \in BOOLEAN
  /\ asked_large = large_window
  /\ window_bits = 0
  /\ substate_metablock_header = "NONE"
  /\ is_last_metablock = 0 /\ is_uncompressed = 0 /\ is_metadata = 0
  /\ meta_block_remaining_len = 0
  /\ size_nibbles = 0
  /\ loop_counter = 0 /\ i = 0
  /\ substate_decode_uint8 = "NONE"
  /\ num_block_types = [c \in Categories |-> 0]
  /\ distance_postfix_bits = 0
  /\ num_direct_distance_codes = 0
  /\ context_modes = <<>>
  /\ offset = 0 /\ part = "window" /\ read = <<>>
  /\ skipped = 0 /\ blocks = 0

-----------------------------------------------------------------------------
(* Interruptions                                                           *)

\* Whether the length is followed by a bit of its own.
SaysUncompressed == is_last_metablock = 0 /\ is_metadata = 0

\* Where the next step reads a field.
AwaitsField ==
  \/ state \in {"UNINITED", "LARGE_WINDOW_BITS", "METADATA", "HUFFMAN_CODE_1",
               "METABLOCK_HEADER_2", "CONTEXT_MODES"}
  \/ /\ state = "METABLOCK_HEADER"
     /\ substate_metablock_header = "UNCOMPRESSED" => SaysUncompressed
  \/ state = "HUFFMAN_CODE_0" /\ loop_counter < 3

\* The loops over nibbles, bytes and context modes run on a local variable.
InLoop ==
  \/ state = "METABLOCK_HEADER" /\ substate_metablock_header \in {"SIZE", "METADATA"}
  \/ state = "CONTEXT_MODES"

\* The next field is not there: the call returns.  (Mutant: the counter of the
\* loop is not saved.)
MutantForgetsCounter ==
  /\ running /\ AwaitsField /\ running' = FALSE
  /\ i' = 0
  /\ UNCHANGED <<state, windowVars, lengthVars, loop_counter, countVars, modeVars,
                 readVars, blockVars>>
MissField ==
  /\ running /\ AwaitsField /\ running' = FALSE
  /\ loop_counter' = IF InLoop THEN i ELSE loop_counter
  /\ i' = 0
  /\ UNCHANGED <<state, windowVars, lengthVars, countVars, modeVars, readVars,
                 blockVars>>

Resume ==
  /\ ~running /\ running' = TRUE
  /\ i' = IF InLoop THEN loop_counter ELSE 0
  /\ UNCHANGED <<state, windowVars, lengthVars, loop_counter, countVars, modeVars,
                 readVars, blockVars>>

-----------------------------------------------------------------------------
(* The window                                                              *)

\* The size by the first bit, and by the two fields of 3 bits behind it.  (Mutant:
\* the last case is taken for the first one.)
MutantSixteen(n0, n1, n2) ==
  IF n0 = 0 THEN 16 ELSE IF n1 # 0 THEN 17 + n1 ELSE IF n2 # 0 THEN 8 + n2 ELSE 16
WindowBits(n0, n1, n2) ==
  IF n0 = 0 THEN 16 ELSE IF n1 # 0 THEN 17 + n1 ELSE IF n2 # 0 THEN 8 + n2 ELSE 17

\* DecodeWindowBits; a call gets here only with 8 bits at hand.  INITIALIZE, which
\* only allocates, is passed.
DecodeWindowBits(n0, n1, n2) ==
  /\ In("UNINITED")
  /\ n0 = 0 \/ n1 # 0 \/ n2 # 1
  /\ CASE n0 = 0 -> First("window", 1, n0)
       [] n0 = 1 /\ n1 # 0 -> First("window", 4, n0 + 2 * n1)
       [] OTHER -> First("window", 7, n0 + 16 * n2)
  /\ window_bits' = WindowBits(n0, n1, n2)
  /\ large_window' = FALSE
  /\ state' = "METABLOCK_BEGIN"
  /\ UNCHANGED <<running, asked_large, lengthVars, loopVars, countVars, modeVars,
                 blockVars>>

\* The code of large windows, if they are admitted and the bit behind it is 0.
DecodeLargeWindow(n3) ==
  /\ In("UNINITED")
  /\ First("window", IF large_window THEN 8 ELSE 7, 17 + 128 * n3)
  /\ ~large_window => n3 = 0
  /\ large_window' = (large_window /\ n3 = 0)
  /\ state' = IF large_window' THEN "LARGE_WINDOW_BITS" ELSE "ERROR_FORMAT_WINDOW_BITS"
  /\ UNCHANGED <<running, window_bits, asked_large, lengthVars, loopVars, countVars,
                 modeVars, blockVars>>

ReadLargeWindowBits(n) ==
  /\ In("LARGE_WINDOW_BITS")
  /\ Field(6, n)
  /\ window_bits' = n
  /\ state' = IF n \in 10..30 THEN "METABLOCK_BEGIN" ELSE "ERROR_FORMAT_WINDOW_BITS"
  /\ UNCHANGED <<running, large_window, asked_large, lengthVars, loopVars, countVars,
                 modeVars, blockVars>>

\* lg_window_size, with which brotli_decode looks ahead: the window size and the bits it takes, from the first two
\* bytes of a stream; <<>> when it is none.
LgWindowSize(first, second) ==
  CASE first % 2 = 0 -> <<16, 1>>
    [] first % 16 \in {3, 5, 7, 9, 11, 13, 15} -> <<17 + (first % 16) \div 2, 4>>
    [] first % 128 \in {33, 49, 65, 81, 97, 113} -> <<8 + (first % 128) \div 16, 7>>
    [] first % 128 = 1 -> <<17, 7>>
    [] first = 17 /\ second % 64 \in 10..30 -> <<second % 64, 14>>
    [] OTHER -> <<>>

-----------------------------------------------------------------------------
(* DecodeMetaBlockLength                                                   *)

\* BrotliStateMetablockBegin.
MetablockBegin ==
  /\ In("METABLOCK_BEGIN")
  /\ state' = "METABLOCK_HEADER"
  /\ meta_block_remaining_len' = 0
  /\ num_block_types' = [c \in Categories |-> 1]
  /\ context_modes' = <<>>
  /\ UNCHANGED <<running, windowVars, substate_metablock_header, is_last_metablock,
                 is_uncompressed, is_metadata, size_nibbles, loopVars,
                 substate_decode_uint8, distance_postfix_bits,
                 num_direct_distance_codes, readVars, blockVars>>

InHeader(substate) ==
  In("METABLOCK_HEADER") /\ substate_metablock_header = substate

ReadIsLast(v) ==
  /\ InHeader("NONE")
  /\ First("header", 1, v)
  /\ is_last_metablock' = v
  /\ meta_block_remaining_len' = 0 /\ is_uncompressed' = 0 /\ is_metadata' = 0
  /\ skipped' = 0
  /\ substate_metablock_header' = IF v = 0 THEN "NIBBLES" ELSE "EMPTY"
  /\ UNCHANGED <<state, running, windowVars, size_nibbles, loopVars, countVars,
                 modeVars, blocks>>

\* What follows a complete header: raw bytes, of the output or of metadata, are
\* on a byte boundary; the loop counter starts with the categories.
HeaderDone(metadata, uncompressed, len, next) ==
  \/ /\ metadata = 1 \/ uncompressed = 1
     /\ \E zero \in BOOLEAN :
          /\ Padding(zero, next)
          /\ state' = CASE ~zero -> "ERROR_FORMAT_PADDING_2"
                        [] zero /\ metadata = 1 -> "METADATA"
                        [] OTHER -> "UNCOMPRESSED"
     /\ UNCHANGED loopVars
  \/ /\ metadata = 0 /\ uncompressed = 0
     /\ offset' = next
     /\ IF len = 0
        THEN state' = "METABLOCK_DONE" /\ UNCHANGED loopVars
        ELSE state' = "HUFFMAN_CODE_0" /\ loop_counter' = 0 /\ i' = 0

ReadIsEmpty(v) ==
  /\ InHeader("EMPTY")
  /\ read' = Append(read, v)
  /\ IF v = 0
     THEN /\ substate_metablock_header' = "NIBBLES"
          /\ offset' = (offset + 1) % 8
          /\ UNCHANGED <<state, loopVars>>
     ELSE /\ substate_metablock_header' = "NONE"
          /\ HeaderDone(is_metadata, is_uncompressed, meta_block_remaining_len,
                        (offset + 1) % 8)
  /\ UNCHANGED <<running, windowVars, is_last_metablock, is_uncompressed, is_metadata,
                 meta_block_remaining_len, size_nibbles, countVars, modeVars, part,
                 blockVars>>

ReadNibbleCount(v) ==
  /\ InHeader("NIBBLES")
  /\ Field(2, v)
  /\ size_nibbles' = v + 4
  /\ loop_counter' = 0 /\ i' = 0
  /\ is_metadata' = IF v = 3 THEN 1 ELSE is_metadata
  /\ substate_metablock_header' = IF v = 3 THEN "RESERVED" ELSE "SIZE"
  /\ UNCHANGED <<state, running, windowVars, is_last_metablock, is_uncompressed,
                 meta_block_remaining_len, countVars, modeVars, blockVars>>

\* One digit of w bits of a length, the lowest first; the last one is not 0 when
\* fewer digits would do.
ReadDigit(w, v, fewest, error) ==
  /\ i < size_nibbles
  /\ Field(w, v)
  /\ IF i + 1 = size_nibbles /\ size_nibbles > fewest /\ v = 0
     THEN state' = error /\ UNCHANGED <<lengthVars, loopVars>>
     ELSE /\ meta_block_remaining_len' = meta_block_remaining_len + v * 2^(w * i)
          /\ i' = i + 1
          /\ substate_metablock_header' =
               IF i + 1 = size_nibbles THEN "UNCOMPRESSED"
                                       ELSE substate_metablock_header
          /\ UNCHANGED <<state, loop_counter, is_last_metablock, is_uncompressed,
                         is_metadata, size_nibbles>>
  /\ UNCHANGED <<running, windowVars, countVars, modeVars, blockVars>>

ReadNibble(v) ==
  InHeader("SIZE") /\ ReadDigit(4, v, 4, "ERROR_FORMAT_EXUBERANT_NIBBLE")

ReadLengthByte(v) ==
  InHeader("METADATA") /\ ReadDigit(8, v, 1, "ERROR_FORMAT_EXUBERANT_META_NIBBLE")

ReadReserved(v) ==
  /\ InHeader("RESERVED")
  /\ Field(1, v)
  /\ IF v = 0 THEN substate_metablock_header' = "BYTES" /\ UNCHANGED state
              ELSE state' = "ERROR_FORMAT_RESERVED" /\ UNCHANGED substate_metablock_header
  /\ UNCHANGED <<running, windowVars, is_last_metablock, is_uncompressed, is_metadata,
                 meta_block_remaining_len, size_nibbles, loopVars, countVars, modeVars,
                 blockVars>>

\* How many bytes the length of metadata has; without any the header is complete.
ReadByteCount(v) ==
  /\ InHeader("BYTES")
  /\ read' = Append(read, v)
  /\ IF v = 0
     THEN /\ substate_metablock_header' = "NONE"
          /\ HeaderDone(is_metadata, is_uncompressed, meta_block_remaining_len,
                        (offset + 2) % 8)
          /\ UNCHANGED size_nibbles
     ELSE /\ substate_metablock_header' = "METADATA"
          /\ size_nibbles' = v
          /\ offset' = (offset + 2) % 8
          /\ i' = loop_counter
          /\ UNCHANGED <<state, loop_counter>>
  /\ UNCHANGED <<running, windowVars, is_last_metablock, is_uncompressed, is_metadata,
                 meta_block_remaining_len, countVars, modeVars, part, blockVars>>

\* The last field: uncompressed or not, of a block that is neither the last one
\* nor metadata.  The length is one more than the digits say.
ReadIsUncompressed(v) ==
  /\ InHeader("UNCOMPRESSED")
  /\ meta_block_remaining_len' = meta_block_remaining_len + 1
  /\ IF SaysUncompressed
     THEN /\ read' = Append(read, v) /\ is_uncompressed' = v
          /\ HeaderDone(is_metadata, v, meta_block_remaining_len', (offset + 1) % 8)
     ELSE /\ v = 0
          /\ HeaderDone(is_metadata, is_uncompressed, meta_block_remaining_len', offset)
          /\ UNCHANGED <<read, is_uncompressed>>
  /\ substate_metablock_header' = "NONE"
  /\ UNCHANGED <<running, windowVars, is_last_metablock, is_metadata, size_nibbles,
                 countVars, modeVars, part, blockVars>>

-----------------------------------------------------------------------------
(* The body of a meta-block and its end                                    *)

\* Bytes of metadata are read and dropped, one or all of them in this call.
SkipMetadata(n) ==
  /\ In("METADATA") /\ n <= meta_block_remaining_len
  /\ meta_block_remaining_len' = meta_block_remaining_len - n
  /\ skipped' = skipped + n
  /\ state' = IF n = meta_block_remaining_len THEN "METABLOCK_DONE" ELSE state
  /\ UNCHANGED <<running, windowVars, substate_metablock_header, is_last_metablock,
                 is_uncompressed, is_metadata, size_nibbles, loopVars, countVars,
                 modeVars, readVars, blocks>>

\* What the block holds is read, up to any bit: context maps, prefix codes and
\* commands, or raw bytes.
DecodeBody ==
  /\ running /\ state \in {"UNCOMPRESSED", "CONTEXT_MAP_1"}
  /\ state' = "METABLOCK_DONE"
  /\ meta_block_remaining_len' = 0
  /\ part' = "body" /\ read' = <<>>
  /\ offset' \in IF state = "UNCOMPRESSED" THEN {0} ELSE Offsets
  /\ UNCHANGED <<running, windowVars, substate_metablock_header, is_last_metablock,
                 is_uncompressed, is_metadata, size_nibbles, loopVars, countVars,
                 modeVars, blockVars>>

FinishMetablock ==
  /\ In("METABLOCK_DONE")
  /\ context_modes' = <<>>
  /\ IF is_last_metablock = 0
     THEN /\ blocks < MaxBlocks /\ blocks' = blocks + 1
          /\ state' = "METABLOCK_BEGIN"
          /\ UNCHANGED offset
     ELSE /\ \E zero \in BOOLEAN :
               /\ Padding(zero, offset)
               /\ state' = IF zero THEN "DONE" ELSE "ERROR_FORMAT_PADDING_2"
          /\ UNCHANGED blocks
  /\ UNCHANGED <<running, windowVars, lengthVars, loopVars, countVars,
                 distance_postfix_bits, num_direct_distance_codes, part, read, skipped>>

-----------------------------------------------------------------------------
(* The numbers of block types                                              *)

\* DecodeVarLenUint8 keeps the width of the last field in its result.
InCount(substate) ==
  In("HUFFMAN_CODE_0") /\ loop_counter < 3 /\ substate_decode_uint8 = substate

\* The number is v + 1; two types or more have prefix codes.
CountIs(v) ==
  /\ num_block_types' = [num_block_types EXCEPT ![loop_counter] = v + 1]
  /\ substate_decode_uint8' = "NONE"
  /\ IF v = 0 THEN loop_counter' = loop_counter + 1 /\ UNCHANGED state
              ELSE state' = "HUFFMAN_CODE_1" /\ UNCHANGED loop_counter

\* A further field of the number follows.
CountGoesOn(v, substate) ==
  /\ num_block_types' = [num_block_types EXCEPT ![loop_counter] = v]
  /\ substate_decode_uint8' = substate
  /\ UNCHANGED <<state, loop_counter>>

ReadCountFlag(v) ==
  /\ InCount("NONE")
  /\ First("count", 1, v)
  /\ IF v = 0 THEN CountIs(0) ELSE CountGoesOn(num_block_types[loop_counter], "SHORT")
  /\ UNCHANGED <<running, windowVars, lengthVars, i, modeVars, blockVars>>

ReadCountWidth(v) ==
  /\ InCount("SHORT")
  /\ Field(3, v)
  /\ IF v = 0 THEN CountIs(1) ELSE CountGoesOn(v, "LONG")
  /\ UNCHANGED <<running, windowVars, lengthVars, i, modeVars, blockVars>>

ReadCountRest(v) ==
  /\ InCount("LONG")
  /\ LET width == num_block_types[loop_counter]
     IN  v < 2^width /\ Field(width, v) /\ CountIs(2^width + v)
  /\ UNCHANGED <<running, windowVars, lengthVars, i, modeVars, blockVars>>

\* HUFFMAN_CODE_1 to HUFFMAN_CODE_3: the prefix codes of the category and the
\* length of its first block.
ReadBlockCodes ==
  /\ In("HUFFMAN_CODE_1")
  /\ state' = "HUFFMAN_CODE_0"
  /\ loop_counter' = loop_counter + 1
  /\ part' = "codes" /\ read' = <<>> /\ offset' \in Offsets
  /\ UNCHANGED <<running, windowVars, lengthVars, i, countVars, modeVars, blockVars>>

CountsDone ==
  /\ In("HUFFMAN_CODE_0") /\ loop_counter >= 3
  /\ state' = "METABLOCK_HEADER_2"
  /\ UNCHANGED <<running, windowVars, lengthVars, loopVars, countVars, modeVars,
                 readVars, blockVars>>

-----------------------------------------------------------------------------
(* METABLOCK_HEADER_2 and CONTEXT_MODES                                    *)

ReadDistanceParameters(v) ==
  /\ In("METABLOCK_HEADER_2")
  /\ First("distances", 6, v)
  /\ distance_postfix_bits' = v % 4
  /\ num_direct_distance_codes' = 16 + (v \div 4) * 2^(v % 4)
  /\ context_modes' = [k \in 1..num_block_types[0] |-> 0]
  /\ loop_counter' = 0 /\ i' = 0
  /\ state' = "CONTEXT_MODES"
  /\ UNCHANGED <<running, windowVars, lengthVars, countVars, blockVars>>

\* ReadContextModes.
ReadContextMode(v) ==
  /\ In("CONTEXT_MODES")
  /\ IF i = 0 THEN First("modes", 2, v) ELSE Field(2, v)
  /\ context_modes' = [context_modes EXCEPT ![i + 1] = v]
  /\ i' = i + 1
  /\ state' = IF i + 1 = num_block_types[0] THEN "CONTEXT_MAP_1" ELSE state
  /\ UNCHANGED <<running, windowVars, lengthVars, loop_counter, countVars,
                 distance_postfix_bits, num_direct_distance_codes, blockVars>>

-----------------------------------------------------------------------------
Window ==
  \/ \E n0 \in 0..1, n1, n2 \in 0..7 : DecodeWindowBits(n0, n1, n2)
  \/ \E n3 \in 0..1 : DecodeLargeWindow(n3)
  \/ \E n \in 0..63 : ReadLargeWindowBits(n)

Header ==
  \/ MetablockBegin
  \/ \E v \in 0..1 : \/ ReadIsLast(v) \/ ReadIsEmpty(v)
                     \/ ReadReserved(v) \/ ReadIsUncompressed(v)
  \/ \E v \in 0..3 : ReadNibbleCount(v) \/ ReadByteCount(v)
  \/ \E v \in Nibbles : ReadNibble(v)
  \/ \E v \in Bytes : ReadLengthByte(v)

Counts ==
  \/ \E v \in 0..1 : ReadCountFlag(v)
  \/ \E v \in 0..7 : ReadCountWidth(v)
  \/ \E v \in 0..127 : ReadCountRest(v)
  \/ ReadBlockCodes \/ CountsDone

Modes ==
  \/ \E v \in 0..63 : ReadDistanceParameters(v)
  \/ \E v \in 0..3 : ReadContextMode(v)

Body ==
  \/ \E n \in {1, meta_block_remaining_len} : SkipMetadata(n)
  \/ DecodeBody
  \/ FinishMetablock

Next == MissField \/ Resume \/ Window \/ Header \/ Counts \/ Modes \/ Body

Spec == Init /\ [][Next]_vars

-----------------------------------------------------------------------------
(* Properties                                                              *)

\* brotli_decode sizes its scratch memory by a peek at the first two bytes: the
\* peek and the decoder find the same window, whatever bits follow it, and
\* reject the same streams when large windows are admitted.
WindowAsPeeked ==
  part = "window" /\ read # <<>> /\ state # "LARGE_WINDOW_BITS" =>
    \A first \in 0..255, second \in 0..63 :
      LET bits == IF read[1] % 2 = 0 THEN 1
                  ELSE IF (read[1] \div 2) % 8 # 0 THEN 4
                  ELSE IF read[1] % 128 # 17 THEN 7
                  ELSE 8
      IN  first % 2^bits = read[1] /\ (Len(read) = 2 => second = read[2]) =>
            CASE state = "METABLOCK_BEGIN" ->
                   LgWindowSize(first, second) =
                     <<window_bits, IF Len(read) = 2 THEN 14 ELSE bits>>
              [] state = "ERROR_FORMAT_WINDOW_BITS" /\ asked_large ->
                   LgWindowSize(first, second) = <<>>
              [] OTHER -> TRUE

\* The number of n digits of w bits, the lowest first, behind field `at` of f.  It
\* has at most seven.
Number(f, at, n, w) ==
  LET digit(k) == IF k <= n THEN f[at + k] * 2^(w * (k - 1)) ELSE 0
  IN  digit(1) + digit(2) + digit(3) + digit(4) + digit(5) + digit(6) + digit(7)

\* The meaning of the fields of a header (RFC 7932, section 9.2).
HeaderSays(f) ==
  LET size == IF f[1] = 1 THEN 3 ELSE 2    \* the field with the number of digits
      said(len, metadata, uncompressed) ==
        [last |-> f[1], len |-> len, metadata |-> metadata,
         uncompressed |-> uncompressed]
  IN  IF f[1] = 1 /\ f[2] = 1 THEN said(0, 0, 0)
      ELSE IF f[size] = 3
      THEN said(IF f[size + 2] = 0 THEN 0
                ELSE 1 + Number(f, size + 2, f[size + 2], 8), 1, 0)
      ELSE said(1 + Number(f, size, 4 + f[size], 4), 0,
                IF f[1] = 1 THEN 0 ELSE f[Len(f)])

HeaderAsSaid ==
  (/\ part = "header"
   /\ state \in {"METADATA", "UNCOMPRESSED", "METABLOCK_DONE", "HUFFMAN_CODE_0"}) =>
    HeaderSays(read) =
      [last |-> is_last_metablock, len |-> meta_block_remaining_len + skipped,
       metadata |-> is_metadata, uncompressed |-> is_uncompressed]

\* A number of block types is one more than a number of up to three fields.
CountAsSaid ==
  part = "count" /\ substate_decode_uint8 = "NONE" =>
    num_block_types[IF state = "HUFFMAN_CODE_1" THEN loop_counter ELSE loop_counter - 1] =
      1 + CASE read[1] = 0 -> 0
            [] read[1] = 1 /\ read[2] = 0 -> 1
            [] OTHER -> 2^read[2] + read[3]

ModesAsSaid ==
  part = "modes" /\ state = "CONTEXT_MAP_1" => context_modes = read

\* Wherever the input was cut, a length, a number of block types or a list of
\* context modes is what its fields mean when they are read at once.
FieldsAsSaid == HeaderAsSaid /\ CountAsSaid /\ ModesAsSaid
=============================================================================
