------------------------------ MODULE Commands ------------------------------
(***************************************************************************)
(* The commands of a meta-block (src/src/decode.rs, ProcessCommands): in   *)
(* which order insert-and-copy symbols, literals, distances and block      *)
(* switches are read, with which prefix code, and what they leave in the   *)
(* decoder: block counters and types, the distance context, and the cache  *)
(* of distances.  What the commands store is the subject of RingBuffer.    *)
(*                                                                         *)
(* An element of the stream is read in one or two parts.  Input may be     *)
(* missing before any part; the read is then undone and repeated by a      *)
(* later call, from whatever state it left.  `upcoming` is the element     *)
(* that was begun: the stream does not change between the attempts.        *)
(***************************************************************************)
EXTENDS Integers, Sequences, FiniteSets

CONSTANTS
  ShortCodes,     (* distance symbols 0..15 that streams use                *)
  Distances,      (* distances that streams give themselves                 *)
  Contexts,       (* distance contexts of commands, in 0..3                 *)
  InsertLengths,
  TypeCounts,     (* numbers of block types of a category                   *)
  LengthOffsets,  (* kBlockLengthPrefixCode: the offset of each symbol      *)
  LengthBits,     (* values of the bits behind the symbol                   *)
  NoSwitch,       (* the 1 << 24 of a category with one block type          *)
  MaxCommands,    (* bound: commands of a stream                            *)
  MaxBlocks       (* bound: meta-blocks of a stream                         *)

Categories == 0..2     (* literals, commands, distances                     *)

\* A meta-block has less than NoSwitch symbols of any category.
ASSUME CommandsConstants ==
  /\ ShortCodes \subseteq 0..15
  /\ Distances \subseteq Nat \ {0}
  /\ Contexts \subseteq 0..3
  /\ InsertLengths \subseteq Nat
  /\ TypeCounts \subseteq Nat \ {0}
  /\ LengthOffsets \in Seq(Nat \ {0})
  /\ LengthBits \subseteq Nat
  /\ MaxCommands \in Nat /\ MaxBlocks \in Nat
  /\ NoSwitch \in Nat /\ \A n \in InsertLengths : NoSwitch > MaxCommands * (n + 1)

VARIABLES
  state,
  loop_counter,                  (* i: literals, or categories, to go       *)
  num_block_types,
  block_length,                  (* symbols left in the block               *)
  block_type_rb,                 (* the last two types of each category     *)
  substate_read_block_length,    (* is a suffix still to be read?           *)
  block_length_index,
  context_map_slice_index,       (* the literal block type in use           *)
  htree_command_index,
  dist_context_map_slice_index,  (* the distance block type in use          *)
  dist_htree_index,              (* <<type, context>> of the code in use    *)
  distance_code,
  distance_context,
  dist_rb,
  dist_rb_idx,
  upcoming,                      (* the element begun, or None              *)
  announced, counted,            (* history: length of each category's      *)
                                 (* block, and symbols read in it           *)
  types,                         (* history: the last two block types       *)
  context,                       (* history: what the command said          *)
  symbol,                        (* history: the last distance symbol       *)
  commands, blocks               (* history: how many there were            *)

switchVars == <<num_block_types, block_length, block_type_rb, announced, counted,
                types>>
lengthVars == <<substate_read_block_length, block_length_index>>
codeVars == <<context_map_slice_index, htree_command_index,
              dist_context_map_slice_index>>
contextVars == <<dist_htree_index, distance_code, distance_context, context>>
cacheVars == <<dist_rb, dist_rb_idx, symbol>>
vars == <<state, loop_counter, switchVars, lengthVars, codeVars, contextVars,
          cacheVars, upcoming, commands, blocks>>

None == [kind |-> "none"]
Huge == -2            (* stands for the 0x7fffffff no window reaches        *)

-----------------------------------------------------------------------------
(* Elements of the stream: what may be read next                           *)

TypeCountElements == [kind : {"types"}, n : TypeCounts]
LengthElements ==
  [kind : {"length"}, index : DOMAIN LengthOffsets, bits : LengthBits]
SwitchElements(c) ==
  [kind : {"switch"}, code : 0..(num_block_types[c] + 1),
   index : DOMAIN LengthOffsets, bits : LengthBits]
CommandElements ==
  [kind : {"command"}, context : Contexts, implicit : BOOLEAN, insert : InsertLengths]
DistanceSymbols == ShortCodes \cup {d + 15 : d \in Distances}
DistanceElements == [kind : {"distance"}, code : DistanceSymbols]

\* An element is the one that was begun, if one was, and read to its end ...
Reads(e) == upcoming \in {None, e} /\ upcoming' = None
\* ... or only begun.
Begins(e) == upcoming \in {None, e} /\ upcoming' = e

-----------------------------------------------------------------------------
(* The header of a meta-block, HUFFMAN_CODE_0 to TREE_GROUP                *)

Init ==
  /\ state = "HUFFMAN_CODE_0"
  /\ loop_counter = 0
  /\ num_block_types = [c \in Categories |-> 1]
  /\ block_length = [c \in Categories |-> NoSwitch]
  /\ block_type_rb = [c \in Categories |-> <<1, 0>>]
  /\ substate_read_block_length = "NONE"
  /\ block_length_index = 0
  /\ context_map_slice_index = 0
  /\ htree_command_index = 0
  /\ dist_context_map_slice_index = 0
  /\ dist_htree_index = <<0, 0>>
  /\ distance_code = 0
  /\ distance_context = 0
  /\ dist_rb = [k \in 0..3 |-> <<16, 15, 11, 4>>[k + 1]]
  /\ dist_rb_idx = 0
  /\ upcoming = None
  /\ announced = [c \in Categories |-> NoSwitch]
  /\ counted = [c \in Categories |-> 0]
  /\ types = [c \in Categories |-> <<1, 0>>]
  /\ context = 0
  /\ symbol = 0
  /\ commands = 0
  /\ blocks = 0

ReadTypeCount(e) ==
  /\ state = "HUFFMAN_CODE_0" /\ loop_counter < 3
  /\ Reads(e)
  /\ num_block_types' = [num_block_types EXCEPT ![loop_counter] = e.n]
  /\ IF e.n < 2 THEN loop_counter' = loop_counter + 1 /\ UNCHANGED state
                ELSE state' = "HUFFMAN_CODE_3" /\ UNCHANGED loop_counter
  /\ UNCHANGED <<block_length, block_type_rb, announced, counted, types, lengthVars,
                 codeVars, contextVars, cacheVars, commands, blocks>>

\* The symbol of a block length: read, or kept from the attempt before.
LengthIndex(e) ==
  IF substate_read_block_length = "NONE" THEN e.index ELSE block_length_index

\* The length of the first block, resumed behind its symbol.
ReadFirstLength(e) ==
  /\ state = "HUFFMAN_CODE_3"
  /\ Reads(e)
  /\ block_length' = [block_length EXCEPT
       ![loop_counter] = LengthOffsets[LengthIndex(e)] + e.bits]
  /\ announced' = [announced EXCEPT
       ![loop_counter] = LengthOffsets[e.index] + e.bits]
  /\ substate_read_block_length' = "NONE"
  /\ loop_counter' = loop_counter + 1
  /\ state' = "HUFFMAN_CODE_0"
  /\ UNCHANGED <<num_block_types, block_type_rb, counted, types, block_length_index,
                 codeVars, contextVars, cacheVars, commands, blocks>>

MissFirstLength(e) ==
  /\ state = "HUFFMAN_CODE_3"
  /\ Begins(e)
  /\ substate_read_block_length' = "SUFFIX"
  /\ block_length_index' = LengthIndex(e)
  /\ UNCHANGED <<state, loop_counter, switchVars, codeVars, contextVars, cacheVars,
                 commands, blocks>>

\* Context maps and prefix codes are read; the first block types are in use.
BeginCommands ==
  /\ state = "HUFFMAN_CODE_0" /\ loop_counter = 3
  /\ state' = "COMMAND_BEGIN"
  /\ context_map_slice_index' = block_type_rb[0][2]
  /\ dist_context_map_slice_index' = 0
  /\ htree_command_index' = 0
  /\ UNCHANGED <<loop_counter, switchVars, lengthVars, contextVars, cacheVars,
                 upcoming, commands, blocks>>

-----------------------------------------------------------------------------
(* Block switches                                                          *)

\* Which block is at its end where the next symbol is about to be read.
Switching(c) ==
  /\ block_length[c] = 0
  /\ num_block_types[c] > 1
  /\ \/ c = 0 /\ state = "COMMAND_INNER"
     \/ c = 1 /\ state = "COMMAND_BEGIN"
     \/ c = 2 /\ state = "COMMAND_POST_DECODE_LITERALS" /\ distance_code < 0

\* The block type a code stands for.  (Mutant: the wrap is off by one.)
MutantTypeOf(c, code) ==
  LET rb == block_type_rb[c]
      t == CASE code = 0 -> rb[1] [] code = 1 -> rb[2] + 1 [] OTHER -> code - 2
  IN  IF t > num_block_types[c] THEN t - num_block_types[c] ELSE t
TypeOf(c, code) ==
  LET rb == block_type_rb[c]
      t == CASE code = 0 -> rb[1] [] code = 1 -> rb[2] + 1 [] OTHER -> code - 2
  IN  IF t >= num_block_types[c] THEN t - num_block_types[c] ELSE t

\* The same from the block types so far: the one before the last, the one
\* after the last, or one by name.
MeantType(c, code) ==
  CASE code = 0 -> types[c][1]
    [] code = 1 -> (types[c][2] + 1) % num_block_types[c]
    [] OTHER -> code - 2

\* The new type selects the prefix codes of its category.  (Mutant: the code
\* for distances is looked up only when the next command was read.)
MutantSelectLate(c, t) ==
  /\ context_map_slice_index' = IF c = 0 THEN t ELSE context_map_slice_index
  /\ htree_command_index' = IF c = 1 THEN t ELSE htree_command_index
  /\ dist_context_map_slice_index' = IF c = 2 THEN t ELSE dist_context_map_slice_index
  /\ UNCHANGED dist_htree_index
Select(c, t) ==
  /\ context_map_slice_index' = IF c = 0 THEN t ELSE context_map_slice_index
  /\ htree_command_index' = IF c = 1 THEN t ELSE htree_command_index
  /\ dist_context_map_slice_index' = IF c = 2 THEN t ELSE dist_context_map_slice_index
  /\ dist_htree_index' = IF c = 2 THEN <<t, distance_context>> ELSE dist_htree_index

\* Type and length are read, on the fast path or the safe one; only the safe
\* one looks at the substate.
BlockSwitch(c, e, safe) ==
  /\ Switching(c)
  /\ Reads(e)
  /\ block_length' = [block_length EXCEPT
       ![c] = LengthOffsets[IF safe THEN LengthIndex(e) ELSE e.index] + e.bits]
  /\ substate_read_block_length' = IF safe THEN "NONE" ELSE substate_read_block_length
  /\ block_type_rb' = [block_type_rb EXCEPT ![c] = <<@[2], TypeOf(c, e.code)>>]
  /\ Select(c, TypeOf(c, e.code))
  /\ announced' = [announced EXCEPT ![c] = LengthOffsets[e.index] + e.bits]
  /\ counted' = [counted EXCEPT ![c] = 0]
  /\ types' = [types EXCEPT ![c] = <<@[2], MeantType(c, e.code)>>]
  /\ UNCHANGED <<state, loop_counter, num_block_types, block_length_index,
                 distance_code, distance_context, context, cacheVars, commands,
                 blocks>>

\* Input is missing behind the type (k = 1) or behind the symbol of the length
\* (k = 2): everything is to be read again.  (Mutant: the substate stays.)
MutantKeepsSuffix(c, e, k) ==
  /\ Switching(c)
  /\ Begins(e)
  /\ block_length_index' = IF k = 2 THEN LengthIndex(e) ELSE block_length_index
  /\ substate_read_block_length' =
       IF k = 2 THEN "SUFFIX" ELSE substate_read_block_length
  /\ UNCHANGED <<state, loop_counter, switchVars, codeVars, contextVars, cacheVars,
                 commands, blocks>>
MissSwitch(c, e, k) ==
  /\ Switching(c)
  /\ Begins(e)
  /\ block_length_index' = IF k = 2 THEN LengthIndex(e) ELSE block_length_index
  /\ substate_read_block_length' = "NONE"
  /\ UNCHANGED <<state, loop_counter, switchVars, codeVars, contextVars, cacheVars,
                 commands, blocks>>

-----------------------------------------------------------------------------
(* Commands and literals                                                   *)

\* One symbol of category c is used up.
Counted(c) ==
  /\ block_length' = [block_length EXCEPT ![c] = @ - 1]
  /\ counted' = [counted EXCEPT ![c] = @ + 1]
  /\ UNCHANGED <<num_block_types, block_type_rb, announced, types>>

\* What the symbol of a command sets, before its extra bits are there.
CommandSymbol(e) ==
  /\ distance_code' = IF e.implicit THEN 0 ELSE -1
  /\ distance_context' = e.context
  /\ dist_htree_index' = <<dist_context_map_slice_index, e.context>>
  /\ loop_counter' = e.insert

ReadCommand(e) ==
  /\ state = "COMMAND_BEGIN" /\ block_length[1] > 0
  /\ commands < MaxCommands /\ commands' = commands + 1
  /\ Reads(e)
  /\ CommandSymbol(e)
  /\ Counted(1)
  /\ context' = e.context
  /\ state' = IF e.insert = 0 THEN "COMMAND_POST_DECODE_LITERALS"
                              ELSE "COMMAND_INNER"
  /\ UNCHANGED <<lengthVars, codeVars, cacheVars, blocks>>

MissCommand(e) ==
  /\ state = "COMMAND_BEGIN" /\ block_length[1] > 0
  /\ commands < MaxCommands
  /\ Begins(e)
  /\ CommandSymbol(e)
  /\ UNCHANGED <<state, switchVars, lengthVars, codeVars, context, cacheVars,
                 commands, blocks>>

\* Behind the last literal the meta-block may be at its end.
ReadLiteral ==
  /\ state = "COMMAND_INNER" /\ block_length[0] > 0
  /\ Counted(0)
  /\ loop_counter' = loop_counter - 1
  /\ IF loop_counter = 1
     THEN state' \in {"COMMAND_POST_DECODE_LITERALS", "METABLOCK_DONE"}
     ELSE UNCHANGED state
  /\ UNCHANGED <<lengthVars, codeVars, contextVars, cacheVars, upcoming, commands,
                 blocks>>

-----------------------------------------------------------------------------
(* Distances                                                               *)

\* The 2-bit fields of kDistanceShortCodeIndexOffset and ...ValueOffset.
IndexOffset == <<3, 2, 1, 0, 3, 3, 3, 3, 3, 3, 2, 2, 2, 2, 2, 2>>
ValueOffset == <<0, 0, 0, 0, 1, 1, 2, 2, 3, 3, 1, 1, 2, 2, 3, 3>>

\* TakeDistanceFromRingBuffer for the codes 1 to 15.
NearCached(code) ==
  LET cached == dist_rb[(dist_rb_idx + IndexOffset[code + 1]) % 4]
  IN  IF code % 2 = 1 THEN cached + ValueOffset[code + 1]
      ELSE IF cached > ValueOffset[code + 1] THEN cached - ValueOffset[code + 1]
      ELSE Huge

\* What a distance leads to, with the index of the cache already at idx: back
\* into the window, into the dictionary, or nowhere.
BackReference(sym, d, idx) ==
  /\ d # Huge
  /\ dist_rb' = [dist_rb EXCEPT ![idx % 4] = d]
  /\ dist_rb_idx' = idx + 1
  /\ symbol' = sym
  /\ state' \in {"COMMAND_BEGIN", "METABLOCK_DONE"}

\* (Mutant: the index stays where the code 0 moved it.)
MutantKeepsIndex(sym, d, idx) ==
  /\ d # Huge
  /\ dist_rb_idx' = idx
  /\ symbol' = sym
  /\ state' \in {"COMMAND_BEGIN", "METABLOCK_DONE"}
  /\ UNCHANGED dist_rb
DictionaryReference(sym, d, idx) ==
  /\ d # Huge
  /\ dist_rb_idx' = idx + distance_context'
  /\ symbol' = sym
  /\ state' \in {"COMMAND_BEGIN", "METABLOCK_DONE"}
  /\ UNCHANGED dist_rb

\* The distance, the length of the word, or the transform is out of range.
BadReference(idx) ==
  /\ \/ dist_rb_idx' = idx /\ state' = "ERROR_FORMAT_DICTIONARY"
     \/ /\ distance_code' # Huge
        /\ dist_rb_idx' = idx + distance_context' /\ state' = "ERROR_FORMAT_TRANSFORM"
  /\ UNCHANGED <<dist_rb, symbol>>

Refers(sym, d, idx) ==
  \/ BackReference(sym, d, idx)
  \/ DictionaryReference(sym, d, idx)
  \/ BadReference(idx)

AtDistance == state = "COMMAND_POST_DECODE_LITERALS"

\* The command says: the last distance again.
ImplicitDistance ==
  /\ AtDistance /\ distance_code >= 0
  /\ distance_context' = IF distance_code = 0 THEN 1 ELSE 0
  /\ distance_code' = dist_rb[(dist_rb_idx - 1) % 4]
  /\ Refers(0, distance_code', dist_rb_idx - 1)
  /\ UNCHANGED <<loop_counter, switchVars, lengthVars, codeVars, dist_htree_index,
                 context, upcoming, commands, blocks>>

ReadDistance(e) ==
  /\ AtDistance /\ distance_code < 0 /\ block_length[2] > 0
  /\ Reads(e)
  /\ Counted(2)
  /\ IF e.code = 0
     THEN /\ distance_context' = 1
          /\ distance_code' = dist_rb[(dist_rb_idx - 1) % 4]
          /\ Refers(0, distance_code', dist_rb_idx - 1)
     ELSE /\ distance_context' = 0
          /\ distance_code' = IF e.code < 16 THEN NearCached(e.code) ELSE e.code - 15
          /\ Refers(e.code, distance_code', dist_rb_idx)
  /\ UNCHANGED <<loop_counter, lengthVars, codeVars, dist_htree_index, context,
                 commands, blocks>>

\* The extra bits of a distance are missing.  (Mutant: the symbol is
\* counted already.)
MutantCountsTwice(e) ==
  /\ AtDistance /\ distance_code < 0 /\ block_length[2] > 0 /\ e.code >= 16
  /\ Begins(e)
  /\ distance_context' = 0
  /\ distance_code' = -1
  /\ block_length' = [block_length EXCEPT ![2] = @ - 1]
  /\ UNCHANGED <<state, loop_counter, num_block_types, block_type_rb, announced,
                 counted, types, lengthVars, codeVars, dist_htree_index, context,
                 cacheVars, commands, blocks>>
MissDistance(e) ==
  /\ AtDistance /\ distance_code < 0 /\ block_length[2] > 0 /\ e.code >= 16
  /\ Begins(e)
  /\ distance_context' = 0
  /\ distance_code' = -1
  /\ UNCHANGED <<state, loop_counter, switchVars, lengthVars, codeVars,
                 dist_htree_index, context, cacheVars, commands, blocks>>

\* The cache is the only thing that outlives a meta-block.
FinishMetablock ==
  /\ state = "METABLOCK_DONE"
  /\ blocks < MaxBlocks /\ blocks' = blocks + 1
  /\ state' = "HUFFMAN_CODE_0"
  /\ loop_counter' = 0
  /\ num_block_types' = [c \in Categories |-> 1]
  /\ block_length' = [c \in Categories |-> NoSwitch]
  /\ block_type_rb' = [c \in Categories |-> <<1, 0>>]
  /\ announced' = [c \in Categories |-> NoSwitch]
  /\ counted' = [c \in Categories |-> 0]
  /\ types' = [c \in Categories |-> <<1, 0>>]
  /\ context_map_slice_index' = 0
  /\ dist_context_map_slice_index' = 0
  /\ dist_htree_index' = <<0, 0>>
  /\ UNCHANGED <<lengthVars, htree_command_index, distance_code, distance_context,
                 context, cacheVars, upcoming, commands>>

Header ==
  \/ \E e \in TypeCountElements : ReadTypeCount(e)
  \/ \E e \in LengthElements : ReadFirstLength(e) \/ MissFirstLength(e)
  \/ BeginCommands
  \/ FinishMetablock

Switch ==
  \E c \in Categories : \E e \in SwitchElements(c) :
    \/ \E safe \in BOOLEAN : BlockSwitch(c, e, safe)
    \/ \E k \in 1..2 : MissSwitch(c, e, k)

Command ==
  \/ \E e \in CommandElements : ReadCommand(e) \/ MissCommand(e)
  \/ ReadLiteral
  \/ ImplicitDistance
  \/ \E e \in DistanceElements : ReadDistance(e) \/ MissDistance(e)

Next == Header \/ Switch \/ Command

Spec == Init /\ [][Next]_vars

-----------------------------------------------------------------------------
(* Properties                                                              *)

CommandStates ==
  {"COMMAND_BEGIN", "COMMAND_INNER", "COMMAND_POST_DECODE_LITERALS"}

\* The fields have their types.
TypeOK ==
  /\ state \in CommandStates \cup
       {"HUFFMAN_CODE_0", "HUFFMAN_CODE_3", "METABLOCK_DONE", "ERROR_FORMAT_DICTIONARY",
        "ERROR_FORMAT_TRANSFORM"}
  /\ loop_counter \in Nat
  /\ num_block_types \in [Categories -> Nat \ {0}]
  /\ block_length \in [Categories -> Nat]
  /\ block_type_rb \in [Categories -> Nat \X Nat]
  /\ substate_read_block_length \in {"NONE", "SUFFIX"}
  /\ block_length_index \in {0} \cup DOMAIN LengthOffsets
  /\ distance_code \in Nat \cup {-1, Huge} /\ distance_context \in 0..3
  /\ dist_rb \in [0..3 -> Nat \ {0}] /\ dist_rb_idx \in -1..MaxCommands

\* Every literal, command and distance is counted once, in the block it belongs
\* to and against the length the stream gave it, however often its read was
\* interrupted and repeated; an implicit distance is not counted.
CountersExact ==
  \A c \in Categories : block_length[c] = announced[c] - counted[c]

\* The last two block types are those the stream switched to, and a new one is
\* always one that has prefix codes.
TypesAreLastTwo ==
  \A c \in Categories :
    /\ block_type_rb[c] = types[c]
    /\ block_type_rb[c][2] < num_block_types[c]

\* Whatever is read next is read with the code of the current block type - and
\* a distance with that of the context of its command, although the field that
\* holds the context serves the distance cache, too, and is reset by an
\* interrupted read.
CodeIsCurrent ==
  state \in CommandStates =>
    /\ context_map_slice_index = block_type_rb[0][2]
    /\ htree_command_index = block_type_rb[1][2]
    /\ dist_context_map_slice_index = block_type_rb[2][2]
    /\ AtDistance /\ distance_code < 0 =>
         IF block_length[2] > 0
         THEN dist_htree_index = <<block_type_rb[2][2], context>>
         ELSE distance_context = context

\* The comment on SafeReadBlockLengthIndex: outside the header no block length
\* is half-read, so that the fast path may read one from its start.
NothingHalfRead ==
  state # "HUFFMAN_CODE_3" => substate_read_block_length = "NONE"

\* The cache holds the last four distances, and a symbol of the stream gets the
\* distance it means; some errors after code 0 leave the index one short.
Last ==
  LET end == IF state = "ERROR_FORMAT_DICTIONARY" THEN dist_rb_idx + distance_context ELSE dist_rb_idx
  IN  [k \in 1..4 |-> dist_rb[(end - k) % 4]]

History == INSTANCE DistanceHistory WITH
  Symbols <- DistanceSymbols \cup {0}, last <- Last, symbol <- symbol

ImplementsDistanceHistory == History!Spec
=============================================================================
