-------------------------- MODULE Commands_proofs --------------------------
(***************************************************************************)
(* Theorems about Commands, for every set of distances, contexts, block    *)
(* types and block lengths, and any number of commands and meta-blocks.    *)
(*                                                                         *)
(* The inductive invariant says what an interrupted read may have left     *)
(* (Interrupted), that block types have prefix codes (BlockTypes), which   *)
(* prefix codes are in use (Codes), and how far the index of the distance  *)
(* cache may be (Cache).  The refinement of DistanceHistory follows from   *)
(* it: the index is at the end of the history except between the symbol 0  *)
(* and what that leads to.                                                 *)
(***************************************************************************)
EXTENDS Commands, TLAPS

HeaderStates == {"HUFFMAN_CODE_0", "HUFFMAN_CODE_3"}

\* A command was read and its distance was not.
InCommand == state \in {"COMMAND_INNER", "COMMAND_POST_DECODE_LITERALS"}

Failed == state \in {"ERROR_FORMAT_DICTIONARY", "ERROR_FORMAT_TRANSFORM"}

Histories ==
  /\ announced \in [Categories -> Nat]
  /\ counted \in [Categories -> Nat]
  /\ types \in [Categories -> Nat \X Nat]
  /\ context \in 0..3
  /\ commands \in 0..MaxCommands
  /\ state \in HeaderStates => counted = [c \in Categories |-> 0]

LoopCounter ==
  /\ state = "HUFFMAN_CODE_0" => loop_counter \in 0..3
  /\ state = "HUFFMAN_CODE_3" => loop_counter \in 0..2
  /\ state = "COMMAND_INNER" => loop_counter > 0

\* The element an interrupted read has begun is one that is read here, and a
\* block length is half-read only in the header.
Interrupted ==
  /\ upcoming = None
     \/ (state = "HUFFMAN_CODE_3" /\ upcoming \in LengthElements)
     \/ (/\ state = "COMMAND_BEGIN" /\ block_length[1] > 0
         /\ upcoming \in CommandElements)
     \/ (/\ AtDistance /\ distance_code < 0 /\ block_length[2] > 0
         /\ upcoming \in DistanceElements)
     \/ \E c \in Categories : Switching(c) /\ upcoming \in SwitchElements(c)
  /\ substate_read_block_length = "SUFFIX" =>
       /\ state = "HUFFMAN_CODE_3"
       /\ upcoming \in LengthElements
       /\ block_length_index = upcoming.index

BlockTypes ==
  /\ \A c \in Categories :
       /\ block_type_rb[c] = types[c]
       /\ block_type_rb[c][1] < num_block_types[c] \/ block_type_rb[c][1] = 1
       /\ block_type_rb[c][2] < num_block_types[c]
  /\ state \in HeaderStates =>
       \A c \in Categories : block_type_rb[c] = <<1, 0>>

Codes ==
  /\ state \in CommandStates =>
       /\ context_map_slice_index = block_type_rb[0][2]
       /\ htree_command_index = block_type_rb[1][2]
       /\ dist_context_map_slice_index = block_type_rb[2][2]
  /\ InCommand =>
       /\ dist_htree_index = <<block_type_rb[2][2], context>>
       /\ distance_code \in {0, -1}
  /\ state = "COMMAND_INNER" \/ (AtDistance /\ block_length[2] = 0) =>
       distance_context = context

Cache ==
  /\ dist_rb_idx <= commands
  /\ InCommand => dist_rb_idx < commands
  /\ ~Failed => dist_rb_idx >= 0

Inv == /\ TypeOK /\ Histories /\ LoopCounter /\ Interrupted
       /\ CountersExact /\ BlockTypes /\ Codes /\ Cache
-----------------------------------------------------------------------------
(* Operators                                                               *)

USE DEF switchVars, lengthVars, codeVars, contextVars, cacheVars, HeaderStates,
        InCommand, Failed, CommandStates, AtDistance

\* Elements of two kinds differ, and none of them is None.
LEMMA ElementKinds ==
  /\ \A e \in TypeCountElements : e.kind = "types"
  /\ \A e \in LengthElements : e.kind = "length"
  /\ \A c \in Categories : \A e \in SwitchElements(c) : e.kind = "switch"
  /\ \A e \in CommandElements : e.kind = "command"
  /\ \A e \in DistanceElements : e.kind = "distance"
BY DEF TypeCountElements, LengthElements, SwitchElements, CommandElements,
   DistanceElements

LEMMA NoneIsNoElement == \A e : e.kind # "none" => e # None
BY DEF None

\* The sets of elements have the fields their reads use.
LEMMA LengthFields ==
  ASSUME NEW e \in LengthElements
  PROVE  e.index \in DOMAIN LengthOffsets /\ e.bits \in Nat /\ e # None
<1>1. e.index \in DOMAIN LengthOffsets /\ e.bits \in LengthBits
  BY DEF LengthElements
<1>2. e.bits \in Nat
  BY <1>1, CommandsConstants
<1>3. e # None
  BY ElementKinds, NoneIsNoElement
<1> QED
  BY <1>1, <1>2, <1>3

LEMMA SwitchFields ==
  ASSUME NEW c \in Categories, NEW e \in SwitchElements(c)
  PROVE  /\ e.code \in 0..(num_block_types[c] + 1)
         /\ e.index \in DOMAIN LengthOffsets /\ e.bits \in Nat /\ e # None
<1>1. /\ e.code \in 0..(num_block_types[c] + 1)
      /\ e.index \in DOMAIN LengthOffsets /\ e.bits \in LengthBits
  BY DEF SwitchElements
<1>2. e.bits \in Nat
  BY <1>1, CommandsConstants
<1>3. e # None
  BY ElementKinds, NoneIsNoElement
<1> QED
  BY <1>1, <1>2, <1>3

LEMMA CommandFields ==
  ASSUME NEW e \in CommandElements
  PROVE  e.context \in 0..3 /\ e.implicit \in BOOLEAN /\ e.insert \in Nat
<1>1. e.context \in Contexts /\ e.implicit \in BOOLEAN /\ e.insert \in InsertLengths
  BY DEF CommandElements
<1> QED
  BY <1>1, CommandsConstants

LEMMA DistanceFields ==
  ASSUME NEW e \in DistanceElements
  PROVE  e.code \in Nat
<1>1. e.code \in DistanceSymbols
  BY DEF DistanceElements
<1>2. CASE e.code \in ShortCodes
  <2>1. e.code \in 0..15
    BY <1>2, CommandsConstants
  <2> QED
    BY <2>1
<1>3. CASE e.code \in {d + 15 : d \in Distances}
  BY <1>3, CommandsConstants
<1> QED
  BY <1>1, <1>2, <1>3 DEF DistanceSymbols

\* A block length is a positive number.
LEMMA LengthIsPositive ==
  ASSUME NEW n \in DOMAIN LengthOffsets, NEW b \in Nat
  PROVE  LengthOffsets[n] + b \in Nat
BY CommandsConstants

\* A read that resumes behind the symbol of a block length resumes with the
\* symbol it had read, since the element is the one that was begun.
LEMMA ResumedIndex ==
  ASSUME TypeOK, Interrupted, NEW e, e # None, upcoming \in {None, e}
  PROVE  LengthIndex(e) = e.index
<1>1. CASE substate_read_block_length = "NONE"
  BY <1>1 DEF LengthIndex
<1>2. CASE substate_read_block_length = "SUFFIX"
  <2>1. upcoming \in LengthElements /\ block_length_index = upcoming.index
    BY <1>2 DEF Interrupted
  <2>2. upcoming # None
    BY <2>1, LengthFields
  <2> QED
    BY <1>2, <2>1, <2>2 DEF LengthIndex
<1> QED
  BY <1>1, <1>2 DEF TypeOK

\* Counting a symbol keeps the counter and the history in step.
LEMMA CountedKeeps ==
  ASSUME TypeOK, Histories, CountersExact,
         NEW c \in Categories, block_length[c] > 0, Counted(c)
  PROVE  /\ block_length' \in [Categories -> Nat]
         /\ counted' \in [Categories -> Nat]
         /\ CountersExact'
         /\ \A d \in Categories : d # c => block_length'[d] = block_length[d]
BY DEF TypeOK, Histories, CountersExact, Counted

\* The successor of a block type, wrapped by a comparison or by a remainder.
LEMMA WrappedSuccessor ==
  ASSUME NEW n \in Nat, n > 1, NEW x \in Nat, x < n
  PROVE  (x + 1) % n = IF x + 1 >= n THEN x + 1 - n ELSE x + 1
OBVIOUS

\* The block type a code stands for is what the stream means, and has codes.
LEMMA TypeIsMeant ==
  ASSUME TypeOK, BlockTypes, NEW c \in Categories, num_block_types[c] > 1,
         NEW code \in 0..(num_block_types[c] + 1)
  PROVE  /\ TypeOf(c, code) = MeantType(c, code)
         /\ TypeOf(c, code) \in Nat
         /\ TypeOf(c, code) < num_block_types[c]
<1> DEFINE n == num_block_types[c]
<1> DEFINE rb == block_type_rb[c]
<1>1. /\ n \in Nat /\ n > 1 /\ rb[1] \in Nat /\ rb[2] \in Nat
      /\ rb[1] < n /\ rb[2] < n
      /\ rb = types[c]
  BY DEF TypeOK, BlockTypes
<1>2. (rb[2] + 1) % n = IF rb[2] + 1 >= n THEN rb[2] + 1 - n ELSE rb[2] + 1
  BY <1>1, WrappedSuccessor
<1> HIDE DEF n, rb
<1>3. TypeOf(c, code) = LET t == CASE code = 0 -> rb[1]
                                    [] code = 1 -> rb[2] + 1
                                    [] OTHER -> code - 2
                         IN  IF t >= n THEN t - n ELSE t
  BY DEF TypeOf, n, rb
<1>4. MeantType(c, code) = CASE code = 0 -> rb[1]
                              [] code = 1 -> (rb[2] + 1) % n
                              [] OTHER -> code - 2
  BY <1>1 DEF MeantType, n, rb
<1>5. code \in 0..(n + 1)
  BY DEF n
<1>6. CASE code = 0
  BY <1>1, <1>3, <1>4, <1>6 DEF n
<1>7. CASE code = 1
  BY <1>1, <1>2, <1>3, <1>4, <1>7 DEF n
<1>8. CASE code \in 2..(n + 1)
  BY <1>1, <1>3, <1>4, <1>8 DEF n
<1> QED
  BY <1>1, <1>5, <1>6, <1>7, <1>8

\* Masking an index of the cache lands on one of its four places.
LEMMA CacheIndex == \A x \in Int : x % 4 \in 0..3
OBVIOUS

\* The offsets of the short codes.
LEMMA ShortCodeOffsets ==
  \A code \in 0..15 : IndexOffset[code + 1] \in 0..3 /\ ValueOffset[code + 1] \in 0..3
BY DEF IndexOffset, ValueOffset

\* A short code gives a distance, or the one that no window reaches.
LEMMA NearCachedIsDistance ==
  ASSUME TypeOK, NEW code \in 1..15
  PROVE  NearCached(code) \in (Nat \ {0}) \cup {Huge}
<1> DEFINE cached == dist_rb[(dist_rb_idx + IndexOffset[code + 1]) % 4]
<1>1. IndexOffset[code + 1] \in 0..3 /\ ValueOffset[code + 1] \in 0..3
  BY ShortCodeOffsets
<1>2. dist_rb_idx + IndexOffset[code + 1] \in Int
  BY <1>1 DEF TypeOK
<1>3. (dist_rb_idx + IndexOffset[code + 1]) % 4 \in 0..3
  BY <1>2, CacheIndex
<1>4. cached \in Nat \ {0}
  BY <1>3 DEF TypeOK
<1> QED
  BY <1>1, <1>4 DEF NearCached

-----------------------------------------------------------------------------
(* The header                                                              *)

\* Where nothing can have been interrupted, nothing was begun.
LEMMA NothingBegun ==
  ASSUME TypeOK, Interrupted,
         \/ state \in {"HUFFMAN_CODE_0", "METABLOCK_DONE"}
         \/ state = "COMMAND_INNER" /\ block_length[0] > 0
         \/ AtDistance /\ distance_code >= 0
  PROVE  upcoming = None
<1>1. \A c \in Categories : ~ Switching(c)
  BY DEF TypeOK, Switching, Categories
<1>2. /\ state # "HUFFMAN_CODE_3" /\ state # "COMMAND_BEGIN"
      /\ ~(AtDistance /\ distance_code < 0)
  BY DEF TypeOK
<1> QED
  BY <1>1, <1>2 DEF Interrupted

\* The substate of block lengths is that of the header.
LEMMA HalfReadInHeader ==
  ASSUME TypeOK, Interrupted
  PROVE  NothingHalfRead
BY DEF TypeOK, Interrupted, NothingHalfRead

LEMMA InitEstablishesInv == Init => Inv
<1> SUFFICES ASSUME Init PROVE Inv
  OBVIOUS
<1>1. TypeOK
  <2>1. dist_rb \in [0..3 -> Nat \ {0}]
    BY DEF Init
  <2> QED
    BY <2>1, CommandsConstants DEF Init, TypeOK, Categories
<1>2. Histories
  BY CommandsConstants DEF Init, Histories
<1>3. LoopCounter /\ Interrupted /\ CountersExact
  BY CommandsConstants DEF Init, LoopCounter, Interrupted, CountersExact
<1>4. BlockTypes /\ Codes /\ Cache
  BY DEF Init, BlockTypes, Codes, Cache
<1> QED
  BY <1>1, <1>2, <1>3, <1>4 DEF Inv

LEMMA ReadTypeCountStep ==
  ASSUME Inv, NEW e \in TypeCountElements, ReadTypeCount(e)
  PROVE  Inv'
<1>1. loop_counter \in Categories
  BY DEF Inv, TypeOK, ReadTypeCount, Categories
<1>2. e.n \in Nat \ {0}
  BY CommandsConstants DEF TypeCountElements
<1>3. num_block_types' \in [Categories -> Nat \ {0}]
  BY <1>1, <1>2 DEF Inv, TypeOK, ReadTypeCount
<1>4. TypeOK'
  BY <1>1, <1>3 DEF Inv, TypeOK, ReadTypeCount, Categories
<1>5. Histories'
  BY DEF Inv, Histories, ReadTypeCount
<1>6. LoopCounter'
  BY <1>1 DEF LoopCounter, ReadTypeCount, Categories
<1>7. substate_read_block_length = "NONE" /\ upcoming' = None
  BY HalfReadInHeader DEF Inv, NothingHalfRead, ReadTypeCount, Reads
<1>8. Interrupted'
  BY <1>7 DEF Interrupted, ReadTypeCount
<1>9. CountersExact'
  BY DEF Inv, CountersExact, ReadTypeCount
<1>10. BlockTypes'
  <2>1. \A c \in Categories : block_type_rb'[c] = <<1, 0>> /\ types'[c] = <<1, 0>>
    BY DEF Inv, BlockTypes, ReadTypeCount
  <2>2. \A c \in Categories : num_block_types'[c] > 0
    BY <1>3
  <2> QED
    BY <2>1, <2>2 DEF BlockTypes
<1>11. Codes' /\ Cache'
  BY DEF Inv, Codes, Cache, ReadTypeCount
<1> QED
  BY <1>4, <1>5, <1>6, <1>8, <1>9, <1>10, <1>11 DEF Inv

LEMMA ReadFirstLengthStep ==
  ASSUME Inv, NEW e \in LengthElements, ReadFirstLength(e)
  PROVE  Inv'
<1> DEFINE len == LengthOffsets[e.index] + e.bits
<1>1. loop_counter \in Categories
  BY DEF Inv, TypeOK, LoopCounter, ReadFirstLength, Categories
<1>2. e.index \in DOMAIN LengthOffsets /\ e.bits \in Nat /\ e # None
  BY LengthFields
<1>3. len \in Nat
  BY <1>2, LengthIsPositive
<1>4. TypeOK /\ Interrupted /\ upcoming \in {None, e}
  BY DEF Inv, ReadFirstLength, Reads
<1>5. LengthIndex(e) = e.index
  BY <1>2, <1>4, ResumedIndex
<1> HIDE DEF len
<1>6. /\ block_length' = [block_length EXCEPT ![loop_counter] = len]
      /\ announced' = [announced EXCEPT ![loop_counter] = len]
  BY <1>5 DEF ReadFirstLength, len
<1>7. TypeOK'
  <2>1. block_length' \in [Categories -> Nat]
    BY <1>1, <1>3, <1>4, <1>6 DEF TypeOK
  <2> QED
    BY <1>1, <2>1, <1>4 DEF TypeOK, ReadFirstLength, Categories
<1>8. Histories'
  <2>1. announced' \in [Categories -> Nat]
    BY <1>1, <1>3, <1>6 DEF Inv, Histories
  <2> QED
    BY <2>1 DEF Inv, Histories, ReadFirstLength
<1>9. LoopCounter'
  BY <1>1 DEF LoopCounter, ReadFirstLength, Categories
<1>10. Interrupted'
  BY DEF Interrupted, ReadFirstLength, Reads
<1>11. CountersExact'
  <2>1. counted = [c \in Categories |-> 0] /\ counted' = counted
    BY DEF Inv, Histories, ReadFirstLength
  <2>2. \A c \in Categories : block_length'[c] = announced'[c]
    BY <1>1, <1>4, <1>6, <2>1 DEF Inv, Histories, TypeOK, CountersExact
  <2>3. \A c \in Categories : announced'[c] \in Nat
    BY <1>8 DEF Histories
  <2> QED
    BY <2>1, <2>2, <2>3 DEF CountersExact
<1>12. BlockTypes' /\ Codes' /\ Cache'
  BY DEF Inv, BlockTypes, Codes, Cache, ReadFirstLength
<1> QED
  BY <1>7, <1>8, <1>9, <1>10, <1>11, <1>12 DEF Inv

LEMMA MissFirstLengthStep ==
  ASSUME Inv, NEW e \in LengthElements, MissFirstLength(e)
  PROVE  Inv'
<1>1. e.index \in DOMAIN LengthOffsets /\ e.bits \in Nat /\ e # None
  BY LengthFields
<1>2. TypeOK /\ Interrupted /\ upcoming \in {None, e}
  BY DEF Inv, MissFirstLength, Begins
<1>3. LengthIndex(e) = e.index
  BY <1>1, <1>2, ResumedIndex
<1>4. TypeOK'
  BY <1>1, <1>2, <1>3 DEF TypeOK, MissFirstLength
<1>5. Histories' /\ LoopCounter'
  BY DEF Inv, Histories, LoopCounter, MissFirstLength
<1>6. /\ state' = "HUFFMAN_CODE_3"
      /\ upcoming' = e /\ block_length_index' = e.index
  BY <1>3 DEF MissFirstLength, Begins
<1>7. Interrupted'
  BY <1>6 DEF Interrupted, LengthElements
<1>8. CountersExact' /\ BlockTypes' /\ Codes' /\ Cache'
  BY DEF Inv, CountersExact, BlockTypes, Codes, Cache, MissFirstLength
<1> QED
  BY <1>4, <1>5, <1>7, <1>8 DEF Inv

LEMMA BeginCommandsStep ==
  ASSUME Inv, BeginCommands
  PROVE  Inv'
<1>1. \A c \in Categories : block_type_rb[c] = <<1, 0>>
  BY DEF Inv, BlockTypes, BeginCommands
<1>2. upcoming = None /\ NothingHalfRead
  BY NothingBegun, HalfReadInHeader DEF Inv, BeginCommands
<1>3. TypeOK' /\ Histories' /\ LoopCounter'
  BY DEF Inv, TypeOK, Histories, LoopCounter, BeginCommands
<1>4. upcoming' = None /\ substate_read_block_length' = "NONE"
  BY <1>2 DEF BeginCommands, NothingHalfRead
<1>5. Interrupted'
  BY <1>4 DEF Interrupted
<1>6. CountersExact' /\ BlockTypes' /\ Cache'
  BY DEF Inv, CountersExact, BlockTypes, Cache, BeginCommands
<1>7. Codes'
  BY <1>1 DEF Codes, BeginCommands, Categories
<1> QED
  BY <1>3, <1>5, <1>6, <1>7 DEF Inv

LEMMA FinishMetablockStep ==
  ASSUME Inv, FinishMetablock
  PROVE  Inv'
<1>1. upcoming = None /\ NothingHalfRead
  BY NothingBegun, HalfReadInHeader DEF Inv, FinishMetablock
<1>2. TypeOK'
  <2>1. num_block_types' \in [Categories -> Nat \ {0}]
    BY DEF FinishMetablock
  <2>2. block_length' \in [Categories -> Nat]
    BY CommandsConstants DEF FinishMetablock
  <2>3. block_type_rb' \in [Categories -> Nat \X Nat]
    BY DEF FinishMetablock
  <2> QED
    BY <2>1, <2>2, <2>3 DEF Inv, TypeOK, FinishMetablock
<1>3. Histories' /\ LoopCounter'
  BY CommandsConstants DEF Inv, Histories, LoopCounter, FinishMetablock
<1>4. upcoming' = None /\ substate_read_block_length' = "NONE"
  BY <1>1 DEF FinishMetablock, NothingHalfRead
<1>5. Interrupted'
  BY <1>4 DEF Interrupted
<1>6. CountersExact'
  BY CommandsConstants DEF CountersExact, FinishMetablock
<1>7. BlockTypes' /\ Codes' /\ Cache'
  BY DEF Inv, BlockTypes, Codes, Cache, FinishMetablock
<1> QED
  BY <1>2, <1>3, <1>5, <1>6, <1>7 DEF Inv

-----------------------------------------------------------------------------
(* Block switches                                                          *)

LEMMA BlockSwitchStep ==
  ASSUME Inv, NEW c \in Categories, NEW e \in SwitchElements(c),
         NEW safe \in BOOLEAN, BlockSwitch(c, e, safe)
  PROVE  Inv'
<1> DEFINE len == LengthOffsets[e.index] + e.bits
<1> DEFINE type == TypeOf(c, e.code)
<1>1. TypeOK /\ Interrupted /\ BlockTypes /\ upcoming \in {None, e}
  BY DEF Inv, BlockSwitch, Reads
<1>2. /\ e.code \in 0..(num_block_types[c] + 1)
      /\ e.index \in DOMAIN LengthOffsets /\ e.bits \in Nat /\ e # None
  BY SwitchFields
<1>3. len \in Nat
  BY <1>2, LengthIsPositive
<1>4. LengthIndex(e) = e.index
  BY <1>1, <1>2, ResumedIndex
<1>5. num_block_types[c] > 1 /\ block_length[c] = 0
  BY DEF BlockSwitch, Switching
<1>6. type = MeantType(c, e.code) /\ type \in Nat /\ type < num_block_types[c]
  BY <1>1, <1>2, <1>5, TypeIsMeant
<1> HIDE DEF len, type
<1>7. /\ block_length' = [block_length EXCEPT ![c] = len]
      /\ announced' = [announced EXCEPT ![c] = len]
      /\ counted' = [counted EXCEPT ![c] = 0]
  BY <1>4 DEF BlockSwitch, len
<1>8. /\ block_type_rb' = [block_type_rb EXCEPT ![c] = <<@[2], type>>]
      /\ types' = [types EXCEPT ![c] = <<@[2], type>>]
      /\ Select(c, type)
      /\ UNCHANGED num_block_types
  BY <1>6 DEF BlockSwitch, type
<1>9. state \in CommandStates /\ state' = state
  BY DEF BlockSwitch, Switching
<1>10. substate_read_block_length' = "NONE" /\ upcoming' = None
  BY <1>1, <1>9, HalfReadInHeader DEF BlockSwitch, NothingHalfRead, Reads
<1>11. /\ block_length' \in [Categories -> Nat]
       /\ block_type_rb' \in [Categories -> Nat \X Nat]
  BY <1>1, <1>3, <1>6, <1>7, <1>8 DEF TypeOK
<1>12. TypeOK'
  BY <1>1, <1>10, <1>11 DEF TypeOK, BlockSwitch
<1>13. Histories'
  <2>1. announced' \in [Categories -> Nat] /\ counted' \in [Categories -> Nat]
    BY <1>3, <1>7 DEF Inv, Histories
  <2>2. types' \in [Categories -> Nat \X Nat]
    BY <1>6, <1>8 DEF Inv, Histories
  <2> QED
    BY <1>9, <2>1, <2>2 DEF Inv, Histories, BlockSwitch
<1>14. LoopCounter'
  BY DEF Inv, LoopCounter, BlockSwitch
<1>15. Interrupted'
  BY <1>10 DEF Interrupted
<1>16. CountersExact'
  BY <1>1, <1>3, <1>7 DEF Inv, TypeOK, Histories, CountersExact
<1>17. BlockTypes'
  <2>1. \A d \in Categories : block_type_rb'[d] = types'[d]
    BY <1>1, <1>8 DEF Inv, TypeOK, Histories, BlockTypes
  <2>2. block_type_rb'[c] = <<block_type_rb[c][2], type>>
    BY <1>1, <1>8 DEF TypeOK
  <2>3. \A d \in Categories : d # c => block_type_rb'[d] = block_type_rb[d]
    BY <1>1, <1>8 DEF TypeOK
  <2>4. \A d \in Categories :
          /\ block_type_rb'[d][1] < num_block_types'[d] \/ block_type_rb'[d][1] = 1
          /\ block_type_rb'[d][2] < num_block_types'[d]
    BY <1>1, <1>6, <1>8, <2>2, <2>3 DEF BlockTypes
  <2> QED
    BY <1>9, <2>1, <2>4 DEF BlockTypes
<1>18. Codes'
  <2>1. /\ context_map_slice_index = block_type_rb[0][2]
        /\ htree_command_index = block_type_rb[1][2]
        /\ dist_context_map_slice_index = block_type_rb[2][2]
    BY <1>9 DEF Inv, Codes
  <2>2. \A d \in Categories :
          block_type_rb'[d][2] = IF d = c THEN type ELSE block_type_rb[d][2]
    BY <1>1, <1>8 DEF TypeOK
  <2>3. /\ context_map_slice_index' = block_type_rb'[0][2]
        /\ htree_command_index' = block_type_rb'[1][2]
        /\ dist_context_map_slice_index' = block_type_rb'[2][2]
    BY <1>8, <2>1, <2>2 DEF Select, Categories
  <2>4. ASSUME InCommand
        PROVE  /\ dist_htree_index' = <<block_type_rb'[2][2], context'>>
               /\ distance_code' \in {0, -1}
    <3>1. /\ dist_htree_index = <<block_type_rb[2][2], context>>
          /\ distance_code \in {0, -1}
          /\ context' = context /\ distance_code' = distance_code
      BY <2>4 DEF Inv, Codes, BlockSwitch
    <3>2. CASE c = 2
      <4>1. distance_context = context
        BY <1>5, <3>2 DEF Inv, Codes, BlockSwitch, Switching
      <4> QED
        BY <1>8, <2>2, <3>1, <3>2, <4>1 DEF Select, Categories
    <3>3. CASE c # 2
      BY <1>8, <2>2, <3>1, <3>3 DEF Select, Categories
    <3> QED
      BY <3>2, <3>3
  <2>5. ASSUME state = "COMMAND_INNER" \/ (AtDistance /\ block_length'[2] = 0)
        PROVE  distance_context' = context'
    <3>1. distance_context = context
      <4>1. CASE c = 2
        BY <1>5, <4>1 DEF Inv, Codes, BlockSwitch, Switching
      <4>2. CASE c # 2
        BY <4>2, <2>5 DEF Inv, Codes, BlockSwitch, Switching, Categories
      <4> QED
        BY <4>1, <4>2
    <3> QED
      BY <3>1 DEF BlockSwitch
  <2> QED
    BY <1>9, <2>3, <2>4, <2>5 DEF Codes
<1>19. Cache'
  BY DEF Inv, Cache, BlockSwitch
<1> QED
  BY <1>12, <1>13, <1>14, <1>15, <1>16, <1>17, <1>18, <1>19 DEF Inv

LEMMA MissSwitchStep ==
  ASSUME Inv, NEW c \in Categories, NEW e \in SwitchElements(c), NEW k \in 1..2,
         MissSwitch(c, e, k)
  PROVE  Inv'
<1>1. TypeOK /\ Interrupted /\ upcoming \in {None, e}
  BY DEF Inv, MissSwitch, Begins
<1>2. e.index \in DOMAIN LengthOffsets /\ e # None
  BY SwitchFields
<1>3. LengthIndex(e) = e.index
  BY <1>1, <1>2, ResumedIndex
<1>4. TypeOK'
  BY <1>1, <1>2, <1>3 DEF TypeOK, MissSwitch
<1>5. Histories' /\ LoopCounter' /\ CountersExact' /\ BlockTypes' /\ Codes' /\ Cache'
  BY DEF Inv, Histories, LoopCounter, CountersExact, BlockTypes, Codes, Cache,
         MissSwitch
<1>6. Interrupted'
  <2>1. upcoming' = e /\ substate_read_block_length' = "NONE"
    BY DEF MissSwitch, Begins
  <2>2. Switching(c)' /\ SwitchElements(c)' = SwitchElements(c)
    BY DEF MissSwitch, Switching, SwitchElements
  <2> QED
    BY <2>1, <2>2 DEF Interrupted
<1> QED
  BY <1>4, <1>5, <1>6 DEF Inv

-----------------------------------------------------------------------------
(* Commands and literals                                                   *)

LEMMA ReadCommandStep ==
  ASSUME Inv, NEW e \in CommandElements, ReadCommand(e)
  PROVE  Inv'
<1>1. e.context \in 0..3 /\ e.implicit \in BOOLEAN /\ e.insert \in Nat
  BY CommandFields
<1>2. TypeOK /\ Histories /\ Interrupted /\ CountersExact
  BY DEF Inv
<1>3. 1 \in Categories /\ block_length[1] > 0 /\ Counted(1)
  BY DEF ReadCommand, Categories
<1>4. /\ block_length' \in [Categories -> Nat]
      /\ counted' \in [Categories -> Nat]
      /\ CountersExact'
  BY <1>2, <1>3, CountedKeeps
<1>5. upcoming' = None /\ substate_read_block_length' = "NONE"
  BY <1>2, HalfReadInHeader DEF ReadCommand, NothingHalfRead, Reads
<1>6. UNCHANGED <<num_block_types, block_type_rb, announced, types>>
  BY <1>3 DEF Counted
<1>7. /\ state' = IF e.insert = 0 THEN "COMMAND_POST_DECODE_LITERALS"
                                  ELSE "COMMAND_INNER"
      /\ distance_code' = IF e.implicit THEN 0 ELSE -1
      /\ distance_context' = e.context /\ context' = e.context
      /\ dist_htree_index' = <<dist_context_map_slice_index, e.context>>
      /\ loop_counter' = e.insert
      /\ commands' = commands + 1 /\ commands < MaxCommands
      /\ UNCHANGED <<lengthVars, codeVars, cacheVars>>
  BY DEF ReadCommand, CommandSymbol
<1>8. TypeOK'
  BY <1>1, <1>2, <1>4, <1>5, <1>6, <1>7 DEF TypeOK
<1>9. Histories'
  BY <1>1, <1>2, <1>4, <1>6, <1>7, CommandsConstants DEF Histories
<1>10. LoopCounter'
  BY <1>1, <1>7 DEF LoopCounter
<1>11. Interrupted'
  BY <1>5 DEF Interrupted
<1>12. BlockTypes'
  BY <1>6, <1>7 DEF Inv, BlockTypes
<1>13. Codes'
  BY <1>6, <1>7 DEF Inv, Codes, ReadCommand
<1>14. Cache'
  BY <1>2, <1>7 DEF Inv, TypeOK, Histories, Cache, ReadCommand
<1> QED
  BY <1>4, <1>8, <1>9, <1>10, <1>11, <1>12, <1>13, <1>14 DEF Inv

LEMMA MissCommandStep ==
  ASSUME Inv, NEW e \in CommandElements, MissCommand(e)
  PROVE  Inv'
<1>1. e.context \in 0..3 /\ e.implicit \in BOOLEAN /\ e.insert \in Nat
  BY CommandFields
<1>2. NothingHalfRead
  BY HalfReadInHeader DEF Inv
<1>3. TypeOK'
  BY <1>1 DEF Inv, TypeOK, MissCommand, CommandSymbol
<1>4. Histories' /\ LoopCounter' /\ CountersExact' /\ BlockTypes' /\ Codes' /\ Cache'
  BY DEF Inv, Histories, LoopCounter, CountersExact, BlockTypes, Codes, Cache,
         MissCommand
<1>5. Interrupted'
  BY <1>2 DEF Interrupted, NothingHalfRead, MissCommand, Begins
<1> QED
  BY <1>3, <1>4, <1>5 DEF Inv

LEMMA ReadLiteralStep ==
  ASSUME Inv, ReadLiteral
  PROVE  Inv'
<1>1. TypeOK /\ Histories /\ Interrupted /\ CountersExact
  BY DEF Inv
<1>2. 0 \in Categories /\ block_length[0] > 0 /\ Counted(0)
  BY DEF ReadLiteral, Categories
<1>3. /\ block_length' \in [Categories -> Nat]
      /\ counted' \in [Categories -> Nat]
      /\ CountersExact'
      /\ block_length'[2] = block_length[2]
  BY <1>1, <1>2, CountedKeeps DEF Categories
<1>4. upcoming = None /\ NothingHalfRead
  BY <1>1, <1>2, NothingBegun, HalfReadInHeader DEF ReadLiteral
<1>5. upcoming' = None /\ substate_read_block_length' = "NONE"
  BY <1>4 DEF ReadLiteral, NothingHalfRead
<1>6. UNCHANGED <<num_block_types, block_type_rb, announced, types>>
  BY <1>2 DEF Counted
<1>7. loop_counter \in Nat /\ loop_counter > 0 /\ loop_counter' = loop_counter - 1
  BY <1>1 DEF Inv, TypeOK, LoopCounter, ReadLiteral
<1>8. /\ state = "COMMAND_INNER"
      /\ \/ loop_counter = 1
            /\ state' \in {"COMMAND_POST_DECODE_LITERALS", "METABLOCK_DONE"}
         \/ loop_counter # 1 /\ state' = state
      /\ UNCHANGED <<lengthVars, codeVars, contextVars, cacheVars, commands>>
  BY DEF ReadLiteral
<1>9. TypeOK'
  BY <1>1, <1>3, <1>5, <1>6, <1>7, <1>8 DEF TypeOK
<1>10. Histories'
  BY <1>1, <1>3, <1>6, <1>8 DEF Histories
<1>11. LoopCounter'
  BY <1>7, <1>8 DEF LoopCounter
<1>12. Interrupted'
  BY <1>5 DEF Interrupted
<1>13. BlockTypes'
  BY <1>6, <1>8 DEF Inv, BlockTypes
<1>14. Codes'
  BY <1>3, <1>6, <1>8 DEF Inv, Codes
<1>15. Cache'
  BY <1>8 DEF Inv, Cache
<1> QED
  BY <1>3, <1>9, <1>10, <1>11, <1>12, <1>13, <1>14, <1>15 DEF Inv

-----------------------------------------------------------------------------
(* Distances                                                               *)

\* Wherever a distance leads to, the cache stays a cache, and its index moves
\* on by one at most.
LEMMA RefersKeeps ==
  ASSUME TypeOK, NEW sym, NEW d \in (Nat \ {0}) \cup {Huge}, NEW idx \in Int,
         distance_context' \in {0, 1}, Refers(sym, d, idx)
  PROVE  /\ dist_rb' \in [0..3 -> Nat \ {0}]
         /\ dist_rb_idx' \in {idx, idx + 1}
         /\ \/ /\ state' \in {"COMMAND_BEGIN", "METABLOCK_DONE"}
               /\ dist_rb_idx' \in {idx + 1, idx + distance_context'}
            \/ state' \in {"ERROR_FORMAT_DICTIONARY", "ERROR_FORMAT_TRANSFORM"}
<1>1. dist_rb \in [0..3 -> Nat \ {0}]
  BY DEF TypeOK
<1>2. CASE BackReference(sym, d, idx)
  <2>1. d \in Nat \ {0}
    BY <1>2 DEF BackReference
  <2>2. idx % 4 \in 0..3
    BY CacheIndex
  <2>3. dist_rb' \in [0..3 -> Nat \ {0}]
    BY <1>1, <1>2, <2>1, <2>2 DEF BackReference
  <2> QED
    BY <1>2, <2>3 DEF BackReference
<1>3. CASE DictionaryReference(sym, d, idx)
  <2>1. /\ dist_rb' = dist_rb
        /\ dist_rb_idx' = idx + distance_context'
        /\ state' \in {"COMMAND_BEGIN", "METABLOCK_DONE"}
    BY <1>3 DEF DictionaryReference
  <2>2. dist_rb_idx' \in {idx, idx + 1}
    <3>1. CASE distance_context' = 0
      BY <2>1, <3>1
    <3>2. CASE distance_context' = 1
      BY <2>1, <3>2
    <3> QED
      BY <3>1, <3>2
  <2> QED
    BY <1>1, <2>1, <2>2
<1>4. CASE BadReference(idx)
  BY <1>1, <1>4 DEF BadReference
<1> QED
  BY <1>2, <1>3, <1>4 DEF Refers

\* What follows a distance: a state with nothing begun, the block types as they
\* were, and the index of the cache as far as the commands allow.
LEMMA DistanceStep ==
  ASSUME Inv, AtDistance,
         distance_code' \in (Nat \ {0}) \cup {Huge}, distance_context' \in {0, 1},
         NEW sym, NEW idx \in Int, Refers(sym, distance_code', idx),
         idx = dist_rb_idx \/ (idx = dist_rb_idx - 1 /\ distance_context' = 1),
         upcoming' = None,
         block_length' \in [Categories -> Nat], counted' \in [Categories -> Nat],
         CountersExact',
         UNCHANGED <<loop_counter, num_block_types, block_type_rb, announced, types,
                     lengthVars, codeVars, dist_htree_index, context, commands>>
  PROVE  Inv'
<1>1. TypeOK /\ Histories /\ Cache
  BY DEF Inv
<1>2. /\ dist_rb' \in [0..3 -> Nat \ {0}]
      /\ dist_rb_idx' \in {idx, idx + 1}
      /\ \/ /\ state' \in {"COMMAND_BEGIN", "METABLOCK_DONE"}
            /\ dist_rb_idx' \in {idx + 1, idx + distance_context'}
         \/ state' \in {"ERROR_FORMAT_DICTIONARY", "ERROR_FORMAT_TRANSFORM"}
  BY <1>1, RefersKeeps
<1>3. dist_rb_idx \in 0..(commands - 1) /\ commands \in 0..MaxCommands
  BY <1>1 DEF TypeOK, Histories, Cache
<1>4. MaxCommands \in Nat
  BY CommandsConstants
<1>5. substate_read_block_length' = "NONE"
  BY HalfReadInHeader DEF Inv, NothingHalfRead
<1>6. TypeOK'
  <2>1. dist_rb_idx' \in -1..MaxCommands
    BY <1>2, <1>3, <1>4
  <2>2. distance_code' \in Nat \cup {-1, Huge} /\ distance_context' \in 0..3
    OBVIOUS
  <2> QED
    BY <1>1, <1>2, <1>5, <2>1, <2>2 DEF TypeOK
<1>7. Histories'
  BY <1>1, <1>2 DEF Histories
<1>8. LoopCounter' /\ Interrupted'
  BY <1>2, <1>5 DEF LoopCounter, Interrupted
<1>9. BlockTypes'
  BY <1>2 DEF Inv, BlockTypes
<1>10. Codes'
  BY <1>2 DEF Inv, Codes
<1>11. Cache'
  <2>1. dist_rb_idx' <= commands
    BY <1>2, <1>3
  <2>2. ASSUME ~Failed'
        PROVE  dist_rb_idx' >= 0
    <3>1. dist_rb_idx' \in {idx + 1, idx + distance_context'}
      BY <1>2, <2>2
    <3>2. CASE idx = dist_rb_idx
      BY <1>2, <1>3, <3>2
    <3>3. CASE idx = dist_rb_idx - 1 /\ distance_context' = 1
      BY <1>3, <3>1, <3>3
    <3> QED
      BY <3>2, <3>3
  <2>3. ~InCommand' /\ commands' = commands
    BY <1>2
  <2> QED
    BY <2>1, <2>2, <2>3 DEF Cache
<1> QED
  BY <1>6, <1>7, <1>8, <1>9, <1>10, <1>11 DEF Inv

\* What the cache gave last is a distance.
LEMMA LastIsDistance ==
  ASSUME TypeOK
  PROVE  dist_rb[(dist_rb_idx - 1) % 4] \in Nat \ {0}
<1>1. dist_rb_idx - 1 \in Int
  BY DEF TypeOK
<1>2. (dist_rb_idx - 1) % 4 \in 0..3
  BY <1>1, CacheIndex
<1> QED
  BY <1>2 DEF TypeOK

LEMMA ImplicitDistanceStep ==
  ASSUME Inv, ImplicitDistance
  PROVE  Inv'
<1>1. TypeOK /\ Interrupted
  BY DEF Inv
<1>2. distance_code = 0
  BY <1>1 DEF Inv, TypeOK, Codes, ImplicitDistance, Huge
<1>3. distance_context' = 1
  BY <1>2 DEF ImplicitDistance
<1>4. distance_code' \in Nat \ {0}
  BY <1>1, LastIsDistance DEF ImplicitDistance
<1>5. upcoming = None
  BY <1>1, NothingBegun DEF ImplicitDistance
<1>6. dist_rb_idx - 1 \in Int
  BY <1>1 DEF TypeOK
<1>7. CountersExact'
  BY DEF Inv, CountersExact, ImplicitDistance
<1>8. block_length' \in [Categories -> Nat] /\ counted' \in [Categories -> Nat]
  BY DEF Inv, TypeOK, Histories, ImplicitDistance
<1>9. AtDistance /\ Refers(0, distance_code', dist_rb_idx - 1)
  BY DEF ImplicitDistance
<1>10. /\ upcoming' = None
       /\ UNCHANGED <<loop_counter, num_block_types, block_type_rb, announced, types,
                      lengthVars, codeVars, dist_htree_index, context, commands>>
  BY <1>5 DEF ImplicitDistance
<1> QED
  BY <1>3, <1>4, <1>6, <1>7, <1>8, <1>9, <1>10, DistanceStep

LEMMA ReadDistanceStep ==
  ASSUME Inv, NEW e \in DistanceElements, ReadDistance(e)
  PROVE  Inv'
<1>1. TypeOK /\ Histories /\ CountersExact
  BY DEF Inv
<1>2. 2 \in Categories /\ block_length[2] > 0 /\ Counted(2) /\ AtDistance
  BY DEF ReadDistance, Categories
<1>3. /\ block_length' \in [Categories -> Nat]
      /\ counted' \in [Categories -> Nat]
      /\ CountersExact'
  BY <1>1, <1>2, CountedKeeps
<1>4. /\ upcoming' = None
      /\ UNCHANGED <<loop_counter, num_block_types, block_type_rb, announced, types,
                     lengthVars, codeVars, dist_htree_index, context, commands>>
  BY <1>2 DEF ReadDistance, Reads, Counted
<1>5. e.code \in Nat
  BY DistanceFields
<1>6. dist_rb_idx \in Int /\ dist_rb_idx - 1 \in Int
  BY <1>1 DEF TypeOK
<1>7. CASE e.code = 0
  <2>1. distance_context' = 1 /\ Refers(0, distance_code', dist_rb_idx - 1)
    BY <1>7 DEF ReadDistance
  <2>2. distance_code' \in Nat \ {0}
    BY <1>1, <1>7, LastIsDistance DEF ReadDistance
  <2> QED
    BY <1>2, <1>3, <1>4, <1>6, <2>1, <2>2, DistanceStep
<1>8. CASE e.code # 0
  <2>1. distance_context' = 0 /\ Refers(e.code, distance_code', dist_rb_idx)
    BY <1>8 DEF ReadDistance
  <2>2. distance_code' \in (Nat \ {0}) \cup {Huge}
    <3>1. CASE e.code < 16
      <4>1. e.code \in 1..15
        BY <1>5, <1>8, <3>1
      <4>2. NearCached(e.code) \in (Nat \ {0}) \cup {Huge}
        BY <1>1, <4>1, NearCachedIsDistance
      <4> QED
        BY <1>8, <3>1, <4>2 DEF ReadDistance
    <3>2. CASE e.code >= 16
      BY <1>5, <1>8, <3>2 DEF ReadDistance
    <3> QED
      BY <1>5, <3>1, <3>2
  <2> QED
    BY <1>2, <1>3, <1>4, <1>6, <2>1, <2>2, DistanceStep
<1> QED
  BY <1>7, <1>8

LEMMA MissDistanceStep ==
  ASSUME Inv, NEW e \in DistanceElements, MissDistance(e)
  PROVE  Inv'
<1>1. NothingHalfRead
  BY HalfReadInHeader DEF Inv
<1>2. TypeOK'
  BY DEF Inv, TypeOK, MissDistance
<1>3. Histories' /\ LoopCounter' /\ CountersExact' /\ BlockTypes' /\ Cache'
  BY DEF Inv, Histories, LoopCounter, CountersExact, BlockTypes, Cache, MissDistance
<1>4. Interrupted'
  BY <1>1 DEF Interrupted, NothingHalfRead, MissDistance, Begins
<1>5. Codes'
  BY DEF Inv, TypeOK, Codes, MissDistance
<1> QED
  BY <1>2, <1>3, <1>4, <1>5 DEF Inv

-----------------------------------------------------------------------------
(* Theorems                                                                *)

LEMMA NextKeepsInv == Inv /\ [Next]_vars => Inv'
<1> SUFFICES ASSUME Inv, [Next]_vars PROVE Inv'
  OBVIOUS
<1>1. CASE Header
  BY <1>1, ReadTypeCountStep, ReadFirstLengthStep, MissFirstLengthStep,
     BeginCommandsStep, FinishMetablockStep DEF Header
<1>2. CASE Switch
  BY <1>2, BlockSwitchStep, MissSwitchStep DEF Switch
<1>3. CASE Command
  BY <1>3, ReadCommandStep, MissCommandStep, ReadLiteralStep, ImplicitDistanceStep,
     ReadDistanceStep, MissDistanceStep DEF Command
<1>4. CASE UNCHANGED vars
  <2>1. TypeOK' /\ Histories' /\ LoopCounter'
    BY <1>4 DEF Inv, TypeOK, Histories, LoopCounter, vars
  <2>2. Interrupted'
    <3>1. \A c \in Categories :
            Switching(c)' = Switching(c) /\ SwitchElements(c)' = SwitchElements(c)
      BY <1>4 DEF Switching, SwitchElements, vars
    <3> QED
      BY <1>4, <3>1 DEF Inv, Interrupted, vars
  <2>3. CountersExact' /\ BlockTypes' /\ Codes' /\ Cache'
    BY <1>4 DEF Inv, CountersExact, BlockTypes, Codes, Cache, vars
  <2> QED
    BY <2>1, <2>2, <2>3 DEF Inv
<1> QED
  BY <1>1, <1>2, <1>3, <1>4 DEF Next

LEMMA AlwaysInv == Spec => []Inv
BY InitEstablishesInv, NextKeepsInv, PTL DEF Spec

\* Every field keeps its type, in particular the block types and the index of
\* the distance cache, which the code never bounds.
THEOREM TypeCorrect == Spec => []TypeOK
<1>1. Inv => TypeOK
  BY DEF Inv
<1> QED
  BY <1>1, AlwaysInv, PTL

\* The block counters are the announced lengths less the symbols read, however
\* often a read of ProcessCommandsInternal was interrupted and repeated.
THEOREM CountersStayExact == Spec => []CountersExact
<1>1. Inv => CountersExact
  BY DEF Inv
<1> QED
  BY <1>1, AlwaysInv, PTL

\* DecodeBlockTypeAndLength keeps the last two block types of the stream, and
\* each has prefix codes.
THEOREM TypesStayLastTwo == Spec => []TypesAreLastTwo
<1>1. Inv => TypesAreLastTwo
  BY DEF Inv, BlockTypes, TypesAreLastTwo
<1> QED
  BY <1>1, AlwaysInv, PTL

\* Symbols are read with the prefix codes of the current block types, and
\* distances with the context of their command.
THEOREM CodeStaysCurrent == Spec => []CodeIsCurrent
<1>1. Inv => CodeIsCurrent
  <2> SUFFICES ASSUME Inv, state \in CommandStates
               PROVE  /\ context_map_slice_index = block_type_rb[0][2]
                      /\ htree_command_index = block_type_rb[1][2]
                      /\ dist_context_map_slice_index = block_type_rb[2][2]
                      /\ AtDistance /\ distance_code < 0 =>
                           IF block_length[2] > 0
                           THEN dist_htree_index = <<block_type_rb[2][2], context>>
                           ELSE distance_context = context
    BY DEF CodeIsCurrent
  <2>1. block_length[2] > 0 \/ block_length[2] = 0
    BY DEF Inv, TypeOK, Categories
  <2> QED
    BY <2>1 DEF Inv, Codes
<1> QED
  BY <1>1, AlwaysInv, PTL

\* Outside the header no block length is half-read (the comment on
\* SafeReadBlockLengthIndex), whatever input was missing where.
THEOREM NothingStaysHalfRead == Spec => []NothingHalfRead
<1>1. Inv => NothingHalfRead
  BY HalfReadInHeader DEF Inv
<1> QED
  BY <1>1, AlwaysInv, PTL

-----------------------------------------------------------------------------
(* The cache implements the history of distances                           *)

Cached(k) == dist_rb[(dist_rb_idx - k) % 4]

\* The four places of the cache, counted back from its index.
LEMMA PlacesBack ==
  ASSUME NEW i \in Int
  PROVE  /\ (i + 3) % 4 = (i - 1) % 4
         /\ (i + 2) % 4 = (i - 2) % 4
         /\ (i + 1) % 4 = (i - 3) % 4
         /\ i % 4 = (i - 4) % 4
OBVIOUS

LEMMA PlacesDiffer ==
  ASSUME NEW i \in Int
  PROVE  /\ (i - 1) % 4 # i % 4 /\ (i - 2) % 4 # i % 4 /\ (i - 3) % 4 # i % 4
OBVIOUS

LEMMA LastIsCached ==
  ASSUME state # "ERROR_FORMAT_DICTIONARY"
  PROVE  /\ Last = [k \in 1..4 |-> Cached(k)]
         /\ Last[1] = Cached(1) /\ Last[2] = Cached(2)
         /\ Last[3] = Cached(3) /\ Last[4] = Cached(4)
BY DEF Last, Cached

LEMMA CachedIsDistance ==
  ASSUME TypeOK, NEW k \in 1..4
  PROVE  Cached(k) \in Nat \ {0}
<1>1. dist_rb_idx - k \in Int
  BY DEF TypeOK
<1>2. (dist_rb_idx - k) % 4 \in 0..3
  BY <1>1, CacheIndex
<1> QED
  BY <1>2 DEF TypeOK, Cached

\* The tables of short codes.
LEMMA ShortCodeTable ==
  /\ IndexOffset[2] = 2 /\ IndexOffset[3] = 1 /\ IndexOffset[4] = 0
  /\ ValueOffset[2] = 0 /\ ValueOffset[3] = 0 /\ ValueOffset[4] = 0
  /\ \A code \in 4..9 : /\ IndexOffset[code + 1] = 3
                        /\ ValueOffset[code + 1] = (code - 4) \div 2 + 1
  /\ \A code \in 10..15 : /\ IndexOffset[code + 1] = 2
                          /\ ValueOffset[code + 1] = (code - 10) \div 2 + 1
BY DEF IndexOffset, ValueOffset

\* A short code gives the distance the stream means, when that is positive.
LEMMA NearCachedIsMeant ==
  ASSUME TypeOK, state # "ERROR_FORMAT_DICTIONARY",
         NEW code \in 1..15, NearCached(code) # Huge
  PROVE  NearCached(code) = History!Meant(code) /\ NearCached(code) > 0
<1> DEFINE i == dist_rb_idx
<1>1. i \in Int
  BY DEF TypeOK
<1>2. /\ Last[1] = Cached(1) /\ Last[2] = Cached(2)
      /\ Last[3] = Cached(3) /\ Last[4] = Cached(4)
  BY LastIsCached
<1>3. /\ Cached(1) \in Nat \ {0} /\ Cached(2) \in Nat \ {0}
      /\ Cached(3) \in Nat \ {0} /\ Cached(4) \in Nat \ {0}
  BY CachedIsDistance
<1>4. /\ dist_rb[(i + 3) % 4] = Cached(1)
      /\ dist_rb[(i + 2) % 4] = Cached(2)
      /\ dist_rb[(i + 1) % 4] = Cached(3)
      /\ dist_rb[(i + 0) % 4] = Cached(4)
  BY <1>1, PlacesBack DEF Cached
<1> HIDE DEF i
<1>5. NearCached(code) =
        LET cached == dist_rb[(i + IndexOffset[code + 1]) % 4]
        IN  IF code % 2 = 1 THEN cached + ValueOffset[code + 1]
            ELSE IF cached > ValueOffset[code + 1] THEN cached - ValueOffset[code + 1]
            ELSE Huge
  BY DEF NearCached, i
<1>6. CASE code = 1
  <2>1. NearCached(code) = Cached(2) + 0
    BY <1>4, <1>5, <1>6, ShortCodeTable
  <2>2. History!Meant(code) = Cached(2)
    BY <1>2, <1>6 DEF History!Meant
  <2> QED
    BY <1>3, <2>1, <2>2
<1>7. CASE code = 2
  <2>1. NearCached(code) = Cached(3) - 0
    BY <1>3, <1>4, <1>5, <1>7, ShortCodeTable
  <2>2. History!Meant(code) = Cached(3)
    BY <1>2, <1>7 DEF History!Meant
  <2> QED
    BY <1>3, <2>1, <2>2
<1>8. CASE code = 3
  <2>1. NearCached(code) = Cached(4) + 0
    BY <1>4, <1>5, <1>8, ShortCodeTable
  <2>2. History!Meant(code) = Cached(4)
    BY <1>2, <1>8 DEF History!Meant
  <2> QED
    BY <1>3, <2>1, <2>2
<1>9. CASE code \in 4..9
  <2> DEFINE off == (code - 4) \div 2 + 1
  <2>1. NearCached(code) = IF code % 2 = 1 THEN Cached(1) + off
                           ELSE IF Cached(1) > off THEN Cached(1) - off ELSE Huge
    BY <1>4, <1>5, <1>9, ShortCodeTable
  <2>2. History!Meant(code) = IF code % 2 = 1 THEN Cached(1) + off ELSE Cached(1) - off
    BY <1>2, <1>9 DEF History!Meant, History!Near, History!Off
  <2>3. off \in Nat
    BY <1>9
  <2> HIDE DEF off
  <2> QED
    BY <1>3, <2>1, <2>2, <2>3
<1>10. CASE code \in 10..15
  <2> DEFINE off == (code - 10) \div 2 + 1
  <2>1. NearCached(code) = IF code % 2 = 1 THEN Cached(2) + off
                           ELSE IF Cached(2) > off THEN Cached(2) - off ELSE Huge
    BY <1>4, <1>5, <1>10, ShortCodeTable
  <2>2. History!Meant(code) = IF code % 2 = 1 THEN Cached(2) + off ELSE Cached(2) - off
    BY <1>2, <1>10 DEF History!Meant, History!Near, History!Off
  <2>3. off \in Nat
    BY <1>10
  <2> HIDE DEF off
  <2> QED
    BY <1>3, <2>1, <2>2, <2>3
<1> QED
  BY <1>6, <1>7, <1>8, <1>9, <1>10

\* A reference with the distance the stream means is a step of the history: the
\* index of the cache is at its end (any symbol but 0), or one before it and
\* moved on by distance_context (the symbol 0).
LEMMA ReferenceIsStep ==
  ASSUME TypeOK, AtDistance, distance_context' \in {0, 1},
         NEW sym \in DistanceSymbols \cup {0}, NEW idx \in Int,
         NEW d \in (Nat \ {0}) \cup {Huge}, Refers(sym, d, idx), d = distance_code',
         d # Huge => d = History!Meant(sym),
         \/ sym # 0 /\ idx = dist_rb_idx /\ distance_context' = 0
         \/ sym = 0 /\ idx = dist_rb_idx - 1 /\ distance_context' = 1
  PROVE  [History!Next]_(History!vars)
<1>1. /\ dist_rb_idx \in Int
      /\ dist_rb \in [0..3 -> Nat \ {0}]
  BY DEF TypeOK
<1>2. idx + distance_context' = dist_rb_idx
  <2>1. CASE idx = dist_rb_idx /\ distance_context' = 0
    BY <1>1, <2>1
  <2>2. CASE idx = dist_rb_idx - 1 /\ distance_context' = 1
    BY <1>1, <2>2
  <2> QED
    BY <2>1, <2>2
<1>3. idx % 4 \in 0..3
  BY CacheIndex
<1>4. /\ Last = [k \in 1..4 |-> Cached(k)]
      /\ Last[1] = Cached(1) /\ Last[2] = Cached(2) /\ Last[3] = Cached(3)
  BY LastIsCached
<1>5. CASE DictionaryReference(sym, d, idx)
  <2>1. Last' = Last
    BY <1>2, <1>5 DEF DictionaryReference, Last
  <2>2. symbol' = sym /\ d # Huge
    BY <1>5 DEF DictionaryReference
  <2>3. History!Meant(sym) > 0
    BY <2>2
  <2> QED
    BY <2>1, <2>2, <2>3 DEF History!Next, History!DictionaryReference
<1>6. CASE BadReference(idx)
  <2>1. Last' = Last
    BY <1>2, <1>6 DEF BadReference, Last
  <2> QED
    BY <1>6, <2>1 DEF BadReference, History!vars
<1>7. CASE BackReference(sym, d, idx)
  <2>1. symbol' = sym /\ d \in Nat \ {0} /\ d = History!Meant(sym)
    BY <1>7 DEF BackReference
  <2>2. /\ dist_rb' = [dist_rb EXCEPT ![idx % 4] = d]
        /\ dist_rb_idx' = idx + 1
        /\ state' # "ERROR_FORMAT_DICTIONARY"
    BY <1>7 DEF BackReference
  <2>3. CASE sym = 0
    <3>1. d = Cached(1) /\ idx = dist_rb_idx - 1
      BY <1>4, <2>1, <2>3 DEF History!Meant
    <3>2. dist_rb' = dist_rb
      BY <1>1, <1>3, <2>2, <3>1 DEF Cached
    <3>3. Last' = Last
      BY <1>1, <2>2, <3>1, <3>2 DEF Last
    <3> QED
      BY <2>1, <2>3, <3>3 DEF History!Next, History!BackReference
  <2>4. CASE sym # 0
    <3>1. idx = dist_rb_idx
      BY <2>4
    <3>2. Last' = [k \in 1..4 |-> dist_rb'[(idx + 1 - k) % 4]]
      BY <2>2 DEF Last
    <3>3. /\ dist_rb'[idx % 4] = d
          /\ dist_rb'[(idx - 1) % 4] = Cached(1)
          /\ dist_rb'[(idx - 2) % 4] = Cached(2)
          /\ dist_rb'[(idx - 3) % 4] = Cached(3)
      <4>1. /\ (idx - 1) % 4 \in 0..3 /\ (idx - 2) % 4 \in 0..3
            /\ (idx - 3) % 4 \in 0..3
        BY CacheIndex
      <4> QED
        BY <1>1, <1>3, <2>2, <3>1, <4>1, PlacesDiffer DEF Cached
    <3>4. /\ idx + 1 - 1 = idx /\ idx + 1 - 2 = idx - 1
          /\ idx + 1 - 3 = idx - 2 /\ idx + 1 - 4 = idx - 3
      OBVIOUS
    <3>5. Last' = <<d, Cached(1), Cached(2), Cached(3)>>
      BY <3>2, <3>3, <3>4
    <3> QED
      BY <1>4, <2>1, <2>4, <3>5 DEF History!Next, History!BackReference
  <2> QED
    BY <2>3, <2>4
<1> QED
  BY <1>5, <1>6, <1>7 DEF Refers

LEMMA ImplicitIsStep ==
  ASSUME Inv, ImplicitDistance
  PROVE  [History!Next]_(History!vars)
<1>1. TypeOK /\ AtDistance /\ distance_code = 0
  BY DEF Inv, TypeOK, Codes, ImplicitDistance, Huge
<1>2. distance_context' = 1 /\ Refers(0, distance_code', dist_rb_idx - 1)
  BY <1>1 DEF ImplicitDistance
<1>3. distance_code' = Cached(1)
  BY DEF ImplicitDistance, Cached
<1>4. Cached(1) \in Nat \ {0} /\ Cached(1) = History!Meant(0)
  BY <1>1, CachedIsDistance, LastIsCached DEF History!Meant
<1>5. dist_rb_idx - 1 \in Int
  BY <1>1 DEF TypeOK
<1> QED
  BY <1>1, <1>2, <1>3, <1>4, <1>5, ReferenceIsStep

LEMMA DistanceIsStep ==
  ASSUME Inv, NEW e \in DistanceElements, ReadDistance(e)
  PROVE  [History!Next]_(History!vars)
<1>1. TypeOK /\ AtDistance
  BY DEF Inv, ReadDistance
<1>2. e.code \in DistanceSymbols /\ e.code \in Nat
  BY DistanceFields DEF DistanceElements
<1>3. dist_rb_idx \in Int /\ dist_rb_idx - 1 \in Int
  BY <1>1 DEF TypeOK
<1>4. CASE e.code = 0
  <2>1. distance_context' = 1 /\ Refers(0, distance_code', dist_rb_idx - 1)
    BY <1>4 DEF ReadDistance
  <2>2. distance_code' = Cached(1)
    BY <1>4 DEF ReadDistance, Cached
  <2>3. Cached(1) \in Nat \ {0} /\ Cached(1) = History!Meant(0)
    BY <1>1, CachedIsDistance, LastIsCached DEF History!Meant
  <2> QED
    BY <1>1, <1>3, <2>1, <2>2, <2>3, ReferenceIsStep
<1>5. CASE e.code \in 1..15
  <2>1. distance_context' = 0 /\ Refers(e.code, distance_code', dist_rb_idx)
    BY <1>5 DEF ReadDistance
  <2>2. distance_code' = NearCached(e.code)
    BY <1>5 DEF ReadDistance
  <2>3. distance_code' \in (Nat \ {0}) \cup {Huge}
    BY <1>1, <1>5, <2>2, NearCachedIsDistance
  <2>4. distance_code' # Huge => distance_code' = History!Meant(e.code)
    BY <1>1, <1>5, <2>2, NearCachedIsMeant
  <2> QED
    BY <1>1, <1>2, <1>3, <1>5, <2>1, <2>3, <2>4, ReferenceIsStep
<1>6. CASE e.code >= 16
  <2>1. distance_context' = 0 /\ Refers(e.code, distance_code', dist_rb_idx)
    BY <1>2, <1>6 DEF ReadDistance
  <2>2. distance_code' = e.code - 15 /\ e.code - 15 \in Nat \ {0}
    BY <1>2, <1>6 DEF ReadDistance
  <2>3. History!Meant(e.code) = e.code - 15
    BY <1>2, <1>6 DEF History!Meant
  <2> QED
    BY <1>1, <1>2, <1>3, <1>6, <2>1, <2>2, <2>3, ReferenceIsStep
<1> QED
  BY <1>2, <1>4, <1>5, <1>6

LEMMA InitIsInit == Init => History!Init
<1> SUFFICES ASSUME Init PROVE History!Init
  OBVIOUS
<1>1. Last = [k \in 1..4 |-> dist_rb[(0 - k) % 4]]
  BY DEF Init, Last
<1>2. /\ (0 - 1) % 4 = 3 /\ (0 - 2) % 4 = 2 /\ (0 - 3) % 4 = 1 /\ (0 - 4) % 4 = 0
  <2>1. 0 \in Int /\ 3 % 4 = 3 /\ 2 % 4 = 2 /\ 1 % 4 = 1 /\ 0 % 4 = 0
    OBVIOUS
  <2>2. (0 + 3) % 4 = (0 - 1) % 4 /\ (0 + 2) % 4 = (0 - 2) % 4
        /\ (0 + 1) % 4 = (0 - 3) % 4 /\ 0 % 4 = (0 - 4) % 4
    BY <2>1, PlacesBack
  <2> QED
    BY <2>1, <2>2
<1>3. dist_rb[3] = 4 /\ dist_rb[2] = 11 /\ dist_rb[1] = 15 /\ dist_rb[0] = 16
  BY DEF Init
<1>4. Last = <<4, 11, 15, 16>>
  BY <1>1, <1>2, <1>3
<1> QED
  BY <1>4 DEF Init, History!Init

LEMMA StepIsStep == Inv /\ [Next]_vars => [History!Next]_(History!vars)
<1> SUFFICES ASSUME Inv, [Next]_vars PROVE [History!Next]_(History!vars)
  OBVIOUS
<1>1. ASSUME UNCHANGED <<dist_rb, dist_rb_idx, symbol>>,
             state # "ERROR_FORMAT_DICTIONARY", state' # "ERROR_FORMAT_DICTIONARY"
      PROVE  UNCHANGED History!vars
  BY <1>1 DEF Last, History!vars
<1>2. CASE Header
  <2>1. /\ UNCHANGED <<dist_rb, dist_rb_idx, symbol>>
        /\ state # "ERROR_FORMAT_DICTIONARY" /\ state' # "ERROR_FORMAT_DICTIONARY"
    BY <1>2 DEF Header, ReadTypeCount, ReadFirstLength, MissFirstLength,
                BeginCommands, FinishMetablock
  <2> QED
    BY <1>1, <2>1
<1>3. CASE Switch
  <2>1. /\ UNCHANGED <<dist_rb, dist_rb_idx, symbol>>
        /\ state # "ERROR_FORMAT_DICTIONARY" /\ state' # "ERROR_FORMAT_DICTIONARY"
    BY <1>3 DEF Switch, BlockSwitch, MissSwitch, Switching
  <2> QED
    BY <1>1, <2>1
<1>4. CASE Command
  <2>1. CASE \/ \E e \in CommandElements : ReadCommand(e) \/ MissCommand(e)
             \/ ReadLiteral
             \/ \E e \in DistanceElements : MissDistance(e)
    <3>1. /\ UNCHANGED <<dist_rb, dist_rb_idx, symbol>>
          /\ state # "ERROR_FORMAT_DICTIONARY" /\ state' # "ERROR_FORMAT_DICTIONARY"
      BY <2>1 DEF ReadCommand, MissCommand, ReadLiteral, MissDistance
    <3> QED
      BY <1>1, <3>1
  <2>2. CASE ImplicitDistance
    BY <2>2, ImplicitIsStep
  <2>3. CASE \E e \in DistanceElements : ReadDistance(e)
    BY <2>3, DistanceIsStep
  <2> QED
    BY <1>4, <2>1, <2>2, <2>3 DEF Command
<1>5. CASE UNCHANGED vars
  BY <1>5 DEF vars, Last, History!vars
<1> QED
  BY <1>2, <1>3, <1>4, <1>5 DEF Next

\* The cache of distances, its index moved back on the symbol 0 and on again by
\* a back-reference or by distance_context, always holds the last four distances
\* in their order, and every symbol gets the distance the format gives it.
THEOREM CacheImplementsHistory == Spec => ImplementsDistanceHistory
BY InitIsInit, StepIsStep, AlwaysInv, PTL DEF Spec, History!Spec,
   ImplementsDistanceHistory
=============================================================================
