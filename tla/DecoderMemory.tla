--------------------------- MODULE DecoderMemory ---------------------------
(***************************************************************************)
(* Who owns the decoder's memory: the blocks a BrotliState asks of its     *)
(* allocator, the functions that move a block out of the state while they  *)
(* work on it, and the interfaces that make and destroy a decoder          *)
(* (src/src/state.rs, src/src/ffi, the allocating arms of                  *)
(* BrotliDecompressStream in src/src/decode.rs).                           *)
(*                                                                         *)
(* A block is a pair <<slot, copy>>: what it was asked for, and a number   *)
(* that tells it from others asked for the same purpose.  heap is what the *)
(* allocator has given out and not got back.  What the stream says is left *)
(* to chance: every arm may want more input, find a format error or go on. *)
(*                                                                         *)
(* Four ways of making a decoder, which differ in how an allocation fails: *)
(*   "c"         BrotliDecoderCreateInstance with the caller's functions.  *)
(*               A null, but for the instance itself, is made into a slice *)
(*               of a null pointer, which ends the process.                *)
(*   "std"       the same without functions: it never fails.               *)
(*   "rust"      BrotliState::new_with_custom_dictionary over an allocator *)
(*               that answers with an empty block, as in src/src/test.rs.  *)
(*   "prealloc"  one call on scratch memory; a failure is a panic.         *)
(***************************************************************************)
EXTENDS Naturals, Sequences, FiniteSets, Functions

CONSTANTS
    Interfaces,   \* the ways of making a decoder to look at
    Copies,       \* tell blocks that were asked for the same purpose apart
    Nil           \* the empty block, AllocatedMemory::default()

ASSUME InterfacesKnown == Interfaces \subseteq {"c", "std", "rust", "prealloc"}

Codes(g)  == <<"literal_codes", "insert_copy_codes", "distance_codes">>[g + 1]
Htrees(g) == <<"literal_htrees", "insert_copy_htrees", "distance_htrees">>[g + 1]
AllCodes  == {Codes(g) : g \in 0..2}
AllGroups == AllCodes \union {Htrees(g) : g \in 0..2}

\* What a meta-block asks for, and what lasts as long as the stream.
MetablockSlots == {"context_map", "context_modes", "dist_context_map"} \union AllGroups
StreamSlots == {"ringbuffer", "block_type_trees", "block_len_trees",
                "context_map_table", "custom_dict"}
\* The blocks of a state, the one it lies in, and one of the caller's own.
Slots == MetablockSlots \union StreamSlots \union {"instance", "user"}

\* A block can be asked for while another one for the same purpose is out.
ASSUME MemoryConstants ==
    /\ \E a, b \in Copies : a # b
    /\ \A s \in Slots, copy \in Copies : Nil # <<s, copy>>

VARIABLES
    given,      \* the interface the decoder was made through
    inst,       \* "none", "built" (not yet placed), "live", "gone", "stopped"
    in_call,    \* whether BrotliDecompressStream is on the stack
    state,      \* s.state; the command states are two, GROUPS is the end of CONTEXT_MAP_2
    loop_counter,
    substate_context_map, \* NONE, HUFFMAN (with READ_PREFIX), DECODE (with TRANSFORM)
    working,    \* "no", or how deep the functions are that hold moved blocks
    error_code, \* the codes merged by cause
    large_window,
    slot,       \* the block each field of the state (and the caller) holds
    taken,      \* the blocks moved out into a local variable
    heap        \* the blocks given out and not given back

control == <<state, loop_counter, substate_context_map, working>>
blocks  == <<slot, taken, heap>>
vars == <<given, inst, in_call, control, error_code, large_window, blocks>>

Fatal == error_code \notin {"SUCCESS", "NEEDS_MORE_INPUT", "NEEDS_MORE_OUTPUT"}
Owned == (Range(slot) \union Range(taken)) \ {Nil}
Lost  == heap \ Owned
NoBlocks == [s \in Slots |-> Nil]

Init ==
    /\ given \in Interfaces
    /\ inst = "none" /\ in_call = FALSE
    /\ state = "UNINITED" /\ loop_counter = 0
    /\ substate_context_map = "NONE" /\ working = "no"
    /\ error_code = "SUCCESS" /\ large_window = FALSE
    /\ slot = NoBlocks /\ taken = NoBlocks /\ heap = {}

-----------------------------------------------------------------------------
(* The allocator.                                                          *)

Fresh(s) == CHOOSE b \in {<<s, copy>> : copy \in Copies} : b \notin heap

\* Mutant: the freed block stays in its field.
MutantNoReplace(F, N) ==
    /\ heap' = (heap \ {slot[s] : s \in F}) \union {Fresh(s) : s \in N}
    /\ slot' = [s \in Slots |-> IF s \in N THEN Fresh(s) ELSE slot[s]]

(* free_cell for what F holds, its fields replaced by empty blocks, then   *)
(* alloc_cell for N.                                                       *)
Change(F, N) ==
    /\ heap' = (heap \ {slot[s] : s \in F}) \union {Fresh(s) : s \in N}
    /\ slot' = [s \in Slots |-> IF s \in N THEN Fresh(s)
                                ELSE IF s \in F THEN Nil ELSE slot[s]]

(* What is given when N is asked for.                                      *)
Answers(N) == IF given = "rust" THEN SUBSET N ELSE {N}

\* Mutant: the distance map is forgotten.
MutantCleanup == MetablockSlots \ {"dist_context_map"}
BrotliStateCleanupAfterMetablock == MetablockSlots
BrotliStateCleanup == BrotliStateCleanupAfterMetablock \union StreamSlots

(* The state is dropped: F goes back to the allocator, what a function had *)
(* moved out of the state does not.                                        *)
DropState(F) ==
    /\ heap' = heap \ {slot[s] : s \in F}
    /\ slot' = [NoBlocks EXCEPT !["user"] = slot["user"]]
    /\ taken' = NoBlocks
    /\ inst' = "gone" /\ in_call' = FALSE
    /\ state' = "UNINITED" /\ loop_counter' = 0
    /\ substate_context_map' = "NONE" /\ working' = "no"

(* A panic.  It passes through the owner of the state, who drops it.       *)
Panic == DropState(BrotliStateCleanup) /\ error_code' = "UNREACHABLE"

(* The allocator that does not answer.                                     *)
NoAnswer ==
    \/ given = "prealloc" /\ Panic
    \/ /\ given = "c"
       /\ inst' = "stopped" /\ in_call' = FALSE
       /\ UNCHANGED <<control, error_code, blocks>>

-----------------------------------------------------------------------------
(* Making and destroying a decoder, and the caller's own memory.           *)

(* The constructors: context_map_table is asked for with no look at the    *)
(* answer; a Rust caller may hand over a dictionary.                       *)
Construct ==
    /\ inst = "none"
    /\ \/ /\ inst' = IF given \in {"c", "std"} THEN "built" ELSE "live"
          /\ \E got \in Answers({"context_map_table"}),
                dict \in IF given = "rust" THEN SUBSET {"custom_dict"} ELSE {{}} :
                 Change({}, got \union dict)
          /\ large_window' \in IF given = "rust" THEN BOOLEAN ELSE {given = "prealloc"}
          /\ UNCHANGED <<in_call, control, error_code, taken>>
       \/ NoAnswer /\ UNCHANGED large_window
    /\ UNCHANGED given

(* The instance's own memory.  On a null the state about to move there is  *)
(* dropped and the caller gets a null.                                     *)
BrotliDecoderCreateInstance ==
    /\ inst = "built"
    /\ \/ /\ Change({}, {"instance"})
          /\ inst' = "live"
          /\ UNCHANGED <<in_call, control, taken>>
       \/ given = "c" /\ DropState(BrotliStateCleanup)
    /\ UNCHANGED <<given, error_code, large_window>>

Idle == inst = "live" /\ ~in_call

(* The instance's memory goes back first, then the copy of the state read  *)
(* out of it is dropped.  A Rust owner only drops the state.               *)
BrotliDecoderDestroyInstance ==
    /\ Idle
    /\ DropState(BrotliStateCleanup \union {"instance"})
    /\ UNCHANGED <<given, error_code, large_window>>

BrotliDecoderSetParameter ==
    /\ Idle /\ given \in {"c", "std"} /\ state = "UNINITED"
    /\ large_window' \in BOOLEAN
    /\ UNCHANGED <<given, inst, in_call, control, error_code, blocks>>

(* BrotliDecoderMallocU8 and BrotliDecoderMallocUsize; a null is passed on.*)
BrotliDecoderMalloc ==
    /\ Idle /\ given \in {"c", "std"} /\ slot["user"] = Nil
    /\ Change({}, {"user"})
    /\ UNCHANGED <<given, inst, in_call, control, error_code, large_window, taken>>

BrotliDecoderFree ==
    /\ Idle /\ slot["user"] # Nil
    /\ Change({"user"}, {})
    /\ UNCHANGED <<given, inst, in_call, control, error_code, large_window, taken>>

-----------------------------------------------------------------------------
(* The stream call.  The arms of BrotliDecompressStream that move no       *)
(* block.                                                                  *)

(* brotli_decode_prealloc makes one call.                                  *)
MayCall == Idle /\ (given = "prealloc" => state = "UNINITED" /\ error_code = "SUCCESS")

\* Mutant: the saved code is not looked at.
MutantCallAgain ==
    /\ MayCall
    /\ in_call' = TRUE
    /\ UNCHANGED <<given, inst, control, error_code, large_window, blocks>>

(* A saved fatal code ends the call at once.                               *)
BrotliDecompressStream ==
    /\ MayCall /\ ~Fatal
    /\ in_call' = TRUE
    /\ UNCHANGED <<given, inst, control, error_code, large_window, blocks>>

(* Arguments no slice can be made of: the C function saves the code        *)
(* whatever was saved before, the Rust one only after its look at it.      *)
InvalidArguments ==
    /\ Idle
    /\ given \in {"c", "std"} \/ (given = "rust" /\ ~Fatal)
    /\ error_code' = "INVALID_ARGUMENTS"
    /\ UNCHANGED <<given, inst, in_call, control, large_window, blocks>>

(* SaveErrorCode!                                                          *)
Return(codes) ==
    /\ error_code' \in codes
    /\ in_call' = FALSE
    /\ UNCHANGED <<inst, control>>

Goto(next) ==
    /\ state' \in next
    /\ UNCHANGED <<inst, in_call, error_code, substate_context_map, working>>

In(here) == inst = "live" /\ in_call /\ state = here /\ working = "no"
Parameters == <<given, large_window>>

(* The arms that ask for no memory: where each goes on to, and with which  *)
(* codes it leaves the call.                                               *)
Plain ==
    [LARGE_WINDOW_BITS |-> <<{"INITIALIZE"}, {"NEEDS_MORE_INPUT", "FORMAT"}>>,
     UNCOMPRESSED      |-> <<{"METABLOCK_DONE"},
                             {"NEEDS_MORE_INPUT", "NEEDS_MORE_OUTPUT", "FORMAT"}>>,
     METADATA          |-> <<{"METABLOCK_DONE"}, {"NEEDS_MORE_INPUT"}>>,
     CONTEXT_MODES     |-> <<{"CONTEXT_MAP_1"}, {"NEEDS_MORE_INPUT"}>>,
     WRITE             |-> <<{"COMMAND", "METABLOCK_DONE"}, {"NEEDS_MORE_OUTPUT", "FORMAT"}>>,
     DONE              |-> <<{}, {"SUCCESS", "NEEDS_MORE_OUTPUT", "FORMAT"}>>]

PlainArm ==
    /\ state \in DOMAIN Plain /\ In(state)
    /\ \/ Goto(Plain[state][1]) /\ UNCHANGED loop_counter
       \/ Return(Plain[state][2])
    /\ UNCHANGED <<Parameters, blocks>>

Uninited ==
    /\ In("UNINITED")
    /\ \/ Return({"NEEDS_MORE_INPUT", "FORMAT"}) /\ UNCHANGED large_window
       \/ /\ large_window' \in {FALSE, large_window}
          /\ Goto({IF large_window' THEN "LARGE_WINDOW_BITS" ELSE "INITIALIZE"})
          /\ UNCHANGED loop_counter
    /\ UNCHANGED <<given, blocks>>

(* The second block is asked for only when the first was given.            *)
Initialize ==
    /\ In("INITIALIZE")
    /\ \/ /\ \E got \in Answers({"block_type_trees", "block_len_trees"}) :
               /\ "block_len_trees" \in got => "block_type_trees" \in got
               /\ Change({}, got)
               /\ IF "block_len_trees" \in got
                  THEN Goto({"METABLOCK_BEGIN"}) /\ UNCHANGED loop_counter
                  ELSE Return({"ALLOC"})
          /\ UNCHANGED taken
       \/ NoAnswer
    /\ UNCHANGED Parameters

BrotliStateMetablockBegin ==
    /\ In("METABLOCK_BEGIN")
    /\ Change(MetablockSlots, {})
    /\ Goto({"METABLOCK_HEADER"})
    /\ UNCHANGED <<Parameters, loop_counter, taken>>

HasData == {"UNCOMPRESSED", "HUFFMAN_CODE_0"}

(* The dictionary goes back once it is in the ring.                        *)
BrotliAllocateRingBuffer ==
    \/ /\ \E got \in Answers({"ringbuffer"}) :
            IF got = {}
            THEN Return({"ALLOC"}) /\ UNCHANGED <<slot, heap>>
            ELSE Goto(HasData) /\ loop_counter' = 0 /\ Change({"custom_dict"}, got)
       /\ UNCHANGED taken
    \/ NoAnswer

MetablockHeader ==
    /\ In("METABLOCK_HEADER")
    /\ \/ Return({"NEEDS_MORE_INPUT", "FORMAT"}) /\ UNCHANGED blocks
       \/ Goto({"METADATA", "METABLOCK_DONE"}) /\ UNCHANGED <<loop_counter, blocks>>
       \/ /\ slot["ringbuffer"] # Nil
          /\ Goto(HasData) /\ loop_counter' = 0 /\ UNCHANGED blocks
       \/ slot["ringbuffer"] = Nil /\ BrotliAllocateRingBuffer
    /\ UNCHANGED Parameters

(* The number of block types of one category, then the length of its first *)
(* block.                                                                  *)
CountBlockTypes ==
    /\ In("HUFFMAN_CODE_0")
    /\ IF loop_counter = 3
       THEN Goto({"METABLOCK_HEADER_2"}) /\ loop_counter' = 0
       ELSE \/ Return({"NEEDS_MORE_INPUT"})
            \/ Goto({"HUFFMAN_CODE_0"}) /\ loop_counter' = loop_counter + 1
            \/ Goto({"HUFFMAN_CODE_1"}) /\ UNCHANGED loop_counter
    /\ UNCHANGED <<Parameters, blocks>>

FirstBlockLength ==
    /\ In("HUFFMAN_CODE_3")
    /\ \/ Return({"NEEDS_MORE_INPUT"})
       \/ Goto({"HUFFMAN_CODE_0"}) /\ loop_counter' = loop_counter + 1
    /\ UNCHANGED <<Parameters, blocks>>

AllocateContextModes ==
    /\ In("METABLOCK_HEADER_2")
    /\ \/ Return({"NEEDS_MORE_INPUT"}) /\ UNCHANGED blocks
       \/ /\ \E got \in Answers({"context_modes"}) :
               /\ Change({}, got)
               /\ IF got = {} THEN Return({"ALLOC"})
                              ELSE Goto({"CONTEXT_MODES"}) /\ UNCHANGED loop_counter
          /\ UNCHANGED taken
       \/ NoAnswer
    /\ UNCHANGED Parameters

(* HuffmanTreeGroup::init of the three groups: each gives back what it had *)
(* and asks for two blocks; only the codes are looked at.                  *)
InitGroups ==
    /\ In("GROUPS")
    /\ \/ /\ \E got \in Answers(AllGroups) :
               /\ Change(AllGroups, got)
               /\ IF AllCodes \subseteq got
                  THEN Goto({"TREE_GROUP"}) /\ loop_counter' = 0
                  ELSE Return({"UNREACHABLE"})
          /\ UNCHANGED taken
       \/ NoAnswer
    /\ UNCHANGED Parameters

(* BrotliStateCleanupAfterMetablock, but not for a meta-block that wrote   *)
(* more than it said; then the padding of the last one is looked at.       *)
MetablockDone ==
    /\ In("METABLOCK_DONE")
    /\ \/ Return({"FORMAT"}) /\ UNCHANGED blocks
       \/ /\ Change(BrotliStateCleanupAfterMetablock, {}) /\ UNCHANGED taken
          /\ \/ Goto({"METABLOCK_BEGIN", "DONE"}) /\ UNCHANGED loop_counter
             \/ Return({"FORMAT"})
    /\ UNCHANGED Parameters

-----------------------------------------------------------------------------
(* The functions that move blocks out of the state.  The blocks are taken  *)
(* in one step and put back in a later one; in between they are in a local *)
(* variable, and what the local still holds when it ends is dropped.       *)

MapOf == IF state = "CONTEXT_MAP_1" THEN "context_map" ELSE "dist_context_map"
Moves ==
    CASE state = "HUFFMAN_CODE_1" -> {"block_type_trees"}
      [] state = "HUFFMAN_CODE_2" -> {"block_len_trees"}
      [] state \in {"CONTEXT_MAP_1", "CONTEXT_MAP_2"} -> {MapOf}
      [] state = "TREE_GROUP" -> {Codes(loop_counter), Htrees(loop_counter)}
      [] state = "COMMAND" -> AllGroups
      [] OTHER -> {}

Take(F) ==
    /\ taken' = [s \in Slots |-> IF s \in F THEN slot[s] ELSE taken[s]]
    /\ slot' = [s \in Slots |-> IF s \in F THEN Nil ELSE slot[s]]
    /\ UNCHANGED heap

PutBack(F) ==
    /\ slot' = [s \in Slots |-> IF s \in F THEN taken[s] ELSE slot[s]]
    /\ taken' = [s \in Slots |-> IF working = "table" /\ s \notin F THEN taken[s] ELSE Nil]
    /\ UNCHANGED heap

EnterFunction ==
    /\ In(state) /\ Moves # {}
    /\ Take(Moves)
    /\ working' = "inside"
    /\ UNCHANGED <<Parameters, inst, in_call, error_code, state, loop_counter,
                   substate_context_map>>

Inside(here) == inst = "live" /\ working = "inside" /\ state \in here

(* The function ends, and the call with it or not.                         *)
Leaves(codes) ==
    /\ working' = "no" /\ in_call' = FALSE /\ error_code' \in codes
    /\ UNCHANGED <<Parameters, inst, state, loop_counter, substate_context_map>>

GoesOn(next, counter) ==
    /\ working' = "no" /\ state' \in next /\ loop_counter' = counter
    /\ substate_context_map' = "NONE"
    /\ UNCHANGED <<Parameters, inst, in_call, error_code>>

(* The two trees of a category's block switches.                           *)
ReadBlockTrees ==
    /\ Inside({"HUFFMAN_CODE_1", "HUFFMAN_CODE_2"})
    /\ PutBack(Moves)
    /\ \/ Leaves({"NEEDS_MORE_INPUT", "FORMAT"})
       \/ GoesOn({IF state = "HUFFMAN_CODE_1" THEN "HUFFMAN_CODE_2" ELSE "HUFFMAN_CODE_3"},
                 loop_counter)

AfterMap == {IF state = "CONTEXT_MAP_1" THEN "CONTEXT_MAP_2" ELSE "GROUPS"}

(* The number of trees and the memory of the map; a map of one tree is     *)
(* done with that.                                                         *)
BeginContextMap ==
    /\ Inside({"CONTEXT_MAP_1", "CONTEXT_MAP_2"}) /\ substate_context_map = "NONE"
    /\ \/ Leaves({"NEEDS_MORE_INPUT"}) /\ PutBack(Moves)
       \/ given = "rust" /\ Leaves({"ALLOC"}) /\ PutBack(Moves)
       \/ /\ heap' = heap \union {Fresh(MapOf)}
          /\ \/ /\ slot' = [slot EXCEPT ![MapOf] = Fresh(MapOf)]
                /\ taken' = NoBlocks
                /\ GoesOn(AfterMap, loop_counter)
             \/ /\ taken' = [taken EXCEPT ![MapOf] = Fresh(MapOf)]
                /\ substate_context_map' = "HUFFMAN"
                /\ UNCHANGED <<Parameters, inst, in_call, error_code, state,
                               loop_counter, working, slot>>
       \/ NoAnswer /\ UNCHANGED Parameters

(* The map's prefix code, read into the table every map shares.            *)
TakeMapTable ==
    /\ Inside({"CONTEXT_MAP_1", "CONTEXT_MAP_2"}) /\ substate_context_map = "HUFFMAN"
    /\ \/ Leaves({"NEEDS_MORE_INPUT"}) /\ PutBack(Moves)
       \/ /\ Take({"context_map_table"})
          /\ working' = "table"
          /\ UNCHANGED <<Parameters, inst, in_call, error_code, state, loop_counter,
                         substate_context_map>>

(* A code that is read to its end is built into the table; there is no     *)
(* place for it in an empty one.                                           *)
ReadMapTable ==
    /\ working = "table"
    /\ \/ /\ PutBack({"context_map_table"} \union Moves)
          /\ Leaves({"NEEDS_MORE_INPUT", "FORMAT"})
       \/ /\ taken["context_map_table"] # Nil
          /\ PutBack({"context_map_table"})
          /\ working' = "inside" /\ substate_context_map' = "DECODE"
          /\ UNCHANGED <<Parameters, inst, in_call, error_code, state, loop_counter>>
       \/ taken["context_map_table"] = Nil /\ Panic /\ UNCHANGED Parameters

DecodeContextMap ==
    /\ Inside({"CONTEXT_MAP_1", "CONTEXT_MAP_2"}) /\ substate_context_map = "DECODE"
    /\ PutBack(Moves)
    /\ \/ Leaves({"NEEDS_MORE_INPUT", "FORMAT"})
       \/ GoesOn(AfterMap, loop_counter)

\* Mutant: a tree that cannot be read now is returned from inside the loop.
MutantReturnInLoop ==
    /\ Inside({"TREE_GROUP"})
    /\ IF taken[Htrees(loop_counter)] = Nil
       THEN Panic /\ UNCHANGED Parameters
       ELSE \/ PutBack({}) /\ Leaves({"NEEDS_MORE_INPUT", "FORMAT"})
            \/ /\ PutBack(Moves)
               /\ \/ loop_counter < 2 /\ GoesOn({"TREE_GROUP"}, loop_counter + 1)
                  \/ loop_counter = 2 /\ GoesOn({"COMMAND"}, 0)

(* The trees of one group; with no place for their offsets, the slice that *)
(* is taken of it is out of range.                                         *)
HuffmanTreeGroupDecode ==
    /\ Inside({"TREE_GROUP"})
    /\ IF taken[Htrees(loop_counter)] = Nil
       THEN Panic /\ UNCHANGED Parameters
       ELSE /\ PutBack(Moves)
            /\ \/ Leaves({"NEEDS_MORE_INPUT", "FORMAT"})
               \/ loop_counter < 2 /\ GoesOn({"TREE_GROUP"}, loop_counter + 1)
               \/ loop_counter = 2 /\ GoesOn({"COMMAND"}, 0)

(* ProcessCommands, and again as SafeProcessCommands.  A distance beyond   *)
(* every dictionary word returns from the middle of the loop.              *)
ProcessCommands ==
    /\ Inside({"COMMAND"})
    /\ \/ /\ PutBack(Moves)
          /\ \/ Leaves({"NEEDS_MORE_INPUT", "FORMAT"})
             \/ GoesOn({"COMMAND", "WRITE", "METABLOCK_DONE"}, 0)
       \/ PutBack({}) /\ Leaves({"FORMAT_DISTANCE"})

-----------------------------------------------------------------------------
Next ==
    \/ Construct \/ BrotliDecoderCreateInstance \/ BrotliDecoderDestroyInstance
    \/ BrotliDecoderSetParameter \/ BrotliDecoderMalloc \/ BrotliDecoderFree
    \/ BrotliDecompressStream \/ InvalidArguments
    \/ PlainArm \/ Uninited \/ Initialize
    \/ BrotliStateMetablockBegin \/ MetablockHeader \/ MetablockDone
    \/ CountBlockTypes \/ FirstBlockLength \/ AllocateContextModes \/ InitGroups
    \/ EnterFunction \/ ReadBlockTrees
    \/ BeginContextMap \/ TakeMapTable \/ ReadMapTable \/ DecodeContextMap
    \/ HuffmanTreeGroupDecode \/ ProcessCommands

Spec == Init /\ [][Next]_vars

-----------------------------------------------------------------------------
(* Every block has one owner, and no owner holds a block that went back to *)
(* the allocator: a block freed in one place and kept in another would be  *)
(* given back twice when the state is dropped, or read after.  The code    *)
(* moves blocks with mem::replace everywhere for this reason.              *)
OneOwner ==
    /\ Owned \subseteq heap
    /\ \A s \in Slots : slot[s] # Nil => slot[s] \notin Range(taken)
    /\ \A s, t \in Slots : s # t /\ slot[s] # Nil => slot[s] # slot[t]

(* No block is lost, neither by a call that ends early and is taken up     *)
(* later, nor by a refused allocation, nor when the decoder is destroyed   *)
(* (which leaves the caller's own block alone): the functions that move    *)
(* blocks put them back on every exit.  Two exits do not: the refusal of a *)
(* distance in the middle of the command loop (decode.rs:2595), and a      *)
(* panic of a decoder whose allocator gave it a group or a map but not     *)
(* the small block that goes with it.                                      *)
NothingIsLost ==
    [][\/ Lost' \subseteq Lost
       \/ error_code' = "FORMAT_DISTANCE"
       \/ given = "rust" /\ working # "no" /\ inst' = "gone"]_vars

(* Between two meta-blocks, over metadata and uncompressed data and when   *)
(* the stream has ended, a decoder holds no memory of a meta-block; and    *)
(* from the first meta-block with data on, a dictionary is held once, in   *)
(* the ring.                                                               *)
HeldOnlyWhileNeeded ==
    inst = "live" =>
        /\ state \in {"METABLOCK_HEADER", "METADATA", "UNCOMPRESSED", "DONE"} =>
             \A s \in MetablockSlots : slot[s] = Nil
        /\ slot["ringbuffer"] # Nil => slot["custom_dict"] = Nil

(* A decoder that failed stays failed, and asks its allocator for nothing  *)
(* more: what it still holds only goes back.                               *)
FailureIsFinal ==
    [][Fatal /\ inst = "live" =>
         /\ Fatal'
         /\ \A b \in heap' \ heap : b[1] = "user"]_vars
=============================================================================
