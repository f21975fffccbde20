------------------------ MODULE DecoderMemory_proofs ------------------------
(***************************************************************************)
(* DecoderMemory's blocks, for any set of copies with two members and any  *)
(* of the interfaces: every block has one owner, none is lost but in the   *)
(* two ways the module names, a meta-block's memory is held only from its  *)
(* first allocation to its end, and a decoder that failed asks for no more.*)
(***************************************************************************)
EXTENDS DecoderMemory, TLAPS

-----------------------------------------------------------------------------
(* The inductive invariant                                                 *)

\* Who has what: a field or a local holds a block that was given out for it,
\* or the empty one, and not both do; of the caller's own blocks there is one.
Owners ==
    /\ heap \subseteq Slots \X Copies
    /\ slot \in [Slots -> heap \union {Nil}]
    /\ taken \in [Slots -> heap \union {Nil}]
    /\ \A s \in Slots :
         /\ slot[s] # Nil => slot[s][1] = s
         /\ taken[s] # Nil => taken[s][1] = s /\ slot[s] = Nil
    /\ \A b \in heap : b[1] = "user" => b = slot["user"]

\* What is lost is lost when a call fails or the decoder goes.
NoLoss == ~Fatal /\ inst # "gone" => Lost = {}

\* Where a call may be.
Calls ==
    /\ given \in Interfaces
    /\ inst \in {"none", "built", "live", "gone", "stopped"}
    /\ in_call \in BOOLEAN
    /\ in_call => inst = "live" /\ ~Fatal
    /\ working # "no" => in_call \/ inst = "stopped"
    /\ working = "table" => in_call
    /\ inst \in {"none", "built"} => state = "UNINITED" /\ error_code = "SUCCESS"
    /\ inst = "built" => given \in {"c", "std"}

MapStates == {"CONTEXT_MAP_1", "CONTEXT_MAP_2"}

\* What the functions have in their locals.
Locals ==
    /\ working \in {"no", "inside", "table"}
    /\ working = "no" => \A s \in Slots : taken[s] = Nil
    /\ working # "no" =>
         /\ Moves # {}
         /\ \A s \in Moves : slot[s] = Nil
         /\ \A s \in Slots :
              taken[s] # Nil =>
                s \in Moves \/ (working = "table" /\ s = "context_map_table")
    /\ working = "table" =>
         /\ state \in MapStates /\ substate_context_map = "HUFFMAN"
         /\ slot["context_map_table"] = Nil
    /\ state = "TREE_GROUP" => loop_counter \in 0..2
    /\ substate_context_map # "NONE" => state \in MapStates

Held(s) == slot[s] # Nil \/ taken[s] # Nil

StartStates == {"UNINITED", "LARGE_WINDOW_BITS", "INITIALIZE"}

\* From the end of a meta-block to the first memory of the next.
EmptyStates ==
    {"METABLOCK_HEADER", "METADATA", "UNCOMPRESSED", "DONE", "HUFFMAN_CODE_0",
     "HUFFMAN_CODE_1", "HUFFMAN_CODE_2", "HUFFMAN_CODE_3", "METABLOCK_HEADER_2"}

\* What is not there yet, or no longer.
NotHeld ==
    /\ inst = "none" => \A s \in Slots : ~Held(s)
    /\ inst = "built" \/ given \notin {"c", "std"} => ~Held("instance") /\ ~Held("user")
    /\ ~Fatal /\ state \in StartStates => ~Held("block_type_trees") /\ ~Held("block_len_trees")
    /\ state \in EmptyStates => \A s \in MetablockSlots : ~Held(s)
    /\ state = "CONTEXT_MODES" => ~Held("context_map") /\ ~Held("dist_context_map")
    /\ state = "CONTEXT_MAP_1" =>
         /\ ~Held("dist_context_map")
         /\ substate_context_map = "NONE" => ~Held("context_map")
    /\ state = "CONTEXT_MAP_2" /\ substate_context_map = "NONE" => ~Held("dist_context_map")
    /\ Held("ringbuffer") => ~Held("custom_dict")

\* What an allocator has given that does not refuse.
MustHold ==
    given # "rust" /\ inst \in {"built", "live"} =>
      /\ Held("context_map_table")
      /\ state = "TREE_GROUP" => \A g \in 0..2 : Held(Htrees(g))

Inv == Owners /\ NoLoss /\ Calls /\ Locals /\ NotHeld /\ MustHold

-----------------------------------------------------------------------------
(* The slots                                                               *)

\* The slots of the three groups.
LEMMA GroupSlots ==
  /\ AllCodes = {"literal_codes", "insert_copy_codes", "distance_codes"}
  /\ AllGroups = {"literal_codes", "insert_copy_codes", "distance_codes",
                  "literal_htrees", "insert_copy_htrees", "distance_htrees"}
  /\ \A g \in 0..2 : Codes(g) \in AllGroups /\ Htrees(g) \in AllGroups
<1>1. /\ Codes(0) = "literal_codes" /\ Codes(1) = "insert_copy_codes"
      /\ Codes(2) = "distance_codes"
  BY DEF Codes
<1>2. /\ Htrees(0) = "literal_htrees" /\ Htrees(1) = "insert_copy_htrees"
      /\ Htrees(2) = "distance_htrees"
  BY DEF Htrees
<1>3. \A g : g \in 0..2 <=> g = 0 \/ g = 1 \/ g = 2
  OBVIOUS
<1>4. /\ AllCodes = {Codes(0), Codes(1), Codes(2)}
      /\ {Htrees(g) : g \in 0..2} = {Htrees(0), Htrees(1), Htrees(2)}
  BY <1>3, Zenon DEF AllCodes
<1> QED
  BY <1>1, <1>2, <1>3, <1>4 DEF AllGroups

\* What each state's function moves.
LEMMA MovedSlots ==
  ASSUME Locals
  PROVE  /\ Moves \subseteq AllGroups
              \union {"block_type_trees", "block_len_trees", "context_map", "dist_context_map"}
         /\ state = "HUFFMAN_CODE_1" => Moves = {"block_type_trees"}
         /\ state = "HUFFMAN_CODE_2" => Moves = {"block_len_trees"}
         /\ state = "CONTEXT_MAP_1" => Moves = {"context_map"}
         /\ state = "CONTEXT_MAP_2" => Moves = {"dist_context_map"}
         /\ state = "TREE_GROUP" => Moves = {Codes(loop_counter), Htrees(loop_counter)}
         /\ state = "COMMAND" => Moves = AllGroups
         /\ Moves # {} =>
              state \in {"HUFFMAN_CODE_1", "HUFFMAN_CODE_2", "CONTEXT_MAP_1", "CONTEXT_MAP_2",
                         "TREE_GROUP", "COMMAND"}
<1>1. state = "TREE_GROUP" =>
        Codes(loop_counter) \in AllGroups /\ Htrees(loop_counter) \in AllGroups
  BY GroupSlots DEF Locals
<1> QED
  BY <1>1, GroupSlots DEF Moves, MapOf

-----------------------------------------------------------------------------
(* The allocator                                                           *)

\* A block that is not out can be had.
LEMMA FreshFacts ==
  ASSUME Owners, NEW s \in Slots,
         \A b \in heap : b[1] = s => b = slot[s] \/ b = taken[s]
  PROVE  /\ Fresh(s) \in Slots \X Copies /\ Fresh(s) \notin heap
         /\ Fresh(s)[1] = s /\ Fresh(s) # Nil
<1>1. PICK a \in Copies, b \in Copies : a # b
  BY MemoryConstants
<1>2. slot[s] = Nil \/ taken[s] = Nil
  BY DEF Owners
<1>3. \A c \in Copies : Nil # <<s, c>> /\ <<s, c>>[1] = s
  BY MemoryConstants
<1>4. <<s, a>> \notin heap \/ <<s, b>> \notin heap
  BY <1>1, <1>2, <1>3
<1>5. \E x \in {<<s, copy>> : copy \in Copies} : x \notin heap
  BY <1>1, <1>4
<1>6. Fresh(s) \in {<<s, copy>> : copy \in Copies} /\ Fresh(s) \notin heap
  BY <1>5 DEF Fresh
<1> QED
  BY <1>3, <1>6

\* While nothing is lost, that goes for every slot.
LEMMA FreshWhileNoLoss ==
  ASSUME Owners, Lost = {}, NEW s \in Slots
  PROVE  /\ Fresh(s) \in Slots \X Copies /\ Fresh(s) \notin heap
         /\ Fresh(s)[1] = s /\ Fresh(s) # Nil
<1>1. ASSUME NEW b \in heap, b[1] = s PROVE b = slot[s] \/ b = taken[s]
  <2>1. b \in Range(slot) \/ b \in Range(taken)
    BY DEF Lost, Owned
  <2>2. \/ \E t \in Slots : b = slot[t]
        \/ \E t \in Slots : b = taken[t]
    BY <2>1 DEF Range, Owners
  <2>3. b # Nil
    BY MemoryConstants DEF Owners
  <2> QED
    BY <2>2, <2>3, <1>1 DEF Owners
<1> QED
  BY <1>1, FreshFacts

\* Nil is no block, and who owns one is a slot.
LEMMA OwnedFacts ==
  ASSUME Owners
  PROVE  /\ Nil \notin heap
         /\ \A b : b \in Owned <=>
              b # Nil /\ \E s \in Slots : b = slot[s] \/ b = taken[s]
         /\ \A s \in Slots : /\ slot[s] \in heap \union {Nil}
                             /\ taken[s] \in heap \union {Nil}
<1>1. Nil \notin heap
  BY MemoryConstants DEF Owners
<1> QED
  BY <1>1 DEF Owners, Owned, Range

\* Giving F back and asking for N: each block has its place, and nothing is
\* lost.
LEMMA ChangeOwners ==
  ASSUME Owners, NEW F, NEW N, F \subseteq Slots, N \subseteq Slots,
         \A s \in F : taken[s] = Nil,
         \A s \in N :
           /\ Fresh(s) \in Slots \X Copies /\ Fresh(s) \notin heap
           /\ Fresh(s)[1] = s /\ Fresh(s) # Nil
           /\ taken[s] = Nil /\ (s \in F \/ slot[s] = Nil),
         Change(F, N), UNCHANGED taken
  PROVE  /\ Owners' /\ Lost' \subseteq Lost
         /\ \A s \in Slots :
              /\ s \in N => slot'[s] # Nil
              /\ s \in F \ N => slot'[s] = Nil
              /\ s \notin F \union N => slot'[s] = slot[s]
<1>1. /\ heap' = (heap \ {slot[s] : s \in F}) \union {Fresh(s) : s \in N}
      /\ slot' = [s \in Slots |-> IF s \in N THEN Fresh(s)
                                  ELSE IF s \in F THEN Nil ELSE slot[s]]
      /\ taken' = taken
  BY DEF Change
<1>2. \A s \in Slots : slot'[s] = IF s \in N THEN Fresh(s)
                                  ELSE IF s \in F THEN Nil ELSE slot[s]
  BY <1>1
<1>3. \A b : b \in heap' <=> \/ b \in heap /\ \A s \in F : b # slot[s]
                            \/ \E s \in N : b = Fresh(s)
  BY <1>1
<1> HIDE DEF Fresh
<1>4. \A s \in Slots, t \in Slots :
        /\ slot[s] # Nil /\ slot[s] = slot[t] => s = t
        /\ slot[s] # Nil => slot[s] # taken[t]
  BY DEF Owners
<1>5. heap' \subseteq Slots \X Copies
  BY <1>3 DEF Owners
<1>6. \A s \in Slots : slot'[s] \in heap' \union {Nil}
  BY <1>2, <1>3, <1>4, OwnedFacts
<1>7. \A s \in Slots : taken'[s] \in heap' \union {Nil}
  <2> TAKE s \in Slots
  <2>1. CASE taken[s] = Nil
    BY <1>1, <2>1
  <2>2. CASE taken[s] # Nil
    <3>1. taken[s] \in heap
      BY <2>2, OwnedFacts
    <3>2. \A t \in F : taken[s] # slot[t]
      BY <1>4, <2>2
    <3> QED
      BY <1>1, <1>3, <3>1, <3>2
  <2> QED
    BY <2>1, <2>2
<1>8. /\ slot' \in [Slots -> heap' \union {Nil}]
      /\ taken' \in [Slots -> heap' \union {Nil}]
  <2>1. taken' = [s \in Slots |-> taken'[s]]
    BY <1>1 DEF Owners
  <2> QED
    BY <1>1, <1>6, <1>7, <2>1
<1>9. \A s \in Slots :
        /\ slot'[s] # Nil => slot'[s][1] = s
        /\ taken'[s] # Nil => taken'[s][1] = s /\ slot'[s] = Nil
  BY <1>1, <1>2 DEF Owners
<1>10. \A b \in heap' : b[1] = "user" => b = slot'["user"]
  <2> SUFFICES ASSUME NEW b \in heap', b[1] = "user" PROVE b = slot'["user"]
    OBVIOUS
  <2>1. "user" \in Slots
    BY DEF Slots
  <2>2. CASE b \in heap /\ \A s \in F : b # slot[s]
    <3>1. b = slot["user"] /\ b # Nil
      BY <2>2, OwnedFacts DEF Owners
    <3>2. "user" \notin F
      BY <2>2, <3>1
    <3> QED
      BY <1>2, <2>1, <3>1, <3>2
  <2>3. CASE \E s \in N : b = Fresh(s)
    BY <1>2, <2>1, <2>3
  <2> QED
    BY <1>3, <2>2, <2>3
<1>11. Owners'
  BY <1>5, <1>8, <1>9, <1>10 DEF Owners
<1>12. Lost' \subseteq Lost
  <2> SUFFICES ASSUME NEW b \in heap', b \notin Owned' PROVE b \in heap /\ b \notin Owned
    BY DEF Lost
  <2>1. \A s \in Slots : b # slot'[s] /\ b # taken'[s]
    <3>1. b # Nil
      BY <1>11, OwnedFacts, MemoryConstants DEF Owners
    <3> QED
      BY <1>11, <3>1 DEF Owners, Owned, Range
  <2>2. \A s \in N : b # Fresh(s)
    BY <1>2, <2>1
  <2>3. b \in heap /\ \A s \in F : b # slot[s]
    BY <1>3, <2>2
  <2>4. \A s \in Slots : b # slot[s]
    BY <1>2, <2>1, <2>3
  <2>5. \A s \in Slots : b # taken[s]
    BY <1>1, <2>1
  <2> QED
    BY <2>3, <2>4, <2>5, OwnedFacts
<1> QED
  BY <1>2, <1>11, <1>12

\* Moving blocks of F into the locals, whose places are empty.
LEMMA TakeOwners ==
  ASSUME Owners, NEW F, F \subseteq Slots \ {"user"}, \A s \in F : taken[s] = Nil, Take(F)
  PROVE  /\ Owners' /\ Owned' = Owned /\ heap' = heap
         /\ \A s \in Slots :
              /\ s \in F => taken'[s] = slot[s] /\ slot'[s] = Nil
              /\ s \notin F => taken'[s] = taken[s] /\ slot'[s] = slot[s]
<1>1. /\ heap' = heap
      /\ taken' = [s \in Slots |-> IF s \in F THEN slot[s] ELSE taken[s]]
      /\ slot' = [s \in Slots |-> IF s \in F THEN Nil ELSE slot[s]]
  BY DEF Take
<1>2. \A s \in Slots :
        /\ s \in F => taken'[s] = slot[s] /\ slot'[s] = Nil
        /\ s \notin F => taken'[s] = taken[s] /\ slot'[s] = slot[s]
  BY <1>1
<1>3. Owners'
  <2>1. /\ slot' \in [Slots -> heap' \union {Nil}]
        /\ taken' \in [Slots -> heap' \union {Nil}]
    BY <1>1, OwnedFacts
  <2>2. \A s \in Slots :
          /\ slot'[s] # Nil => slot'[s][1] = s
          /\ taken'[s] # Nil => taken'[s][1] = s /\ slot'[s] = Nil
    BY <1>2 DEF Owners
  <2>3. "user" \in Slots /\ "user" \notin F
    BY DEF Slots
  <2>4. slot'["user"] = slot["user"]
    BY <1>2, <2>3
  <2> QED
    BY <1>1, <2>1, <2>2, <2>4 DEF Owners
<1>4. \A b : b \in Owned' <=> b \in Owned
  <2> TAKE b
  <2>1. b \in Owned' <=> b # Nil /\ \E s \in Slots : b = slot'[s] \/ b = taken'[s]
    BY <1>3 DEF Owners, Owned, Range
  <2>2. ASSUME NEW s \in Slots, b # Nil
        PROVE  b = slot'[s] \/ b = taken'[s] <=> b = slot[s] \/ b = taken[s]
    BY <1>2, <2>2
  <2> QED
    BY <2>1, <2>2, OwnedFacts
<1> QED
  BY <1>1, <1>2, <1>3, <1>4

\* Putting them back into the places F, which are empty.  What is in the locals
\* beside F is dropped, but for a function that still runs.
LEMMA PutBackOwners ==
  ASSUME Owners, NEW F, F \subseteq Slots \ {"user"}, \A s \in F : slot[s] = Nil, PutBack(F)
  PROVE  /\ Owners' /\ heap' = heap
         /\ \A s \in Slots :
              /\ s \in F => slot'[s] = taken[s] /\ taken'[s] = Nil
              /\ s \notin F => slot'[s] = slot[s]
              /\ s \notin F => taken'[s] = IF working = "table" THEN taken[s] ELSE Nil
         /\ (\A s \in Slots \ F : working = "table" \/ taken[s] = Nil) => Owned' = Owned
<1>1. /\ heap' = heap
      /\ slot' = [s \in Slots |-> IF s \in F THEN taken[s] ELSE slot[s]]
      /\ taken' = [s \in Slots |-> IF working = "table" /\ s \notin F THEN taken[s] ELSE Nil]
  BY DEF PutBack
<1>2. \A s \in Slots :
        /\ s \in F => slot'[s] = taken[s] /\ taken'[s] = Nil
        /\ s \notin F => slot'[s] = slot[s]
        /\ s \notin F => taken'[s] = IF working = "table" THEN taken[s] ELSE Nil
  BY <1>1
<1>3. Owners'
  <2>1. /\ slot' \in [Slots -> heap' \union {Nil}]
        /\ taken' \in [Slots -> heap' \union {Nil}]
    BY <1>1, OwnedFacts
  <2>2. \A s \in Slots :
          /\ slot'[s] # Nil => slot'[s][1] = s
          /\ taken'[s] # Nil => taken'[s][1] = s /\ slot'[s] = Nil
    BY <1>2 DEF Owners
  <2>3. "user" \in Slots /\ "user" \notin F
    BY DEF Slots
  <2>4. slot'["user"] = slot["user"]
    BY <1>2, <2>3
  <2> QED
    BY <1>1, <2>1, <2>2, <2>4 DEF Owners
<1>4. ASSUME \A s \in Slots \ F : working = "table" \/ taken[s] = Nil, NEW b
      PROVE  b \in Owned' <=> b \in Owned
  <2>1. b \in Owned' <=> b # Nil /\ \E s \in Slots : b = slot'[s] \/ b = taken'[s]
    BY <1>3 DEF Owners, Owned, Range
  <2>2. ASSUME NEW s \in Slots, b # Nil
        PROVE  b = slot'[s] \/ b = taken'[s] <=> b = slot[s] \/ b = taken[s]
    BY <1>2, <1>4, <2>2
  <2> QED
    BY <2>1, <2>2, OwnedFacts
<1> QED
  BY <1>1, <1>2, <1>3, <1>4

\* The end of a decoder: what its fields hold, but for the caller's own block,
\* goes back.
LEMMA DropOwners ==
  ASSUME Owners, NEW F, F \subseteq Slots \ {"user"},
         \A s \in Slots \ F : s = "user" \/ slot[s] = Nil, DropState(F)
  PROVE  /\ Owners' /\ heap' \subseteq heap
         /\ \A s \in Slots : taken'[s] = Nil /\ (s # "user" => slot'[s] = Nil)
         /\ slot'["user"] = slot["user"]
         /\ (\A s \in Slots : taken[s] = Nil) => Lost' \subseteq Lost
<1>1. /\ heap' = heap \ {slot[s] : s \in F}
      /\ slot' = [NoBlocks EXCEPT !["user"] = slot["user"]]
      /\ taken' = NoBlocks
  BY DEF DropState
<1>2. "user" \in Slots
  BY DEF Slots
<1>3. /\ slot' = [s \in Slots |-> IF s = "user" THEN slot["user"] ELSE Nil]
      /\ taken' = [s \in Slots |-> Nil]
  BY <1>1, <1>2 DEF NoBlocks
<1>4. /\ \A s \in Slots : taken'[s] = Nil /\ (s # "user" => slot'[s] = Nil)
      /\ slot'["user"] = slot["user"]
  BY <1>2, <1>3
<1>5. slot["user"] # Nil => slot["user"] \in heap'
  BY <1>1, <1>2 DEF Owners
<1>6. Owners'
  <2>1. /\ slot' \in [Slots -> heap' \union {Nil}]
        /\ taken' \in [Slots -> heap' \union {Nil}]
    BY <1>3, <1>5
  <2>2. heap' \subseteq heap
    BY <1>1
  <2> QED
    BY <1>2, <1>4, <2>1, <2>2 DEF Owners
<1>7. ASSUME \A s \in Slots : taken[s] = Nil, NEW b \in heap', b \notin Owned'
      PROVE  b \in heap /\ b \notin Owned
  <2>1. \A s \in Slots : b # slot'[s]
    BY <1>6, <1>7, OwnedFacts, MemoryConstants DEF Owners, Owned, Range
  <2>2. \A s \in F : b # slot[s]
    BY <1>1, <1>7
  <2>3. b # Nil /\ b \in heap
    BY <1>1, <1>7, OwnedFacts
  <2>4. \A s \in Slots : b # slot[s]
    BY <1>2, <1>4, <2>1, <2>2, <2>3
  <2> QED
    BY <1>7, <2>3, <2>4, OwnedFacts
<1> QED
  BY <1>1, <1>4, <1>6, <1>7 DEF Lost

\* Steps that leave the memory alone.
LEMMA SameOwners ==
  ASSUME Owners, UNCHANGED blocks
  PROVE  /\ Owners' /\ Lost' = Lost
         /\ \A s \in Slots : slot'[s] = slot[s] /\ taken'[s] = taken[s]
BY DEF Owners, Lost, Owned, blocks
-----------------------------------------------------------------------------
(* What the steps have in common                                           *)

\* Which slot is of which kind.
LEMMA SlotKinds ==
  /\ MetablockSlots \subseteq Slots /\ StreamSlots \subseteq Slots
  /\ "instance" \in Slots /\ "user" \in Slots
  /\ AllGroups \subseteq MetablockSlots
  /\ "context_map" \in MetablockSlots /\ "dist_context_map" \in MetablockSlots
  /\ "context_modes" \in MetablockSlots
  /\ "ringbuffer" \in StreamSlots /\ "custom_dict" \in StreamSlots
  /\ "block_type_trees" \in StreamSlots /\ "block_len_trees" \in StreamSlots
  /\ "context_map_table" \in StreamSlots
  /\ \A s \in MetablockSlots : s \notin StreamSlots /\ s # "user" /\ s # "instance"
  /\ \A s \in StreamSlots : s # "user" /\ s # "instance"
  /\ \A s \in Slots : s \in MetablockSlots \/ s \in StreamSlots \/ s = "instance" \/ s = "user"
BY GroupSlots DEF Slots, MetablockSlots, StreamSlots

\* In a call nothing has failed and nothing is lost.
LEMMA InACall ==
  ASSUME Inv, in_call
  PROVE  inst = "live" /\ ~Fatal /\ Lost = {}
BY DEF Inv, Calls, NoLoss

\* A step of a call after which no function has blocks in its locals.
LEMMA ArmFrame ==
  ASSUME Inv, in_call, UNCHANGED <<given, inst>>, working' = "no",
         Lost' \subseteq Lost \/ Fatal',
         \A s \in Slots : taken'[s] = Nil,
         (in_call' = TRUE /\ error_code' = error_code) \/ in_call' = FALSE,
         state' = "TREE_GROUP" => loop_counter' \in 0..2,
         substate_context_map' # "NONE" => state' \in MapStates
  PROVE  NoLoss' /\ Calls' /\ Locals'
<1>1. inst = "live" /\ ~Fatal /\ Lost = {}
  BY InACall
<1>2. NoLoss'
  BY <1>1 DEF NoLoss
<1>3. Calls'
  BY <1>1 DEF Inv, Calls, Fatal
<1>4. Locals'
  BY DEF Locals
<1> QED
  BY <1>2, <1>3, <1>4

\* A step that leaves the state where it is and holds no more than before.
LEMMA NotHeldStays ==
  ASSUME NotHeld, UNCHANGED <<given, inst, state, substate_context_map>>,
         ~Fatal' => ~Fatal, \A s \in Slots : Held(s)' => Held(s)
  PROVE  NotHeld'
BY SlotKinds DEF NotHeld

\* A step that leaves the state where it is and holds no less.
LEMMA MustHoldStays ==
  ASSUME MustHold, UNCHANGED <<given, inst, state>>, \A s \in Slots : Held(s) => Held(s)'
  PROVE  MustHold'
<1>1. "context_map_table" \in Slots /\ \A g \in 0..2 : Htrees(g) \in Slots
  BY SlotKinds, GroupSlots
<1>2. ASSUME NEW g \in 0..2 PROVE Htrees(g)' = Htrees(g)
  OBVIOUS
<1> QED
  BY <1>1, <1>2 DEF MustHold

\* A step that only says where the call is.
LEMMA QuietStep ==
  ASSUME Inv, UNCHANGED <<given, inst, control, blocks>>, inst = "live", working = "no",
         in_call' \in BOOLEAN, in_call' => ~Fatal', ~Fatal' => ~Fatal
  PROVE  Inv' /\ Lost' = Lost
<1>1. Owners' /\ Lost' = Lost /\ \A s \in Slots : slot'[s] = slot[s] /\ taken'[s] = taken[s]
  BY SameOwners DEF Inv
<1>2. \A s \in Slots : Held(s)' <=> Held(s)
  BY <1>1 DEF Held
<1>3. NoLoss'
  BY <1>1 DEF Inv, NoLoss
<1>4. Calls'
  BY DEF Inv, Calls, control
<1>5. Locals'
  BY <1>1 DEF Inv, Locals, control
<1>6. NotHeld' /\ MustHold'
  BY <1>2, NotHeldStays, MustHoldStays DEF Inv, control
<1> QED
  BY <1>1, <1>3, <1>4, <1>5, <1>6 DEF Inv

\* No function works between two calls.
LEMMA IdleFacts ==
  ASSUME Inv, Idle
  PROVE  working = "no" /\ \A s \in Slots : taken[s] = Nil
BY DEF Inv, Calls, Locals, Idle

\* The parameter is none of the memory's business.
LEMMA SetParameterInv ==
  ASSUME Inv, BrotliDecoderSetParameter
  PROVE  Inv' /\ Lost' \subseteq Lost
<1>1. /\ inst = "live" /\ working = "no" /\ in_call = FALSE
      /\ UNCHANGED <<given, inst, in_call, control, error_code, blocks>>
  BY IdleFacts DEF BrotliDecoderSetParameter, Idle, Inv, Calls
<1>2. Fatal' <=> Fatal
  BY <1>1 DEF Fatal
<1> QED
  BY <1>1, <1>2, QuietStep

\* A call begins only where nothing has failed.
LEMMA StreamInv ==
  ASSUME Inv, BrotliDecompressStream
  PROVE  Inv' /\ Lost' \subseteq Lost
<1>1. /\ inst = "live" /\ working = "no" /\ ~Fatal /\ in_call'
      /\ UNCHANGED <<given, inst, control, error_code, blocks>>
  BY IdleFacts DEF BrotliDecompressStream, MayCall, Idle
<1>2. Fatal' <=> Fatal
  BY <1>1 DEF Fatal
<1> QED
  BY <1>1, <1>2, QuietStep DEF BrotliDecompressStream

\* Arguments that are refused are a failure.
LEMMA InvalidArgumentsInv ==
  ASSUME Inv, InvalidArguments
  PROVE  Inv' /\ Lost' \subseteq Lost
<1>1. /\ inst = "live" /\ working = "no" /\ in_call = FALSE
      /\ UNCHANGED <<given, inst, in_call, control, blocks>>
      /\ error_code' = "INVALID_ARGUMENTS"
  BY IdleFacts DEF InvalidArguments, Idle, Inv, Calls
<1>2. Fatal'
  BY <1>1 DEF Fatal
<1> QED
  BY <1>1, <1>2, QuietStep

\* The caller's own block is a new one: there is no other.
LEMMA MallocInv ==
  ASSUME Inv, BrotliDecoderMalloc
  PROVE  Inv' /\ Lost' \subseteq Lost
<1>1. /\ Idle /\ given \in {"c", "std"} /\ slot["user"] = Nil
      /\ Change({}, {"user"}) /\ working = "no" /\ \A s \in Slots : taken[s] = Nil
      /\ UNCHANGED <<given, inst, in_call, control, error_code, taken>>
  BY IdleFacts DEF BrotliDecoderMalloc
<1>2. /\ Fresh("user") \in Slots \X Copies /\ Fresh("user") \notin heap
      /\ Fresh("user")[1] = "user" /\ Fresh("user") # Nil
  BY <1>1, FreshFacts, SlotKinds DEF Inv, Owners
<1>3. /\ Owners' /\ Lost' \subseteq Lost
      /\ \A s \in Slots \ {"user"} : slot'[s] = slot[s]
  BY <1>1, <1>2, ChangeOwners, SlotKinds DEF Inv
<1>4. \A s \in Slots \ {"user"} : Held(s)' <=> Held(s)
  BY <1>1, <1>3 DEF Held
<1>5. (Fatal' <=> Fatal) /\ NoLoss'
  BY <1>1, <1>3 DEF Fatal, Inv, NoLoss
<1>6. Calls'
  BY <1>1, <1>5 DEF Inv, Calls, control
<1>7. Locals'
  BY <1>1 DEF Inv, Locals, control
<1>8. NotHeld'
  BY <1>1, <1>4, <1>5, SlotKinds DEF Inv, NotHeld, Idle, control
<1>9. MustHold'
  <2>1. \A g \in 0..2 : Htrees(g) \in Slots \ {"user"} /\ Htrees(g)' = Htrees(g)
    BY SlotKinds, GroupSlots
  <2> QED
    BY <1>1, <1>4, <2>1, SlotKinds DEF Inv, MustHold, control
<1> QED
  BY <1>3, <1>5, <1>6, <1>7, <1>8, <1>9 DEF Inv

\* And it goes back without a trace.
LEMMA FreeInv ==
  ASSUME Inv, BrotliDecoderFree
  PROVE  Inv' /\ Lost' \subseteq Lost
<1>1. /\ Idle /\ Change({"user"}, {}) /\ working = "no" /\ \A s \in Slots : taken[s] = Nil
      /\ UNCHANGED <<given, inst, in_call, control, error_code, taken>>
  BY IdleFacts DEF BrotliDecoderFree
<1>2. /\ Owners' /\ Lost' \subseteq Lost
      /\ \A s \in Slots \ {"user"} : slot'[s] = slot[s]
      /\ slot'["user"] = Nil
  BY <1>1, ChangeOwners, SlotKinds DEF Inv
<1>3. /\ \A s \in Slots : Held(s)' => Held(s)
      /\ \A s \in Slots \ {"user"} : Held(s)' <=> Held(s)
  BY <1>1, <1>2 DEF Held
<1>4. (Fatal' <=> Fatal) /\ NoLoss'
  BY <1>1, <1>2 DEF Fatal, Inv, NoLoss
<1>5. Calls'
  BY <1>1, <1>4 DEF Inv, Calls, control
<1>6. Locals'
  BY <1>1 DEF Inv, Locals, control
<1>7. NotHeld'
  BY <1>1, <1>3, <1>4, NotHeldStays DEF Inv, control
<1>8. MustHold'
  <2>1. \A g \in 0..2 : Htrees(g) \in Slots \ {"user"} /\ Htrees(g)' = Htrees(g)
    BY SlotKinds, GroupSlots
  <2> QED
    BY <1>1, <1>3, <2>1, SlotKinds DEF Inv, MustHold, control
<1> QED
  BY <1>2, <1>4, <1>5, <1>6, <1>7, <1>8 DEF Inv

-----------------------------------------------------------------------------
(* The end of a decoder, and its beginning                                 *)

\* A state that is dropped with all it must give back.
LEMMA DropStateInv ==
  ASSUME Inv, UNCHANGED given, NEW F, DropState(F),
         \/ F = BrotliStateCleanup \union {"instance"}
         \/ F = BrotliStateCleanup /\ ~Held("instance")
  PROVE  /\ Inv'
         /\ (\A s \in Slots : taken[s] = Nil) => Lost' \subseteq Lost
<1>1. /\ F \subseteq Slots \ {"user"}
      /\ \A s \in Slots \ F : s = "user" \/ slot[s] = Nil
  BY SlotKinds DEF BrotliStateCleanup, BrotliStateCleanupAfterMetablock, Held
<1>2. /\ Owners'
      /\ \A s \in Slots : taken'[s] = Nil /\ (s # "user" => slot'[s] = Nil)
      /\ slot'["user"] = slot["user"]
      /\ (\A s \in Slots : taken[s] = Nil) => Lost' \subseteq Lost
  BY <1>1, DropOwners DEF Inv
<1>3. \A s \in Slots : s # "user" => ~Held(s)'
  BY <1>2 DEF Held
<1>4. Held("user")' => Held("user")
  BY <1>2, SlotKinds DEF Held
<1>5. /\ inst' = "gone" /\ in_call' = FALSE /\ state' = "UNINITED"
      /\ substate_context_map' = "NONE" /\ working' = "no"
  BY DEF DropState
<1>6. NoLoss' /\ Calls' /\ MustHold'
  BY <1>5 DEF NoLoss, Calls, MustHold, Inv
<1>7. Locals'
  BY <1>2, <1>5 DEF Locals
<1>8. NotHeld'
  BY <1>3, <1>4, <1>5, SlotKinds DEF NotHeld, Inv, EmptyStates
<1> QED
  BY <1>2, <1>6, <1>7, <1>8 DEF Inv

\* The instance's block goes back with the rest.
LEMMA DestroyInv ==
  ASSUME Inv, BrotliDecoderDestroyInstance
  PROVE  Inv' /\ Lost' \subseteq Lost
BY DropStateInv, IdleFacts DEF BrotliDecoderDestroyInstance

\* A decoder that Rust code holds has no block it lies in.
LEMMA PanicInv ==
  ASSUME Inv, UNCHANGED given, Panic, given \notin {"c", "std"}
  PROVE  /\ Inv'
         /\ (\A s \in Slots : taken[s] = Nil) => Lost' \subseteq Lost
<1>1. ~Held("instance")
  BY DEF Inv, NotHeld
<1> QED
  BY <1>1, DropStateInv DEF Panic

\* The process that ends keeps everything where it is.
LEMMA NoAnswerInv ==
  ASSUME Inv, UNCHANGED given, NoAnswer, inst # "gone", working # "table",
         \A s \in Slots : taken[s] = Nil
  PROVE  Inv' /\ Lost' \subseteq Lost
<1>1. CASE given = "prealloc" /\ Panic
  BY <1>1, PanicInv
<1>2. CASE /\ inst' = "stopped" /\ in_call' = FALSE
           /\ UNCHANGED <<control, error_code, blocks>>
  <2>1. Owners' /\ Lost' = Lost /\ \A s \in Slots : slot'[s] = slot[s] /\ taken'[s] = taken[s]
    BY <1>2, SameOwners DEF Inv
  <2>2. \A s \in Slots : Held(s)' <=> Held(s)
    BY <2>1 DEF Held
  <2>3. (Fatal' <=> Fatal) /\ NoLoss'
    BY <1>2, <2>1 DEF Fatal, Inv, NoLoss
  <2>4. UNCHANGED <<state, loop_counter, substate_context_map, working>>
    BY <1>2 DEF control
  <2>5. Moves' = Moves
    BY <2>4 DEF Moves, MapOf
  <2>6. Calls' /\ MustHold'
    BY <1>2, <2>4 DEF Inv, Calls, MustHold, Locals
  <2>7. \A s \in Moves : s \in Slots
    BY MovedSlots, SlotKinds DEF Inv
  <2>8. Locals'
    BY <2>1, <2>4, <2>5, <2>7, SlotKinds DEF Inv, Locals
  <2>9. NotHeld'
    BY <1>2, <2>2, <2>3, <2>4, SlotKinds DEF Inv, NotHeld
  <2> QED
    BY <2>1, <2>3, <2>6, <2>8, <2>9 DEF Inv
<1> QED
  BY <1>1, <1>2 DEF NoAnswer

\* A new decoder holds the table, if the allocator gave it, and a dictionary.
LEMMA ConstructInv ==
  ASSUME Inv, Construct
  PROVE  Inv' /\ Lost' \subseteq Lost
<1>1. /\ inst = "none" /\ state = "UNINITED" /\ error_code = "SUCCESS" /\ in_call = FALSE
      /\ working = "no" /\ substate_context_map = "NONE"
      /\ \A s \in Slots : slot[s] = Nil /\ taken[s] = Nil
  BY DEF Construct, Inv, Calls, Locals, NotHeld, Held, MapStates
<1>2. ~Fatal /\ Lost = {}
  BY <1>1 DEF Fatal, Inv, NoLoss
<1>3. CASE NoAnswer
  BY <1>1, <1>3, NoAnswerInv DEF Construct
<1>4. CASE /\ inst' = IF given \in {"c", "std"} THEN "built" ELSE "live"
           /\ \E got \in Answers({"context_map_table"}),
                 dict \in IF given = "rust" THEN SUBSET {"custom_dict"} ELSE {{}} :
                  Change({}, got \union dict)
           /\ UNCHANGED <<in_call, control, error_code, taken>>
  <2>1. PICK got \in Answers({"context_map_table"}),
             dict \in IF given = "rust" THEN SUBSET {"custom_dict"} ELSE {{}} :
              Change({}, got \union dict)
    BY <1>4
  <2>2. /\ got \subseteq {"context_map_table"} /\ dict \subseteq {"custom_dict"}
        /\ given # "rust" => got = {"context_map_table"} /\ dict = {}
    BY DEF Answers
  <2> DEFINE N == got \union dict
  <2>3. N \subseteq StreamSlots /\ N \subseteq Slots /\ N \subseteq {"context_map_table", "custom_dict"}
    BY <2>2, SlotKinds
  <2>4. /\ Owners' /\ Lost' \subseteq Lost
        /\ \A s \in Slots : /\ s \in N => slot'[s] # Nil
                            /\ s \notin N => slot'[s] = slot[s]
    BY <1>1, <1>2, <1>4, <2>1, <2>3, FreshWhileNoLoss, ChangeOwners DEF Inv
  <2>5. \A s \in Slots : taken'[s] = Nil /\ (Held(s)' <=> s \in N)
    BY <1>1, <1>4, <2>4 DEF Held
  <2>6. given' = given /\ NoLoss'
    BY <1>2, <2>4 DEF Construct, NoLoss
  <2>7. Calls'
    BY <1>1, <1>4, <2>6 DEF Inv, Calls, control
  <2>8. Locals'
    BY <1>1, <1>4, <2>5 DEF Locals, control
  <2>9. NotHeld'
    BY <1>1, <1>4, <2>3, <2>5, SlotKinds DEF NotHeld, control, EmptyStates
  <2>10. MustHold'
    BY <1>1, <1>4, <2>2, <2>5, <2>6, SlotKinds DEF MustHold, control
  <2> QED
    BY <2>4, <2>6, <2>7, <2>8, <2>9, <2>10 DEF Inv
<1> QED
  BY <1>3, <1>4 DEF Construct

\* It then moves into a block of its own, or goes.
LEMMA CreateInstanceInv ==
  ASSUME Inv, BrotliDecoderCreateInstance
  PROVE  Inv' /\ Lost' \subseteq Lost
<1>1. /\ inst = "built" /\ given \in {"c", "std"} /\ given' = given
      /\ state = "UNINITED" /\ error_code = "SUCCESS" /\ in_call = FALSE
      /\ working = "no" /\ substate_context_map = "NONE" /\ error_code' = error_code
      /\ \A s \in Slots : taken[s] = Nil
      /\ slot["instance"] = Nil /\ ~Held("instance")
  BY DEF BrotliDecoderCreateInstance, Inv, Calls, Locals, NotHeld, Held, MapStates
<1>2. ~Fatal /\ ~Fatal' /\ Lost = {}
  BY <1>1 DEF Fatal, Inv, NoLoss
<1>3. CASE DropState(BrotliStateCleanup)
  BY <1>1, <1>3, DropStateInv
<1>4. CASE /\ Change({}, {"instance"}) /\ inst' = "live"
           /\ UNCHANGED <<in_call, control, taken>>
  <2>1. /\ Owners' /\ Lost' \subseteq Lost
        /\ \A s \in Slots \ {"instance"} : slot'[s] = slot[s]
    BY <1>1, <1>2, <1>4, SlotKinds, FreshWhileNoLoss, ChangeOwners DEF Inv
  <2>2. \A s \in Slots \ {"instance"} : Held(s)' <=> Held(s)
    BY <1>4, <2>1 DEF Held
  <2>3. NoLoss'
    BY <1>2, <2>1 DEF NoLoss
  <2>4. Calls'
    BY <1>1, <1>2, <1>4 DEF Inv, Calls, control
  <2>5. Locals'
    BY <1>1, <1>4 DEF Locals, control
  <2>6. NotHeld'
    BY <1>1, <1>2, <1>4, <2>2, SlotKinds DEF Inv, NotHeld, control
  <2>7. MustHold'
    BY <1>1, <1>4, <2>2, SlotKinds DEF Inv, MustHold, control
  <2> QED
    BY <2>1, <2>3, <2>4, <2>5, <2>6, <2>7 DEF Inv
<1> QED
  BY <1>3, <1>4 DEF BrotliDecoderCreateInstance

-----------------------------------------------------------------------------
(* The arms that move no block                                             *)

\* An arm works in a call, with nothing in the locals.
LEMMA ArmFacts ==
  ASSUME Inv, NEW here, In(here)
  PROVE  /\ inst = "live" /\ in_call = TRUE /\ state = here /\ working = "no"
         /\ ~Fatal /\ Lost = {}
         /\ substate_context_map # "NONE" => state \in MapStates
         /\ state = "TREE_GROUP" => loop_counter \in 0..2
         /\ \A s \in Slots : taken[s] = Nil
         /\ \A s \in Slots : Held(s) <=> slot[s] # Nil
BY InACall DEF Inv, In, Calls, Locals, Held

\* An arm that leaves the call where it was.
LEMMA ReturnInv ==
  ASSUME Inv, NEW here, In(here), here # "TREE_GROUP", NEW codes, Return(codes),
         UNCHANGED <<given, taken>>, Owners', Lost' \subseteq Lost \/ Fatal',
         slot["context_map_table"] # Nil => slot'["context_map_table"] # Nil,
         (\A s \in Slots : slot'[s] # Nil => slot[s] # Nil) \/ NotHeld'
  PROVE  Inv'
<1>1. /\ UNCHANGED <<given, inst, state, loop_counter, substate_context_map, working>>
      /\ in_call' = FALSE
  BY DEF Return, control
<1>2. \A s \in Slots : taken'[s] = Nil /\ (Held(s)' <=> slot'[s] # Nil)
  BY ArmFacts DEF Held
<1>3. NoLoss' /\ Calls' /\ Locals'
  BY <1>1, <1>2, ArmFacts, ArmFrame
<1>4. MustHold'
  BY <1>1, <1>2, ArmFacts, SlotKinds DEF Inv, MustHold
<1>5. NotHeld'
  BY <1>1, <1>2, ArmFacts, NotHeldStays DEF Inv
<1> QED
  BY <1>3, <1>4, <1>5 DEF Inv

\* An arm that goes on.
LEMMA GotoInv ==
  ASSUME Inv, NEW here, In(here), NEW next, Goto(next), "TREE_GROUP" \notin next,
         next \subseteq MapStates \/ here \notin MapStates,
         UNCHANGED <<given, taken>>, Owners', Lost' \subseteq Lost,
         slot["context_map_table"] # Nil => slot'["context_map_table"] # Nil,
         NotHeld'
  PROVE  Inv'
<1>1. /\ UNCHANGED <<given, inst, error_code, substate_context_map, working>>
      /\ state' \in next /\ in_call' = TRUE
  BY ArmFacts DEF Goto
<1>2. \A s \in Slots : taken'[s] = Nil /\ (Held(s)' <=> slot'[s] # Nil)
  BY ArmFacts DEF Held
<1>3. NoLoss' /\ Calls' /\ Locals'
  BY <1>1, <1>2, ArmFacts, ArmFrame
<1>4. MustHold'
  BY <1>1, <1>2, ArmFacts, SlotKinds DEF Inv, MustHold
<1> QED
  BY <1>3, <1>4 DEF Inv

\* What holds in the next state of an arm that asks for nothing.
LEMMA NotHeldGoesOn ==
  ASSUME Inv, NEW here, In(here), NEW next, Goto(next), UNCHANGED given,
         \A s \in Slots : Held(s)' => Held(s),
         next \subseteq StartStates => here \in StartStates,
         next \cap StartStates = {} \/ next \subseteq StartStates,
         next \cap EmptyStates # {} =>
           here \in EmptyStates \/ \A s \in MetablockSlots : ~Held(s)',
         "CONTEXT_MODES" \notin next /\ "CONTEXT_MAP_2" \notin next,
         "CONTEXT_MAP_1" \in next => here = "CONTEXT_MODES"
  PROVE  NotHeld'
<1>1. /\ UNCHANGED <<given, inst, error_code, substate_context_map, working>>
      /\ state' \in next
  BY DEF Goto
<1> QED
  BY <1>1, ArmFacts, SlotKinds DEF NotHeld, Inv, Fatal

\* The arms without memory go on to states that need hold no less.
LEMMA PlainInv ==
  ASSUME Inv, PlainArm
  PROVE  Inv' /\ Lost' \subseteq Lost
<1>1. /\ state \in DOMAIN Plain /\ In(state) /\ UNCHANGED <<given, blocks>>
      /\ Goto(Plain[state][1]) \/ Return(Plain[state][2])
  BY DEF PlainArm, Parameters
<1>2. Owners' /\ Lost' = Lost /\ \A s \in Slots : slot'[s] = slot[s] /\ taken'[s] = taken[s]
  BY <1>1, SameOwners DEF Inv
<1>3. \A s \in Slots : Held(s)' <=> Held(s)
  BY <1>2 DEF Held
<1>4. taken' = taken /\ "context_map_table" \in Slots
  BY <1>1, SlotKinds DEF blocks
<1>5. CASE Return(Plain[state][2])
  <2>1. state # "TREE_GROUP"
    BY <1>1 DEF Plain
  <2> QED
    BY <1>1, <1>2, <1>4, <1>5, <2>1, ReturnInv
<1>6. CASE Goto(Plain[state][1])
  <2> DEFINE next == Plain[state][1]
  <2>1. \/ state = "LARGE_WINDOW_BITS" /\ next = {"INITIALIZE"}
        \/ state = "UNCOMPRESSED" /\ next = {"METABLOCK_DONE"}
        \/ state = "METADATA" /\ next = {"METABLOCK_DONE"}
        \/ state = "CONTEXT_MODES" /\ next = {"CONTEXT_MAP_1"}
        \/ state = "WRITE" /\ next = {"COMMAND", "METABLOCK_DONE"}
        \/ state = "DONE" /\ next = {}
    BY <1>1 DEF Plain
  <2> HIDE DEF next
  <2>2. NotHeld'
    <3>1. Goto(next)
      BY <1>6 DEF next
    <3>2. /\ next \subseteq StartStates => state \in StartStates \/ next = {}
          /\ next \cap StartStates = {} \/ next \subseteq StartStates
          /\ next \cap EmptyStates = {}
          /\ "CONTEXT_MODES" \notin next /\ "CONTEXT_MAP_2" \notin next
          /\ "CONTEXT_MAP_1" \in next => state = "CONTEXT_MODES"
      BY <2>1 DEF StartStates, EmptyStates
    <3>3. next # {}
      BY <3>1 DEF Goto
    <3> QED
      BY <1>1, <1>3, <3>1, <3>2, <3>3, NotHeldGoesOn
  <2>3. /\ "TREE_GROUP" \notin next
        /\ next \subseteq MapStates \/ state \notin MapStates
    BY <2>1 DEF MapStates
  <2> QED
    BY <1>1, <1>2, <1>4, <1>6, <2>2, <2>3, GotoInv DEF next
<1> QED
  BY <1>1, <1>2, <1>5, <1>6

\* Before the first meta-block there are no trees of block switches.
LEMMA UninitedInv ==
  ASSUME Inv, Uninited
  PROVE  Inv' /\ Lost' \subseteq Lost
<1>1. /\ In("UNINITED") /\ UNCHANGED <<given, blocks>>
      /\ \/ Return({"NEEDS_MORE_INPUT", "FORMAT"})
         \/ Goto({IF large_window' THEN "LARGE_WINDOW_BITS" ELSE "INITIALIZE"})
  BY DEF Uninited
<1>2. Owners' /\ Lost' = Lost /\ \A s \in Slots : slot'[s] = slot[s] /\ taken'[s] = taken[s]
  BY <1>1, SameOwners DEF Inv
<1>3. \A s \in Slots : Held(s)' <=> Held(s)
  BY <1>2 DEF Held
<1>4. taken' = taken /\ "context_map_table" \in Slots
  BY <1>1, SlotKinds DEF blocks
<1>5. CASE Return({"NEEDS_MORE_INPUT", "FORMAT"})
  BY <1>1, <1>2, <1>4, <1>5, ReturnInv
<1>6. CASE Goto({IF large_window' THEN "LARGE_WINDOW_BITS" ELSE "INITIALIZE"})
  <2> DEFINE next == {IF large_window' THEN "LARGE_WINDOW_BITS" ELSE "INITIALIZE"}
  <2>1. next \subseteq {"LARGE_WINDOW_BITS", "INITIALIZE"}
    OBVIOUS
  <2>2. NotHeld'
    BY <1>1, <1>3, <1>6, <2>1, NotHeldGoesOn DEF StartStates, EmptyStates
  <2> QED
    BY <1>1, <1>2, <1>4, <1>6, <2>1, <2>2, GotoInv DEF MapStates
<1> QED
  BY <1>1, <1>2, <1>5, <1>6

\* Nor any of its own memory while a meta-block's block types are read,
LEMMA CountBlockTypesInv ==
  ASSUME Inv, CountBlockTypes
  PROVE  Inv' /\ Lost' \subseteq Lost
<1>1. /\ In("HUFFMAN_CODE_0") /\ UNCHANGED <<given, blocks>>
      /\ \/ Return({"NEEDS_MORE_INPUT"})
         \/ \E next \in {"HUFFMAN_CODE_0", "HUFFMAN_CODE_1", "METABLOCK_HEADER_2"} : Goto({next})
  BY DEF CountBlockTypes, Parameters
<1>2. Owners' /\ Lost' = Lost /\ \A s \in Slots : slot'[s] = slot[s] /\ taken'[s] = taken[s]
  BY <1>1, SameOwners DEF Inv
<1>3. \A s \in Slots : Held(s)' <=> Held(s)
  BY <1>2 DEF Held
<1>4. taken' = taken /\ "context_map_table" \in Slots
  BY <1>1, SlotKinds DEF blocks
<1>5. CASE Return({"NEEDS_MORE_INPUT"})
  BY <1>1, <1>2, <1>4, <1>5, ReturnInv
<1>6. ASSUME NEW next \in {"HUFFMAN_CODE_0", "HUFFMAN_CODE_1", "METABLOCK_HEADER_2"},
             Goto({next})
      PROVE  Inv'
  <2>1. NotHeld'
    BY <1>1, <1>3, <1>6, NotHeldGoesOn DEF StartStates, EmptyStates
  <2> QED
    BY <1>1, <1>2, <1>4, <1>6, <2>1, GotoInv DEF MapStates
<1> QED
  BY <1>1, <1>2, <1>5, <1>6

\* nor after the first length of a category.
LEMMA FirstBlockLengthInv ==
  ASSUME Inv, FirstBlockLength
  PROVE  Inv' /\ Lost' \subseteq Lost
<1>1. /\ In("HUFFMAN_CODE_3") /\ UNCHANGED <<given, blocks>>
      /\ Return({"NEEDS_MORE_INPUT"}) \/ Goto({"HUFFMAN_CODE_0"})
  BY DEF FirstBlockLength, Parameters
<1>2. Owners' /\ Lost' = Lost /\ \A s \in Slots : slot'[s] = slot[s] /\ taken'[s] = taken[s]
  BY <1>1, SameOwners DEF Inv
<1>3. \A s \in Slots : Held(s)' <=> Held(s)
  BY <1>2 DEF Held
<1>4. taken' = taken /\ "context_map_table" \in Slots
  BY <1>1, SlotKinds DEF blocks
<1>5. CASE Return({"NEEDS_MORE_INPUT"})
  BY <1>1, <1>2, <1>4, <1>5, ReturnInv
<1>6. CASE Goto({"HUFFMAN_CODE_0"})
  <2>1. NotHeld'
    BY <1>1, <1>3, <1>6, NotHeldGoesOn DEF StartStates, EmptyStates
  <2> QED
    BY <1>1, <1>2, <1>4, <1>6, <2>1, GotoInv DEF MapStates
<1> QED
  BY <1>1, <1>2, <1>5, <1>6

\* What an arm is given: what it asks for, unless the allocator may refuse.
LEMMA AnswersFacts ==
  ASSUME NEW N, NEW got \in Answers(N)
  PROVE  got \subseteq N /\ (given # "rust" => got = N)
BY DEF Answers

\* An arm that gives F back and asks for N.
LEMMA ArmChanges ==
  ASSUME Inv, NEW here, In(here), NEW F, NEW N, F \subseteq Slots, N \subseteq Slots,
         \A s \in N : s \in F \/ slot[s] = Nil,
         Change(F, N), UNCHANGED taken
  PROVE  /\ Owners' /\ Lost' \subseteq Lost
         /\ \A s \in Slots : /\ Held(s)' <=> slot'[s] # Nil
                             /\ Held(s) <=> slot[s] # Nil
                             /\ s \in N => slot'[s] # Nil
                             /\ s \in F \ N => slot'[s] = Nil
                             /\ s \notin F \union N => slot'[s] = slot[s]
<1>1. Lost = {} /\ \A s \in Slots : taken[s] = Nil
  BY ArmFacts
<1>2. /\ Owners' /\ Lost' \subseteq Lost
      /\ \A s \in Slots : /\ s \in N => slot'[s] # Nil
                          /\ s \in F \ N => slot'[s] = Nil
                          /\ s \notin F \union N => slot'[s] = slot[s]
  BY <1>1, FreshWhileNoLoss, ChangeOwners DEF Inv
<1> QED
  BY <1>1, <1>2 DEF Held

\* The trees are asked for once; half an answer is a failure.
LEMMA InitializeInv ==
  ASSUME Inv, Initialize
  PROVE  Inv' /\ Lost' \subseteq Lost
<1>1. In("INITIALIZE") /\ UNCHANGED given
  BY DEF Initialize, Parameters
<1>2. CASE NoAnswer
  BY <1>1, <1>2, ArmFacts, NoAnswerInv
<1>3. ASSUME NEW got \in Answers({"block_type_trees", "block_len_trees"}),
             Change({}, got), UNCHANGED taken,
             IF "block_len_trees" \in got THEN Goto({"METABLOCK_BEGIN"}) ELSE Return({"ALLOC"})
      PROVE  Inv' /\ Lost' \subseteq Lost
  <2>1. got \subseteq {"block_type_trees", "block_len_trees"} /\ got \subseteq Slots
    BY AnswersFacts, SlotKinds
  <2>2. ~Held("block_type_trees") /\ ~Held("block_len_trees")
    BY <1>1, ArmFacts DEF Inv, NotHeld, StartStates
  <2>3. \A s \in got : slot[s] = Nil
    BY <2>1, <2>2 DEF Held
  <2>4. /\ Owners' /\ Lost' \subseteq Lost
        /\ \A s \in Slots \ {"block_type_trees", "block_len_trees"} :
             slot'[s] = slot[s] /\ (Held(s)' <=> Held(s))
    <3>1. /\ Owners' /\ Lost' \subseteq Lost
          /\ \A s \in Slots : /\ Held(s)' <=> slot'[s] # Nil
                              /\ Held(s) <=> slot[s] # Nil
                              /\ s \notin {} \union got => slot'[s] = slot[s]
      BY <1>1, <1>3, <2>1, <2>3, ArmChanges
    <3> QED
      BY <2>1, <3>1
  <2>5. "context_map_table" \in Slots /\ slot'["context_map_table"] = slot["context_map_table"]
    BY <2>4, SlotKinds
  <2>6. CASE Goto({"METABLOCK_BEGIN"})
    <3>1. NotHeld'
      BY <1>1, <2>4, <2>6, ArmFacts, SlotKinds
      DEF Inv, NotHeld, Goto, StartStates, EmptyStates, MapStates
    <3> QED
      BY <1>1, <1>3, <2>4, <2>5, <2>6, <3>1, GotoInv DEF MapStates
  <2>7. CASE Return({"ALLOC"})
    <3>1. Fatal'
      BY <2>7 DEF Return, Fatal
    <3>2. NotHeld'
      BY <1>1, <2>4, <2>7, <3>1, ArmFacts, SlotKinds
      DEF Inv, NotHeld, Return, control, EmptyStates, MapStates
    <3> QED
      BY <1>1, <1>3, <2>4, <2>5, <2>7, <3>2, ReturnInv
  <2> QED
    BY <1>3, <2>6, <2>7
<1> QED
  BY <1>1, <1>2, <1>3 DEF Initialize

\* A meta-block begins with nothing of the last.
LEMMA MetablockBeginInv ==
  ASSUME Inv, BrotliStateMetablockBegin
  PROVE  Inv' /\ Lost' \subseteq Lost
<1>1. /\ In("METABLOCK_BEGIN") /\ UNCHANGED <<given, taken>>
      /\ Change(MetablockSlots, {}) /\ Goto({"METABLOCK_HEADER"})
  BY DEF BrotliStateMetablockBegin, Parameters
<1>2. /\ Owners' /\ Lost' \subseteq Lost
      /\ \A s \in MetablockSlots : ~Held(s)'
      /\ \A s \in Slots : Held(s)' => Held(s)
      /\ "context_map_table" \in Slots /\ slot'["context_map_table"] = slot["context_map_table"]
  BY <1>1, ArmChanges, SlotKinds
<1>3. NotHeld'
  BY <1>1, <1>2, NotHeldGoesOn DEF StartStates
<1> QED
  BY <1>1, <1>2, <1>3, GotoInv DEF MapStates

\* The ring takes the dictionary's place.
LEMMA AllocateRingBufferInv ==
  ASSUME Inv, In("METABLOCK_HEADER"), UNCHANGED given,
         slot["ringbuffer"] = Nil, BrotliAllocateRingBuffer
  PROVE  Inv' /\ Lost' \subseteq Lost
<1>1. CASE NoAnswer
  BY <1>1, ArmFacts, NoAnswerInv
<1>2. ASSUME Return({"ALLOC"}), UNCHANGED blocks
      PROVE  Inv' /\ Lost' \subseteq Lost
  <2>1. /\ Owners' /\ Lost' = Lost
        /\ \A s \in Slots : slot'[s] = slot[s]
        /\ taken' = taken /\ "context_map_table" \in Slots
    BY <1>2, SameOwners, SlotKinds DEF Inv, blocks
  <2> QED
    BY <1>2, <2>1, ReturnInv
<1>3. ASSUME Goto(HasData), Change({"custom_dict"}, {"ringbuffer"}), UNCHANGED taken
      PROVE  Inv' /\ Lost' \subseteq Lost
  <2>1. /\ Owners' /\ Lost' \subseteq Lost
        /\ \A s \in Slots \ {"ringbuffer"} : Held(s)' => Held(s)
        /\ ~Held("custom_dict")'
        /\ "context_map_table" \in Slots
        /\ slot'["context_map_table"] = slot["context_map_table"]
    BY <1>3, ArmChanges, SlotKinds
  <2>2. NotHeld'
    BY <1>3, <2>1, ArmFacts, SlotKinds
    DEF Inv, NotHeld, Goto, StartStates, EmptyStates, MapStates, HasData
  <2> QED
    BY <1>3, <2>1, <2>2, GotoInv DEF MapStates, HasData
<1>4. \A got \in Answers({"ringbuffer"}) : got = {} \/ got = {"ringbuffer"}
  <2> TAKE got \in Answers({"ringbuffer"})
  <2>1. got \subseteq {"ringbuffer"}
    BY AnswersFacts
  <2> QED
    BY <2>1
<1> QED
  BY <1>1, <1>2, <1>3, <1>4 DEF BrotliAllocateRingBuffer, blocks

\* A header leads to data only with a ring.
LEMMA MetablockHeaderInv ==
  ASSUME Inv, MetablockHeader
  PROVE  Inv' /\ Lost' \subseteq Lost
<1>1. In("METABLOCK_HEADER") /\ UNCHANGED given
  BY DEF MetablockHeader, Parameters
<1>2. CASE slot["ringbuffer"] = Nil /\ BrotliAllocateRingBuffer
  BY <1>1, <1>2, AllocateRingBufferInv
<1>3. ASSUME UNCHANGED blocks,
             \/ Return({"NEEDS_MORE_INPUT", "FORMAT"})
             \/ Goto({"METADATA", "METABLOCK_DONE"})
             \/ Goto(HasData)
      PROVE  Inv' /\ Lost' \subseteq Lost
  <2>1. Owners' /\ Lost' = Lost /\ \A s \in Slots : slot'[s] = slot[s] /\ taken'[s] = taken[s]
    BY <1>3, SameOwners DEF Inv
  <2>2. \A s \in Slots : Held(s)' <=> Held(s)
    BY <2>1 DEF Held
  <2>3. taken' = taken /\ "context_map_table" \in Slots
    BY <1>3, SlotKinds DEF blocks
  <2>4. CASE Return({"NEEDS_MORE_INPUT", "FORMAT"})
    BY <1>1, <2>1, <2>3, <2>4, ReturnInv
  <2>5. ASSUME NEW next \in {{"METADATA", "METABLOCK_DONE"}, HasData}, Goto(next)
        PROVE  Inv'
    <3>1. NotHeld'
      BY <1>1, <2>2, <2>5, NotHeldGoesOn DEF StartStates, EmptyStates, HasData
    <3> QED
      BY <1>1, <2>1, <2>3, <2>5, <3>1, GotoInv DEF MapStates, HasData
  <2> QED
    BY <1>3, <2>1, <2>4, <2>5
<1> QED
  BY <1>2, <1>3 DEF MetablockHeader

\* A meta-block ends with its memory given back.
LEMMA MetablockDoneInv ==
  ASSUME Inv, MetablockDone
  PROVE  Inv' /\ Lost' \subseteq Lost
<1>1. In("METABLOCK_DONE") /\ UNCHANGED given
  BY DEF MetablockDone, Parameters
<1>2. CASE Return({"FORMAT"}) /\ UNCHANGED blocks
  <2>1. /\ Owners' /\ Lost' = Lost
        /\ \A s \in Slots : slot'[s] = slot[s]
        /\ taken' = taken /\ "context_map_table" \in Slots
    BY <1>2, SameOwners, SlotKinds DEF Inv, blocks
  <2> QED
    BY <1>1, <1>2, <2>1, ReturnInv
<1>3. CASE /\ Change(MetablockSlots, {}) /\ UNCHANGED taken
           /\ Goto({"METABLOCK_BEGIN", "DONE"}) \/ Return({"FORMAT"})
  <2>1. /\ Owners' /\ Lost' \subseteq Lost
        /\ \A s \in MetablockSlots : ~Held(s)'
        /\ \A s \in Slots : Held(s)' => Held(s)
        /\ \A s \in Slots : slot'[s] # Nil => slot[s] # Nil
        /\ "context_map_table" \in Slots /\ slot'["context_map_table"] = slot["context_map_table"]
    BY <1>1, <1>3, ArmChanges, SlotKinds
  <2>2. CASE Return({"FORMAT"})
    BY <1>1, <1>3, <2>1, <2>2, ReturnInv
  <2>3. CASE Goto({"METABLOCK_BEGIN", "DONE"})
    <3>1. NotHeld'
      BY <1>1, <1>3, <2>1, <2>3, NotHeldGoesOn DEF StartStates
    <3> QED
      BY <1>1, <1>3, <2>1, <2>3, <3>1, GotoInv DEF MapStates
  <2> QED
    BY <1>3, <2>1, <2>2, <2>3
<1> QED
  BY <1>2, <1>3 DEF MetablockDone, BrotliStateCleanupAfterMetablock

\* The modes are the first memory of a meta-block.
LEMMA AllocateContextModesInv ==
  ASSUME Inv, AllocateContextModes
  PROVE  Inv' /\ Lost' \subseteq Lost
<1>1. In("METABLOCK_HEADER_2") /\ UNCHANGED given
  BY DEF AllocateContextModes, Parameters
<1>2. \A s \in MetablockSlots : ~Held(s)
  BY <1>1, ArmFacts DEF Inv, NotHeld, EmptyStates
<1>3. CASE NoAnswer
  BY <1>1, <1>3, ArmFacts, NoAnswerInv
<1>4. CASE Return({"NEEDS_MORE_INPUT"}) /\ UNCHANGED blocks
  <2>1. /\ Owners' /\ Lost' = Lost
        /\ \A s \in Slots : slot'[s] = slot[s]
        /\ taken' = taken /\ "context_map_table" \in Slots
    BY <1>4, SameOwners, SlotKinds DEF Inv, blocks
  <2> QED
    BY <1>1, <1>4, <2>1, ReturnInv
<1>5. ASSUME NEW got \in Answers({"context_modes"}), Change({}, got), UNCHANGED taken,
             IF got = {} THEN Return({"ALLOC"}) ELSE Goto({"CONTEXT_MODES"})
      PROVE  Inv' /\ Lost' \subseteq Lost
  <2>1. got \subseteq {"context_modes"} /\ got \subseteq Slots
    BY AnswersFacts, SlotKinds
  <2>2. \A s \in got : slot[s] = Nil
    BY <1>2, <2>1, SlotKinds DEF Held
  <2>3. /\ Owners' /\ Lost' \subseteq Lost
        /\ \A s \in Slots : /\ Held(s)' <=> slot'[s] # Nil
                            /\ Held(s) <=> slot[s] # Nil
                            /\ s \notin {} \union got => slot'[s] = slot[s]
    BY <1>1, <1>5, <2>1, <2>2, ArmChanges
  <2>4. "context_map_table" \in Slots /\ slot'["context_map_table"] = slot["context_map_table"]
    BY <2>1, <2>3, SlotKinds
  <2>5. CASE Return({"ALLOC"}) /\ got = {}
    BY <1>1, <1>5, <2>3, <2>4, <2>5, ReturnInv
  <2>6. CASE Goto({"CONTEXT_MODES"})
    <3>1. \A s \in Slots \ {"context_modes"} : Held(s)' <=> Held(s)
      BY <2>1, <2>3
    <3>2. NotHeld'
      BY <1>1, <1>2, <2>6, <3>1, ArmFacts, SlotKinds
      DEF Inv, NotHeld, Goto, StartStates, EmptyStates, MapStates
    <3> QED
      BY <1>1, <1>5, <2>3, <2>4, <2>6, <3>2, GotoInv DEF MapStates
  <2> QED
    BY <1>5, <2>5, <2>6
<1> QED
  BY <1>1, <1>3, <1>4, <1>5 DEF AllocateContextModes

\* The groups' old memory goes back and new memory takes its place.
LEMMA InitGroupsInv ==
  ASSUME Inv, InitGroups
  PROVE  Inv' /\ Lost' \subseteq Lost
<1>1. In("GROUPS") /\ UNCHANGED given
  BY DEF InitGroups, Parameters
<1>2. /\ inst = "live" /\ in_call = TRUE /\ working = "no" /\ substate_context_map = "NONE"
      /\ \A s \in Slots : taken[s] = Nil
  <2>1. state = "GROUPS" /\ state \notin MapStates
    BY <1>1 DEF In, MapStates
  <2> QED
    BY <1>1, <2>1, ArmFacts
<1>3. CASE NoAnswer
  BY <1>1, <1>3, ArmFacts, NoAnswerInv
<1>4. ASSUME NEW got \in Answers(AllGroups), Change(AllGroups, got), UNCHANGED taken,
             \/ Goto({"TREE_GROUP"}) /\ loop_counter' = 0
             \/ Return({"UNREACHABLE"})
      PROVE  Inv' /\ Lost' \subseteq Lost
  <2>1. got \subseteq AllGroups /\ (given # "rust" => got = AllGroups)
    BY AnswersFacts
  <2>2. AllGroups \subseteq Slots /\ got \subseteq Slots
    BY <2>1, SlotKinds
  <2>3. /\ Owners' /\ Lost' \subseteq Lost
        /\ \A s \in Slots : /\ Held(s)' <=> slot'[s] # Nil
                            /\ Held(s) <=> slot[s] # Nil
                            /\ s \in got => slot'[s] # Nil
                            /\ s \notin AllGroups \union got => slot'[s] = slot[s]
    BY <1>1, <1>4, <2>1, <2>2, ArmChanges
  <2>4. \A s \in Slots \ AllGroups : slot'[s] = slot[s] /\ (Held(s)' <=> Held(s))
    BY <2>1, <2>3
  <2>5. \A s \in StreamSlots \union {"instance", "user"} : s \in Slots \ AllGroups
    BY SlotKinds
  <2>6. NotHeld' /\ slot'["context_map_table"] = slot["context_map_table"]
    <3>1. /\ UNCHANGED <<given, inst>> /\ state' \in {"GROUPS", "TREE_GROUP"}
          /\ substate_context_map' = substate_context_map
      BY <1>1, <1>4, ArmFacts DEF Goto, Return, control
    <3> QED
      BY <1>1, <2>4, <2>5, <3>1, ArmFacts, SlotKinds
      DEF Inv, NotHeld, StartStates, EmptyStates, MapStates
  <2>7. CASE Return({"UNREACHABLE"})
    BY <1>1, <1>4, <2>3, <2>6, <2>7, ReturnInv
  <2>8. CASE Goto({"TREE_GROUP"}) /\ loop_counter' = 0
    <3>1. /\ UNCHANGED <<given, inst, error_code, substate_context_map, working>>
          /\ state' = "TREE_GROUP" /\ in_call' = TRUE /\ working' = "no"
          /\ substate_context_map' = "NONE"
      BY <1>1, <1>2, <2>8 DEF Goto
    <3>2. NoLoss' /\ Calls' /\ Locals'
      BY <1>1, <1>4, <1>2, <2>3, <2>8, <3>1, ArmFrame
    <3>3. MustHold'
      <4>1. \A g \in 0..2 : Htrees(g)' = Htrees(g) /\ Htrees(g) \in AllGroups
        BY GroupSlots
      <4> QED
        BY <1>1, <2>1, <2>2, <2>3, <2>6, <3>1, <4>1, ArmFacts, SlotKinds DEF Inv, MustHold
    <3> QED
      BY <2>3, <2>6, <3>2, <3>3 DEF Inv
  <2> QED
    BY <1>4, <2>7, <2>8
<1> QED
  BY <1>1, <1>3, <1>4 DEF InitGroups

-----------------------------------------------------------------------------
(* The functions that move blocks                                          *)

\* Nothing a function moves is the caller's.
LEMMA MovesAreSlots ==
  ASSUME Locals
  PROVE  Moves \subseteq Slots \ {"user"} /\ "context_map_table" \notin Moves
BY MovedSlots, SlotKinds

\* What a function moves out is as much held as before.
LEMMA EnterFunctionInv ==
  ASSUME Inv, EnterFunction
  PROVE  Inv' /\ Lost' \subseteq Lost
<1>1. /\ In(state) /\ Moves # {} /\ Take(Moves) /\ working' = "inside"
      /\ UNCHANGED <<given, inst, in_call, error_code, state, loop_counter,
                     substate_context_map>>
  BY DEF EnterFunction, Parameters
<1>2. Moves' = Moves
  BY <1>1 DEF Moves, MapOf
<1>3. /\ Owners' /\ Owned' = Owned /\ heap' = heap
      /\ \A s \in Slots :
           /\ s \in Moves => taken'[s] = slot[s] /\ slot'[s] = Nil
           /\ s \notin Moves => taken'[s] = taken[s] /\ slot'[s] = slot[s]
  BY <1>1, ArmFacts, MovesAreSlots, TakeOwners DEF Inv
<1>4. \A s \in Slots : Held(s)' <=> Held(s)
  BY <1>1, <1>3, ArmFacts DEF Held
<1>5. Lost' = Lost /\ (Fatal' <=> Fatal) /\ NoLoss'
  BY <1>1, <1>3 DEF Lost, Fatal, Inv, NoLoss
<1>6. Calls'
  BY <1>1, <1>5, ArmFacts DEF Inv, Calls
<1>7. Locals'
  BY <1>1, <1>2, <1>3, ArmFacts, MovesAreSlots DEF Inv, Locals
<1>8. NotHeld' /\ MustHold'
  <2>1. \A g \in 0..2 : Htrees(g) \in Slots /\ Htrees(g)' = Htrees(g)
    BY SlotKinds, GroupSlots
  <2> QED
    BY <1>1, <1>4, <1>5, <2>1, NotHeldStays, MustHoldStays DEF Inv
<1> QED
  BY <1>3, <1>5, <1>6, <1>7, <1>8 DEF Inv

\* A function works in a call of a live decoder.
LEMMA InsideFacts ==
  ASSUME Inv, working # "no", inst = "live"
  PROVE  /\ in_call = TRUE /\ ~Fatal /\ Lost = {}
         /\ Moves # {} /\ Moves \subseteq Slots \ {"user"} /\ "context_map_table" \notin Moves
         /\ \A s \in Moves : slot[s] = Nil
         /\ \A s \in Slots :
              taken[s] # Nil =>
                s \in Moves \/ (working = "table" /\ s = "context_map_table")
<1>1. in_call = TRUE
  BY DEF Inv, Calls
<1> QED
  BY <1>1, InACall, MovesAreSlots DEF Inv, Locals

\* What the function moved is put back, and so is the table it may have moved
\* out besides.
LEMMA PutBackAll ==
  ASSUME Inv, working # "no", inst = "live", NEW F,
         \/ working = "inside" /\ F = Moves
         \/ working = "table" /\ F = {"context_map_table"} \union Moves,
         PutBack(F)
  PROVE  /\ Owners' /\ Lost' \subseteq Lost
         /\ \A s \in Slots : taken'[s] = Nil /\ (Held(s)' <=> Held(s))
<1>1. /\ F \subseteq Slots \ {"user"} /\ \A s \in F : slot[s] = Nil
      /\ \A s \in Slots \ F : taken[s] = Nil
  BY InsideFacts, SlotKinds DEF Inv, Locals
<1>2. /\ Owners' /\ heap' = heap /\ Owned' = Owned
      /\ \A s \in Slots :
           /\ s \in F => slot'[s] = taken[s] /\ taken'[s] = Nil
           /\ s \notin F => slot'[s] = slot[s] /\ taken'[s] = Nil
  BY <1>1, PutBackOwners DEF Inv
<1> QED
  BY <1>1, <1>2 DEF Lost, Held

\* A function that ends the call.  If it drops what it moved the call has failed.
LEMMA LeavesInv ==
  ASSUME Inv, working # "no", inst = "live", NEW codes, Leaves(codes),
         Owners', Lost' \subseteq Lost \/ Fatal',
         \A s \in Slots : taken'[s] = Nil,
         \A s \in Slots : Held(s)' => Held(s),
         Held("context_map_table") => Held("context_map_table")',
         state # "TREE_GROUP" \/ \A s \in Slots : Held(s) => Held(s)'
  PROVE  Inv'
<1>1. /\ UNCHANGED <<given, inst, state, loop_counter, substate_context_map>>
      /\ working' = "no" /\ in_call' = FALSE
  BY DEF Leaves, Parameters
<1>2. NoLoss' /\ Calls' /\ Locals'
  BY <1>1, InsideFacts, ArmFrame DEF Inv, Locals
<1>3. NotHeld'
  BY <1>1, InsideFacts, NotHeldStays DEF Inv
<1>4. MustHold'
  <2>1. \A g \in 0..2 : Htrees(g) \in Slots /\ Htrees(g)' = Htrees(g)
    BY SlotKinds, GroupSlots
  <2> QED
    BY <1>1, <2>1 DEF Inv, MustHold
<1> QED
  BY <1>2, <1>3, <1>4 DEF Inv

\* A function that puts all back and goes on.
LEMMA GoesOnInv ==
  ASSUME Inv, working # "no", inst = "live", NEW next, NEW counter, GoesOn(next, counter),
         Owners', Lost' \subseteq Lost,
         \A s \in Slots : taken'[s] = Nil,
         \A s \in Slots : Held(s) => Held(s)',
         "TREE_GROUP" \in next => state = "TREE_GROUP" /\ counter \in 0..2,
         NotHeld'
  PROVE  Inv'
<1>1. /\ UNCHANGED <<given, inst, in_call, error_code>>
      /\ working' = "no" /\ state' \in next /\ loop_counter' = counter
      /\ substate_context_map' = "NONE"
  BY DEF GoesOn, Parameters
<1>2. NoLoss' /\ Calls' /\ Locals'
  BY <1>1, InsideFacts, ArmFrame
<1>3. MustHold'
  <2>1. \A g \in 0..2 : Htrees(g) \in Slots /\ Htrees(g)' = Htrees(g)
    BY SlotKinds, GroupSlots
  <2> QED
    BY <1>1, <2>1, SlotKinds DEF Inv, MustHold
<1> QED
  BY <1>2, <1>3 DEF Inv

\* The trees of block switches are back whatever the reading came to.
LEMMA ReadBlockTreesInv ==
  ASSUME Inv, ReadBlockTrees
  PROVE  Inv' /\ Lost' \subseteq Lost
<1>1. /\ inst = "live" /\ working = "inside" /\ PutBack(Moves)
      /\ state \in {"HUFFMAN_CODE_1", "HUFFMAN_CODE_2"}
  BY DEF ReadBlockTrees, Inside
<1>2. /\ Owners' /\ Lost' \subseteq Lost
      /\ \A s \in Slots : taken'[s] = Nil /\ (Held(s)' <=> Held(s))
  BY <1>1, PutBackAll
<1>3. CASE Leaves({"NEEDS_MORE_INPUT", "FORMAT"})
  BY <1>1, <1>2, <1>3, LeavesInv, SlotKinds
<1>4. ASSUME NEW next \in {{"HUFFMAN_CODE_2"}, {"HUFFMAN_CODE_3"}}, GoesOn(next, loop_counter)
      PROVE  Inv'
  <2>1. NotHeld'
    BY <1>1, <1>2, <1>4, SlotKinds
    DEF Inv, NotHeld, GoesOn, Parameters, EmptyStates, StartStates
  <2> QED
    BY <1>1, <1>2, <1>4, <2>1, GoesOnInv
<1> QED
  BY <1>2, <1>3, <1>4 DEF ReadBlockTrees

\* A new block that comes into the local at once.
LEMMA GiveOwners ==
  ASSUME Owners, NEW m \in Slots \ {"user"}, slot[m] = Nil, taken[m] = Nil,
         Fresh(m) \in Slots \X Copies, Fresh(m) \notin heap, Fresh(m)[1] = m, Fresh(m) # Nil,
         heap' = heap \union {Fresh(m)}, taken' = [taken EXCEPT ![m] = Fresh(m)], slot' = slot
  PROVE  /\ Owners' /\ Lost' \subseteq Lost
         /\ \A s \in Slots : taken'[s] = IF s = m THEN Fresh(m) ELSE taken[s]
<1> HIDE DEF Fresh
<1>1. /\ taken' = [s \in Slots |-> IF s = m THEN Fresh(m) ELSE taken[s]]
      /\ \A s \in Slots : taken'[s] = IF s = m THEN Fresh(m) ELSE taken[s]
  BY DEF Owners
<1>2. Owners'
  <2>1. /\ slot' \in [Slots -> heap' \union {Nil}]
        /\ taken' \in [Slots -> heap' \union {Nil}]
    BY <1>1 DEF Owners
  <2>2. \A s \in Slots :
          /\ slot'[s] # Nil => slot'[s][1] = s
          /\ taken'[s] # Nil => taken'[s][1] = s /\ slot'[s] = Nil
    BY <1>1 DEF Owners
  <2>3. \A b \in heap' : b[1] = "user" => b = slot'["user"]
    BY DEF Owners
  <2>4. heap' \subseteq Slots \X Copies
    BY DEF Owners
  <2> QED
    BY <2>1, <2>2, <2>3, <2>4 DEF Owners
<1>3. ASSUME NEW b \in heap', b \notin Owned' PROVE b \in heap /\ b \notin Owned
  <2>1. b # Nil /\ \A s \in Slots : b # slot'[s] /\ b # taken'[s]
    <3>1. b # Nil
      BY <1>2, <1>3, MemoryConstants DEF Owners
    <3> QED
      BY <1>2, <1>3, <3>1 DEF Owners, Owned, Range
  <2>2. b # Fresh(m)
    BY <1>1, <2>1
  <2>3. \A s \in Slots : b # slot[s] /\ b # taken[s]
    BY <1>1, <2>1
  <2> QED
    BY <2>2, <2>3, OwnedFacts
<1> QED
  BY <1>1, <1>2, <1>3 DEF Lost

\* A map that has not begun is held nowhere.
LEMMA NoMapYet ==
  ASSUME Inv, Inside(MapStates), substate_context_map = "NONE"
  PROVE  /\ MapOf \in Slots \ {"user"} /\ Moves = {MapOf}
         /\ MapOf = IF state = "CONTEXT_MAP_1" THEN "context_map" ELSE "dist_context_map"
         /\ slot[MapOf] = Nil /\ \A s \in Slots : taken[s] = Nil
<1>1. /\ inst = "live" /\ working = "inside" /\ state \in MapStates
  BY DEF Inside
<1>2. MapOf = IF state = "CONTEXT_MAP_1" THEN "context_map" ELSE "dist_context_map"
  BY DEF MapOf
<1>3. MapOf \in Slots \ {"user"} /\ Moves = {MapOf}
  BY <1>1, <1>2, MovedSlots, SlotKinds DEF Inv, MapStates
<1>4. slot[MapOf] = Nil /\ taken[MapOf] = Nil
  BY <1>1, <1>2 DEF Inv, NotHeld, Held, MapStates
<1>5. \A s \in Slots : taken[s] = Nil
  BY <1>1, <1>3, <1>4, InsideFacts
<1> QED
  BY <1>2, <1>3, <1>4, <1>5

\* From one map to the next state.
LEMMA AfterMapNotHeld ==
  ASSUME Inv, Inside(MapStates), NEW counter, GoesOn(AfterMap, counter),
         \A s \in Slots : s # MapOf => (Held(s)' => Held(s))
  PROVE  NotHeld'
<1>1. /\ inst = "live" /\ state \in MapStates
      /\ UNCHANGED <<given, inst, error_code>>
      /\ state' = IF state = "CONTEXT_MAP_1" THEN "CONTEXT_MAP_2" ELSE "GROUPS"
      /\ MapOf = IF state = "CONTEXT_MAP_1" THEN "context_map" ELSE "dist_context_map"
  BY DEF Inside, GoesOn, AfterMap, MapOf, Parameters
<1>2. /\ "instance" # MapOf /\ "user" # MapOf
      /\ "ringbuffer" # MapOf /\ "custom_dict" # MapOf
      /\ state = "CONTEXT_MAP_1" => "dist_context_map" # MapOf
  BY <1>1
<1>3. /\ \A s \in {"instance", "user", "ringbuffer", "custom_dict"} : Held(s)' => Held(s)
      /\ state = "CONTEXT_MAP_1" => (Held("dist_context_map")' => Held("dist_context_map"))
  BY <1>2, SlotKinds
<1>4. state' \notin StartStates \union EmptyStates \union {"CONTEXT_MODES", "CONTEXT_MAP_1"}
  BY <1>1 DEF StartStates, EmptyStates
<1>5. state' = "CONTEXT_MAP_2" => state = "CONTEXT_MAP_1"
  BY <1>1
<1> QED
  BY <1>1, <1>3, <1>4, <1>5 DEF Inv, NotHeld

\* A map's memory comes into the local, or at once into its field.
LEMMA BeginContextMapInv ==
  ASSUME Inv, BeginContextMap
  PROVE  Inv' /\ Lost' \subseteq Lost
<1>1. /\ Inside(MapStates) /\ substate_context_map = "NONE"
      /\ inst = "live" /\ working = "inside" /\ state \in MapStates
  BY DEF BeginContextMap, Inside, MapStates
<1>2. /\ MapOf \in Slots \ {"user"} /\ Moves = {MapOf}
      /\ MapOf = IF state = "CONTEXT_MAP_1" THEN "context_map" ELSE "dist_context_map"
      /\ slot[MapOf] = Nil /\ \A s \in Slots : taken[s] = Nil
  BY <1>1, NoMapYet
<1>3. ASSUME NEW codes, Leaves(codes), PutBack(Moves)
      PROVE  Inv' /\ Lost' \subseteq Lost
  <2>1. /\ Owners' /\ Lost' \subseteq Lost
        /\ \A s \in Slots : taken'[s] = Nil /\ (Held(s)' <=> Held(s))
    BY <1>1, <1>3, PutBackAll
  <2> QED
    BY <1>1, <1>3, <2>1, LeavesInv, SlotKinds
<1>4. CASE NoAnswer /\ UNCHANGED Parameters
  BY <1>1, <1>2, <1>4, NoAnswerInv DEF Parameters
<1>5. /\ Fresh(MapOf) \in Slots \X Copies /\ Fresh(MapOf) \notin heap
      /\ Fresh(MapOf)[1] = MapOf /\ Fresh(MapOf) # Nil
  BY <1>1, <1>2, InsideFacts, FreshWhileNoLoss DEF Inv
<1> HIDE DEF Fresh
<1>6. ASSUME heap' = heap \union {Fresh(MapOf)},
             slot' = [slot EXCEPT ![MapOf] = Fresh(MapOf)],
             taken' = NoBlocks,
             GoesOn(AfterMap, loop_counter)
      PROVE  Inv' /\ Lost' \subseteq Lost
  <2>1. taken' = taken
    BY <1>2, <1>6 DEF NoBlocks, Inv, Owners
  <2>2. Change({}, {MapOf})
    <3>1. {slot[s] : s \in {}} = {} /\ {Fresh(s) : s \in {MapOf}} = {Fresh(MapOf)}
      OBVIOUS
    <3>2. slot' = [s \in Slots |-> IF s \in {MapOf} THEN Fresh(s)
                                   ELSE IF s \in {} THEN Nil ELSE slot[s]]
      BY <1>6 DEF Inv, Owners
    <3>3. heap' = (heap \ {slot[s] : s \in {}}) \union {Fresh(s) : s \in {MapOf}}
      BY <1>6, <3>1
    <3> QED
      BY <3>2, <3>3 DEF Change
  <2>3. /\ Owners' /\ Lost' \subseteq Lost
        /\ \A s \in Slots : /\ s \in {MapOf} => slot'[s] # Nil
                            /\ s \notin {} \union {MapOf} => slot'[s] = slot[s]
    BY <1>2, <1>5, <2>1, <2>2, ChangeOwners DEF Inv
  <2>4. /\ \A s \in Slots : s # MapOf => (Held(s)' <=> Held(s))
        /\ \A s \in Slots : taken'[s] = Nil /\ (Held(s) => Held(s)')
    BY <1>2, <2>1, <2>3 DEF Held
  <2>5. NotHeld'
    BY <1>1, <1>6, <2>4, AfterMapNotHeld
  <2>6. "TREE_GROUP" \notin AfterMap
    BY DEF AfterMap
  <2> QED
    BY <1>1, <1>6, <2>3, <2>4, <2>5, <2>6, GoesOnInv
<1>7. ASSUME heap' = heap \union {Fresh(MapOf)},
             taken' = [taken EXCEPT ![MapOf] = Fresh(MapOf)],
             substate_context_map' = "HUFFMAN",
             UNCHANGED <<given, inst, in_call, error_code, state, loop_counter, working, slot>>
      PROVE  Inv' /\ Lost' \subseteq Lost
  <2>1. /\ Owners' /\ Lost' \subseteq Lost
        /\ \A s \in Slots : taken'[s] = IF s = MapOf THEN Fresh(MapOf) ELSE taken[s]
    BY <1>2, <1>5, <1>7, GiveOwners DEF Inv
  <2>2. /\ \A s \in Slots : s # MapOf => (Held(s)' <=> Held(s))
        /\ \A s \in Slots : Held(s) => Held(s)'
    BY <1>2, <1>7, <2>1 DEF Held
  <2>3. Moves' = Moves
    BY <1>7 DEF Moves, MapOf
  <2>4. (Fatal' <=> Fatal) /\ NoLoss' /\ Calls'
    BY <1>7, <2>1 DEF Fatal, Inv, NoLoss, Calls
  <2>5. Locals'
    BY <1>1, <1>2, <1>7, <2>1, <2>3 DEF Inv, Locals, MapStates
  <2>6. MustHold'
    BY <1>7, <2>2, MustHoldStays DEF Inv
  <2>7. NotHeld'
    <3>1. state' \notin StartStates \union EmptyStates \union {"CONTEXT_MODES"}
      BY <1>1, <1>7 DEF StartStates, EmptyStates, MapStates
    <3>2. \A s \in {"instance", "user", "ringbuffer", "custom_dict"} : Held(s)' <=> Held(s)
      BY <1>2, <2>2, SlotKinds
    <3>3. state = "CONTEXT_MAP_1" => (Held("dist_context_map")' <=> Held("dist_context_map"))
      BY <1>2, <2>2, SlotKinds
    <3> QED
      BY <1>1, <1>7, <3>1, <3>2, <3>3 DEF Inv, NotHeld
  <2> QED
    BY <2>1, <2>4, <2>5, <2>6, <2>7 DEF Inv
<1> QED
  BY <1>3, <1>4, <1>6, <1>7 DEF BeginContextMap, Parameters

\* The table joins the map in the locals.
LEMMA TakeMapTableInv ==
  ASSUME Inv, TakeMapTable
  PROVE  Inv' /\ Lost' \subseteq Lost
<1>1. /\ substate_context_map = "HUFFMAN"
      /\ inst = "live" /\ working = "inside" /\ state \in MapStates
  BY DEF TakeMapTable, Inside, MapStates
<1>2. CASE Leaves({"NEEDS_MORE_INPUT"}) /\ PutBack(Moves)
  <2>1. /\ Owners' /\ Lost' \subseteq Lost
        /\ \A s \in Slots : taken'[s] = Nil /\ (Held(s)' <=> Held(s))
    BY <1>1, <1>2, PutBackAll
  <2> QED
    BY <1>1, <1>2, <2>1, LeavesInv, SlotKinds
<1>3. CASE /\ Take({"context_map_table"}) /\ working' = "table"
           /\ UNCHANGED <<given, inst, in_call, error_code, state, loop_counter,
                          substate_context_map>>
  <2>1. /\ "context_map_table" \in Slots \ {"user"} /\ "context_map_table" \notin Moves
        /\ taken["context_map_table"] = Nil /\ in_call = TRUE
    BY <1>1, InsideFacts, SlotKinds
  <2>2. /\ Owners' /\ Owned' = Owned /\ heap' = heap
        /\ \A s \in Slots :
             /\ s = "context_map_table" => taken'[s] = slot[s] /\ slot'[s] = Nil
             /\ s # "context_map_table" => taken'[s] = taken[s] /\ slot'[s] = slot[s]
    BY <1>3, <2>1, TakeOwners DEF Inv
  <2>3. \A s \in Slots : Held(s)' <=> Held(s)
    BY <2>1, <2>2 DEF Held
  <2>4. Moves' = Moves
    BY <1>3 DEF Moves, MapOf
  <2>5. Lost' = Lost /\ (Fatal' <=> Fatal) /\ NoLoss' /\ Calls'
    BY <1>1, <1>3, <2>1, <2>2 DEF Lost, Fatal, Inv, NoLoss, Calls
  <2>6. Locals'
    BY <1>1, <1>3, <2>1, <2>2, <2>4, InsideFacts DEF Inv, Locals
  <2>7. NotHeld' /\ MustHold'
    BY <1>3, <2>3, <2>5, NotHeldStays, MustHoldStays DEF Inv
  <2> QED
    BY <2>2, <2>5, <2>6, <2>7 DEF Inv
<1> QED
  BY <1>2, <1>3 DEF TakeMapTable, Parameters

\* A function that has no place for what it reads: only an allocator that may
\* refuse lets it come to that.
LEMMA OutOfPlace ==
  ASSUME Inv, working # "no", inst = "live", Panic, UNCHANGED given,
         NEW s \in Slots, ~Held(s),
         \/ s = "context_map_table"
         \/ state = "TREE_GROUP" /\ s = Htrees(loop_counter)
  PROVE  Inv' /\ given = "rust" /\ inst' = "gone"
<1>1. given = "rust"
  BY DEF Inv, MustHold, Locals
<1> QED
  BY <1>1, PanicInv DEF Panic, DropState

\* It is back when its code is read; without one the reading is a panic.
LEMMA ReadMapTableInv ==
  ASSUME Inv, ReadMapTable
  PROVE  /\ Inv'
         /\ Lost' \subseteq Lost \/ (given = "rust" /\ working # "no" /\ inst' = "gone")
<1>1. /\ working = "table" /\ inst = "live" /\ in_call = TRUE
      /\ state \in MapStates /\ substate_context_map = "HUFFMAN"
      /\ slot["context_map_table"] = Nil
      /\ "context_map_table" \in Slots \ {"user"} /\ "context_map_table" \notin Moves
  BY SlotKinds, MovesAreSlots DEF ReadMapTable, Inv, Calls, Locals
<1>2. ASSUME PutBack({"context_map_table"} \union Moves),
             Leaves({"NEEDS_MORE_INPUT", "FORMAT"})
      PROVE  Inv' /\ Lost' \subseteq Lost
  <2>1. /\ Owners' /\ Lost' \subseteq Lost
        /\ \A s \in Slots : taken'[s] = Nil /\ (Held(s)' <=> Held(s))
    BY <1>1, <1>2, PutBackAll
  <2> QED
    BY <1>1, <1>2, <2>1, LeavesInv, SlotKinds
<1>3. ASSUME PutBack({"context_map_table"}), working' = "inside",
             substate_context_map' = "DECODE",
             UNCHANGED <<given, inst, in_call, error_code, state, loop_counter>>
      PROVE  Inv' /\ Lost' \subseteq Lost
  <2>1. /\ Owners' /\ heap' = heap /\ Owned' = Owned
        /\ \A s \in Slots :
             /\ s = "context_map_table" => slot'[s] = taken[s] /\ taken'[s] = Nil
             /\ s # "context_map_table" => slot'[s] = slot[s] /\ taken'[s] = taken[s]
    BY <1>1, <1>3, PutBackOwners DEF Inv
  <2>2. \A s \in Slots : Held(s)' <=> Held(s)
    BY <1>1, <2>1 DEF Held
  <2>3. Moves' = Moves
    BY <1>3 DEF Moves, MapOf
  <2>4. Lost' = Lost /\ (Fatal' <=> Fatal) /\ NoLoss' /\ Calls'
    BY <1>1, <1>3, <2>1 DEF Lost, Fatal, Inv, NoLoss, Calls
  <2>5. Locals'
    BY <1>1, <1>3, <2>1, <2>3, InsideFacts DEF Inv, Locals
  <2>6. MustHold'
    BY <1>3, <2>2, MustHoldStays DEF Inv
  <2>7. NotHeld'
    <3>1. state' \notin StartStates \union EmptyStates \union {"CONTEXT_MODES"}
      BY <1>1, <1>3 DEF StartStates, EmptyStates, MapStates
    <3> QED
      BY <1>1, <1>3, <2>2, <3>1, SlotKinds DEF Inv, NotHeld
  <2> QED
    BY <2>1, <2>4, <2>5, <2>6, <2>7 DEF Inv
<1>4. CASE taken["context_map_table"] = Nil /\ Panic /\ UNCHANGED Parameters
  <2>1. ~Held("context_map_table")
    BY <1>1, <1>4 DEF Held
  <2> QED
    BY <1>1, <1>4, <2>1, OutOfPlace DEF Parameters
<1> QED
  BY <1>2, <1>3, <1>4 DEF ReadMapTable, Parameters

\* The map is back whatever the decoding came to.
LEMMA DecodeContextMapInv ==
  ASSUME Inv, DecodeContextMap
  PROVE  Inv' /\ Lost' \subseteq Lost
<1>1. /\ Inside(MapStates) /\ PutBack(Moves)
      /\ inst = "live" /\ working = "inside" /\ state \in MapStates
  BY DEF DecodeContextMap, Inside, MapStates
<1>2. /\ Owners' /\ Lost' \subseteq Lost
      /\ \A s \in Slots : taken'[s] = Nil /\ (Held(s)' <=> Held(s))
  BY <1>1, PutBackAll
<1>3. CASE Leaves({"NEEDS_MORE_INPUT", "FORMAT"})
  BY <1>1, <1>2, <1>3, LeavesInv, SlotKinds
<1>4. CASE GoesOn(AfterMap, loop_counter)
  <2>1. NotHeld' /\ "TREE_GROUP" \notin AfterMap
    BY <1>1, <1>2, <1>4, AfterMapNotHeld DEF AfterMap
  <2> QED
    BY <1>1, <1>2, <1>4, <2>1, GoesOnInv
<1> QED
  BY <1>2, <1>3, <1>4 DEF DecodeContextMap

\* A group is back whatever the reading came to, if there was place for it.
LEMMA HuffmanTreeGroupDecodeInv ==
  ASSUME Inv, HuffmanTreeGroupDecode
  PROVE  /\ Inv'
         /\ Lost' \subseteq Lost \/ (given = "rust" /\ working # "no" /\ inst' = "gone")
<1>1. /\ inst = "live" /\ working = "inside" /\ state = "TREE_GROUP"
      /\ loop_counter \in 0..2 /\ Htrees(loop_counter) \in Moves /\ Moves \subseteq Slots
  BY MovedSlots, MovesAreSlots DEF HuffmanTreeGroupDecode, Inside, Inv, Locals
<1>2. CASE taken[Htrees(loop_counter)] = Nil /\ Panic /\ UNCHANGED Parameters
  <2>1. ~Held(Htrees(loop_counter))
    BY <1>1, <1>2, InsideFacts DEF Held
  <2> QED
    BY <1>1, <1>2, <2>1, OutOfPlace DEF Parameters
<1>3. ASSUME PutBack(Moves),
             \/ Leaves({"NEEDS_MORE_INPUT", "FORMAT"})
             \/ loop_counter < 2 /\ GoesOn({"TREE_GROUP"}, loop_counter + 1)
             \/ loop_counter = 2 /\ GoesOn({"COMMAND"}, 0)
      PROVE  Inv' /\ Lost' \subseteq Lost
  <2>1. /\ Owners' /\ Lost' \subseteq Lost
        /\ \A s \in Slots : taken'[s] = Nil /\ (Held(s)' <=> Held(s))
    BY <1>1, <1>3, PutBackAll
  <2>2. CASE Leaves({"NEEDS_MORE_INPUT", "FORMAT"})
    BY <1>1, <2>1, <2>2, LeavesInv, SlotKinds
  <2>3. ASSUME NEW next \in {{"TREE_GROUP"}, {"COMMAND"}}, NEW counter \in 0..2,
               GoesOn(next, counter)
        PROVE  Inv'
    <3>1. NotHeld'
      BY <1>1, <2>1, <2>3, SlotKinds
      DEF Inv, NotHeld, GoesOn, Parameters, EmptyStates, StartStates
    <3> QED
      BY <1>1, <2>1, <2>3, <3>1, GoesOnInv
  <2>4. /\ loop_counter < 2 => loop_counter + 1 \in 0..2
        /\ 0 \in 0..2
    BY <1>1
  <2> QED
    BY <1>3, <2>1, <2>2, <2>3, <2>4
<1> QED
  BY <1>2, <1>3 DEF HuffmanTreeGroupDecode

\* The groups are back but for the one early return.
LEMMA ProcessCommandsInv ==
  ASSUME Inv, ProcessCommands
  PROVE  Inv' /\ (Lost' \subseteq Lost \/ error_code' = "FORMAT_DISTANCE")
<1>1. inst = "live" /\ working = "inside" /\ state = "COMMAND"
  BY DEF ProcessCommands, Inside
<1>2. ASSUME PutBack({}), Leaves({"FORMAT_DISTANCE"})
      PROVE  Inv' /\ error_code' = "FORMAT_DISTANCE"
  <2>1. error_code' = "FORMAT_DISTANCE" /\ Fatal'
    BY <1>2 DEF Leaves, Fatal
  <2>2. /\ Owners'
        /\ \A s \in Slots : slot'[s] = slot[s] /\ taken'[s] = Nil
    BY <1>1, <1>2, PutBackOwners DEF Inv
  <2>3. taken["context_map_table"] = Nil
    BY <1>1, InsideFacts, SlotKinds
  <2>4. /\ \A s \in Slots : Held(s)' => Held(s)
        /\ Held("context_map_table") => Held("context_map_table")'
    BY <2>2, <2>3, SlotKinds DEF Held
  <2> QED
    BY <1>1, <1>2, <2>1, <2>2, <2>4, LeavesInv
<1>3. ASSUME PutBack(Moves),
             \/ Leaves({"NEEDS_MORE_INPUT", "FORMAT"})
             \/ GoesOn({"COMMAND", "WRITE", "METABLOCK_DONE"}, 0)
      PROVE  Inv' /\ Lost' \subseteq Lost
  <2>1. /\ Owners' /\ Lost' \subseteq Lost
        /\ \A s \in Slots : taken'[s] = Nil /\ (Held(s)' <=> Held(s))
    BY <1>1, <1>3, PutBackAll
  <2>2. CASE Leaves({"NEEDS_MORE_INPUT", "FORMAT"})
    BY <1>1, <2>1, <2>2, LeavesInv, SlotKinds
  <2>3. CASE GoesOn({"COMMAND", "WRITE", "METABLOCK_DONE"}, 0)
    <3>1. NotHeld'
      BY <1>1, <2>1, <2>3, SlotKinds
      DEF Inv, NotHeld, GoesOn, Parameters, EmptyStates, StartStates
    <3> QED
      BY <1>1, <2>1, <2>3, <3>1, GoesOnInv
  <2> QED
    BY <1>3, <2>1, <2>2, <2>3
<1> QED
  BY <1>2, <1>3 DEF ProcessCommands

-----------------------------------------------------------------------------
(* All steps together                                                      *)

\* There is nothing before the first decoder.
LEMMA InitInv == Init => Inv
<1> SUFFICES ASSUME Init PROVE Inv
  OBVIOUS
<1>1. \A s \in Slots : slot[s] = Nil /\ taken[s] = Nil /\ ~Held(s)
  BY DEF Init, NoBlocks, Held
<1>2. Owners
  BY DEF Init, NoBlocks, Owners
<1>3. NoLoss /\ Calls /\ MustHold
  BY DEF Init, NoLoss, Lost, Calls, MustHold
<1>4. Locals
  BY <1>1 DEF Init, Locals
<1>5. NotHeld
  BY <1>1, SlotKinds DEF Init, NotHeld
<1> QED
  BY <1>2, <1>3, <1>4, <1>5 DEF Inv

\* Every step keeps the invariant, and all but two kinds lose nothing.
LEMMA NextInv ==
  ASSUME Inv, Next
  PROVE  /\ Inv'
         /\ \/ Lost' \subseteq Lost
            \/ error_code' = "FORMAT_DISTANCE"
            \/ given = "rust" /\ working # "no" /\ inst' = "gone"
BY ConstructInv, CreateInstanceInv, DestroyInv, SetParameterInv, MallocInv, FreeInv,
   StreamInv, InvalidArgumentsInv, PlainInv, UninitedInv, InitializeInv,
   MetablockBeginInv, MetablockHeaderInv, MetablockDoneInv, CountBlockTypesInv,
   FirstBlockLengthInv, AllocateContextModesInv, InitGroupsInv, EnterFunctionInv,
   ReadBlockTreesInv, BeginContextMapInv, TakeMapTableInv, ReadMapTableInv,
   DecodeContextMapInv, HuffmanTreeGroupDecodeInv, ProcessCommandsInv
DEF Next

\* A step of something else changes nothing.
LEMMA StutterInv ==
  ASSUME Inv, UNCHANGED vars
  PROVE  Inv' /\ Lost' = Lost
<1>1. UNCHANGED <<given, inst, in_call, error_code, state, loop_counter,
                  substate_context_map, working, slot, taken, heap>>
  BY DEF vars, control, blocks
<1>2. Owners' /\ Lost' = Lost
  BY <1>1, SameOwners DEF Inv, blocks
<1>3. \A s \in Slots : Held(s)' <=> Held(s)
  BY <1>1 DEF Held
<1>4. Moves' = Moves
  BY <1>1 DEF Moves, MapOf
<1>5. (Fatal' <=> Fatal) /\ NoLoss' /\ Calls'
  BY <1>1, <1>2 DEF Fatal, Inv, NoLoss, Calls
<1>6. Locals'
  BY <1>1, <1>4 DEF Inv, Locals
<1>7. NotHeld' /\ MustHold'
  BY <1>1, <1>3, <1>5, NotHeldStays, MustHoldStays DEF Inv
<1> QED
  BY <1>2, <1>5, <1>6, <1>7 DEF Inv

(* In every behaviour of a decoder made through any of the interfaces each *)
(* block has its place, and what the state says of a call, of the running  *)
(* function and of the part of the stream it is in says what is held.      *)
THEOREM InvHolds == Spec => []Inv
<1>1. Inv /\ [Next]_vars => Inv'
  BY NextInv, StutterInv
<1> QED
  BY InitInv, <1>1, PTL DEF Spec

-----------------------------------------------------------------------------
(* The properties                                                          *)

(* Every block is owned by one field or one local variable, and none that  *)
(* went back to the allocator is kept: mem::replace everywhere in state.rs *)
(* and decode.rs moves blocks and never copies them.                       *)
THEOREM BlocksHaveOneOwner == Spec => []OneOwner
<1>1. Inv => OneOwner
  <2> SUFFICES ASSUME Inv PROVE OneOwner
    OBVIOUS
  <2>1. Owned \subseteq heap
    BY OwnedFacts DEF Inv, Owners
  <2>2. ASSUME NEW s \in Slots, slot[s] # Nil, slot[s] \in Range(taken) PROVE FALSE
    <3>1. PICK t \in Slots : slot[s] = taken[t]
      BY <2>2 DEF Range, Inv, Owners
    <3> QED
      BY <2>2, <3>1 DEF Inv, Owners
  <2>3. \A s, t \in Slots : s # t /\ slot[s] # Nil => slot[s] # slot[t]
    BY DEF Inv, Owners
  <2> QED
    BY <2>1, <2>2, <2>3 DEF OneOwner
<1> QED
  BY InvHolds, <1>1, PTL

(* Between two meta-blocks, over metadata and uncompressed data and after  *)
(* the last of the stream nothing of a meta-block is held, however the     *)
(* calls were cut (BrotliStateCleanupAfterMetablock and the order of the   *)
(* header's allocations); and a dictionary goes back once there is a ring. *)
THEOREM MemoryGoesBack == Spec => []HeldOnlyWhileNeeded
<1>1. Inv => HeldOnlyWhileNeeded
  <2> SUFFICES ASSUME Inv PROVE HeldOnlyWhileNeeded
    OBVIOUS
  <2>1. state \in {"METABLOCK_HEADER", "METADATA", "UNCOMPRESSED", "DONE"} =>
          \A s \in MetablockSlots : slot[s] = Nil
    BY DEF Inv, NotHeld, EmptyStates, Held
  <2>2. slot["ringbuffer"] # Nil => slot["custom_dict"] = Nil
    BY DEF Inv, NotHeld, Held
  <2> QED
    BY <2>1, <2>2 DEF HeldOnlyWhileNeeded
<1> QED
  BY InvHolds, <1>1, PTL

(* No step loses a block but the two kinds that are known to: the refusal  *)
(* of a distance from the middle of ProcessCommandsInternal, and a panic   *)
(* over an allocator of Rust code that refused a part of what it was asked *)
(* for.  Every other end of a call leaves each block in a field, from      *)
(* which BrotliStateCleanup gives it back.                                 *)
THEOREM NoBlockIsLost == Spec => NothingIsLost
<1>1. Inv /\ [Next]_vars =>
        [\/ Lost' \subseteq Lost
         \/ error_code' = "FORMAT_DISTANCE"
         \/ given = "rust" /\ working # "no" /\ inst' = "gone"]_vars
  BY NextInv
<1> QED
  BY InvHolds, <1>1, PTL DEF Spec, NothingIsLost

(* A saved fatal code is never replaced by one that is not, and after it   *)
(* the decoder asks for no memory: BrotliDecompressStream looks at the     *)
(* code first, and no function that allocates runs outside of it.          *)
THEOREM FailuresAreFinal == Spec => FailureIsFinal
<1>1. ASSUME Inv, Next, Fatal, inst = "live"
      PROVE  Fatal' /\ \A b \in heap' \ heap : b[1] = "user"
  <2>1. in_call = FALSE /\ working = "no"
    BY <1>1 DEF Inv, Calls
  <2>2. \/ BrotliDecoderDestroyInstance \/ BrotliDecoderSetParameter
        \/ BrotliDecoderMalloc \/ BrotliDecoderFree \/ InvalidArguments
    BY <1>1, <2>1
    DEF Next, Construct, BrotliDecoderCreateInstance, BrotliDecompressStream,
        PlainArm, Uninited, Initialize, BrotliStateMetablockBegin, MetablockHeader,
        MetablockDone, CountBlockTypes, FirstBlockLength, AllocateContextModes, InitGroups,
        EnterFunction, In, Inside, ReadBlockTrees, BeginContextMap, TakeMapTable,
        ReadMapTable, DecodeContextMap, HuffmanTreeGroupDecode, ProcessCommands
  <2>3. CASE BrotliDecoderDestroyInstance
    BY <1>1, <2>3 DEF BrotliDecoderDestroyInstance, DropState, Fatal
  <2>4. CASE BrotliDecoderSetParameter
    BY <1>1, <2>4 DEF BrotliDecoderSetParameter, blocks, Fatal
  <2>5. CASE BrotliDecoderFree
    BY <1>1, <2>5 DEF BrotliDecoderFree, Change, Fatal
  <2>6. CASE InvalidArguments
    BY <1>1, <2>6 DEF InvalidArguments, blocks, Fatal
  <2>7. CASE BrotliDecoderMalloc
    <3>1. \A s \in Slots : taken[s] = Nil
      BY <1>1, <2>1 DEF Inv, Locals
    <3>2. Fresh("user")[1] = "user"
      BY <1>1, <2>7, <3>1, FreshFacts, SlotKinds DEF BrotliDecoderMalloc, Inv, Owners
    <3>3. \A b \in heap' \ heap : b = Fresh("user")
      BY <2>7 DEF BrotliDecoderMalloc, Change
    <3>4. Fatal'
      BY <1>1, <2>7 DEF BrotliDecoderMalloc, Fatal
    <3> QED
      BY <3>2, <3>3, <3>4
  <2> QED
    BY <2>2, <2>3, <2>4, <2>5, <2>6, <2>7
<1>2. Inv /\ [Next]_vars =>
        [Fatal /\ inst = "live" =>
           /\ Fatal'
           /\ \A b \in heap' \ heap : b[1] = "user"]_vars
  BY <1>1
<1> QED
  BY InvHolds, <1>2, PTL DEF Spec, FailureIsFinal
=============================================================================
