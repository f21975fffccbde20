-------------------------- MODULE MetablockTables --------------------------
(***************************************************************************)
(* The tables of a compressed meta-block (src/src/decode.rs): the context  *)
(* maps of literals and of distances, and the three groups of prefix codes *)
(* the maps and the block types select from.  Each map has a prefix code   *)
(* of its own, in a table that both use in turn.                           *)
(*                                                                         *)
(* The numbers of block types are read before, and the number of codes of  *)
(* a map is read as one field here: StreamHeader has DecodeVarLenUint8.    *)
(***************************************************************************)
EXTENDS PrefixCode

CONSTANTS
  kLiteralContextBits,        (* 6                                          *)
  kDistanceContextBits,       (* 2                                          *)
  MtfSize,                    (* 256, the values the transform knows        *)
  MaxTableSize,               (* BROTLI_HUFFMAN_MAX_TABLE_SIZE: 1080        *)
  Alphabets,                  (* alphabet_size of each group                *)
  MaxSymbols,                 (* max_symbol of each group                   *)
  MaxRun,                     (* bound: run length prefixes, of 16          *)
  MaxTypes                    (* bound: block types, and codes of a map     *)

Groups == 0..2                (* literals, commands, distances              *)

ASSUME MetablockTablesConstants ==
  /\ {kDistanceContextBits, MaxRun} \subseteq Nat
  /\ kLiteralContextBits \in Nat \ {0, 1}
  /\ {MtfSize, MaxTableSize, MaxTypes} \subseteq Nat \ {0}
  /\ \A g \in Groups : MaxSymbols[g] <= Alphabets[g] /\ Alphabets[g] <= MaxAlphabet
  /\ MaxTypes <= MtfSize

VARIABLES
  state,
  num_block_types,            (* of each category                           *)
  substate_context_map,
  num_htrees,                 (* num_literal_htrees, num_dist_htrees        *)
  context_map,                (* context_map, dist_context_map              *)
  context_index, code,        (* the fields of the state                    *)
  in_map,                     (* a call is in the loop over a map           *)
  index_copy, code_copy,      (* and its copies of them                     *)
  max_run_length_prefix,
  context_map_table,
  mtf, mtf_upper_bound,
  trivial_literal_contexts,   (* the block types of its bits                *)
  loop_counter,
  substate_tree_group,
  htree_index, htree_next_offset,
  htrees, codes,              (* of the three groups                        *)
  said_map,                   (* history: the fields of this map            *)
  meant_map,                  (* history: what the fields of a map say      *)
  meant_map_code,             (* history: the code of its items             *)
  meant_codes                 (* history: the code of each tree of a group  *)

mapVars == <<substate_context_map, num_htrees, context_map, context_index, code,
             in_map, index_copy, code_copy, max_run_length_prefix, context_map_table>>
mtfVars == <<mtf, mtf_upper_bound>>
groupVars == <<loop_counter, substate_tree_group, htree_index, htree_next_offset, htrees,
               codes, meant_codes>>
historyVars == <<said_map, meant_map, meant_map_code>>
tableVars == <<state, num_block_types, mapVars, mtfVars, trivial_literal_contexts,
               groupVars, historyVars>>
vars == <<callVars, codeVars, tableVars>>

Maps == {0, 2}
NoTable == [i \in 0..(MaxTableSize - 1) |-> Entry(0, 0)]

Init ==
  /\ running = TRUE /\ error = "none" /\ CodeInit
  /\ state = "CONTEXT_MAP_1"
  /\ num_block_types \in [Groups -> 1..MaxTypes]
  /\ substate_context_map = "NONE"
  /\ num_htrees = [m \in Maps |-> 0]
  /\ context_map = [m \in Maps |-> <<>>]
  /\ context_index = 0 /\ code = 0
  /\ in_map = FALSE /\ index_copy = 0 /\ code_copy = 0
  /\ max_run_length_prefix = 0
  /\ context_map_table = NoTable
  /\ mtf = [k \in 0..(MtfSize - 1) |-> 0] /\ mtf_upper_bound = MtfSize - 1
  /\ trivial_literal_contexts = {}
  /\ loop_counter = 0
  /\ substate_tree_group = "NONE"
  /\ htree_index = 0 /\ htree_next_offset = 0
  /\ htrees = [g \in Groups |-> <<>>]
  /\ codes = [g \in Groups |-> <<>>]
  /\ said_map = <<>>
  /\ meant_map = [m \in Maps |-> <<>>] /\ meant_map_code = <<>>
  /\ meant_codes = [g \in Groups |-> <<>>]

-----------------------------------------------------------------------------
(* Context maps                                                            *)

\* The map that is read, by the state, and its entries.
Map == IF state = "CONTEXT_MAP_1" THEN 0 ELSE 2
ContextMapSize ==
  num_block_types[Map] * 2^(IF Map = 0 THEN kLiteralContextBits ELSE kDistanceContextBits)

InMap(s) ==
  /\ running /\ error = "none" /\ state \in {"CONTEXT_MAP_1", "CONTEXT_MAP_2"}
  /\ substate_context_map = s

\* DetectTrivialLiteralBlockTypes.
TrivialTypes(map) ==
  {t \in 0..(num_block_types[0] - 1) :
     \A c \in 0..(2^kLiteralContextBits - 1) :
       map[t * 2^kLiteralContextBits + c] = map[t * 2^kLiteralContextBits]}

\* HuffmanTreeGroup::init, for trees that a category has.
FreshTrees(n) == [k \in 0..(n - 1) |-> 0]
FreshCodes(n) == [i \in 0..(n * MaxTableSize - 1) |-> Entry(0, 0)]

\* A map is there: the literals' is scanned, behind the distances' the groups are
\* made.
MapDone(map, trees) ==
  IF state = "CONTEXT_MAP_1"
  THEN /\ state' = "CONTEXT_MAP_2"
       /\ trivial_literal_contexts' = TrivialTypes(map)
       /\ UNCHANGED groupVars
  ELSE LET count == [g \in Groups |-> IF g = 0 THEN num_htrees[0]
                                      ELSE IF g = 1 THEN num_block_types[1] ELSE trees]
       IN /\ state' = "TREE_GROUP" /\ loop_counter' = 0
          /\ htrees' = [g \in Groups |-> FreshTrees(count[g])]
          /\ codes' = [g \in Groups |-> FreshCodes(count[g])]
          /\ UNCHANGED <<trivial_literal_contexts, substate_tree_group, htree_index,
                         htree_next_offset, meant_codes>>

\* The number of codes.  A map for a single one has nothing more.
ReadTreeCount(n) ==
  /\ InMap("NONE") /\ Goes
  /\ num_htrees' = [num_htrees EXCEPT ![Map] = n]
  /\ context_index' = 0
  /\ context_map' = [context_map EXCEPT ![Map] = [k \in 0..(ContextMapSize - 1) |-> 0]]
  /\ IF n = 1
     THEN /\ MapDone(context_map'[Map], n)
          /\ meant_map' = [meant_map EXCEPT ![Map] = context_map'[Map]]
          /\ UNCHANGED substate_context_map
     ELSE /\ substate_context_map' = "READ_PREFIX"
          /\ UNCHANGED <<state, trivial_literal_contexts, groupVars, meant_map>>
  /\ UNCHANGED <<codeVars, num_block_types, code, in_map, index_copy, code_copy,
                 max_run_length_prefix, context_map_table, mtfVars, said_map,
                 meant_map_code>>

ReadRunLengthPrefix(r) ==
  /\ InMap("READ_PREFIX") /\ Goes
  /\ max_run_length_prefix' = r
  /\ substate_context_map' = "HUFFMAN"
  /\ UNCHANGED <<codeVars, state, num_block_types, num_htrees, context_map, context_index,
                 code, in_map, index_copy, code_copy, context_map_table, mtfVars,
                 trivial_literal_contexts, groupVars, historyVars>>

MapAlphabet == num_htrees[Map] + max_run_length_prefix
NoCode == 65535

Overwritten(old, at, new) ==
  [i \in DOMAIN old |-> IF i - at \in DOMAIN new THEN new[i - at] ELSE old[i]]

MapCodeStep ==
  /\ InMap("HUFFMAN") /\ CodeStep(MapAlphabet, MapAlphabet)
  /\ UNCHANGED tableVars
MapCodeBuilt(built, meant) ==
  /\ InMap("HUFFMAN")
  /\ context_map_table' = Overwritten(context_map_table, 0, built.table)
  /\ code' = NoCode
  /\ substate_context_map' = "DECODE"
  /\ meant_map_code' = meant /\ said_map' = <<>>
  /\ UNCHANGED <<state, num_block_types, num_htrees, context_map, context_index,
                 in_map, index_copy, code_copy, max_run_length_prefix, mtfVars,
                 trivial_literal_contexts, groupVars, meant_map>>

-----------------------------------------------------------------------------
(* The items of a map                                                      *)

itemVars == <<codeVars, state, num_block_types, num_htrees, max_run_length_prefix,
              context_map_table, mtfVars, trivial_literal_contexts, groupVars, meant_map,
              meant_map_code>>

EnterMap ==
  /\ InMap("DECODE") /\ ~in_map /\ in_map' = TRUE /\ Goes
  /\ index_copy' = context_index /\ code_copy' = code
  /\ UNCHANGED <<itemVars, substate_context_map, context_map, context_index, code, said_map>>

MapCodes == {DecodeSymbol(context_map_table, bits).value : bits \in 0..(2^MaxCodeLength - 1)}
AtItem == InMap("DECODE") /\ in_map /\ code_copy = NoCode /\ index_copy < ContextMapSize

\* A value of its own, or the prefix of a run of zeros, whose extra bits follow.
ReadItem(c) ==
  /\ AtItem /\ Goes
  /\ said_map' = Append(said_map, [code |-> c, extra |-> IF c \in 1..max_run_length_prefix
                                                         THEN -1 ELSE 0])
  /\ IF c \in 1..max_run_length_prefix
     THEN code_copy' = c /\ UNCHANGED <<context_map, index_copy>>
     ELSE /\ context_map' = [context_map EXCEPT
               ![Map][index_copy] = IF c = 0 THEN 0 ELSE c - max_run_length_prefix]
          /\ index_copy' = index_copy + 1
          /\ UNCHANGED code_copy
  /\ UNCHANGED <<itemVars, substate_context_map, context_index, code, in_map>>

ReadRun(extra) ==
  /\ InMap("DECODE") /\ in_map /\ code_copy # NoCode
  /\ extra < 2^code_copy
  /\ said_map' = [said_map EXCEPT ![Len(said_map)].extra = extra]
  /\ LET reps == extra + 2^code_copy IN
     IF index_copy + reps > ContextMapSize
     THEN Fail("CONTEXT_MAP_REPEAT") /\ UNCHANGED <<context_map, index_copy, code_copy>>
     ELSE /\ context_map' = [context_map EXCEPT ![Map] = [k \in DOMAIN @ |->
               IF k \in index_copy..(index_copy + reps - 1) THEN 0 ELSE @[k]]]
          /\ index_copy' = index_copy + reps
          /\ code_copy' = NoCode
          /\ Goes
  /\ UNCHANGED <<itemVars, substate_context_map, context_index, code, in_map>>

MapRead ==
  /\ InMap("DECODE") /\ in_map /\ code_copy = NoCode /\ index_copy >= ContextMapSize
  /\ substate_context_map' = "TRANSFORM"
  /\ in_map' = FALSE /\ index_copy' = 0 /\ code_copy' = 0 /\ Goes
  /\ UNCHANGED <<itemVars, context_map, context_index, code, said_map>>

-----------------------------------------------------------------------------
(* The move-to-front transform                                             *)

\* The bits that any of the values has.
OrOf(values) ==
  LET or[b \in 0..MtfSize] ==
        IF b = 0 THEN 0
        ELSE or[b - 1] + IF \E v \in values : (v \div 2^(b - 1)) % 2 = 1 THEN 2^(b - 1) ELSE 0
      width == CHOOSE w \in 0..MtfSize : \A v \in values : v < 2^w
  IN or[width]

\* The elements that the last transform may have moved are set again.  (Mutant: but
\* for the last of them.)
MutantOneShort(bound) == [k \in DOMAIN mtf |-> IF k < bound THEN k ELSE mtf[k]]
Reinitialized(bound) == [k \in DOMAIN mtf |-> IF k <= bound THEN k ELSE mtf[k]]

\* InverseMoveToFrontTransform: the map, and the list it leaves.
Transformed(map) ==
  LET n == Cardinality(DOMAIN map)
      step[k \in 0..n] ==
        IF k = 0 THEN [map |-> map, mtf |-> Reinitialized(mtf_upper_bound)]
        ELSE LET b == step[k - 1]
                 x == map[k - 1]
                 y == b.mtf[x]
             IN [map |-> [b.map EXCEPT ![k - 1] = y],
                 mtf |-> [j \in DOMAIN mtf |->
                            IF j = 0 THEN y ELSE IF j <= x THEN b.mtf[j - 1] ELSE b.mtf[j]]]
  IN step[n]

\* The items at once, and the transform by its own list.
Items ==
  LET upto[k \in 0..Len(said_map)] ==
        IF k = 0 THEN <<>>
        ELSE upto[k - 1] \o
             IF said_map[k].extra < 0 THEN <<>>
             ELSE IF said_map[k].code = 0 THEN <<0>>
             ELSE IF said_map[k].code <= max_run_length_prefix
             THEN [j \in 1..(2^said_map[k].code + said_map[k].extra) |-> 0]
             ELSE <<said_map[k].code - max_run_length_prefix>>
  IN upto[Len(said_map)]
MovedToFront(items) ==
  LET fresh == [j \in 1..MtfSize |-> j - 1]
      step[k \in 0..Len(items)] ==
        IF k = 0 THEN [list |-> fresh, out |-> <<>>]
        ELSE LET y == step[k - 1].list[items[k] + 1]
             IN [list |-> <<y>> \o SelectSeq(step[k - 1].list, LAMBDA z : z # y),
                 out |-> Append(step[k - 1].out, y)]
  IN step[Len(items)].out
FromZero(seq) == [k \in 0..(Len(seq) - 1) |-> seq[k + 1]]

ReadTransform(b) ==
  /\ InMap("TRANSFORM") /\ Goes
  /\ meant_map' = [meant_map EXCEPT
       ![Map] = FromZero(IF b = 1 THEN MovedToFront(Items) ELSE Items)]
  /\ said_map' = <<>> /\ meant_map_code' = <<>>
  /\ substate_context_map' = "NONE"
  /\ IF b = 1
     THEN LET done == Transformed(context_map[Map]) IN
          /\ context_map' = [context_map EXCEPT ![Map] = done.map]
          /\ mtf' = done.mtf
          /\ mtf_upper_bound' =
               OrOf({context_map[Map][k] : k \in DOMAIN context_map[Map]})
     ELSE UNCHANGED <<context_map, mtfVars>>
  /\ MapDone(context_map'[Map], num_htrees[Map])
  /\ UNCHANGED <<codeVars, num_block_types, num_htrees, context_index, code, in_map,
                 index_copy, code_copy, max_run_length_prefix, context_map_table>>

\* A field of a map is missing.
SavedCode == code_copy
MissMapField ==
  /\ running /\ error = "none" /\ running' = FALSE /\ UNCHANGED error
  /\ \/ /\ \E s \in {"NONE", "READ_PREFIX", "TRANSFORM"} : InMap(s)
        /\ UNCHANGED <<context_index, code>>
     \/ /\ in_map
        /\ code_copy # NoCode \/ (AtItem /\ context_map_table[0].bits # 0)
        /\ context_index' = index_copy /\ code' = SavedCode
  /\ in_map' = FALSE /\ index_copy' = 0 /\ code_copy' = 0
  /\ UNCHANGED <<itemVars, substate_context_map, context_map, said_map>>

-----------------------------------------------------------------------------
(* Groups of prefix codes                                                  *)

InGroup(s) ==
  /\ running /\ error = "none" /\ state = "TREE_GROUP" /\ substate_tree_group = s
AtTree == InGroup("LOOP") /\ htree_index < Cardinality(DOMAIN htrees[loop_counter])

otherVars == <<num_block_types, mapVars, mtfVars, trivial_literal_contexts, historyVars>>

\* A call finds the group begun, or begins it.
StartGroup ==
  /\ InGroup("NONE") /\ substate_tree_group' = "LOOP" /\ Goes
  /\ htree_next_offset' = 0 /\ htree_index' = 0
  /\ UNCHANGED <<codeVars, state, loop_counter, htrees, codes, meant_codes, otherVars>>

TreeStep ==
  /\ AtTree /\ CodeStep(Alphabets[loop_counter], MaxSymbols[loop_counter])
  /\ UNCHANGED tableVars
\* (Mutant: the trees are laid out as if each one were a root table.)
MutantRootOnly(size) == htree_next_offset + 2^RootBits
NextOffset(size) == htree_next_offset + size
TreeBuilt(built, meant) ==
  /\ AtTree
  /\ codes' = [codes EXCEPT ![loop_counter] =
                 Overwritten(@, htree_next_offset, built.table)]
  /\ htrees' = [htrees EXCEPT ![loop_counter][htree_index] = htree_next_offset]
  /\ htree_next_offset' = NextOffset(built.size)
  /\ htree_index' = htree_index + 1
  /\ meant_codes' = [meant_codes EXCEPT ![loop_counter] = Append(@, meant)]
  /\ UNCHANGED <<state, loop_counter, substate_tree_group, otherVars>>

GroupDone ==
  /\ InGroup("LOOP") /\ ~AtTree /\ substate_tree_group' = "NONE" /\ Goes
  /\ loop_counter' = loop_counter + 1
  /\ state' = IF loop_counter' >= 3 THEN "COMMAND_BEGIN" ELSE state
  /\ UNCHANGED <<codeVars, htree_index, htree_next_offset, htrees, codes, meant_codes,
                 otherVars>>

Resume ==
  /\ ~running /\ error = "none" /\ running' = TRUE /\ UNCHANGED error
  /\ UNCHANGED <<codeVars, tableVars>>

Max == IF state = "TREE_GROUP" THEN MaxSymbols[loop_counter] ELSE MapAlphabet

Next ==
  \/ Resume
  \/ \E n \in 1..MaxTypes : ReadTreeCount(n)
  \/ \E r \in 0..MaxRun : ReadRunLengthPrefix(r)
  \/ MapCodeStep \/ TreeStep
  \/ \E b \in SimpleBits :
       /\ BuildSimple(b)
       /\ \/ MapCodeBuilt(BuiltSimple(b), SimpleCodeOf(b))
          \/ TreeBuilt(BuiltSimple(b), SimpleCodeOf(b))
  \/ /\ LengthsRead(Max)
     /\ \/ MapCodeBuilt(BuiltComplex, CodeOf(SaidLengths))
        \/ TreeBuilt(BuiltComplex, CodeOf(SaidLengths))
  \/ EnterMap
  \/ \E c \in MapCodes : ReadItem(c)
  \/ \E extra \in 0..(2^MaxRun - 1) : ReadRun(extra)
  \/ MapRead
  \/ \E b \in 0..1 : ReadTransform(b)
  \/ MissMapField
  \/ StartGroup \/ GroupDone

Spec == Init /\ [][Next]_vars

-----------------------------------------------------------------------------
(* Properties                                                              *)

\* A code or a map is refused only when what was read of it cannot be one.
RefusedIsInvalid ==
  /\ error = "SIMPLE_HUFFMAN_ALPHABET" => said[Len(said)] >= Max
  /\ error = "SIMPLE_HUFFMAN_SAME" =>
       Cardinality({said[k] : k \in DOMAIN said}) < Len(said)
  /\ error = "CL_SPACE" =>
       LET given == Tail(said_codes) IN
       /\ Cardinality({k \in DOMAIN given : given[k] # 0}) # 1
       /\ 2^MaxCodeLengthCodeLength # SumTo(
            [k \in DOMAIN given |->
               IF given[k] = 0 THEN 0 ELSE 2^(MaxCodeLengthCodeLength - given[k])], Len(given))
  /\ error = "HUFFMAN_SPACE" => Len(SaidLengths) > Max \/ Left(SaidLengths) # 0
  /\ error = "CONTEXT_MAP_REPEAT" => Len(Items) > ContextMapSize

\* ReadHuffmanCode comes to what the fields of the code say at once, whatever part
\* of it a call ended in, and refuses only what cannot be a code.
LengthsAsSaid == CodesAsSaid /\ LengthsAsSaidFor(Max) /\ RefusedIsInvalid

\* The k-th tree of a group, as get_tree gives it.
Tree(g, k) ==
  [i \in 0..(Cardinality(DOMAIN codes[g]) - htrees[g][k - 1] - 1) |->
     codes[g][htrees[g][k - 1] + i]]

Decodes(tree, len) ==
  LET meant == CanonicalCode(len)
  IN \A bits \in 0..(2^MaxCodeLength - 1) : DecodeSymbol(tree, bits) = meant[bits]

\* All bits give the variants of looking up what they give DecodeSymbol, and those
\* that see only some of them do so exactly when these are enough.
Agrees(tree) ==
  \A bits \in 0..(2^MaxCodeLength - 1) :
    LET all == DecodeSymbol(tree, bits) IN
    /\ ReadPreloadedSymbol(tree, tree[bits % 2^RootBits], bits) = all
    /\ \A n \in 0..(MaxCodeLength - 1) :
         SafeDecodeSymbol(tree, bits % 2^n, n) = IF all.bits <= n THEN all ELSE Missing

\* For every tree of a group that is built, and for the code of a map's items, the
\* table decodes what the fields of its code say: no tree reaches into another one,
\* nothing is left over from the code before.
TreesDecode ==
  substate_huffman = "NONE" =>
    /\ \A g \in Groups : \A k \in DOMAIN meant_codes[g] :
         Decodes(Tree(g, k), meant_codes[g][k])
    /\ substate_context_map = "DECODE" => Decodes(context_map_table, meant_map_code)

\* A symbol is the same one whether its table was looked up ahead of it, at once, or
\* with the last few bits of the input.
ReadersAgree ==
  substate_huffman = "NONE" =>
    \A g \in Groups : \A k \in DOMAIN meant_codes[g] : Agrees(Tree(g, k))

\* A map has the values that its items say, in whatever parts they came, and the
\* transform starts for each map from the list that nothing was moved in.
MapAsSaid ==
  /\ state # "CONTEXT_MAP_1" => context_map[0] = meant_map[0]
  /\ state \in {"TREE_GROUP", "COMMAND_BEGIN"} => context_map[2] = meant_map[2]
  /\ substate_context_map = "DECODE" /\ error = "none" =>
       /\ Len(Items) = IF in_map THEN index_copy ELSE context_index
       /\ \A k \in DOMAIN Items : context_map[Map][k - 1] = Items[k]
       /\ LET begun == said_map # <<>> /\ said_map[Len(said_map)].extra < 0
          IN (IF in_map THEN code_copy ELSE code)
               = IF begun THEN said_map[Len(said_map)].code ELSE NoCode
=============================================================================
