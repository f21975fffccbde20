------------------------- MODULE MCMetablockTables -------------------------
(* A small instance of MetablockTables. *)
EXTENDS MetablockTables, TLC

Order == <<1, 2, 3, 4, 0, 5, 7, 6>>
ThreeAlphabets == 0 :> 6 @@ 1 :> 4 @@ 2 :> 6
ThreeMaxima == 0 :> 6 @@ 1 :> 4 @@ 2 :> 5

TreesBuilt == Len(meant_codes[0]) + Len(meant_codes[1]) + Len(meant_codes[2])

\* What is explored, one part after the other.  The numbers of block types vary by
\* themselves; the symbols of the code of a map are the first of its alphabet.
MapsInPart ==
  /\ substate_context_map \notin {"NONE"} =>
       /\ \A g \in Groups : num_block_types[g] = 1
       /\ substate_huffman # "COMPLEX"
       /\ substate_context_map = "HUFFMAN" =>
            running /\ \A k \in DOMAIN said : said[k] = k - 1

\* The codes for code lengths that lengths are then read in: without repeats, with
\* repeats, and those of a single symbol.  What the space cannot hold is followed for
\* three fields, and an interrupted call resumes a loop at a few places.
CodesInPart ==
  LET used == {c \in CodeLengthCodes : code_length_code_lengths[c] # 0} IN
  /\ loop = "codes" => saved.sub_loop_counter \in {0, 2, 3, 5}
  /\ substate_huffman = "LENGTH_SYMBOLS" =>
    /\ \/ Cardinality(used) = 1 /\ \A c \in used : code_length_code_lengths[c] = 1
       \/ /\ used = 1..5
          /\ \A c \in used : code_length_code_lengths[c] = IF c <= 3 THEN 2 ELSE 3
       \/ /\ used = {0, 1, 2, 3, 6, 7}
          /\ \A c \in used : code_length_code_lengths[c] = IF c \in {1, 2} THEN 2 ELSE 3
    /\ Copies.space \notin 0..2^MaxCodeLength => Len(said) <= 3
    /\ loop = "fast" => saved.symbol \in {0, 3}

\* The groups are read behind maps of zeros, and behind the first tree of literals a
\* tree has one symbol.
TreesInPart ==
  /\ state = "TREE_GROUP" =>
       /\ \A g \in Groups : num_block_types[g] = 1
       /\ num_htrees[0] = 2 /\ num_htrees[2] = 1
       /\ \A c \in DOMAIN context_map[0] : context_map[0][c] = 0
       /\ max_run_length_prefix = 0 /\ mtf_upper_bound = MtfSize - 1
       /\ TreesBuilt = 0 /\ substate_huffman = "NONE" => saved.symbol = 0
  /\ TreesBuilt > 0 =>
       /\ substate_huffman # "COMPLEX"
       /\ saved.symbol = 0 /\ running
       /\ said \in {<<>>, <<0>>}

Small == MapsInPart /\ CodesInPart /\ TreesInPart
=============================================================================
