--------------------------- MODULE MCStreamHeader ---------------------------
(* A small instance of StreamHeader. *)
EXTENDS StreamHeader

\* Few block types of every category but one, and of that one any number.
OneLongCount == \A c, d \in Categories :
  c # d => num_block_types[c] <= 2 \/ num_block_types[d] <= 2

\* The parts of the headers are explored one after the other, and not in all
\* combinations: what is behind a part goes on from some cases of it.
OnePartAtATime ==
  /\ part # "window" => window_bits = 16 /\ ~asked_large
  /\ skipped > 2 => meta_block_remaining_len = 0
  /\ part \notin {"window", "header", "body"} =>
       meta_block_remaining_len = 1 /\ size_nibbles = 4
  /\ part \in {"count", "codes"} => OneLongCount
  /\ part \in {"distances", "modes"} =>
       num_block_types[0] < 4 /\ num_block_types[1] = 1 /\ num_block_types[2] = 1
  /\ part = "modes" => distance_postfix_bits = 1 /\ num_direct_distance_codes = 18
  /\ blocks > 0 => /\ \A c \in Categories : num_block_types[c] <= 2
                   /\ \A k \in DOMAIN context_modes : context_modes[k] = 0
                   /\ size_nibbles <= 4
=============================================================================
