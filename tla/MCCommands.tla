----------------------------- MODULE MCCommands -----------------------------
(* A small instance of Commands. *)
EXTENDS Commands

MCLengthOffsets == <<1, 3>>

\* Block switches and the distance cache are explored side by side, and not in
\* all combinations: a stream that switches blocks has two commands and one
\* distance of its own; one that does not uses all symbols in one context.
OneThingAtATime ==
  IF \E c \in Categories : num_block_types[c] > 1
  THEN commands <= 2 /\ blocks = 0 /\ symbol \in {0, 20}
  ELSE context = 0
=============================================================================
