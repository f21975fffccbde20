----------------------------- MODULE MCCopyLoop -----------------------------
(* Small instances of CopyLoop: streams of 4 bytes, good and bad, that yield *)
(* their decoded bytes at different places.                                  *)
EXTENDS CopyLoop

MCStreams ==
  {[yields |-> <<0, 3, 3, 5>>, bad |-> FALSE],
   [yields |-> <<2, 2, 2, 4>>, bad |-> FALSE],
   [yields |-> <<0, 0, 0, 5>>, bad |-> FALSE],
   [yields |-> <<0, 2, 3, 5>>, bad |-> TRUE]}
=============================================================================
