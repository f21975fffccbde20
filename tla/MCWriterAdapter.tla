-------------------------- MODULE MCWriterAdapter --------------------------
(* Small instances of WriterAdapter: streams of 3 bytes, good and bad, that  *)
(* yield their decoded bytes at different places.                            *)
EXTENDS WriterAdapter

MCStreams ==
  {[yields |-> <<0, 3, 4>>, bad |-> FALSE],
   [yields |-> <<2, 2, 4>>, bad |-> FALSE],
   [yields |-> <<0, 0, 4>>, bad |-> FALSE],
   [yields |-> <<0, 2, 3>>, bad |-> TRUE]}
=============================================================================
