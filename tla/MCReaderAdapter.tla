-------------------------- MODULE MCReaderAdapter --------------------------
(* Small instances of ReaderAdapter: streams of 4 bytes, good and bad, that    *)
(* yield their decoded bytes at different places.                            *)
EXTENDS ReaderAdapter

MCStreams ==
  {[yields |-> <<0, 2, 2, 3>>, bad |-> FALSE],
   [yields |-> <<0, 0, 0, 3>>, bad |-> FALSE],
   [yields |-> <<1, 1, 3, 3>>, bad |-> TRUE]}
=============================================================================
