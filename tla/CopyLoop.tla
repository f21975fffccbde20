------------------------------ MODULE CopyLoop ------------------------------
(***************************************************************************)
(* BrotliDecompressCustomIoCustomDict (src/src/lib.rs), behind             *)
(* BrotliDecompress: the whole copy from a reader of compressed bytes, the *)
(* source, to a writer of decoded ones, the sink, in one call.  Both may   *)
(* be short or fail; the source may end early or go on after the stream.   *)
(***************************************************************************)
EXTENDS DecoderCalls

CONSTANTS
  Streams,      (* compressed streams                                       *)
  MaxFile,      (* bound: length of the source, which may be cut or longer  *)
  InputLen,     (* input_buffer.len()                                       *)
  OutputLen     (* output_buffer.len()                                      *)

\* The code asserts that neither buffer is empty.
ASSUME CopyConstants ==
  /\ \A s \in Streams : IsStream(s)
  /\ MaxFile \in Nat
  /\ InputLen \in Nat \ {0} /\ OutputLen \in Nat \ {0}

VARIABLES
  stream,          (* what the source begins with                           *)
  file,            (* the length of the source                              *)
  read,            (* bytes the source gave                                 *)
  dec,             (* brotli_state                                          *)
  available_in,
  input_offset,
  input_len,       (* history: the part of input_buffer that was read into  *)
  available_out,
  output_offset,
  output_buffer,   (* its part [..output_offset]                            *)
  total_written,   (* bytes of it that the sink took                        *)
  result,
  pc,              (* "match", "decode", "send", or "done"                  *)
  answer,
  sink             (* history: the bytes the sink took                      *)

fileVars == <<stream, file, read>>
inVars == <<available_in, input_offset, input_len>>
outVars == <<available_out, output_offset, output_buffer, total_written>>
vars == <<fileVars, dec, inVars, outVars, result, pc, answer, sink>>

Init ==
  /\ stream \in Streams /\ file \in 0..MaxFile /\ read = 0
  /\ dec = Fresh
  /\ available_in = 0 /\ input_offset = 0 /\ input_len = 0
  /\ available_out = OutputLen /\ output_offset = 0
  /\ output_buffer = <<>> /\ total_written = 0
  /\ result = "NeedsMoreInput"
  /\ pc = "match"
  /\ answer = NoneYet
  /\ sink = <<>>

Return(a) == pc' = "done" /\ answer' = a

-----------------------------------------------------------------------------
(* match result                                                            *)

\* The source fills a part of the buffer, from its start.
ReadSome(n) ==
  /\ pc = "match" /\ result = "NeedsMoreInput"
  /\ n <= file - read
  /\ read' = read + n
  /\ available_in' = n /\ input_offset' = 0 /\ input_len' = n
  /\ pc' = "decode"
  /\ UNCHANGED <<stream, file, dec, outVars, result, answer, sink>>

\* The source ends before the stream.
ReadNothing ==
  /\ pc = "match" /\ result = "NeedsMoreInput"
  /\ read = file
  /\ Return(Err("UnexpectedEof"))
  /\ input_offset' = 0
  /\ UNCHANGED <<fileVars, dec, available_in, input_len, outVars, result, sink>>

ReadFails ==
  /\ pc = "match" /\ result = "NeedsMoreInput"
  /\ Return(Err("source"))
  /\ input_offset' = 0
  /\ UNCHANGED <<fileVars, dec, available_in, input_len, outVars, result, sink>>

\* NeedsMoreOutput: the loop that writes here finds nothing to write, the
\* output was written behind the call.
OutputWritten ==
  /\ pc = "match" /\ result = "NeedsMoreOutput"
  /\ output_offset' = 0
  /\ pc' = "decode"
  /\ UNCHANGED <<fileVars, dec, inVars, available_out, output_buffer,
                 total_written, result, answer, sink>>

\* A stream at its end is a success, an invalid one an error.
Finish ==
  /\ pc = "match" /\ result \in {"ResultSuccess", "ResultFailure"}
  /\ Return(IF result = "ResultSuccess" THEN Ok(0) ELSE Err("UnexpectedEof"))
  /\ UNCHANGED <<fileVars, dec, inVars, outVars, result, sink>>

-----------------------------------------------------------------------------
(* The call of the decoder, and the output behind it                       *)

Decode ==
  /\ pc = "decode"
  /\ \E a \in Answers(stream, dec, available_in, available_out) :
       /\ dec' = After(dec, a)
       /\ available_in' = available_in - a.took
       /\ input_offset' = input_offset + a.took
       /\ available_out' = available_out - a.wrote
       /\ output_offset' = output_offset + a.wrote
       /\ output_buffer' = output_buffer \o Output(dec, a)
       /\ result' = a.result
       /\ pc' = IF output_offset' # 0 THEN "send" ELSE "match"
  /\ total_written' = 0
  /\ UNCHANGED <<fileVars, input_len, answer, sink>>

\* The sink takes n bytes.  Behind the last one the buffer is empty again.
\* (Mutants: the room for output is not given back; one short write is all.)
MutantKeepsRoom(n) ==
  /\ pc = "send"
  /\ n <= output_offset - total_written
  /\ sink' = sink \o SubSeq(output_buffer, total_written + 1, total_written + n)
  /\ IF total_written + n < output_offset
     THEN total_written' = total_written + n
          /\ UNCHANGED <<available_out, output_offset, output_buffer, pc>>
     ELSE total_written' = 0 /\ output_offset' = 0 /\ output_buffer' = <<>>
          /\ pc' = "match" /\ UNCHANGED available_out
  /\ UNCHANGED <<fileVars, dec, inVars, result, answer>>
MutantWritesOnce(n) ==
  /\ pc = "send"
  /\ n <= output_offset
  /\ sink' = sink \o SubSeq(output_buffer, 1, n)
  /\ total_written' = 0 /\ output_offset' = 0 /\ output_buffer' = <<>>
  /\ available_out' = OutputLen
  /\ pc' = "match"
  /\ UNCHANGED <<fileVars, dec, inVars, result, answer>>
SinkTakes(n) ==
  /\ pc = "send"
  /\ n <= output_offset - total_written
  /\ sink' = sink \o SubSeq(output_buffer, total_written + 1, total_written + n)
  /\ IF total_written + n < output_offset
     THEN total_written' = total_written + n
          /\ UNCHANGED <<available_out, output_offset, output_buffer, pc>>
     ELSE total_written' = 0 /\ output_offset' = 0 /\ output_buffer' = <<>>
          /\ pc' = "match" /\ available_out' = OutputLen
  /\ UNCHANGED <<fileVars, dec, inVars, result, answer>>

\* The sink takes nothing, or fails.
SinkFails ==
  /\ pc = "send"
  /\ \E what \in {"UnexpectedEof", "sink"} : Return(Err(what))
  /\ UNCHANGED <<fileVars, dec, inVars, outVars, result, sink>>

Next ==
  \/ \E n \in 1..InputLen : ReadSome(n)
  \/ ReadNothing
  \/ ReadFails
  \/ OutputWritten
  \/ Finish
  \/ Decode
  \/ \E n \in 1..OutputLen : SinkTakes(n)
  \/ SinkFails

Spec == Init /\ [][Next]_vars

\* Source and sink answer every call.
LiveSpec == Spec /\ WF_vars(Next)

-----------------------------------------------------------------------------
(* Properties                                                              *)

\* The sink has the decoded bytes in order, each once, however short its
\* writes are; with what is in the buffer they are all the decoder gave.  The
\* decoder is called with slices inside both buffers.  Ok means that the whole
\* stream was decoded and that the sink has all of it.
SinkIsPrefix ==
  /\ sink = Decoded(Len(sink))
  /\ pc # "done" => Len(sink) + (output_offset - total_written) = dec.given
  /\ input_offset + available_in <= InputLen
  /\ output_offset + available_out <= OutputLen
  /\ answer.kind = "ok" => Complete(stream, dec) /\ sink = Decoded(Total(stream))

\* The loop ends - with Ok unless the stream is invalid or cut, or source or
\* sink fail.
LoopEnds ==
  /\ <>(pc = "done")
  /\ [][pc' = "done" /\ ~ReadFails /\ ~SinkFails /\ ~stream.bad
          /\ file >= Size(stream) => answer'.kind = "ok"]_vars
=============================================================================
