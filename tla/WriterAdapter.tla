--------------------------- MODULE WriterAdapter ---------------------------
(***************************************************************************)
(* DecompressorWriterCustomIo (src/src/writer.rs): a writer of compressed  *)
(* bytes on top of a writer of decoded ones, the sink.  The sink may take  *)
(* only a part of what it is offered, or fail; a failure is for good,      *)
(* transient errors being retried below (src/src/io_wrappers.rs).          *)
(* Dropping the adapter and into_inner both close it.                      *)
(***************************************************************************)
EXTENDS DecoderCalls

CONSTANTS
  Streams,      (* compressed streams                                       *)
  MaxFile,      (* bound: how many bytes the caller may have to write       *)
  OutputLen     (* output_buffer.len()                                      *)

ASSUME WriterConstants ==
  /\ \A s \in Streams : IsStream(s)
  /\ MaxFile \in Nat
  /\ OutputLen \in Nat \ {0}

VARIABLES
  stream,                 (* what the caller writes                         *)
  dec,                    (* state: BrotliState                             *)
  error_if_invalid_data,  (* is the error still there to be given?          *)
  call,                   (* "none", "write" or "close"                     *)
  pc,                     (* "idle", "decode", or "send" to the sink        *)
  buf,                    (* buf.len() of the write under way               *)
  avail_in,
  input_offset,
  output_buffer,          (* its part [..output_offset]                     *)
  total_written,          (* bytes of it that the sink took                 *)
  op_result,
  answer,                 (* of the last call                               *)
  accepted,               (* history: sum of the lengths write answered     *)
  sink,                   (* history: the bytes the sink took               *)
  sink_failed,
  closed                  (* history: did a close return?                   *)

inVars == <<buf, avail_in, input_offset>>
outVars == <<output_buffer, total_written, op_result>>
sinkVars == <<sink, sink_failed>>
vars == <<stream, dec, error_if_invalid_data, call, pc, inVars, outVars, answer,
          accepted, sinkVars, closed>>

Init ==
  /\ stream \in Streams
  /\ dec = Fresh
  /\ error_if_invalid_data = TRUE
  /\ call = "none" /\ pc = "idle"
  /\ buf = 0 /\ avail_in = 0 /\ input_offset = 0
  /\ output_buffer = <<>> /\ total_written = 0 /\ op_result = "NeedsMoreInput"
  /\ answer = NoneYet
  /\ accepted = 0
  /\ sink = <<>> /\ sink_failed = FALSE
  /\ closed = FALSE

Return(a) ==
  /\ pc' = "idle"
  /\ answer' = a
  /\ accepted' = IF call = "write" THEN accepted + a.n ELSE accepted
  /\ closed' = (closed \/ call = "close")
GoOn(label) == pc' = label /\ UNCHANGED <<answer, accepted, closed>>

\* error_if_invalid_data.take(): the error once, Ok ever after.
ReturnInvalidData ==
  /\ Return(IF error_if_invalid_data THEN Err("InvalidData") ELSE Ok(0))
  /\ error_if_invalid_data' = FALSE

-----------------------------------------------------------------------------
(* The calls                                                               *)

\* write(buf) is called with the n bytes behind those accepted so far.  A
\* caller stops writing when the sink failed or the adapter was closed.
Write(n) ==
  /\ pc = "idle"
  /\ ~sink_failed /\ ~closed
  /\ accepted + n <= MaxFile
  /\ call' = "write" /\ pc' = "decode"
  /\ buf' = n /\ avail_in' = n /\ input_offset' = 0
  /\ UNCHANGED <<stream, dec, error_if_invalid_data, outVars, answer, accepted,
                 sinkVars, closed>>

\* close, into_inner or drop is called.
Close ==
  /\ pc = "idle"
  /\ call' = "close" /\ pc' = "decode"
  /\ buf' = 0 /\ avail_in' = 0 /\ input_offset' = 0
  /\ UNCHANGED <<stream, dec, error_if_invalid_data, outVars, answer, accepted,
                 sinkVars, closed>>

\* The call of the decoder.  In close its output is dropped when the error was
\* given before: "already closed".
Decode ==
  /\ pc = "decode"
  /\ \E a \in Answers(stream, dec, avail_in, OutputLen) :
       /\ dec' = After(dec, a)
       /\ avail_in' = avail_in - a.took
       /\ input_offset' = input_offset + a.took
       /\ output_buffer' = Output(dec, a)
       /\ op_result' = a.result
  /\ total_written' = 0
  /\ IF call = "close" /\ ~error_if_invalid_data
     THEN Return(Ok(0))
     ELSE GoOn("send")
  /\ UNCHANGED <<stream, error_if_invalid_data, call, buf, sinkVars>>

-----------------------------------------------------------------------------
(* write_all                                                               *)

Unsent == Len(output_buffer) - total_written

\* The sink takes n of the bytes offered.  (Mutant: the offer always starts at
\* the front of the buffer.)
MutantOffersFront(n) ==
  /\ pc = "send"
  /\ ~sink_failed
  /\ n <= Unsent
  /\ sink' = sink \o SubSeq(output_buffer, 1, n)
  /\ total_written' = total_written + n
  /\ UNCHANGED <<stream, dec, error_if_invalid_data, call, pc, inVars,
                 output_buffer, op_result, answer, accepted, sink_failed, closed>>
SinkTakes(n) ==
  /\ pc = "send"
  /\ ~sink_failed
  /\ n <= Unsent
  /\ sink' = sink \o SubSeq(output_buffer, total_written + 1, total_written + n)
  /\ total_written' = total_written + n
  /\ UNCHANGED <<stream, dec, error_if_invalid_data, call, pc, inVars,
                 output_buffer, op_result, answer, accepted, sink_failed, closed>>

\* The sink fails: what is left of the output is gone, and how much of the
\* input was consumed is not reported.
SinkFails ==
  /\ pc = "send" /\ Unsent > 0
  /\ sink_failed' = TRUE
  /\ Return(Err("sink"))
  /\ UNCHANGED <<stream, dec, error_if_invalid_data, call, inVars, outVars, sink>>

-----------------------------------------------------------------------------
(* What follows write_all                                                  *)

Sent == pc = "send" /\ Unsent = 0

\* (Mutant: close waits for more input, too.)
MutantCloseWaits ==
  /\ Sent
  /\ \/ op_result = "NeedsMoreOutput"
     \/ op_result = "NeedsMoreInput" /\ call = "close"
  /\ GoOn("decode")
  /\ UNCHANGED <<stream, dec, error_if_invalid_data, call, inVars, outVars,
                 sinkVars>>
DecodeAgain ==
  /\ Sent
  /\ op_result = "NeedsMoreOutput"
  /\ GoOn("decode")
  /\ UNCHANGED <<stream, dec, error_if_invalid_data, call, inVars, outVars,
                 sinkVars>>

\* Success: write answers how much it consumed.  (Mutant: it answers the
\* length of the buffer.)
MutantAnswersBufLen ==
  /\ Sent
  /\ op_result = "ResultSuccess"
  /\ Return(Ok(IF call = "write" THEN buf ELSE 0))
  /\ UNCHANGED <<stream, dec, error_if_invalid_data, call, inVars, outVars,
                 sinkVars>>
Succeed ==
  /\ Sent
  /\ op_result = "ResultSuccess"
  /\ Return(Ok(IF call = "write" THEN input_offset ELSE 0))
  /\ UNCHANGED <<stream, dec, error_if_invalid_data, call, inVars, outVars,
                 sinkVars>>

\* write of a piece the decoder wants more of: it asserts that all of it was
\* consumed (a violated assertion would stop the call, see CallsReturn) and
\* leaves the loop.
WriteWantsMore ==
  /\ Sent /\ call = "write"
  /\ op_result = "NeedsMoreInput"
  /\ avail_in = 0
  /\ Return(Ok(buf))
  /\ UNCHANGED <<stream, dec, error_if_invalid_data, call, inVars, outVars,
                 sinkVars>>

\* A failure - and in close a stream that is not at its end.
GiveUp ==
  /\ Sent
  /\ \/ op_result = "ResultFailure"
     \/ op_result = "NeedsMoreInput" /\ call = "close"
  /\ ReturnInvalidData
  /\ UNCHANGED <<stream, dec, call, inVars, outVars, sinkVars>>

SinkTakesSome == \E n \in 1..OutputLen : SinkTakes(n)
Proceed == Decode \/ DecodeAgain \/ Succeed \/ WriteWantsMore \/ GiveUp

Next ==
  \/ \E n \in 0..MaxFile : Write(n)
  \/ Close
  \/ Proceed
  \/ SinkTakesSome
  \/ SinkFails

Spec == Init /\ [][Next]_vars

\* The code runs while a call is under way, and the sink, offered bytes often
\* enough, takes one or fails: write_all does not end while it takes nothing.
LiveSpec ==
  Spec /\ WF_vars(Proceed) /\ WF_vars(SinkTakesSome \/ SinkFails)

-----------------------------------------------------------------------------
(* Properties                                                              *)

\* The sink has the decoded bytes in order, each once, whatever part of a
\* buffer it took at a time, and also when it failed at last; while nothing
\* failed and nothing was closed, no call returns with a byte that the decoder
\* gave and the sink has not.  When close (or into_inner) answers Ok and no
\* error was given before, neither of the stream nor of the sink, the stream is
\* complete and the sink has all of it.
SinkIsPrefix ==
  /\ sink = Decoded(Len(sink))
  /\ pc = "idle" /\ ~sink_failed /\ ~closed => Len(sink) = dec.given
  /\ (/\ pc = "idle" /\ call = "close" /\ answer.kind = "ok"
      /\ error_if_invalid_data /\ ~sink_failed)
     => Complete(stream, dec) /\ sink = Decoded(Total(stream))

\* What write answered is what the decoder consumed, so a caller who goes on
\* behind it neither skips nor repeats a compressed byte - and leaves alone
\* what follows the stream.
AnswersWhatItTook ==
  pc = "idle" /\ ~sink_failed /\ ~dec.failed => accepted = dec.fed

\* Every call returns.
CallsReturn == pc # "idle" ~> pc = "idle"
=============================================================================
