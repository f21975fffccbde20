-------------------------- MODULE CopyLoop_proofs --------------------------
(***************************************************************************)
(* The sink of the copy loop has the decoded bytes in order, whatever the  *)
(* source and the sink do and however long the buffers are; Ok means that  *)
(* it has all of them.                                                     *)
(***************************************************************************)
EXTENDS CopyLoop, SequenceTheorems, TLAPS

\* The decoder belongs to the stream, and a success is the end of it.
DecoderInv ==
  /\ stream \in Streams
  /\ IsDecoder(stream, dec)
  /\ result = "ResultSuccess" => Complete(stream, dec)

\* The slices the decoder is called with are in the buffers.
SlicesInv ==
  /\ available_in \in Nat /\ input_offset \in Nat
  /\ input_offset + available_in <= InputLen
  /\ available_out \in Nat /\ output_offset \in Nat
  /\ output_offset + available_out <= OutputLen

\* The output buffer holds what the decoder gave last, and is empty when the
\* decoder is called.
BufferInv ==
  /\ output_buffer \in Seq(Int) /\ Len(output_buffer) = output_offset
  /\ \A k \in 1..output_offset :
       output_buffer[k] = dec.given - output_offset + k - 1
  /\ total_written \in 0..output_offset
  /\ pc \in {"match", "decode"} => output_offset = 0

\* The sink has what came before.
SinkInv ==
  /\ sink \in Seq(Int)
  /\ sink = Decoded(Len(sink))
  /\ pc # "done" => Len(sink) + (output_offset - total_written) = dec.given
  /\ answer.kind = "ok" =>
       pc = "done" /\ Complete(stream, dec) /\ sink = Decoded(Total(stream))

CopyInv == DecoderInv /\ SlicesInv /\ BufferInv /\ SinkInv

-----------------------------------------------------------------------------
(* One call of the decoder                                                 *)

\* The numbers of a stream are numbers.
LEMMA SizeIsPositive ==
  ASSUME NEW s, IsStream(s)
  PROVE  /\ Size(s) \in Nat \ {0} /\ Total(s) \in Nat
         /\ \A k \in 0..Size(s) : Decodable(s, k) \in Nat
BY DEF IsStream, Size, Total, Decodable

\* The first decoded bytes are a sequence of that length.
LEMMA DecodedFacts ==
  ASSUME NEW n \in Nat
  PROVE  /\ Decoded(n) \in Seq(Int)
         /\ Len(Decoded(n)) = n
         /\ \A k \in 1..n : Decoded(n)[k] = k - 1
BY DEF Decoded

\* Bytes out of a buffer that holds the next ones, sent behind the first m.
LEMMA SendDecoded ==
  ASSUME NEW m \in Nat, NEW buffer \in Seq(Int), NEW from \in Nat, NEW n \in Nat,
         from + n <= Len(buffer),
         \A k \in 1..Len(buffer) : buffer[k] = m - from + k - 1
  PROVE  /\ Decoded(m) \o SubSeq(buffer, from + 1, from + n) = Decoded(m + n)
         /\ Len(Decoded(m + n)) = m + n
BY SMTT(20), LenProperties DEF Decoded

\* The bytes a call puts into the output are the next ones.
LEMMA OutputFacts ==
  ASSUME NEW d, NEW a, d.given \in Nat, a.wrote \in Nat
  PROVE  /\ Output(d, a) \in Seq(Int)
         /\ Len(Output(d, a)) = a.wrote
         /\ \A k \in 1..a.wrote : Output(d, a)[k] = d.given + k - 1
BY DEF Output

\* A call stays inside what it is given and leaves a decoder: one that decoded
\* the whole stream if the call succeeds, and a failed one fails again.
LEMMA AnswersStay ==
  ASSUME NEW s, IsStream(s), NEW d, IsDecoder(s, d),
         NEW n \in Nat, NEW r \in Nat, NEW a \in Answers(s, d, n, r)
  PROVE  /\ a.took \in 0..n /\ a.wrote \in 0..r /\ a.result \in Results
         /\ IsDecoder(s, After(d, a))
         /\ After(d, a).fed = d.fed + a.took
         /\ After(d, a).given = d.given + a.wrote
         /\ a.result = "ResultSuccess" => Complete(s, After(d, a)) /\ ~d.failed
         /\ d.failed => a.result = "ResultFailure" /\ After(d, a).failed
<1>1. CASE d.failed
  <2>1. a = [took |-> 0, wrote |-> 0, result |-> "ResultFailure"]
    BY <1>1 DEF Answers
  <2> QED
    BY <1>1, <2>1 DEF After, IsDecoder, Results
<1>2. CASE ~d.failed
  <2>1. /\ a \in [took : 0..n, wrote : 0..r, result : Results]
        /\ d.fed + a.took <= Size(s)
        /\ a.wrote <= Decodable(s, d.fed + a.took) - d.given
        /\ a.result = "ResultSuccess" =>
             /\ ~s.bad /\ d.fed + a.took = Size(s)
             /\ a.wrote = Decodable(s, d.fed + a.took) - d.given
    BY <1>2 DEF Answers
  <2>2. Total(s) \in Nat /\ Decodable(s, d.fed + a.took) \in Nat
    BY <2>1, SizeIsPositive DEF IsDecoder
  <2> QED
    BY <1>2, <2>1, <2>2 DEF After, IsDecoder, Complete, Total
<1> QED
  BY <1>1, <1>2
\* The loop begins with empty buffers and a fresh decoder.
LEMMA CopyInvInit == Init => CopyInv
<1> SUFFICES ASSUME Init PROVE CopyInv
  OBVIOUS
<1>1. DecoderInv
  <2>1. IsStream(stream)
    BY CopyConstants DEF Init
  <2>2. Size(stream) \in Nat
    BY <2>1, SizeIsPositive
  <2> QED
    BY <2>2 DEF Init, DecoderInv, IsDecoder, Fresh, Decodable
<1>2. SlicesInv
  BY CopyConstants DEF Init, SlicesInv
<1>3. BufferInv
  <2>1. output_buffer \in Seq(Int) /\ Len(output_buffer) = 0
    BY DEF Init
  <2> QED
    BY <2>1 DEF Init, BufferInv
<1>4. SinkInv
  <2>1. sink \in Seq(Int) /\ Len(sink) = 0
    BY DEF Init
  <2>2. Decoded(0) \in Seq(Int) /\ Len(Decoded(0)) = 0
    BY DecodedFacts
  <2>3. sink = Decoded(Len(sink))
    BY <2>1, <2>2, SeqEqual
  <2> QED
    BY <2>1, <2>3 DEF Init, SinkInv, NoneYet, Fresh
<1> QED
  BY <1>1, <1>2, <1>3, <1>4 DEF CopyInv

\* A call of the decoder: what it gave is in the buffer, which was empty.
LEMMA CopyDecode ==
  ASSUME CopyInv, Decode
  PROVE  CopyInv'
<1> USE DEF CopyInv
<1>1. IsStream(stream)
  BY CopyConstants DEF DecoderInv
<1>2. PICK a \in Answers(stream, dec, available_in, available_out) :
        /\ dec' = After(dec, a)
        /\ available_in' = available_in - a.took
        /\ input_offset' = input_offset + a.took
        /\ available_out' = available_out - a.wrote
        /\ output_offset' = output_offset + a.wrote
        /\ output_buffer' = output_buffer \o Output(dec, a)
        /\ result' = a.result
        /\ pc' = IF output_offset' # 0 THEN "send" ELSE "match"
  BY DEF Decode
<1>3. available_in \in Nat /\ available_out \in Nat /\ IsDecoder(stream, dec)
  BY DEF SlicesInv, DecoderInv
<1>4. /\ a.took \in 0..available_in /\ a.wrote \in 0..available_out
      /\ IsDecoder(stream, dec')
      /\ dec'.given = dec.given + a.wrote
  <2>1. /\ a.took \in 0..available_in /\ a.wrote \in 0..available_out
        /\ IsDecoder(stream, After(dec, a))
        /\ After(dec, a).given = dec.given + a.wrote
    BY <1>1, <1>3, AnswersStay
  <2> QED
    BY <1>2, <2>1
<1>5. pc = "decode" /\ output_offset = 0 /\ dec.given \in Nat
  BY <1>3 DEF Decode, BufferInv, IsDecoder
<1>6. /\ UNCHANGED <<stream, answer, sink>> /\ total_written' = 0
  BY DEF Decode, fileVars
<1>7. DecoderInv'
  <2>1. a.result = "ResultSuccess" => Complete(stream, dec')
    <3> SUFFICES ASSUME a.result = "ResultSuccess" PROVE Complete(stream, After(dec, a))
      BY <1>2
    <3> QED
      BY <1>1, <1>3, AnswersStay
  <2> QED
    BY <1>2, <1>4, <1>6, <2>1 DEF DecoderInv
<1>8. SlicesInv'
  <2>1. /\ input_offset \in Nat /\ output_offset \in Nat
        /\ input_offset + available_in <= InputLen
        /\ output_offset + available_out <= OutputLen
    BY DEF SlicesInv
  <2>2. /\ available_in' = available_in - a.took
        /\ input_offset' = input_offset + a.took
        /\ available_out' = available_out - a.wrote
        /\ output_offset' = output_offset + a.wrote
    BY <1>2
  <2>3. /\ available_in' \in Nat /\ input_offset' \in Nat
        /\ input_offset' + available_in' <= InputLen
    <3>1. available_in \in Nat /\ a.took \in 0..available_in
      BY <1>3, <1>4
    <3> QED
      BY <2>1, <2>2, <3>1, CopyConstants
  <2>4. /\ available_out' \in Nat /\ output_offset' \in Nat
        /\ output_offset' + available_out' <= OutputLen
    <3>1. available_out \in Nat /\ a.wrote \in 0..available_out
      BY <1>3, <1>4
    <3> QED
      BY <2>1, <2>2, <3>1, CopyConstants
  <2> QED
    BY <2>3, <2>4 DEF SlicesInv
<1>9. BufferInv'
  <2>1. /\ Output(dec, a) \in Seq(Int) /\ Len(Output(dec, a)) = a.wrote
        /\ \A k \in 1..a.wrote : Output(dec, a)[k] = dec.given + k - 1
    BY <1>4, <1>5, OutputFacts
  <2>2. output_buffer = <<>>
    BY <1>5, EmptySeq DEF BufferInv
  <2>3. output_buffer' = Output(dec, a)
    BY <1>2, <2>1, <2>2, ConcatEmptySeq
  <2>4. output_offset' = a.wrote /\ a.wrote \in Nat
    BY <1>2, <1>4, <1>5 DEF SlicesInv
  <2>5. \A k \in 1..a.wrote :
          Output(dec, a)[k] = dec'.given - output_offset' + k - 1
    BY <1>4, <1>5, <2>1, <2>4
  <2> QED
    BY <1>2, <1>6, <2>1, <2>3, <2>4, <2>5 DEF BufferInv
<1>10. SinkInv'
  <2>1. Len(sink) \in Nat /\ Len(sink) = dec.given
    BY <1>5, LenProperties DEF SinkInv, BufferInv
  <2>2. answer.kind # "ok"
    BY <1>5 DEF SinkInv
  <2> QED
    BY <1>2, <1>4, <1>5, <1>6, <2>1, <2>2 DEF SinkInv
<1> QED
  BY <1>7, <1>8, <1>9, <1>10

\* A write of the sink: it takes the next bytes of the buffer.
LEMMA CopySinkTakes ==
  ASSUME CopyInv, NEW n \in 1..OutputLen, SinkTakes(n)
  PROVE  CopyInv'
<1> USE DEF CopyInv
<1>1. /\ pc = "send"
      /\ n <= output_offset - total_written
      /\ sink' = sink \o SubSeq(output_buffer, total_written + 1, total_written + n)
      /\ UNCHANGED <<stream, dec, available_in, input_offset, result, answer>>
  BY DEF SinkTakes, fileVars, inVars
<1>2. /\ output_offset \in Nat /\ total_written \in Nat
      /\ dec.given \in Nat /\ n \in Nat
  BY CopyConstants DEF SlicesInv, BufferInv, DecoderInv, IsDecoder
<1>3. Len(sink) \in Nat /\ Len(sink) + (output_offset - total_written) = dec.given
  BY <1>1, LenProperties DEF SinkInv
<1>4. /\ sink' = Decoded(Len(sink) + n)
      /\ Len(sink') = Len(sink) + n
      /\ sink' \in Seq(Int)
  <2>1. /\ output_buffer \in Seq(Int) /\ total_written + n <= Len(output_buffer)
        /\ \A k \in 1..Len(output_buffer) :
             output_buffer[k] = Len(sink) - total_written + k - 1
    BY <1>1, <1>2, <1>3 DEF BufferInv
  <2>2. /\ Decoded(Len(sink))
             \o SubSeq(output_buffer, total_written + 1, total_written + n)
           = Decoded(Len(sink) + n)
        /\ Len(Decoded(Len(sink) + n)) = Len(sink) + n
    <3>1. Len(sink) \in Nat /\ total_written \in Nat /\ n \in Nat
      BY <1>2, <1>3
    <3> QED
      BY <2>1, <3>1, SendDecoded
  <2>3. Decoded(Len(sink) + n) \in Seq(Int)
    BY <1>2, <1>3, DecodedFacts
  <2>4. sink' = Decoded(Len(sink) + n)
    BY <1>1, <2>2 DEF SinkInv
  <2> QED
    BY <2>2, <2>3, <2>4
<1>5. DecoderInv'
  BY <1>1 DEF DecoderInv
<1>6. answer.kind # "ok"
  BY <1>1 DEF SinkInv
<1>7. CASE total_written + n < output_offset
  <2>1. /\ total_written' = total_written + n
        /\ UNCHANGED <<available_out, output_offset, output_buffer, pc>>
    BY <1>7 DEF SinkTakes
  <2>2. SlicesInv'
    BY <1>1, <2>1 DEF SlicesInv
  <2>3. BufferInv'
    BY <1>1, <1>2, <1>7, <2>1 DEF BufferInv
  <2>4. sink' = Decoded(Len(sink'))
    BY <1>4
  <2>5. Len(sink') + (output_offset' - total_written') = dec'.given
    BY <1>1, <1>2, <1>3, <1>4, <2>1
  <2>6. SinkInv'
    BY <1>1, <1>4, <1>6, <2>4, <2>5 DEF SinkInv
  <2> QED
    BY <1>5, <2>2, <2>3, <2>6
<1>8. CASE ~(total_written + n < output_offset)
  <2>1. /\ total_written' = 0 /\ output_offset' = 0 /\ output_buffer' = <<>>
        /\ pc' = "match" /\ available_out' = OutputLen
    BY <1>8 DEF SinkTakes
  <2>2. SlicesInv'
    BY <1>1, <2>1, CopyConstants DEF SlicesInv
  <2>3. BufferInv'
    <3>1. output_buffer' \in Seq(Int) /\ Len(output_buffer') = 0
      BY <2>1, EmptySeq
    <3> QED
      BY <2>1, <3>1 DEF BufferInv
  <2>4. n = output_offset - total_written
    BY <1>1, <1>2, <1>8
  <2>5. sink' = Decoded(Len(sink'))
    BY <1>4
  <2>6. Len(sink') + (output_offset' - total_written') = dec'.given
    BY <1>1, <1>2, <1>3, <1>4, <2>1, <2>4
  <2>7. SinkInv'
    BY <1>1, <1>4, <1>6, <2>5, <2>6 DEF SinkInv
  <2> QED
    BY <1>5, <2>2, <2>3, <2>7
<1> QED
  BY <1>7, <1>8

\* The remaining steps move neither a decoded byte nor a cursor of the output.
LEMMA CopyOtherSteps ==
  ASSUME CopyInv,
         \/ \E n \in 1..InputLen : ReadSome(n)
         \/ ReadNothing \/ ReadFails \/ OutputWritten \/ Finish \/ SinkFails
         \/ UNCHANGED vars
  PROVE  CopyInv'
<1> USE DEF CopyInv
<1>1. ASSUME NEW n \in 1..InputLen, ReadSome(n) PROVE CopyInv'
  <2> USE <1>1 DEF ReadSome, outVars
  <2>1. DecoderInv'
    BY DEF DecoderInv
  <2>2. SlicesInv'
    BY CopyConstants DEF SlicesInv
  <2>3. BufferInv'
    BY DEF BufferInv
  <2>4. SinkInv'
    BY DEF SinkInv
  <2> QED
    BY <2>1, <2>2, <2>3, <2>4
<1>2. ASSUME ReadNothing \/ ReadFails PROVE CopyInv'
  <2>1. /\ pc = "match" /\ pc' = "done" /\ input_offset' = 0
        /\ answer'.kind # "ok"
        /\ UNCHANGED <<stream, dec, available_in, available_out, output_offset,
                       output_buffer, total_written, result, sink>>
    BY <1>2 DEF ReadNothing, ReadFails, Return, Err, fileVars, outVars
  <2>2. DecoderInv'
    BY <2>1 DEF DecoderInv
  <2>3. SlicesInv'
    BY <2>1, CopyConstants DEF SlicesInv
  <2>4. BufferInv'
    BY <2>1 DEF BufferInv
  <2>5. SinkInv'
    BY <2>1 DEF SinkInv
  <2> QED
    BY <2>2, <2>3, <2>4, <2>5
<1>3. ASSUME OutputWritten PROVE CopyInv'
  <2>1. /\ pc = "match" /\ pc' = "decode" /\ output_offset' = output_offset
        /\ UNCHANGED <<stream, dec, available_in, input_offset, available_out,
                       output_buffer, total_written, result, answer, sink>>
    BY <1>3 DEF OutputWritten, BufferInv, fileVars, inVars
  <2>2. DecoderInv'
    BY <2>1 DEF DecoderInv
  <2>3. SlicesInv'
    BY <2>1 DEF SlicesInv
  <2>4. BufferInv'
    BY <2>1 DEF BufferInv
  <2>5. SinkInv'
    BY <2>1 DEF SinkInv
  <2> QED
    BY <2>2, <2>3, <2>4, <2>5
<1>4. ASSUME Finish PROVE CopyInv'
  <2>1. /\ pc = "match" /\ pc' = "done"
        /\ answer'.kind = "ok" => result = "ResultSuccess"
        /\ UNCHANGED <<stream, dec, available_in, input_offset, available_out,
                       output_offset, output_buffer, total_written, result, sink>>
    BY <1>4 DEF Finish, Return, Err, fileVars, inVars, outVars
  <2>2. DecoderInv'
    BY <2>1 DEF DecoderInv
  <2>3. SlicesInv'
    BY <2>1 DEF SlicesInv
  <2>4. BufferInv'
    BY <2>1 DEF BufferInv
  <2>5. SinkInv'
    <3>1. Len(sink) = dec.given
      BY <2>1, LenProperties DEF SinkInv, BufferInv
    <3>2. result = "ResultSuccess" =>
            Complete(stream, dec) /\ sink = Decoded(Total(stream))
      BY <3>1 DEF DecoderInv, SinkInv, Complete
    <3>3. Complete(stream, dec)' <=> Complete(stream, dec)
      BY <2>1 DEF Complete
    <3> QED
      BY <2>1, <3>2, <3>3 DEF SinkInv
  <2> QED
    BY <2>2, <2>3, <2>4, <2>5
<1>5. ASSUME SinkFails PROVE CopyInv'
  <2>1. /\ pc = "send" /\ pc' = "done"
        /\ answer'.kind # "ok"
        /\ UNCHANGED <<stream, dec, available_in, input_offset, available_out,
                       output_offset, output_buffer, total_written, result, sink>>
    BY <1>5 DEF SinkFails, Return, Err, fileVars, inVars, outVars
  <2>2. DecoderInv'
    BY <2>1 DEF DecoderInv
  <2>3. SlicesInv'
    BY <2>1 DEF SlicesInv
  <2>4. BufferInv'
    BY <2>1 DEF BufferInv
  <2>5. SinkInv'
    BY <2>1 DEF SinkInv
  <2> QED
    BY <2>2, <2>3, <2>4, <2>5
<1>6. ASSUME UNCHANGED vars PROVE CopyInv'
  BY <1>6 DEF vars, fileVars, inVars, outVars, DecoderInv, SlicesInv, BufferInv,
     SinkInv
<1> QED
  BY <1>1, <1>2, <1>3, <1>4, <1>5, <1>6

\* Every step of the loop keeps the invariant.
LEMMA CopyInvStep == CopyInv /\ [Next]_vars => CopyInv'
<1> SUFFICES ASSUME CopyInv, [Next]_vars PROVE CopyInv'
  OBVIOUS
<1>1. CASE Decode
  BY <1>1, CopyDecode
<1>2. CASE \E n \in 1..OutputLen : SinkTakes(n)
  BY <1>2, CopySinkTakes
<1>3. CASE \/ \E n \in 1..InputLen : ReadSome(n)
           \/ ReadNothing \/ ReadFails \/ OutputWritten \/ Finish \/ SinkFails
           \/ UNCHANGED vars
  BY <1>3, CopyOtherSteps
<1> QED
  BY <1>1, <1>2, <1>3 DEF Next

\* BrotliDecompressCustomIoCustomDict hands the sink the decoded bytes in order
\* and each once, for every stream, buffer length and pattern of short writes;
\* its Ok means that the whole stream was decoded and written.
THEOREM CopySinkIsPrefix == Spec => []SinkIsPrefix
<1>1. CopyInv => SinkIsPrefix
  BY DEF CopyInv, DecoderInv, SlicesInv, BufferInv, SinkInv, SinkIsPrefix
<1> QED
  BY <1>1, CopyInvInit, CopyInvStep, PTL DEF Spec
=============================================================================
