------------------------ MODULE WriterAdapter_proofs ------------------------
(***************************************************************************)
(* What the writer adapter hands on and what it answers: for every stream, *)
(* every buffer length and every sink.                                     *)
(***************************************************************************)
EXTENDS WriterAdapter, SequenceTheorems, TLAPS

\* The decoder belongs to the stream, and its last result says what it is at.
DecoderInv ==
  /\ stream \in Streams
  /\ IsDecoder(stream, dec)
  /\ op_result = "ResultSuccess" => Complete(stream, dec)
  /\ op_result = "ResultFailure" => dec.failed

\* What the call under way consumed is not yet among the bytes accepted.
InputInv ==
  /\ accepted \in Nat /\ buf \in Nat
  /\ input_offset \in Nat /\ avail_in \in Nat
  /\ input_offset + avail_in = buf
  /\ call # "write" => buf = 0
  /\ ~sink_failed /\ ~dec.failed =>
       dec.fed = IF pc = "idle" THEN accepted ELSE accepted + input_offset

\* The output buffer holds what the decoder gave last.
BufferInv ==
  /\ output_buffer \in Seq(Int)
  /\ total_written \in 0..Len(output_buffer)
  /\ \A k \in 1..Len(output_buffer) :
       output_buffer[k] = dec.given - Len(output_buffer) + k - 1

\* No output was dropped: close drops it only when the error is gone.
Sound == ~sink_failed /\ (error_if_invalid_data \/ ~closed)

\* Which calls are under way when.
ControlInv ==
  /\ error_if_invalid_data \in BOOLEAN /\ sink_failed \in BOOLEAN
  /\ closed \in BOOLEAN
  /\ pc # "idle" => call \in {"write", "close"}
  /\ pc # "idle" /\ call = "write" => ~closed
  /\ pc = "send" => error_if_invalid_data \/ ~closed

\* The sink has what came before the part of the buffer not sent yet.
SinkInv ==
  /\ sink \in Seq(Int)
  /\ sink = Decoded(Len(sink))
  /\ Sound => dec.given = IF pc = "send" THEN Len(sink) + Unsent ELSE Len(sink)

\* The third part of SinkIsPrefix, what Ok means in close.
CloseInv ==
  (/\ pc = "idle" /\ call = "close" /\ answer.kind = "ok"
   /\ error_if_invalid_data /\ ~sink_failed)
  => Complete(stream, dec) /\ sink = Decoded(Total(stream))

WriterInv ==
  DecoderInv /\ InputInv /\ BufferInv /\ ControlInv /\ SinkInv /\ CloseInv

-----------------------------------------------------------------------------
(* One call of the decoder                                                 *)

\* The numbers of a stream are numbers.
LEMMA SizeIsPositive ==
  ASSUME NEW s, IsStream(s)
  PROVE  /\ Size(s) \in Nat \ {0} /\ Total(s) \in Nat
         /\ \A k \in 0..Size(s) : Decodable(s, k) \in Nat
BY DEF IsStream, Size, Total, Decodable

\* The first decoded bytes are a sequence of that length.
LEMMA DecodedFacts ==
  ASSUME NEW n \in Nat
  PROVE  /\ Decoded(n) \in Seq(Int)
         /\ Len(Decoded(n)) = n
         /\ \A k \in 1..n : Decoded(n)[k] = k - 1
BY DEF Decoded

\* Bytes out of a buffer that holds the next ones, sent behind the first m.
LEMMA SendDecoded ==
  ASSUME NEW m \in Nat, NEW buffer \in Seq(Int), NEW from \in Nat, NEW n \in Nat,
         from + n <= Len(buffer),
         \A k \in 1..Len(buffer) : buffer[k] = m - from + k - 1
  PROVE  /\ Decoded(m) \o SubSeq(buffer, from + 1, from + n) = Decoded(m + n)
         /\ Len(Decoded(m + n)) = m + n
BY SMTT(20), LenProperties DEF Decoded

\* The bytes a call puts into the output are the next ones.
LEMMA OutputFacts ==
  ASSUME NEW d, NEW a, d.given \in Nat, a.wrote \in Nat
  PROVE  /\ Output(d, a) \in Seq(Int)
         /\ Len(Output(d, a)) = a.wrote
         /\ \A k \in 1..a.wrote : Output(d, a)[k] = d.given + k - 1
BY DEF Output

\* A call stays inside what it is given and leaves a decoder: one that decoded
\* the whole stream if the call succeeds, and a failed one fails again.
LEMMA AnswersStay ==
  ASSUME NEW s, IsStream(s), NEW d, IsDecoder(s, d),
         NEW n \in Nat, NEW r \in Nat, NEW a \in Answers(s, d, n, r)
  PROVE  /\ a.took \in 0..n /\ a.wrote \in 0..r /\ a.result \in Results
         /\ IsDecoder(s, After(d, a))
         /\ After(d, a).fed = d.fed + a.took
         /\ After(d, a).given = d.given + a.wrote
         /\ a.result = "ResultSuccess" => Complete(s, After(d, a)) /\ ~d.failed
         /\ d.failed => a.result = "ResultFailure" /\ After(d, a).failed
<1>1. CASE d.failed
  <2>1. a = [took |-> 0, wrote |-> 0, result |-> "ResultFailure"]
    BY <1>1 DEF Answers
  <2> QED
    BY <1>1, <2>1 DEF After, IsDecoder, Results
<1>2. CASE ~d.failed
  <2>1. /\ a \in [took : 0..n, wrote : 0..r, result : Results]
        /\ d.fed + a.took <= Size(s)
        /\ a.wrote <= Decodable(s, d.fed + a.took) - d.given
        /\ a.result = "ResultSuccess" =>
             /\ ~s.bad /\ d.fed + a.took = Size(s)
             /\ a.wrote = Decodable(s, d.fed + a.took) - d.given
    BY <1>2 DEF Answers
  <2>2. Total(s) \in Nat /\ Decodable(s, d.fed + a.took) \in Nat
    BY <2>1, SizeIsPositive DEF IsDecoder
  <2> QED
    BY <1>2, <2>1, <2>2 DEF After, IsDecoder, Complete, Total
<1> QED
  BY <1>1, <1>2
\* The adapter begins with a fresh decoder and nothing written.
LEMMA WriterInvInit == Init => WriterInv
<1> SUFFICES ASSUME Init PROVE WriterInv
  OBVIOUS
<1>1. DecoderInv
  <2>1. IsStream(stream)
    BY WriterConstants DEF Init
  <2>2. Size(stream) \in Nat
    BY <2>1, SizeIsPositive
  <2> QED
    BY <2>2 DEF Init, DecoderInv, IsDecoder, Fresh, Decodable
<1>2. InputInv
  BY DEF Init, InputInv, Fresh
<1>3. BufferInv
  <2>1. output_buffer \in Seq(Int) /\ Len(output_buffer) = 0
    BY DEF Init
  <2> QED
    BY <2>1 DEF Init, BufferInv
<1>4. SinkInv
  <2>1. sink \in Seq(Int) /\ Len(sink) = 0
    BY DEF Init
  <2>2. Decoded(0) \in Seq(Int) /\ Len(Decoded(0)) = 0
    BY DecodedFacts
  <2>3. sink = Decoded(Len(sink))
    BY <2>1, <2>2, SeqEqual
  <2> QED
    BY <2>1, <2>3 DEF Init, SinkInv, Fresh
<1>5. ControlInv /\ CloseInv
  BY DEF Init, ControlInv, CloseInv, NoneYet
<1> QED
  BY <1>1, <1>2, <1>3, <1>4, <1>5 DEF WriterInv

\* write or close is called.
LEMMA WriterCalled ==
  ASSUME WriterInv, (\E n \in 0..MaxFile : Write(n)) \/ Close
  PROVE  WriterInv'
<1> USE DEF WriterInv
<1>1. /\ pc = "idle" /\ pc' = "decode"
      /\ call' \in {"write", "close"}
      /\ call' = "write" => ~closed
      /\ UNCHANGED <<stream, dec, error_if_invalid_data, output_buffer,
                     total_written, op_result, accepted, sink, sink_failed,
                     closed>>
  BY DEF Write, Close, outVars, sinkVars
<1>2. PICK n \in Nat : /\ avail_in' = n /\ input_offset' = 0 /\ buf' = n
                       /\ call' # "write" => n = 0
  BY WriterConstants DEF Write, Close
<1>3. DecoderInv'
  BY <1>1 DEF DecoderInv
<1>4. InputInv'
  <2>1. accepted \in Nat /\ accepted + 0 = accepted /\ 0 + n = n
    BY DEF InputInv
  <2>2. ~sink_failed /\ ~dec.failed => dec.fed = accepted
    BY <1>1 DEF InputInv
  <2> QED
    BY <1>1, <1>2, <2>1, <2>2 DEF InputInv
<1>5. BufferInv'
  BY <1>1 DEF BufferInv
<1>6. ControlInv'
  BY <1>1 DEF ControlInv
<1>7. SinkInv'
  BY <1>1 DEF SinkInv, Sound
<1>8. CloseInv'
  BY <1>1 DEF CloseInv
<1> QED
  BY <1>3, <1>4, <1>5, <1>6, <1>7, <1>8

\* A call of the decoder, and what close does with its output.
LEMMA WriterDecode ==
  ASSUME WriterInv, Decode
  PROVE  WriterInv'
<1> USE DEF WriterInv
<1>1. IsStream(stream) /\ IsDecoder(stream, dec)
  BY WriterConstants DEF DecoderInv
<1>2. PICK a \in Answers(stream, dec, avail_in, OutputLen) :
        /\ dec' = After(dec, a)
        /\ avail_in' = avail_in - a.took
        /\ input_offset' = input_offset + a.took
        /\ output_buffer' = Output(dec, a)
        /\ op_result' = a.result
  BY DEF Decode
<1>3. avail_in \in Nat /\ OutputLen \in Nat
  BY WriterConstants DEF InputInv
<1>4. /\ a.took \in 0..avail_in /\ a.wrote \in 0..OutputLen
      /\ IsDecoder(stream, dec')
      /\ dec'.given = dec.given + a.wrote
      /\ dec'.fed = dec.fed + a.took
  <2>1. /\ a.took \in 0..avail_in /\ a.wrote \in 0..OutputLen
        /\ IsDecoder(stream, After(dec, a))
        /\ After(dec, a).given = dec.given + a.wrote
        /\ After(dec, a).fed = dec.fed + a.took
    BY <1>1, <1>3, AnswersStay
  <2> QED
    BY <1>2, <2>1
<1>5. dec.given \in Nat /\ dec.fed \in Nat /\ a.wrote \in Nat /\ a.took \in Nat
  BY <1>1, <1>3, <1>4 DEF IsDecoder
<1>6. dec.failed => dec'.failed
  <2> SUFFICES ASSUME dec.failed PROVE After(dec, a).failed
    BY <1>2
  <2> QED
    BY <1>1, <1>3, AnswersStay
<1>7. /\ pc = "decode" /\ total_written' = 0
      /\ UNCHANGED <<stream, error_if_invalid_data, call, buf, sink, sink_failed>>
  BY DEF Decode, sinkVars
<1>8. \/ /\ call = "close" /\ ~error_if_invalid_data
         /\ pc' = "idle" /\ accepted' = accepted /\ closed' = TRUE
      \/ /\ ~(call = "close" /\ ~error_if_invalid_data)
         /\ pc' = "send" /\ UNCHANGED <<answer, accepted, closed>>
  BY DEF Decode, Return, GoOn
<1>9. DecoderInv'
  <2>1. a.result = "ResultSuccess" => Complete(stream, dec')
    <3> SUFFICES ASSUME a.result = "ResultSuccess"
                 PROVE  Complete(stream, After(dec, a))
      BY <1>2
    <3> QED
      BY <1>1, <1>3, AnswersStay
  <2>2. a.result = "ResultFailure" => dec'.failed
    BY <1>2 DEF After
  <2> QED
    BY <1>2, <1>4, <1>7, <2>1, <2>2 DEF DecoderInv
<1>10. InputInv'
  <2>1. accepted' = accepted
    BY <1>8
  <2>2. /\ avail_in' \in Nat /\ input_offset' \in Nat
        /\ buf' \in Nat /\ input_offset' + avail_in' = buf'
    BY <1>2, <1>3, <1>4, <1>5, <1>7 DEF InputInv
  <2>3. call' # "write" => buf' = 0
    BY <1>7 DEF InputInv
  <2>4. buf = 0 => input_offset + a.took = 0
    BY <1>3, <1>4, <1>5 DEF InputInv
  <2>5. ASSUME ~sink_failed', ~dec'.failed
        PROVE  dec'.fed = IF pc' = "idle" THEN accepted' ELSE accepted' + input_offset'
    <3>1. dec.fed = accepted + input_offset
      BY <1>6, <1>7, <2>5 DEF InputInv
    <3>2. dec'.fed = accepted' + input_offset'
      BY <1>2, <1>4, <1>5, <2>1, <3>1 DEF InputInv
    <3>3. pc' = "idle" => call' # "write"
      BY <1>7, <1>8
    <3>4. pc' = "idle" => input_offset' = 0
      BY <1>2, <1>7, <2>3, <2>4, <3>3
    <3> QED
      BY <2>1, <3>2, <3>4 DEF InputInv
  <2> QED
    BY <2>1, <2>2, <2>3, <2>5 DEF InputInv
<1>11. /\ output_buffer' \in Seq(Int) /\ Len(output_buffer') = a.wrote
       /\ \A k \in 1..a.wrote : output_buffer'[k] = dec.given + k - 1
  <2>1. /\ Output(dec, a) \in Seq(Int) /\ Len(Output(dec, a)) = a.wrote
        /\ \A k \in 1..a.wrote : Output(dec, a)[k] = dec.given + k - 1
    BY <1>5, OutputFacts
  <2> QED
    BY <1>2, <2>1
<1>12. BufferInv'
  <2>1. \A k \in 1..a.wrote : output_buffer'[k] = dec'.given - a.wrote + k - 1
    BY <1>4, <1>5, <1>11
  <2> QED
    BY <1>5, <1>7, <1>11, <2>1 DEF BufferInv
<1>13. ControlInv'
  <2>1. CASE call = "close" /\ ~error_if_invalid_data
    <3>1. closed' \in BOOLEAN /\ pc' = "idle"
      BY <1>8, <2>1
    <3> QED
      BY <1>7, <3>1 DEF ControlInv
  <2>2. CASE ~(call = "close" /\ ~error_if_invalid_data)
    BY <1>7, <1>8, <2>2 DEF ControlInv
  <2> QED
    BY <2>1, <2>2
<1>14. SinkInv'
  <2>1. pc' = "send" => (Sound' => Sound)
    BY <1>7, <1>8 DEF Sound
  <2>2. pc' # "send" => ~Sound'
    BY <1>7, <1>8 DEF Sound
  <2>3. Sound => dec.given = Len(sink)
    BY <1>7 DEF SinkInv
  <2>4. Unsent' = a.wrote
    BY <1>5, <1>7, <1>11 DEF Unsent
  <2>5. Sound' => dec'.given = Len(sink') + Unsent'
    BY <1>4, <1>7, <2>1, <2>2, <2>3, <2>4
  <2> QED
    BY <1>7, <2>2, <2>5 DEF SinkInv
<1>15. CloseInv'
  BY <1>7, <1>8 DEF CloseInv
<1> QED
  BY <1>9, <1>10, <1>12, <1>13, <1>14, <1>15

\* A write of the sink: it takes the next bytes of the buffer.
LEMMA WriterSinkTakes ==
  ASSUME WriterInv, NEW n \in 1..OutputLen, SinkTakes(n)
  PROVE  WriterInv'
<1> USE DEF WriterInv
<1>1. /\ pc = "send" /\ ~sink_failed
      /\ n <= Unsent
      /\ sink' = sink \o SubSeq(output_buffer, total_written + 1, total_written + n)
      /\ total_written' = total_written + n
      /\ UNCHANGED <<stream, dec, error_if_invalid_data, call, pc, buf, avail_in,
                     input_offset, output_buffer, op_result, answer, accepted,
                     sink_failed, closed>>
  BY DEF SinkTakes, inVars
<1>2. /\ Len(output_buffer) \in Nat /\ total_written \in Nat
      /\ dec.given \in Nat /\ n \in Nat /\ Len(sink) \in Nat
  BY WriterConstants, LenProperties DEF BufferInv, DecoderInv, IsDecoder, SinkInv
<1>3. Sound
  BY <1>1 DEF ControlInv, Sound
<1>4. dec.given = Len(sink) + (Len(output_buffer) - total_written)
  BY <1>1, <1>3 DEF SinkInv, Unsent
<1>5. /\ sink' = Decoded(Len(sink) + n)
      /\ Len(sink') = Len(sink) + n
      /\ sink' \in Seq(Int)
  <2>1. /\ output_buffer \in Seq(Int) /\ total_written + n <= Len(output_buffer)
        /\ \A k \in 1..Len(output_buffer) :
             output_buffer[k] = Len(sink) - total_written + k - 1
    BY <1>1, <1>2, <1>4 DEF BufferInv, Unsent
  <2>2. /\ Decoded(Len(sink))
             \o SubSeq(output_buffer, total_written + 1, total_written + n)
           = Decoded(Len(sink) + n)
        /\ Len(Decoded(Len(sink) + n)) = Len(sink) + n
    BY <1>2, <2>1, SendDecoded
  <2>3. Decoded(Len(sink) + n) \in Seq(Int)
    BY <1>2, DecodedFacts
  <2>4. sink' = Decoded(Len(sink) + n)
    BY <1>1, <2>2 DEF SinkInv
  <2> QED
    BY <2>2, <2>3, <2>4
<1>6. DecoderInv'
  BY <1>1 DEF DecoderInv
<1>7. InputInv'
  BY <1>1 DEF InputInv
<1>8. BufferInv'
  <2>1. total_written' \in 0..Len(output_buffer)
    BY <1>1, <1>2 DEF Unsent
  <2> QED
    BY <1>1, <2>1 DEF BufferInv
<1>9. ControlInv'
  BY <1>1 DEF ControlInv
<1>10. SinkInv'
  <2>1. dec'.given = Len(sink') + Unsent'
    BY <1>1, <1>2, <1>4, <1>5 DEF Unsent
  <2>2. sink' = Decoded(Len(sink'))
    BY <1>5
  <2> QED
    BY <1>1, <1>5, <2>1, <2>2 DEF SinkInv
<1>11. CloseInv'
  BY <1>1 DEF CloseInv
<1> QED
  BY <1>6, <1>7, <1>8, <1>9, <1>10, <1>11

\* The sink fails: the call returns, and nothing more reaches the sink.
LEMMA WriterSinkFails ==
  ASSUME WriterInv, SinkFails
  PROVE  WriterInv'
<1> USE DEF WriterInv
<1>1. /\ pc = "send" /\ pc' = "idle" /\ sink_failed' = TRUE
      /\ answer' = Err("sink")
      /\ accepted' = IF call = "write" THEN accepted + Err("sink").n ELSE accepted
      /\ closed' = (closed \/ call = "close")
      /\ UNCHANGED <<stream, dec, error_if_invalid_data, call, buf, avail_in,
                     input_offset, output_buffer, total_written, op_result, sink>>
  BY DEF SinkFails, Return, inVars, outVars
<1>2. DecoderInv'
  BY <1>1 DEF DecoderInv
<1>3. InputInv'
  <2>1. accepted' = accepted
    BY <1>1 DEF InputInv, Err
  <2> QED
    BY <1>1, <2>1 DEF InputInv
<1>4. BufferInv'
  BY <1>1 DEF BufferInv
<1>5. ControlInv'
  BY <1>1 DEF ControlInv
<1>6. SinkInv'
  BY <1>1 DEF SinkInv, Sound
<1>7. CloseInv'
  BY <1>1 DEF CloseInv
<1> QED
  BY <1>2, <1>3, <1>4, <1>5, <1>6, <1>7

\* Everything was sent, and the decoder has more.
LEMMA WriterDecodeAgain ==
  ASSUME WriterInv, DecodeAgain
  PROVE  WriterInv'
<1> USE DEF WriterInv
<1>1. /\ pc = "send" /\ Unsent = 0 /\ pc' = "decode"
      /\ UNCHANGED <<stream, dec, error_if_invalid_data, call, buf, avail_in,
                     input_offset, output_buffer, total_written, op_result, sink,
                     sink_failed, answer, accepted, closed>>
  BY DEF DecodeAgain, Sent, GoOn, inVars, outVars, sinkVars
<1>2. DecoderInv'
  BY <1>1 DEF DecoderInv
<1>3. InputInv'
  BY <1>1 DEF InputInv
<1>4. BufferInv'
  BY <1>1 DEF BufferInv
<1>5. ControlInv'
  BY <1>1 DEF ControlInv
<1>6. SinkInv'
  <2>1. Len(sink) \in Nat
    BY LenProperties DEF SinkInv
  <2>2. Sound => dec.given = Len(sink)
    BY <1>1, <2>1 DEF SinkInv
  <2> QED
    BY <1>1, <2>2 DEF SinkInv, Sound
<1>7. CloseInv'
  BY <1>1 DEF CloseInv
<1> QED
  BY <1>2, <1>3, <1>4, <1>5, <1>6, <1>7

\* Everything was sent, and the call returns.
LEMMA WriterReturns ==
  ASSUME WriterInv, Succeed \/ WriteWantsMore \/ GiveUp
  PROVE  WriterInv'
<1> USE DEF WriterInv
<1>1. /\ pc = "send" /\ Unsent = 0 /\ pc' = "idle"
      /\ closed' = (closed \/ call = "close")
      /\ UNCHANGED <<stream, dec, call, buf, avail_in, input_offset,
                     output_buffer, total_written, op_result, sink, sink_failed>>
  BY DEF Succeed, WriteWantsMore, GiveUp, Sent, Return, ReturnInvalidData,
     inVars, outVars, sinkVars
<1>2. \/ /\ op_result = "ResultSuccess"
         /\ accepted' = IF call = "write" THEN accepted + input_offset ELSE accepted
         /\ UNCHANGED error_if_invalid_data
      \/ /\ call = "write" /\ avail_in = 0
         /\ accepted' = accepted + buf
         /\ UNCHANGED error_if_invalid_data
      \/ /\ op_result = "ResultFailure" \/ call = "close"
         /\ accepted' = IF call = "write" THEN accepted + 0 ELSE accepted
         /\ error_if_invalid_data' = FALSE
  <2>1. Succeed => /\ op_result = "ResultSuccess"
                   /\ accepted' = IF call = "write" THEN accepted + input_offset
                                  ELSE accepted
                   /\ UNCHANGED error_if_invalid_data
    BY DEF Succeed, Return, Ok
  <2>2. WriteWantsMore => /\ call = "write" /\ avail_in = 0
                          /\ accepted' = accepted + buf
                          /\ UNCHANGED error_if_invalid_data
    BY DEF WriteWantsMore, Return, Ok
  <2>3. GiveUp => /\ op_result = "ResultFailure" \/ call = "close"
                  /\ accepted' = IF call = "write" THEN accepted + 0 ELSE accepted
                  /\ error_if_invalid_data' = FALSE
    BY DEF GiveUp, ReturnInvalidData, Return, Ok, Err
  <2> QED
    BY <2>1, <2>2, <2>3
<1>3. DecoderInv'
  BY <1>1 DEF DecoderInv
<1>4. InputInv'
  <2>1. accepted' \in Nat
    BY <1>2 DEF InputInv
  <2>2. ASSUME ~sink_failed, ~dec.failed PROVE dec.fed = accepted'
    <3>1. dec.fed = accepted + input_offset
      BY <1>1, <2>2 DEF InputInv
    <3>2. op_result # "ResultFailure"
      BY <2>2 DEF DecoderInv
    <3>3. call # "write" => input_offset = 0
      BY DEF InputInv
    <3>4. avail_in = 0 => buf = input_offset
      BY DEF InputInv
    <3> QED
      BY <1>2, <3>1, <3>2, <3>3, <3>4 DEF InputInv
  <2> QED
    BY <1>1, <2>1, <2>2 DEF InputInv
<1>5. BufferInv'
  BY <1>1 DEF BufferInv
<1>6. ControlInv'
  BY <1>1, <1>2 DEF ControlInv
<1>7. Sound' => Sound
  BY <1>1 DEF ControlInv, Sound
<1>8. Sound => dec.given = Len(sink)
  <2>1. Len(sink) \in Nat
    BY LenProperties DEF SinkInv
  <2> QED
    BY <1>1, <2>1 DEF SinkInv
<1>9. SinkInv'
  BY <1>1, <1>7, <1>8 DEF SinkInv
<1>10. CloseInv'
  <2> SUFFICES ASSUME call = "close", error_if_invalid_data', ~sink_failed
               PROVE  Complete(stream, dec) /\ sink = Decoded(Total(stream))
    BY <1>1 DEF CloseInv, Complete
  <2>1. op_result = "ResultSuccess"
    BY <1>2
  <2>2. Complete(stream, dec)
    BY <2>1 DEF DecoderInv
  <2>3. Sound
    BY <1>1 DEF ControlInv, Sound
  <2> QED
    BY <1>8, <2>2, <2>3 DEF SinkInv, Complete
<1> QED
  BY <1>3, <1>4, <1>5, <1>6, <1>9, <1>10

\* Every step of the adapter, its caller and its sink keeps the invariant.
LEMMA WriterInvStep == WriterInv /\ [Next]_vars => WriterInv'
<1> SUFFICES ASSUME WriterInv, [Next]_vars PROVE WriterInv'
  OBVIOUS
<1>1. CASE (\E n \in 0..MaxFile : Write(n)) \/ Close
  BY <1>1, WriterCalled
<1>2. CASE Decode
  BY <1>2, WriterDecode
<1>3. CASE \E n \in 1..OutputLen : SinkTakes(n)
  BY <1>3, WriterSinkTakes
<1>4. CASE SinkFails
  BY <1>4, WriterSinkFails
<1>5. CASE DecodeAgain
  BY <1>5, WriterDecodeAgain
<1>6. CASE Succeed \/ WriteWantsMore \/ GiveUp
  BY <1>6, WriterReturns
<1>7. CASE UNCHANGED vars
  BY <1>7 DEF vars, inVars, outVars, sinkVars, WriterInv, DecoderInv, InputInv,
     BufferInv, ControlInv, SinkInv, CloseInv, Sound, Unsent
<1> QED
  BY <1>1, <1>2, <1>3, <1>4, <1>5, <1>6, <1>7 DEF Next, Proceed, SinkTakesSome

\* The writer hands the sink the decoded bytes in order and each once, keeps
\* none back when a call returns, and close answers Ok only behind the last.
THEOREM WriterSinkIsPrefix == Spec => []SinkIsPrefix
<1>1. WriterInv => SinkIsPrefix
  BY DEF WriterInv, SinkInv, CloseInv, Sound, SinkIsPrefix
<1> QED
  BY <1>1, WriterInvInit, WriterInvStep, PTL DEF Spec

\* What write answered is what the decoder consumed.
THEOREM WriterAnswersWhatItTook == Spec => []AnswersWhatItTook
<1>1. WriterInv => AnswersWhatItTook
  BY DEF WriterInv, InputInv, AnswersWhatItTook
<1> QED
  BY <1>1, WriterInvInit, WriterInvStep, PTL DEF Spec
=============================================================================
