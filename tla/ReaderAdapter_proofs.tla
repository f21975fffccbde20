------------------------ MODULE ReaderAdapter_proofs ------------------------
(***************************************************************************)
(* The reader adapter loses no byte on either side, and its first Ok(0) is *)
(* the end: for every stream, file, buffer length and margin, and whatever *)
(* the underlying reader does.                                             *)
(***************************************************************************)
EXTENDS ReaderAdapter, SequenceTheorems, TLAPS

\* The decoder belongs to the stream.
DecoderInv ==
  /\ stream \in Streams
  /\ IsDecoder(stream, dec)
  /\ error_if_invalid_data \in BOOLEAN

\* What the caller has is what the decoder gave, until the stream turns out to
\* be invalid.
DeliveredInv ==
  /\ delivered \in Seq(Int)
  /\ delivered = Decoded(Len(delivered))
  /\ ~dec.failed => Len(delivered) = dec.given

ReaderInv == DecoderInv /\ BufferedIsNext /\ DeliveredInv /\ ZeroIsTheEnd

-----------------------------------------------------------------------------
(* One call of the decoder                                                 *)

\* The numbers of a stream are numbers.
LEMMA SizeIsPositive ==
  ASSUME NEW s, IsStream(s)
  PROVE  /\ Size(s) \in Nat \ {0} /\ Total(s) \in Nat
         /\ \A k \in 0..Size(s) : Decodable(s, k) \in Nat
BY DEF IsStream, Size, Total, Decodable

\* The first decoded bytes are a sequence of that length.
LEMMA DecodedFacts ==
  ASSUME NEW n \in Nat
  PROVE  /\ Decoded(n) \in Seq(Int)
         /\ Len(Decoded(n)) = n
         /\ \A k \in 1..n : Decoded(n)[k] = k - 1
BY DEF Decoded

\* The next n bytes behind the first m are the first m + n.
LEMMA AppendDecoded ==
  ASSUME NEW m \in Nat, NEW t \in Seq(Int),
         \A k \in 1..Len(t) : t[k] = m + k - 1
  PROVE  Decoded(m) \o t = Decoded(m + Len(t))
BY SMTT(20), LenProperties DEF Decoded

\* The bytes a call puts into the output are the next ones.
LEMMA OutputFacts ==
  ASSUME NEW d, NEW a, d.given \in Nat, a.wrote \in Nat
  PROVE  /\ Output(d, a) \in Seq(Int)
         /\ Len(Output(d, a)) = a.wrote
         /\ \A k \in 1..a.wrote : Output(d, a)[k] = d.given + k - 1
BY DEF Output

\* A call stays inside what it is given and leaves a decoder: one that decoded
\* the whole stream if the call succeeds, and a failed one fails again.
LEMMA AnswersStay ==
  ASSUME NEW s, IsStream(s), NEW d, IsDecoder(s, d),
         NEW n \in Nat, NEW r \in Nat, NEW a \in Answers(s, d, n, r)
  PROVE  /\ a.took \in 0..n /\ a.wrote \in 0..r /\ a.result \in Results
         /\ IsDecoder(s, After(d, a))
         /\ After(d, a).fed = d.fed + a.took
         /\ After(d, a).given = d.given + a.wrote
         /\ a.result = "ResultSuccess" => Complete(s, After(d, a)) /\ ~d.failed
         /\ d.failed => a.result = "ResultFailure" /\ After(d, a).failed
<1>1. CASE d.failed
  <2>1. a = [took |-> 0, wrote |-> 0, result |-> "ResultFailure"]
    BY <1>1 DEF Answers
  <2> QED
    BY <1>1, <2>1 DEF After, IsDecoder, Results
<1>2. CASE ~d.failed
  <2>1. /\ a \in [took : 0..n, wrote : 0..r, result : Results]
        /\ d.fed + a.took <= Size(s)
        /\ a.wrote <= Decodable(s, d.fed + a.took) - d.given
        /\ a.result = "ResultSuccess" =>
             /\ ~s.bad /\ d.fed + a.took = Size(s)
             /\ a.wrote = Decodable(s, d.fed + a.took) - d.given
    BY <1>2 DEF Answers
  <2>2. Total(s) \in Nat /\ Decodable(s, d.fed + a.took) \in Nat
    BY <2>1, SizeIsPositive DEF IsDecoder
  <2> QED
    BY <1>2, <2>1, <2>2 DEF After, IsDecoder, Complete, Total
<1> QED
  BY <1>1, <1>2
\* The adapter begins with an empty buffer and a fresh decoder.
LEMMA ReaderInvInit == Init => ReaderInv
<1> SUFFICES ASSUME Init PROVE ReaderInv
  OBVIOUS
<1>1. DecoderInv
  <2>1. IsStream(stream)
    BY ReaderConstants DEF Init
  <2>2. Size(stream) \in Nat
    BY <2>1, SizeIsPositive
  <2> QED
    BY <2>2 DEF Init, DecoderInv, IsDecoder, Fresh, Decodable
<1>2. BufferedIsNext
  BY ReaderConstants DEF Init, BufferedIsNext, Fresh
<1>3. DeliveredInv
  <2>1. delivered \in Seq(Int) /\ Len(delivered) = 0
    BY DEF Init
  <2>2. Decoded(0) \in Seq(Int) /\ Len(Decoded(0)) = 0
    BY DecodedFacts
  <2>3. delivered = Decoded(Len(delivered))
    BY <2>1, <2>2, SeqEqual
  <2> QED
    BY <2>1, <2>3 DEF Init, DeliveredInv, Fresh
<1>4. ZeroIsTheEnd
  BY DEF Init, ZeroIsTheEnd, NoneYet, Ok
<1> QED
  BY <1>1, <1>2, <1>3, <1>4 DEF ReaderInv

\* copy_to_front keeps the unread bytes, whichever of its cases applies.
LEMMA CopiedKeepsUnread ==
  ASSUME input_len \in 0..BufferLen, NEW offset \in 0..input_len, NEW fed \in Nat,
         \A k \in 1..(input_len - offset) : input_buffer[offset + k] = fed + k - 1,
         CopiedToFront(offset)
  PROVE  \E new_len \in 0..BufferLen, new_offset \in Nat :
           /\ new_offset <= new_len
           /\ input_len' = new_len /\ input_offset' = new_offset
           /\ new_len - new_offset = input_len - offset
           /\ \A k \in 1..(new_len - new_offset) :
                input_buffer'[new_offset + k] = fed + k - 1
<1> USE ReaderConstants
<1>1. CASE offset = BufferLen
  <2>1. input_len' = 0 /\ input_offset' = 0 /\ input_len - offset = 0
    BY <1>1 DEF CopiedToFront
  <2>2. 0 \in 0..BufferLen /\ 0 \in Nat /\ 0 <= 0 /\ 0 - 0 = 0
    OBVIOUS
  <2>3. \A k \in 1..(0 - 0) : input_buffer'[0 + k] = fed + k - 1
    OBVIOUS
  <2> QED
    BY <2>1, <2>2, <2>3
<1>2. CASE /\ offset # BufferLen
           /\ offset + MoveMargin > BufferLen /\ input_len - offset < offset
  <2> DEFINE avail == input_len - offset
  <2>1. /\ input_len' = avail /\ input_offset' = 0
        /\ input_buffer' = [k \in 1..BufferLen |->
             IF k <= avail THEN input_buffer[offset + k] ELSE input_buffer[k]]
    BY <1>2 DEF CopiedToFront
  <2>2. avail \in 0..BufferLen /\ 0 \in Nat /\ 0 <= avail /\ avail - 0 = avail
    OBVIOUS
  <2>3. ASSUME NEW k \in 1..(avail - 0) PROVE input_buffer'[0 + k] = fed + k - 1
    <3>1. k \in 1..BufferLen /\ k <= avail /\ 0 + k = k
      OBVIOUS
    <3>2. input_buffer'[k] = input_buffer[offset + k]
      BY <2>1, <3>1
    <3> QED
      BY <3>1, <3>2
  <2> QED
    BY <2>1, <2>2, <2>3
<1>3. CASE /\ offset # BufferLen
           /\ ~(offset + MoveMargin > BufferLen /\ input_len - offset < offset)
  <2>1. input_len' = input_len /\ input_offset' = offset
        /\ input_buffer' = input_buffer
    BY <1>3 DEF CopiedToFront
  <2> QED
    BY <2>1
<1> QED
  BY <1>1, <1>2, <1>3

\* A read is called: nothing moves yet.
LEMMA ReaderRead ==
  ASSUME ReaderInv, NEW len \in BufLens, Read(len)
  PROVE  ReaderInv'
<1>1. /\ pc' = "decode"
      /\ UNCHANGED <<stream, pulled, input_buffer, input_offset, input_len, dec,
                     error_if_invalid_data, delivered>>
  BY DEF Read, fileVars, inputVars
<1> QED
  BY <1>1 DEF ReaderInv, DecoderInv, BufferedIsNext, DeliveredInv, ZeroIsTheEnd

\* copy_to_front between two reads.
LEMMA ReaderCopyToFront ==
  ASSUME ReaderInv, CopyToFront
  PROVE  ReaderInv'
<1> USE DEF ReaderInv
<1>1. /\ CopiedToFront(input_offset)
      /\ UNCHANGED <<stream, pulled, dec, error_if_invalid_data, buf, pc, answer,
                     delivered>>
  BY DEF CopyToFront, fileVars
<1>2. dec.fed \in Nat
  BY DEF DecoderInv, IsDecoder
<1>3. PICK new_len \in 0..BufferLen, new_offset \in Nat :
        /\ new_offset <= new_len
        /\ input_len' = new_len /\ input_offset' = new_offset
        /\ new_len - new_offset = input_len - input_offset
        /\ \A k \in 1..(new_len - new_offset) :
             input_buffer'[new_offset + k] = dec.fed + k - 1
  <2>1. /\ input_len \in 0..BufferLen /\ input_offset \in 0..input_len
        /\ \A k \in 1..(input_len - input_offset) :
             input_buffer[input_offset + k] = dec.fed + k - 1
    BY DEF BufferedIsNext
  <2> QED
    BY <1>1, <1>2, <2>1, CopiedKeepsUnread
<1>4. BufferedIsNext'
  BY <1>1, <1>3 DEF BufferedIsNext
<1>5. DecoderInv' /\ DeliveredInv' /\ ZeroIsTheEnd'
  BY <1>1 DEF DecoderInv, DeliveredInv, ZeroIsTheEnd
<1> QED
  BY <1>4, <1>5

\* What a call of the decoder means for the reader, whatever its result.
LEMMA ReaderAnswer ==
  ASSUME ReaderInv,
         NEW a \in Answers(stream, dec, input_len - input_offset, buf),
         buf \in Nat
  PROVE  /\ a.took \in 0..(input_len - input_offset) /\ a.wrote \in 0..buf
         /\ IsDecoder(stream, After(dec, a))
         /\ After(dec, a).fed = dec.fed + a.took
         /\ After(dec, a).given = dec.given + a.wrote
         /\ dec.fed \in Nat /\ dec.given \in Nat
         /\ \A k \in 1..(input_len - (input_offset + a.took)) :
              input_buffer[input_offset + a.took + k] = dec.fed + a.took + k - 1
         /\ pulled = dec.fed + a.took + (input_len - (input_offset + a.took))
         /\ a.result # "ResultFailure" =>
              /\ Len(delivered) = dec.given
              /\ delivered \o Output(dec, a) = Decoded(dec.given + a.wrote)
<1> USE DEF ReaderInv
<1>1. IsStream(stream) /\ IsDecoder(stream, dec)
  BY ReaderConstants DEF DecoderInv
<1>2. input_len - input_offset \in Nat
  BY ReaderConstants DEF BufferedIsNext
<1>3. /\ a.took \in 0..(input_len - input_offset) /\ a.wrote \in 0..buf
      /\ IsDecoder(stream, After(dec, a))
      /\ After(dec, a).fed = dec.fed + a.took
      /\ After(dec, a).given = dec.given + a.wrote
  BY <1>1, <1>2, AnswersStay
<1>4. /\ dec.fed \in Nat /\ dec.given \in Nat
      /\ a.took \in Nat /\ a.wrote \in Nat
  BY <1>1, <1>2, <1>3 DEF IsDecoder
<1>5. \A k \in 1..(input_len - (input_offset + a.took)) :
        input_buffer[input_offset + a.took + k] = dec.fed + a.took + k - 1
  <2> TAKE k \in 1..(input_len - (input_offset + a.took))
  <2>1. /\ a.took + k \in 1..(input_len - input_offset)
        /\ input_offset + (a.took + k) = input_offset + a.took + k
        /\ dec.fed + (a.took + k) - 1 = dec.fed + a.took + k - 1
    BY <1>4, ReaderConstants DEF BufferedIsNext
  <2>2. input_buffer[input_offset + (a.took + k)] = dec.fed + (a.took + k) - 1
    BY <2>1 DEF BufferedIsNext
  <2> QED
    BY <2>1, <2>2
<1>6. pulled = dec.fed + a.took + (input_len - (input_offset + a.took))
  BY <1>4, ReaderConstants DEF BufferedIsNext
<1>7. ASSUME a.result # "ResultFailure"
      PROVE  /\ Len(delivered) = dec.given
             /\ delivered \o Output(dec, a) = Decoded(dec.given + a.wrote)
  <2>1. ~dec.failed
    BY <1>1, <1>2, <1>7, AnswersStay
  <2>2. Len(delivered) = dec.given /\ delivered = Decoded(dec.given)
    BY <2>1 DEF DeliveredInv
  <2>3. /\ Output(dec, a) \in Seq(Int) /\ Len(Output(dec, a)) = a.wrote
        /\ \A k \in 1..a.wrote : Output(dec, a)[k] = dec.given + k - 1
    BY <1>4, OutputFacts
  <2>4. Decoded(dec.given) \o Output(dec, a) = Decoded(dec.given + a.wrote)
    <3>1. Decoded(dec.given) \o Output(dec, a)
            = Decoded(dec.given + Len(Output(dec, a)))
      BY <1>4, <2>3, AppendDecoded
    <3> QED
      BY <2>3, <3>1
  <2> QED
    BY <2>2, <2>4
<1> QED
  BY <1>3, <1>4, <1>5, <1>6, <1>7

\* The input side of an iteration: the bytes the decoder took are gone, by
\* copy_to_front or by the cursor alone.
LEMMA ReaderDecodeInput ==
  ASSUME ReaderInv, buf \in Nat, UNCHANGED pulled,
         NEW a \in Answers(stream, dec, input_len - input_offset, buf),
         dec' = After(dec, a),
         \/ CopiedToFront(input_offset + a.took)
         \/ /\ input_offset' = input_offset + a.took
            /\ UNCHANGED <<input_buffer, input_len>>
  PROVE  BufferedIsNext'
<1> DEFINE offset == input_offset + a.took
           fed == dec.fed + a.took
<1>1. /\ a.took \in 0..(input_len - input_offset) /\ dec.fed \in Nat
      /\ \A k \in 1..(input_len - offset) : input_buffer[offset + k] = fed + k - 1
      /\ pulled = fed + (input_len - offset)
      /\ dec'.fed = fed
  BY ReaderAnswer
<1>2. /\ input_len \in 0..BufferLen /\ offset \in 0..input_len /\ fed \in Nat
  BY <1>1, ReaderConstants DEF ReaderInv, BufferedIsNext
<1> HIDE DEF fed
<1>3. PICK new_len \in 0..BufferLen, new_offset \in Nat :
        /\ new_offset <= new_len
        /\ input_len' = new_len /\ input_offset' = new_offset
        /\ new_len - new_offset = input_len - offset
        /\ \A k \in 1..(new_len - new_offset) :
             input_buffer'[new_offset + k] = fed + k - 1
  <2>1. CASE CopiedToFront(offset)
    <3> HIDE DEF offset
    <3> QED
      BY <1>1, <1>2, <2>1, CopiedKeepsUnread
  <2>2. CASE /\ input_offset' = offset
             /\ UNCHANGED <<input_buffer, input_len>>
    <3>1. offset \in Nat /\ offset <= input_len
      BY <1>2, ReaderConstants
    <3> HIDE DEF offset
    <3> QED
      BY <1>1, <1>2, <2>2, <3>1
  <2> QED
    BY <2>1, <2>2
<1> QED
  BY <1>1, <1>3 DEF BufferedIsNext

\* One iteration of the loop of read.
LEMMA ReaderDecode ==
  ASSUME ReaderInv, buf \in Nat, Decode
  PROVE  ReaderInv'
<1>1. PICK a \in Answers(stream, dec, input_len - input_offset, buf) :
        /\ dec' = After(dec, a)
        /\ MoreInput(a) \/ MoreOutput(a) \/ Success(a) \/ Failure(a)
  BY DEF Decode
<1>2. UNCHANGED <<stream, pulled, buf>>
  BY DEF Decode, fileVars
<1>3. \/ CopiedToFront(input_offset + a.took)
      \/ /\ input_offset' = input_offset + a.took
         /\ UNCHANGED <<input_buffer, input_len>>
  BY <1>1 DEF MoreInput, MoreOutput, Success, Failure
<1>4. BufferedIsNext'
  BY <1>1, <1>2, <1>3, ReaderDecodeInput
<1>5. /\ IsDecoder(stream, dec') /\ dec'.given = dec.given + a.wrote
      /\ dec.given \in Nat /\ a.wrote \in 0..buf
      /\ a.result # "ResultFailure" =>
           /\ Len(delivered) = dec.given
           /\ delivered \o Output(dec, a) = Decoded(dec.given + a.wrote)
  BY <1>1, ReaderAnswer
<1>6. DecoderInv'
  <2>1. error_if_invalid_data' \in BOOLEAN
    BY <1>1 DEF ReaderInv, DecoderInv, MoreInput, MoreOutput, Success, Failure,
       ReturnInvalidData
  <2> QED
    BY <1>2, <1>5, <2>1 DEF ReaderInv, DecoderInv
<1>7. a.result = "ResultFailure" => dec'.failed
  BY <1>1 DEF After
<1>8. a.result # "ResultFailure" => delivered' = Decoded(dec.given + a.wrote)
  <2> SUFFICES ASSUME a.result # "ResultFailure"
               PROVE  delivered' = Decoded(dec.given + a.wrote)
    OBVIOUS
  <2>1. CASE delivered' = delivered \o Output(dec, a)
    BY <1>5, <2>1
  <2>2. CASE delivered' = delivered /\ a.wrote = 0
    <3>1. delivered = Decoded(dec.given) /\ dec.given + a.wrote = dec.given
      BY <1>5, <2>2 DEF ReaderInv, DeliveredInv
    <3> QED
      BY <2>2, <3>1
  <2> QED
    BY <1>1, <2>1, <2>2 DEF MoreInput, MoreOutput, Success, Failure
<1>9. a.result = "ResultFailure" => delivered' = delivered
  BY <1>1 DEF MoreInput, MoreOutput, Success, Failure
<1>10. /\ Decoded(dec.given + a.wrote) \in Seq(Int)
       /\ Len(Decoded(dec.given + a.wrote)) = dec.given + a.wrote
  <2>1. dec.given + a.wrote \in Nat
    BY <1>5
  <2> QED
    BY <2>1, DecodedFacts
<1>11. DeliveredInv'
  <2>1. CASE a.result = "ResultFailure"
    BY <1>7, <1>9, <2>1 DEF ReaderInv, DeliveredInv
  <2>2. CASE a.result # "ResultFailure"
    BY <1>5, <1>8, <1>10, <2>2 DEF DeliveredInv
  <2> QED
    BY <2>1, <2>2
<1>12. ZeroIsTheEnd'
  <2> SUFFICES ASSUME pc' = "idle", answer' = Ok(0), buf > 0, error_if_invalid_data'
               PROVE  Complete(stream, dec') /\ Len(delivered') = Total(stream)
    BY <1>2 DEF ZeroIsTheEnd
  <2>1. ~MoreInput(a)
    <3>1. a.wrote # 0 => Ok(a.wrote) # Ok(0)
      BY DEF Ok
    <3> QED
      BY <3>1 DEF MoreInput, Return
  <2>2. ~MoreOutput(a)
    <3> SUFFICES ASSUME MoreOutput(a) PROVE FALSE
      OBVIOUS
    <3>1. a.result = "NeedsMoreOutput" /\ a.wrote = 0
      BY DEF MoreOutput, Return, Ok
    <3>2. ~dec.failed
      <4>1. dec.failed => a = [took |-> 0, wrote |-> 0, result |-> "ResultFailure"]
        BY DEF Answers
      <4> QED
        BY <3>1, <4>1
    <3>3. a.wrote = buf
      BY <3>1, <3>2 DEF Answers
    <3> QED
      BY <3>1, <3>3
  <2>3. ~Failure(a)
    BY DEF Failure, ReturnInvalidData
  <2>4. a.result = "ResultSuccess"
    BY <1>1, <2>1, <2>2, <2>3 DEF Success
  <2>5. Complete(stream, dec')
    <3>1. IsStream(stream) /\ IsDecoder(stream, dec)
      BY ReaderConstants DEF ReaderInv, DecoderInv
    <3>2. input_len - input_offset \in Nat
      BY ReaderConstants DEF ReaderInv, BufferedIsNext
    <3>3. Complete(stream, After(dec, a))
      BY <2>4, <3>1, <3>2, AnswersStay
    <3> QED
      BY <1>1, <3>3
  <2> QED
    BY <1>5, <1>8, <1>10, <2>4, <2>5 DEF Complete
<1> QED
  BY <1>4, <1>6, <1>11, <1>12 DEF ReaderInv

\* Bytes arrive from the underlying reader, behind those that are there.
LEMMA ReaderPullBytes ==
  ASSUME ReaderInv, NEW n \in 1..BufferLen, PullBytes(n)
  PROVE  ReaderInv'
<1> USE DEF ReaderInv
<1>1. /\ pc' = "decode" /\ n <= BufferLen - input_len
      /\ input_buffer' = [k \in 1..BufferLen |->
           IF k > input_len /\ k <= input_len + n
           THEN pulled + (k - input_len) - 1 ELSE input_buffer[k]]
      /\ input_len' = input_len + n
      /\ pulled' = pulled + n
      /\ UNCHANGED <<stream, input_offset, dec, error_if_invalid_data, delivered>>
  BY DEF PullBytes, Room
<1>2. /\ input_len \in 0..BufferLen /\ input_offset \in 0..input_len
      /\ dec.fed \in Nat
      /\ pulled = dec.fed + (input_len - input_offset)
  BY DEF BufferedIsNext, DecoderInv, IsDecoder
<1>3. ASSUME NEW k \in 1..((input_len + n) - input_offset)
      PROVE  input_buffer'[input_offset + k] = dec.fed + k - 1
  <2>1. input_offset + k \in 1..BufferLen
    BY <1>1, <1>2, ReaderConstants
  <2>2. CASE input_offset + k > input_len
    <3>1. input_buffer'[input_offset + k] = pulled + (input_offset + k - input_len) - 1
      BY <1>1, <1>2, <2>1, <2>2, ReaderConstants
    <3> QED
      BY <1>2, <3>1, ReaderConstants
  <2>3. CASE input_offset + k <= input_len
    <3>1. input_buffer'[input_offset + k] = input_buffer[input_offset + k]
      BY <1>1, <1>2, <2>1, <2>3, ReaderConstants
    <3>2. k \in 1..(input_len - input_offset)
      BY <1>2, <2>3, ReaderConstants
    <3> QED
      BY <3>1, <3>2 DEF BufferedIsNext
  <2>4. input_offset + k > input_len \/ input_offset + k <= input_len
    BY <1>2, ReaderConstants
  <2> QED
    BY <2>2, <2>3, <2>4
<1>4. /\ input_len + n \in 0..BufferLen
      /\ input_offset \in 0..(input_len + n)
      /\ pulled + n = dec.fed + ((input_len + n) - input_offset)
  BY <1>1, <1>2, ReaderConstants
<1>5. BufferedIsNext'
  <2> DEFINE new_len == input_len + n
  <2>1. /\ input_len' = new_len
        /\ new_len \in 0..BufferLen /\ input_offset \in 0..new_len
    BY <1>1, <1>4
  <2>2. pulled' = dec.fed + (new_len - input_offset)
    BY <1>1, <1>4
  <2>3. \A k \in 1..(new_len - input_offset) :
          input_buffer'[input_offset + k] = dec.fed + k - 1
    BY <1>3
  <2> HIDE DEF new_len
  <2> QED
    BY <1>1, <2>1, <2>2, <2>3 DEF BufferedIsNext
<1>6. DecoderInv' /\ DeliveredInv' /\ ZeroIsTheEnd'
  BY <1>1 DEF DecoderInv, DeliveredInv, ZeroIsTheEnd
<1> QED
  BY <1>5, <1>6

\* No bytes arrive: the end of the file, or an error of the underlying reader.
LEMMA ReaderPullsNothing ==
  ASSUME ReaderInv, PullNothing \/ PullError
  PROVE  ReaderInv'
<1> USE DEF ReaderInv
<1>1. /\ UNCHANGED <<stream, pulled, input_buffer, input_offset, input_len, dec,
                     buf, delivered>>
      /\ \/ error_if_invalid_data' = FALSE
         \/ UNCHANGED error_if_invalid_data /\ answer' = Err("upstream")
  BY DEF PullNothing, PullError, Return, ReturnInvalidData, fileVars, inputVars
<1>2. ZeroIsTheEnd'
  BY <1>1 DEF ZeroIsTheEnd, Err, Ok
<1>3. DecoderInv'
  BY <1>1 DEF DecoderInv
<1>4. BufferedIsNext'
  BY <1>1 DEF BufferedIsNext
<1>5. DeliveredInv'
  BY <1>1 DEF DeliveredInv
<1> QED
  BY <1>2, <1>3, <1>4, <1>5

\* The buffer of the read under way has a length.
BufInv == buf \in Nat

\* Every step of the adapter, its caller and the underlying reader keeps the
\* invariant.
LEMMA ReaderInvStep == ReaderInv /\ BufInv /\ [Next]_vars => (ReaderInv /\ BufInv)'
<1> SUFFICES ASSUME ReaderInv, BufInv, [Next]_vars PROVE (ReaderInv /\ BufInv)'
  OBVIOUS
<1>1. BufInv'
  BY ReaderConstants DEF BufInv, Next, Read, CopyToFront, Decode, PullSome,
     PullBytes, PullNothing, PullError, vars
<1>2. ReaderInv'
  <2>1. CASE \E len \in BufLens : Read(len)
    BY <2>1, ReaderRead
  <2>2. CASE CopyToFront
    BY <2>2, ReaderCopyToFront
  <2>3. CASE Decode
    BY <2>3, ReaderDecode DEF BufInv
  <2>4. CASE PullSome
    BY <2>4, ReaderPullBytes DEF PullSome
  <2>5. CASE PullNothing \/ PullError
    BY <2>5, ReaderPullsNothing
  <2>6. CASE UNCHANGED vars
    BY <2>6 DEF vars, fileVars, inputVars, ReaderInv, DecoderInv, BufferedIsNext,
       DeliveredInv, ZeroIsTheEnd
  <2> QED
    BY <2>1, <2>2, <2>3, <2>4, <2>5, <2>6 DEF Next
<1> QED
  BY <1>1, <1>2

\* Every behaviour keeps the invariant.
LEMMA ReaderInvHolds == Spec => []ReaderInv
<1>1. Init => ReaderInv /\ BufInv
  BY ReaderInvInit DEF Init, BufInv
<1> QED
  BY <1>1, ReaderInvStep, PTL DEF Spec

\* The unread part of the input buffer is what follows the bytes the decoder
\* took: no compressed byte is lost, repeated or overwritten.
THEOREM ReaderBufferedIsNext == Spec => []BufferedIsNext
<1>1. ReaderInv => BufferedIsNext
  BY DEF ReaderInv
<1> QED
  BY <1>1, ReaderInvHolds, PTL

\* Every decoded byte is in the caller's hands when read returns, in order.
THEOREM ReaderNoByteVanishes == Spec => []NoByteVanishes
<1>1. ReaderInv => NoByteVanishes
  BY DEF ReaderInv, DeliveredInv, NoByteVanishes
<1> QED
  BY <1>1, ReaderInvHolds, PTL

\* The first Ok(0) for a buffer with room is the end of the stream.
THEOREM ReaderZeroIsTheEnd == Spec => []ZeroIsTheEnd
<1>1. ReaderInv => ZeroIsTheEnd
  BY DEF ReaderInv
<1> QED
  BY <1>1, ReaderInvHolds, PTL
=============================================================================
