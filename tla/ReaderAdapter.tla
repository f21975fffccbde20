--------------------------- MODULE ReaderAdapter ---------------------------
(***************************************************************************)
(* DecompressorCustomIo (src/src/reader.rs): a reader of decoded bytes on  *)
(* top of a reader of compressed ones.  Reads of the underlying reader may *)
(* be short, fail, or end early; what follows the stream in the file may   *)
(* get into the input buffer too.                                          *)
(***************************************************************************)
EXTENDS DecoderCalls

CONSTANTS
  Streams,      (* compressed streams                                       *)
  MaxFile,      (* bound: length of the file, which may be cut or longer    *)
  BufferLen,    (* input_buffer.len()                                       *)
  MoveMargin,   (* the 256 of copy_to_front                                 *)
  BufLens       (* lengths of the caller's buffers                          *)

ASSUME ReaderConstants ==
  /\ \A s \in Streams : IsStream(s)
  /\ MaxFile \in Nat
  /\ BufferLen \in Nat \ {0}
  /\ MoveMargin \in Nat \ {0}
  /\ BufLens \subseteq Nat

VARIABLES
  stream,                 (* what the file begins with                      *)
  file,                   (* the length of the file                         *)
  pulled,                 (* bytes the underlying reader gave               *)
  input_buffer,
  input_offset,
  input_len,
  dec,                    (* state: BrotliState                             *)
  done,
  error_if_invalid_data,  (* is the error still there to be given?          *)
  buf,                    (* length of the buffer of the read under way     *)
  pc,                     (* "idle", "decode", or "pull" from the reader    *)
  answer,                 (* of the last read that returned                 *)
  delivered               (* history: the decoded bytes the caller has      *)

fileVars == <<stream, file, pulled>>
inputVars == <<input_buffer, input_offset, input_len>>
vars == <<fileVars, inputVars, dec, done, error_if_invalid_data, buf, pc,
          answer, delivered>>

NoByte == -1

Init ==
  /\ stream \in Streams
  /\ file \in 0..MaxFile
  /\ pulled = 0
  /\ input_buffer = [k \in 1..BufferLen |-> NoByte]
  /\ input_offset = 0
  /\ input_len = 0
  /\ dec = Fresh
  /\ done = FALSE
  /\ error_if_invalid_data = TRUE
  /\ buf = 0
  /\ pc = "idle"
  /\ answer = NoneYet
  /\ delivered = <<>>

Return(a) == pc' = "idle" /\ answer' = a

\* error_if_invalid_data.take(): the error once, Ok(0) ever after.
ReturnInvalidData ==
  /\ Return(IF error_if_invalid_data THEN Err("InvalidData") ELSE Ok(0))
  /\ error_if_invalid_data' = FALSE

\* copy_to_front with the next unread byte at `offset`.  (Mutants: the buffer
\* is not emptied when it was read to its end; the bytes are not moved.)
MutantKeepsFullBuffer(offset) ==
  LET avail_in == input_len - offset
  IN  IF offset + MoveMargin > BufferLen /\ avail_in < offset /\ offset # BufferLen
      THEN /\ input_buffer' = [k \in 1..BufferLen |->
                IF k <= avail_in THEN input_buffer[offset + k] ELSE input_buffer[k]]
           /\ input_offset' = 0
           /\ input_len' = avail_in
      ELSE input_offset' = offset /\ UNCHANGED <<input_buffer, input_len>>
MutantForgetsBytes(offset) ==
  LET avail_in == input_len - offset
  IN  IF offset + MoveMargin > BufferLen
      THEN /\ input_offset' = 0
           /\ input_len' = avail_in
           /\ UNCHANGED input_buffer
      ELSE input_offset' = offset /\ UNCHANGED <<input_buffer, input_len>>
CopiedToFront(offset) ==
  LET avail_in == input_len - offset
  IN  IF offset = BufferLen
      THEN input_offset' = 0 /\ input_len' = 0 /\ UNCHANGED input_buffer
      ELSE IF offset + MoveMargin > BufferLen /\ avail_in < offset
      THEN /\ input_buffer' = [k \in 1..BufferLen |->
                IF k <= avail_in THEN input_buffer[offset + k] ELSE input_buffer[k]]
           /\ input_offset' = 0
           /\ input_len' = avail_in
      ELSE input_offset' = offset /\ UNCHANGED <<input_buffer, input_len>>

-----------------------------------------------------------------------------

\* read(buf) is called.
Read(len) ==
  /\ pc = "idle"
  /\ pc' = "decode"
  /\ buf' = len
  /\ UNCHANGED <<fileVars, inputVars, dec, done, error_if_invalid_data, answer,
                 delivered>>

\* copy_to_front is public: anyone may call it between reads.
CopyToFront ==
  /\ pc = "idle"
  /\ CopiedToFront(input_offset)
  /\ UNCHANGED <<fileVars, dec, done, error_if_invalid_data, buf, pc, answer,
                 delivered>>

\* NeedsMoreInput: what was decoded is returned before the underlying reader
\* can fail.  (Mutant: it is asked for more first.)
MutantPullsFirst(a) ==
  /\ a.result = "NeedsMoreInput"
  /\ CopiedToFront(input_offset + a.took)
  /\ pc' = "pull"
  /\ UNCHANGED <<answer, delivered, done, error_if_invalid_data>>
MoreInput(a) ==
  /\ a.result = "NeedsMoreInput"
  /\ CopiedToFront(input_offset + a.took)
  /\ IF a.wrote # 0
     THEN Return(Ok(a.wrote)) /\ delivered' = delivered \o Output(dec, a)
     ELSE pc' = "pull" /\ UNCHANGED <<answer, delivered>>
  /\ UNCHANGED <<done, error_if_invalid_data>>

MoreOutput(a) ==
  /\ a.result = "NeedsMoreOutput"
  /\ Return(Ok(a.wrote))
  /\ delivered' = delivered \o Output(dec, a)
  /\ input_offset' = input_offset + a.took
  /\ UNCHANGED <<input_buffer, input_len, done, error_if_invalid_data>>

\* Success: Ok(0) once, then an error if the buffer holds more than the
\* stream.
Success(a) ==
  /\ a.result = "ResultSuccess"
  /\ input_offset' = input_offset + a.took
  /\ delivered' = delivered \o Output(dec, a)
  /\ done' = (done \/ a.wrote = 0)
  /\ IF a.wrote = 0 /\ done /\ input_len # input_offset'
     THEN ReturnInvalidData
     ELSE Return(Ok(a.wrote)) /\ UNCHANGED error_if_invalid_data
  /\ UNCHANGED <<input_buffer, input_len>>

\* Failure: what this call decoded before the error is not returned.
Failure(a) ==
  /\ a.result = "ResultFailure"
  /\ ReturnInvalidData
  /\ input_offset' = input_offset + a.took
  /\ UNCHANGED <<input_buffer, input_len, done, delivered>>

\* One iteration of the loop of read, up to the underlying reader.
Decode ==
  /\ pc = "decode"
  /\ \E a \in Answers(stream, dec, input_len - input_offset, buf) :
       /\ dec' = After(dec, a)
       /\ MoreInput(a) \/ MoreOutput(a) \/ Success(a) \/ Failure(a)
  /\ UNCHANGED <<fileVars, buf>>

-----------------------------------------------------------------------------
(* The underlying reader is given input_buffer[input_len..].               *)

Room == BufferLen - input_len

\* n bytes arrive.
PullBytes(n) ==
  /\ pc = "pull"
  /\ n <= Room /\ n <= file - pulled
  /\ input_buffer' = [k \in 1..BufferLen |->
       IF k > input_len /\ k <= input_len + n
       THEN pulled + (k - input_len) - 1 ELSE input_buffer[k]]
  /\ input_len' = input_len + n
  /\ pulled' = pulled + n
  /\ pc' = "decode"
  /\ UNCHANGED <<stream, file, input_offset, dec, done, error_if_invalid_data,
                 buf, answer, delivered>>

\* Ok(0): the end of the file - or a slice without room.  (Mutant: taken for
\* the end of the decoded bytes.)
MutantEofIsFine ==
  /\ pc = "pull"
  /\ pulled = file \/ Room = 0
  /\ Return(Ok(0)) /\ UNCHANGED error_if_invalid_data
  /\ UNCHANGED <<fileVars, inputVars, dec, done, buf, delivered>>
PullNothing ==
  /\ pc = "pull"
  /\ pulled = file \/ Room = 0
  /\ ReturnInvalidData
  /\ UNCHANGED <<fileVars, inputVars, dec, done, buf, delivered>>

PullError ==
  /\ pc = "pull"
  /\ Return(Err("upstream"))
  /\ UNCHANGED <<fileVars, inputVars, dec, done, error_if_invalid_data, buf,
                 delivered>>

PullSome == \E n \in 1..BufferLen : PullBytes(n)

Next ==
  \/ \E len \in BufLens : Read(len)
  \/ CopyToFront
  \/ Decode
  \/ PullSome
  \/ PullNothing
  \/ PullError

Spec == Init /\ [][Next]_vars

\* The code runs while a read is under way; the underlying reader does not
\* fail for ever, and the caller goes on reading into buffers with room.
Fairness ==
  /\ WF_vars(Decode)
  /\ SF_vars(PullSome \/ PullNothing)
  /\ SF_vars(\E len \in BufLens \ {0} : Read(len))

LiveSpec == Spec /\ Fairness

-----------------------------------------------------------------------------
(* Properties                                                              *)

\* The unread part of the input buffer is what follows the bytes the decoder
\* took, whatever short reads, errors and moves happened: nothing compressed
\* is lost, repeated or overwritten, and the cursors stay in the buffer.
BufferedIsNext ==
  /\ input_len \in 0..BufferLen /\ input_offset \in 0..input_len
  /\ pulled = dec.fed + (input_len - input_offset)
  /\ \A k \in 1..(input_len - input_offset) :
       input_buffer[input_offset + k] = dec.fed + k - 1

\* Every byte taken from the decoder is in the caller's hands when read
\* returns, in order - also when the underlying reader fails, and until the
\* stream turns out to be invalid.
NoByteVanishes ==
  /\ delivered = Decoded(Len(delivered))
  /\ pc = "idle" /\ ~dec.failed => Len(delivered) = dec.given

\* While the error has not been given, Ok(0) for a buffer with room means that
\* the stream is complete and all of it was delivered.
ZeroIsTheEnd ==
  pc = "idle" /\ answer = Ok(0) /\ buf > 0 /\ error_if_invalid_data
    => Complete(stream, dec) /\ Len(delivered) = Total(stream)

\* What the comment of read says of Ok(0): "Returns Ok(0) if the file has been
\* fully decompressed", and before that an Ok with the number of bytes read.
OkZeroOnlyWhenDecompressed ==
  pc = "idle" /\ answer = Ok(0) /\ buf > 0 => Complete(stream, dec)

\* The stream was read to its end, and the buffer holds more than the stream.
Excess == Complete(stream, dec) /\ input_len # input_offset

\* A caller that keeps reading gets every decoded byte of a complete file; it is
\* told of one that is cut or invalid, and of bytes behind the stream that got
\* into the buffer; and it is told InvalidData of no other file: no read of zero
\* bytes into a full buffer is taken for the end, no error gets lost or made up.
EndIsReached ==
  /\ ~stream.bad /\ file >= Size(stream) => <>(Len(delivered) = Total(stream))
  /\ stream.bad \/ file < Size(stream) => <>(answer = Err("InvalidData"))
  /\ <>Excess => <>(answer = Err("InvalidData"))
  /\ [](answer = Err("InvalidData") =>
          stream.bad \/ file < Size(stream) \/ Excess)
=============================================================================
