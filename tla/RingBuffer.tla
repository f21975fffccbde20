----------------------------- MODULE RingBuffer -----------------------------
(***************************************************************************)
(* The output side of the decoder (src/src/decode.rs): the ring buffer     *)
(* that is at once the LZ77 window and the queue of bytes not yet handed   *)
(* to the caller.  Decoded bytes enter at `pos`; WriteRingBuffer hands     *)
(* them out at `partial_pos_out`; a dictionary word may run past the end   *)
(* of the ring into a slack region, from which WrapRingBuffer moves it to  *)
(* the front after everything before it was written.                       *)
(*                                                                         *)
(* A byte is abstracted to its NUMBER in the decoded stream (0, 1, 2 ...;  *)
(* the custom dictionary holds -1, -2, ...).  A cell of the ring holds the *)
(* number of the byte stored in it, so every property about content - the  *)
(* right byte is delivered, a back-reference reads the right byte - is a   *)
(* property about numbers.                                                 *)
(*                                                                         *)
(* What the compressed stream says (block and command lengths, distances,  *)
(* when the input runs out) is an arbitrary choice: every stream, valid or *)
(* not, is one of the behaviours.                                          *)
(***************************************************************************)
EXTENDS Integers, Sequences

CONSTANTS
  WindowSize,     (* 1 << window_bits                                       *)
  Gap,            (* the 16 of kBrotliWindowGap, max_dict_size and canny    *)
  Chunk,          (* the 16 of memmove16                                    *)
  MinRing,        (* the 32 below which a canny ring is not halved          *)
  Slack,          (* kRingBufferWriteAheadSlack + kBrotliMaxDictionaryWord..*)
  DictSize,       (* length of the custom dictionary, 0 for none            *)
  Canny,          (* canny_ringbuffer_allocation                            *)
  BlockLengths,   (* MLENs of non-empty meta-blocks                         *)
  InsertLengths,  (* insert lengths of commands                             *)
  CopyLengths,    (* copy lengths of commands                               *)
  WordLengths,    (* lengths of transformed static dictionary words         *)
  StreamRoom,     (* available_out values of BrotliDecompressStream calls   *)
  TakeSizes,      (* *size arguments of BrotliDecoderTakeOutput calls       *)
  MaxDeclared,    (* bound: sum of the MLENs of a stream                    *)
  NoByte          (* content of a cell nothing was stored in                *)

ASSUME RingConstants ==
  /\ WindowSize \in Nat /\ \E k \in 0..30 : WindowSize = 2^k
  /\ Gap \in Nat /\ Chunk \in Nat /\ Slack \in Nat /\ MinRing \in Nat
  /\ DictSize \in Nat
  /\ 1 <= Chunk /\ Chunk <= Gap /\ 2 * Gap <= MinRing /\ MinRing <= WindowSize
  /\ Chunk <= Slack /\ Slack < WindowSize
  /\ Canny \in BOOLEAN
  /\ BlockLengths \subseteq Nat \ {0}
  /\ InsertLengths \subseteq Nat
  /\ CopyLengths \subseteq Nat \ {0}
  /\ WordLengths \subseteq 0..Slack
  /\ StreamRoom \subseteq Nat
  /\ TakeSizes \subseteq Nat
  /\ NoByte \notin Int

VARIABLES
  ring,                  (* s.ringbuffer, slack included                    *)
  ringbuffer_size,       (* 0 until BrotliAllocateRingBuffer ran            *)
  pos,
  rb_roundtrips,
  partial_pos_out,
  should_wrap_ringbuffer,
  state,                 (* s.state, the states the output side tells apart *)
  substate_uncompressed,
  mlen,                  (* s.meta_block_remaining_len, signed              *)
  i,                     (* s.loop_counter: literals or copy bytes to go    *)
  distance_code,         (* distance of the copy in progress                *)
  max_distance,
  is_last,               (* s.is_last_metablock                             *)
  ends_next,             (* the stream continues with an empty last block   *)
  call,                  (* inside BrotliDecompressStream, or not           *)
  available_out,         (* of the current or last stream call              *)
  result,                (* the local `result`; after a return, error_code  *)
  decoded,               (* history: number of bytes decoded                *)
  declared,              (* history: sum of the MLENs read                  *)
  delivered              (* history: what the caller received, in order     *)

ringVars == <<ring, ringbuffer_size, pos, rb_roundtrips, partial_pos_out,
              should_wrap_ringbuffer>>
streamVars == <<state, substate_uncompressed, mlen, i, distance_code,
                max_distance, is_last, ends_next, decoded, declared>>
callVars == <<call, available_out, result, delivered>>
vars == <<ringVars, streamVars, callVars>>

TakeAll == 2^24
\* (Mutant: the window gap is forgotten.)
MutantNoWindowGap == WindowSize
MaxBackwardDistance == WindowSize - Gap
MaxDistanceFromDict == MaxBackwardDistance - DictSize
ClippedDict == IF DictSize > WindowSize - Gap THEN WindowSize - Gap ELSE DictSize

ReadStates == {"METABLOCK_BEGIN", "COMMAND_BEGIN", "COMMAND_INNER",
               "COMMAND_POST_DECODE_LITERALS"}
WriteStates == {"COMMAND_INNER_WRITE", "COMMAND_POST_WRITE_1",
                "COMMAND_POST_WRITE_2"}
States == ReadStates \cup WriteStates \cup
          {"UNCOMPRESSED", "COMMAND_POST_WRAP_COPY", "METABLOCK_DONE", "DONE"}
Results == {"NO_ERROR", "SUCCESS", "NEEDS_MORE_INPUT", "NEEDS_MORE_OUTPUT",
            "ERROR"}

FullRing == ringbuffer_size = WindowSize
Allocated == ringbuffer_size # 0
Fatal == call = "idle" /\ result = "ERROR"

-----------------------------------------------------------------------------
(* Ring content                                                            *)

Cells(size) == 0..(size + Slack - 1)

\* The `& ringbuffer_mask` of the code; sizes are powers of two.
Masked(x) == x % ringbuffer_size

\* A copy at distance d of byte number v is byte number v + d.
CopyOf(v, d) == IF v = NoByte THEN NoByte ELSE v + d

\* r after n cells from dst on received a copy of the cells from src on.
Moved(r, dst, src, n, d) ==
  [k \in DOMAIN r |-> IF k \in dst..(dst + n - 1)
                      THEN CopyOf(r[src + (k - dst)], d) ELSE r[k]]

\* r after the next n decoded bytes were stored from cell p on.
Stored(r, p, n) ==
  [k \in DOMAIN r |-> IF k \in p..(p + n - 1) THEN decoded + (k - p) ELSE r[k]]

\* A new ring of the given size, the custom dictionary at its end.
FreshRing(size) ==
  [k \in Cells(size) |-> IF k \in (size - ClippedDict)..(size - 1)
                         THEN k - size ELSE NoByte]

\* WrapRingBuffer: the slack moves to the front.
Wrapped(r, p) ==
  [k \in DOMAIN r |-> IF k < p THEN r[ringbuffer_size + k] ELSE r[k]]

-----------------------------------------------------------------------------
(* WriteRingBuffer                                                         *)

UnwrittenBytes(wrap) ==
  LET p == IF wrap /\ pos > ringbuffer_size THEN ringbuffer_size ELSE pos
  IN  rb_roundtrips * ringbuffer_size + p - partial_pos_out

ToWrite == UnwrittenBytes(TRUE)

NumWritten(avail) == IF avail > ToWrite THEN ToWrite ELSE avail

\* (Mutants: a partial write of a full ring counts as complete; the force
\* flag is ignored; a complete write of a full ring is called partial.)
MutantPartialWriteSucceeds(avail, force) ==
  IF mlen < 0 THEN "ERROR"
  ELSE IF NumWritten(avail) < ToWrite /\ force
       THEN "NEEDS_MORE_OUTPUT" ELSE "SUCCESS"
MutantForceIgnored(avail, force) ==
  IF mlen < 0 THEN "ERROR"
  ELSE IF NumWritten(avail) < ToWrite /\ FullRing
       THEN "NEEDS_MORE_OUTPUT" ELSE "SUCCESS"
MutantCompleteWriteIsPartial(avail, force) ==
  IF mlen < 0 THEN "ERROR"
  ELSE IF NumWritten(avail) <= ToWrite /\ (FullRing \/ force)
       THEN "NEEDS_MORE_OUTPUT" ELSE "SUCCESS"

WriteStatus(avail, force) ==
  IF mlen < 0 THEN "ERROR"
  ELSE IF NumWritten(avail) < ToWrite /\ (FullRing \/ force)
       THEN "NEEDS_MORE_OUTPUT" ELSE "SUCCESS"

WriteWraps(avail) ==
  /\ mlen >= 0
  /\ NumWritten(avail) = ToWrite
  /\ FullRing
  /\ pos >= ringbuffer_size

\* The bytes a write hands out, taken from ring content r.
Written(r, avail) ==
  IF mlen < 0 THEN <<>>
  ELSE [k \in 1..NumWritten(avail) |-> r[Masked(partial_pos_out) + k - 1]]

\* What WriteRingBuffer(available_out, .., force) changes in the state.
WriteRingBuffer(avail) ==
  /\ partial_pos_out' = IF mlen < 0 THEN partial_pos_out
                        ELSE partial_pos_out + NumWritten(avail)
  /\ IF WriteWraps(avail)
     THEN /\ pos' = pos - ringbuffer_size
          /\ rb_roundtrips' = rb_roundtrips + 1
     ELSE UNCHANGED <<pos, rb_roundtrips>>

\* (Mutant: the slack is never moved to the front.)
MutantNeverWraps(avail, before) == before

\* should_wrap_ringbuffer after the write, `before` its value until then.
MustWrap(avail, before) ==
  IF WriteWraps(avail) THEN pos # ringbuffer_size ELSE before

\* A write to the output slice of the current stream call.
WriteToCaller ==
  /\ WriteRingBuffer(available_out)
  /\ delivered' = delivered \o Written(ring, available_out)
  /\ available_out' = IF mlen < 0 THEN available_out
                      ELSE available_out - NumWritten(available_out)

\* Outcome r of a step: the inner loop goes on, or the call returns.
Outcome(r) ==
  /\ result' = r
  /\ call' = IF r \in {"SUCCESS", "NEEDS_MORE_INPUT"} THEN call ELSE "idle"

Running == call = "running" /\ result = "SUCCESS"

Continue == UNCHANGED callVars

AfterCommand(len) == IF len <= 0 THEN "METABLOCK_DONE" ELSE "COMMAND_BEGIN"

-----------------------------------------------------------------------------
(* The caller                                                              *)

\* BrotliDecompressStream is called.  With a tail of an earlier input in its
\* internal buffer it starts as if it had just run out of input; there can only
\* be one when the last call ended that way, because every other end empties the
\* buffer.  (Whether there is one is StreamInput's; arguments that are refused
\* are DecoderMemory's.)
StreamCall(room) ==
  /\ call = "idle"
  /\ ~Fatal
  /\ call' = "running"
  /\ available_out' = room
  /\ result' \in IF result = "NEEDS_MORE_INPUT"
                 THEN {"SUCCESS", "NEEDS_MORE_INPUT"} ELSE {"SUCCESS"}
  /\ UNCHANGED <<ringVars, streamVars, delivered>>

\* After a fatal error every call fails and changes nothing.
StreamCallAfterError ==
  /\ Fatal
  /\ UNCHANGED vars

\* BrotliDecoderTakeOutput: the ring is wrapped first, then the write is
\* forced; when the write leaves bytes behind, the slice is empty.
TakeOutput(size) ==
  LET avail == IF size # 0 THEN size ELSE TakeAll
      content == IF should_wrap_ringbuffer THEN Wrapped(ring, pos) ELSE ring
      status == WriteStatus(avail, TRUE)
  IN  /\ call = "idle"
      /\ ~Fatal
      /\ Allocated
      /\ ring' = content
      /\ WriteRingBuffer(avail)
      /\ should_wrap_ringbuffer' = MustWrap(avail, FALSE)
      /\ delivered' = delivered \o
           (IF status = "SUCCESS" THEN Written(content, avail) ELSE <<>>)
      /\ UNCHANGED <<ringbuffer_size, streamVars, call, available_out, result>>

-----------------------------------------------------------------------------
(* Meta-blocks                                                             *)

\* The sizes halving reaches: the divisors of a power of two.
RingSizes == {s \in 1..WindowSize : WindowSize % s = 0}

\* The condition of the halving loop of BrotliAllocateRingBuffer.
Halves(s, len) == s >= (ClippedDict + len + Gap) * 2 /\ s > MinRing

\* s is where the loop stops; only a stream known to end is measured.
IsRingSize(s, ends, len) ==
  IF ends /\ Canny
  THEN ~Halves(s, len) /\ (s < WindowSize => Halves(2 * s, len))
  ELSE s = WindowSize

BrotliAllocateRingBuffer(ends, len) ==
  \E s \in RingSizes :
    /\ IsRingSize(s, ends, len)
    /\ ringbuffer_size' = s
    /\ ring' = FreshRing(s)

\* A meta-block header up to the first command (or raw byte).  `peeked`: the
\* header behind an uncompressed block is visible and is an empty last block.
ReadMetablockHeader(last, uncompressed, len, peeked) ==
  /\ Running
  /\ state = "METABLOCK_BEGIN"
  /\ ends_next => last /\ len = 0
  /\ len = 0 => last
  /\ uncompressed => ~last
  /\ peeked => uncompressed
  /\ declared + len <= MaxDeclared
  /\ mlen' = len
  /\ i' = 0
  /\ declared' = declared + len
  /\ is_last' = last
  /\ ends_next' = peeked
  /\ state' = IF len = 0 THEN "METABLOCK_DONE"
              ELSE IF uncompressed THEN "UNCOMPRESSED" ELSE "COMMAND_BEGIN"
  /\ IF len # 0 /\ ~Allocated
     THEN BrotliAllocateRingBuffer(last \/ peeked, len)
     ELSE UNCHANGED <<ring, ringbuffer_size>>
  /\ UNCHANGED <<pos, rb_roundtrips, partial_pos_out, should_wrap_ringbuffer,
                 substate_uncompressed, distance_code, max_distance, decoded>>
  /\ Continue

\* (Mutant: a block that overshot its length is accepted.)
MutantOvershootAccepted ==
  /\ Running
  /\ state = "METABLOCK_DONE"
  /\ state' = IF is_last THEN "DONE" ELSE "METABLOCK_BEGIN"
  /\ mlen' = 0
  /\ UNCHANGED <<ringVars, substate_uncompressed, i, distance_code,
                 max_distance, is_last, ends_next, decoded, declared, callVars>>

\* METABLOCK_DONE: overshooting the declared length is an error, and so is bad
\* padding behind the last block; neither writes what is pending.
FinishMetablock ==
  /\ Running
  /\ state = "METABLOCK_DONE"
  /\ \/ /\ mlen < 0 \/ is_last
        /\ Outcome("ERROR") /\ UNCHANGED state
     \/ /\ mlen >= 0
        /\ Outcome("SUCCESS")
        /\ state' = IF is_last THEN "DONE" ELSE "METABLOCK_BEGIN"
  /\ UNCHANGED <<ringVars, substate_uncompressed, mlen, i, distance_code,
                 max_distance, is_last, ends_next, decoded, declared,
                 available_out, delivered>>

\* DONE: the rest of the ring is written; the call returns either way.
FinishStream ==
  /\ Running
  /\ state = "DONE"
  /\ IF Allocated
     THEN /\ WriteToCaller
          /\ should_wrap_ringbuffer' =
               MustWrap(available_out, should_wrap_ringbuffer)
          /\ result' = WriteStatus(available_out, TRUE)
     ELSE /\ result' = "SUCCESS"
          /\ UNCHANGED <<pos, rb_roundtrips, partial_pos_out,
                         should_wrap_ringbuffer, available_out, delivered>>
  /\ call' = "idle"
  /\ UNCHANGED <<ring, ringbuffer_size, streamVars>>

-----------------------------------------------------------------------------
(* Commands                                                                *)

\* COMMAND_BEGIN: the insert length is charged to the block at once.
ReadCommand(insert) ==
  /\ Running
  /\ state = "COMMAND_BEGIN"
  /\ i' = insert
  /\ mlen' = mlen - insert
  /\ state' = IF insert = 0 THEN "COMMAND_POST_DECODE_LITERALS"
              ELSE "COMMAND_INNER"
  /\ UNCHANGED <<ringVars, substate_uncompressed, distance_code, max_distance,
                 is_last, ends_next, decoded, declared>>
  /\ Continue

\* COMMAND_INNER, one turn of the literal loop.
DecodeLiteral ==
  /\ Running
  /\ state = "COMMAND_INNER"
  /\ ring' = Stored(ring, pos, 1)
  /\ pos' = pos + 1
  /\ decoded' = decoded + 1
  /\ i' = i - 1
  /\ state' = IF pos + 1 = ringbuffer_size THEN "COMMAND_INNER_WRITE"
              ELSE IF i # 1 THEN "COMMAND_INNER"
              ELSE IF mlen <= 0 THEN "METABLOCK_DONE"
              ELSE "COMMAND_POST_DECODE_LITERALS"
  /\ UNCHANGED <<ringbuffer_size, rb_roundtrips, partial_pos_out,
                 should_wrap_ringbuffer, substate_uncompressed, mlen,
                 distance_code, max_distance, is_last, ends_next, declared>>
  /\ Continue

\* The limit of back-references at the current position.
MaxDistanceNow ==
  IF max_distance = MaxBackwardDistance THEN max_distance
  ELSE IF pos < MaxDistanceFromDict THEN pos + ClippedDict
  ELSE MaxBackwardDistance

\* POST_DECODE_LITERALS, a distance inside the window.  The first Chunk bytes
\* are copied as a guess, past the end of a shorter copy; then a copy that
\* overlaps itself or an end of the ring is left to the wrap copy.
CopyFromWindow(d, n) ==
  LET src == Masked(pos - d)
      guess == Moved(ring, pos, src, Chunk, d)
      wraps == \/ src + n > pos /\ pos + n > src
               \/ pos + n >= ringbuffer_size
               \/ src + n >= ringbuffer_size
  IN  /\ Running
      /\ state = "COMMAND_POST_DECODE_LITERALS"
      /\ d <= MaxDistanceNow
      /\ max_distance' = MaxDistanceNow
      /\ mlen' = mlen - n
      /\ distance_code' = d
      /\ i' = n
      /\ IF wraps
         THEN /\ ring' = guess
              /\ state' = "COMMAND_POST_WRAP_COPY"
              /\ UNCHANGED <<pos, decoded>>
         ELSE /\ ring' = IF n <= Chunk THEN guess
                         ELSE Moved(guess, pos + Chunk, src + Chunk,
                                    IF n > 2 * Chunk THEN n - Chunk ELSE Chunk,
                                    d)
              /\ pos' = pos + n
              /\ decoded' = decoded + n
              /\ state' = AfterCommand(mlen - n)
      /\ UNCHANGED <<ringbuffer_size, rb_roundtrips, partial_pos_out,
                     should_wrap_ringbuffer, substate_uncompressed, is_last,
                     ends_next, declared>>
      /\ Continue

\* POST_DECODE_LITERALS, a longer distance: a static dictionary word of n
\* bytes, stored at once and possibly into the slack.  (The base length and
\* the distance the code leaves behind are dead: the next command sets them.)
CopyDictionaryWord(n) ==
  /\ Running
  /\ state = "COMMAND_POST_DECODE_LITERALS"
  /\ max_distance' = MaxDistanceNow
  /\ ring' = Stored(ring, pos, n)
  /\ pos' = pos + n
  /\ decoded' = decoded + n
  /\ mlen' = mlen - n
  /\ state' = IF pos + n >= ringbuffer_size THEN "COMMAND_POST_WRITE_1"
              ELSE AfterCommand(mlen - n)
  /\ UNCHANGED <<ringbuffer_size, rb_roundtrips, partial_pos_out,
                 should_wrap_ringbuffer, substate_uncompressed, i,
                 distance_code, is_last, ends_next, declared>>
  /\ Continue

\* POST_WRAP_COPY, one turn of the loop, and what follows its last turn.
WrapCopyByte ==
  /\ Running
  /\ state = "COMMAND_POST_WRAP_COPY"
  /\ i > 0
  /\ ring' = [ring EXCEPT ![pos] =
                CopyOf(ring[Masked(pos - distance_code)], distance_code)]
  /\ pos' = pos + 1
  /\ decoded' = decoded + 1
  /\ i' = i - 1
  /\ state' = IF pos + 1 = ringbuffer_size THEN "COMMAND_POST_WRITE_2"
              ELSE state
  /\ UNCHANGED <<ringbuffer_size, rb_roundtrips, partial_pos_out,
                 should_wrap_ringbuffer, substate_uncompressed, mlen,
                 distance_code, max_distance, is_last, ends_next, declared>>
  /\ Continue

WrapCopyDone ==
  /\ Running
  /\ state = "COMMAND_POST_WRAP_COPY"
  /\ i = 0
  /\ i' = -1
  /\ state' = AfterCommand(mlen)
  /\ UNCHANGED <<ringVars, substate_uncompressed, mlen, distance_code,
                 max_distance, is_last, ends_next, decoded, declared>>
  /\ Continue

\* INNER_WRITE, POST_WRITE_1, POST_WRITE_2: write, wrap, and go on.
WriteAndWrap ==
  LET status == WriteStatus(available_out, FALSE)
      wrap == MustWrap(available_out, should_wrap_ringbuffer)
  IN  /\ Running
      /\ state \in WriteStates
      /\ WriteToCaller
      /\ Outcome(status)
      /\ IF status = "SUCCESS"
         THEN /\ ring' = IF wrap THEN Wrapped(ring, pos') ELSE ring
              /\ should_wrap_ringbuffer' = FALSE
              /\ max_distance' = IF FullRing THEN MaxBackwardDistance
                                 ELSE max_distance
              /\ state' = IF state = "COMMAND_POST_WRITE_1"
                          THEN AfterCommand(mlen)
                          ELSE IF state = "COMMAND_POST_WRITE_2"
                          THEN "COMMAND_POST_WRAP_COPY"
                          ELSE IF i # 0 THEN "COMMAND_INNER"
                          ELSE IF mlen <= 0 THEN "METABLOCK_DONE"
                          ELSE "COMMAND_POST_DECODE_LITERALS"
         ELSE /\ should_wrap_ringbuffer' = wrap
              /\ UNCHANGED <<ring, max_distance, state>>
      /\ UNCHANGED <<ringbuffer_size, substate_uncompressed, mlen, i,
                     distance_code, is_last, ends_next, decoded, declared>>

-----------------------------------------------------------------------------
(* Uncompressed blocks, the end of the input, malformed streams            *)

\* UNCOMPRESSED_NONE: n raw bytes, all that the input has or that fit.  Short
\* of a full window the block is over or waits for input.
CopyUncompressedBytes(n) ==
  /\ Running
  /\ state = "UNCOMPRESSED" /\ substate_uncompressed = "NONE"
  /\ n <= mlen /\ n <= ringbuffer_size - pos
  /\ ring' = Stored(ring, pos, n)
  /\ pos' = pos + n
  /\ decoded' = decoded + n
  /\ mlen' = mlen - n
  /\ IF pos + n >= WindowSize
     THEN /\ substate_uncompressed' = "WRITE"
          /\ Outcome("SUCCESS")
          /\ UNCHANGED state
     ELSE /\ Outcome(IF mlen = n THEN "SUCCESS" ELSE "NEEDS_MORE_INPUT")
          /\ state' = IF mlen = n THEN "METABLOCK_DONE" ELSE state
          /\ UNCHANGED substate_uncompressed
  /\ UNCHANGED <<ringbuffer_size, rb_roundtrips, partial_pos_out,
                 should_wrap_ringbuffer, i, distance_code, max_distance,
                 is_last, ends_next, declared, available_out, delivered>>

\* UNCOMPRESSED_WRITE: no wrap is needed, the ring was filled exactly.
WriteUncompressed ==
  LET status == WriteStatus(available_out, FALSE)
  IN  /\ Running
      /\ state = "UNCOMPRESSED" /\ substate_uncompressed = "WRITE"
      /\ WriteToCaller
      /\ should_wrap_ringbuffer' =
           MustWrap(available_out, should_wrap_ringbuffer)
      /\ Outcome(status)
      /\ IF status = "SUCCESS"
         THEN /\ substate_uncompressed' = "NONE"
              /\ max_distance' = IF FullRing THEN MaxBackwardDistance
                                 ELSE max_distance
         ELSE UNCHANGED <<substate_uncompressed, max_distance>>
      /\ UNCHANGED <<ring, ringbuffer_size, state, mlen, i, distance_code,
                     is_last, ends_next, decoded, declared>>

\* A read in a state that reads finds too few bytes.
RunOutOfInput ==
  /\ Running
  /\ state \in ReadStates
  /\ result' = "NEEDS_MORE_INPUT"
  /\ UNCHANGED <<ringVars, streamVars, call, available_out, delivered>>

\* The outer loop on NEEDS_MORE_INPUT: what is decoded is written; then the
\* decoder goes on with a byte more in its internal buffer, or returns.
FlushForInput ==
  LET broken == Allocated /\ mlen < 0
  IN  /\ call = "running" /\ result = "NEEDS_MORE_INPUT"
      /\ IF Allocated
         THEN /\ WriteToCaller
              /\ should_wrap_ringbuffer' =
                   MustWrap(available_out, should_wrap_ringbuffer)
         ELSE UNCHANGED <<pos, rb_roundtrips, partial_pos_out,
                          should_wrap_ringbuffer, available_out, delivered>>
      /\ \/ /\ broken
            /\ result' = "ERROR"
            /\ call' = "idle"
         \/ /\ ~broken
            /\ result' = "SUCCESS"
            /\ UNCHANGED call
         \/ /\ ~broken
            /\ call' = "idle"
            /\ UNCHANGED result
      /\ UNCHANGED <<ring, ringbuffer_size, streamVars>>

\* The stream breaks one of the format's rules.
FormatError ==
  /\ Running
  /\ state \in ReadStates
  /\ Outcome("ERROR")
  /\ UNCHANGED <<ringVars, streamVars, available_out, delivered>>

-----------------------------------------------------------------------------
(* Specification                                                           *)

Init ==
  /\ ring = <<>> /\ ringbuffer_size = 0
  /\ pos = 0 /\ rb_roundtrips = 0 /\ partial_pos_out = 0
  /\ should_wrap_ringbuffer = FALSE
  /\ state = "METABLOCK_BEGIN" /\ substate_uncompressed = "NONE"
  /\ mlen = 0 /\ i = 0 /\ distance_code = 0 /\ max_distance = 0
  /\ is_last = FALSE /\ ends_next = FALSE
  /\ decoded = 0 /\ declared = 0
  /\ call = "idle" /\ available_out = 0 /\ result = "NO_ERROR"
  /\ delivered = <<>>

\* Steps that need bytes of the compressed stream ...
Decode ==
  \/ \E last, uncompressed, peeked \in BOOLEAN, len \in BlockLengths \cup {0} :
       ReadMetablockHeader(last, uncompressed, len, peeked)
  \/ \E insert \in InsertLengths : ReadCommand(insert)
  \/ DecodeLiteral
  \/ \E d \in 1..MaxBackwardDistance, n \in CopyLengths : CopyFromWindow(d, n)
  \/ \E n \in WordLengths : CopyDictionaryWord(n)
  \/ \E n \in 1..WindowSize : CopyUncompressedBytes(n)

\* ... steps that do not ...
Internal ==
  \/ WrapCopyByte
  \/ WrapCopyDone
  \/ WriteAndWrap
  \/ WriteUncompressed
  \/ mlen = 0 /\ CopyUncompressedBytes(0)
  \/ FinishMetablock
  \/ FinishStream
  \/ FlushForInput

\* ... and what the stream and the caller do to the decoder.
Next ==
  \/ Decode
  \/ Internal
  \/ RunOutOfInput
  \/ mlen > 0 /\ CopyUncompressedBytes(0)
  \/ FormatError
  \/ \E room \in StreamRoom : StreamCall(room)
  \/ StreamCallAfterError
  \/ \E size \in TakeSizes : TakeOutput(size)

Spec == Init /\ [][Next]_vars

-----------------------------------------------------------------------------
(* Invariants                                                              *)

\* The type invariant: every variable of the output side keeps its range.
TypeOK ==
  /\ ringbuffer_size \in {0} \cup RingSizes
  /\ Allocated => ring \in [Cells(ringbuffer_size) -> Int \cup {NoByte}]
  /\ pos \in Nat /\ rb_roundtrips \in Nat /\ partial_pos_out \in Nat
  /\ should_wrap_ringbuffer \in BOOLEAN
  /\ state \in States /\ substate_uncompressed \in {"NONE", "WRITE"}
  /\ mlen \in Int /\ i \in Int /\ distance_code \in Nat /\ max_distance \in Nat
  /\ is_last \in BOOLEAN /\ ends_next \in BOOLEAN
  /\ call \in {"idle", "running"} /\ result \in Results
  /\ available_out \in Nat
  /\ decoded \in Nat /\ declared \in Nat
  /\ delivered \in Seq(Int \cup {NoByte})

\* The caller receives the decoded stream in order, without a gap, a repeat or
\* a byte that was not decoded, however the output is cut into calls.
DeliveredIsPrefix ==
  /\ Len(delivered) <= decoded
  /\ \A k \in 1..Len(delivered) : delivered[k] = k - 1

\* Where the ring holds byte number b of the current round: in the slack as
\* long as a pending wrap has not moved it to the front.
CellOf(b) ==
  b - rb_roundtrips * ringbuffer_size
    + (IF should_wrap_ringbuffer THEN ringbuffer_size ELSE 0)

\* No byte that was decoded and not yet delivered is overwritten: neither by
\* the next round, nor by the over-copy of a back-reference, nor by a wrap.  (A
\* command that overshoots its block is past that: it fails.)
UnwrittenIntact ==
  mlen >= 0 => \A b \in partial_pos_out..(decoded - 1) :
    CellOf(b) \in Cells(ringbuffer_size) /\ ring[CellOf(b)] = b

\* Every distance the decoder accepts reaches the byte it names: over-copies
\* and the front of the ring never reach into the window of max_distance
\* bytes.
WindowIntact ==
  mlen >= 0 =>
    /\ state = "COMMAND_POST_DECODE_LITERALS" =>
         \A d \in 1..MaxDistanceNow : ring[Masked(pos - d)] = decoded - d
    /\ state = "COMMAND_POST_WRAP_COPY" /\ i > 0 =>
         ring[Masked(pos - distance_code)] = decoded - distance_code
    /\ state = "COMMAND_INNER" =>
         \A d \in 1..2 : d <= decoded => ring[Masked(pos - d)] = decoded - d

\* The positions the code computes with: a state that decodes has room for a
\* byte in the ring and for an over-copy or a word behind it, and the
\* unsigned subtraction of UnwrittenBytes never wraps around.
PositionsInRange ==
  Allocated /\ ~Fatal =>
    /\ state \notin WriteStates /\ substate_uncompressed = "NONE" =>
         pos < ringbuffer_size
    /\ pos <= ringbuffer_size + Slack
    /\ ToWrite >= 0
    /\ Masked(partial_pos_out) + ToWrite <= ringbuffer_size

\* The declared lengths bound the output: not a byte of a command that
\* overshoots its block is delivered, and success means that exactly the
\* declared number of bytes was decoded and delivered.
OutputMatchesHeaders ==
  /\ Len(delivered) <= declared
  /\ call = "idle" /\ result = "SUCCESS" =>
       state = "DONE" /\ decoded = declared /\ Len(delivered) = declared

\* BrotliDecoderHasMoreOutput and BrotliDecoderIsFinished.  (Mutant: a decoder
\* in DONE counts as finished while output is pending.)
HasMoreOutput == ~Fatal /\ Allocated /\ UnwrittenBytes(FALSE) # 0
MutantFinishedInDone == state = "DONE"
IsFinished == state = "DONE" /\ ~HasMoreOutput

\* HasMoreOutput tells the truth between calls, pending wrap or not, and a
\* finished decoder has delivered the whole stream.
OutputQueriesExact ==
  call = "idle" =>
    /\ HasMoreOutput <=> ~Fatal /\ partial_pos_out < decoded
    /\ IsFinished /\ ~Fatal => partial_pos_out = declared

\* What decode.h says of *size after BrotliDecoderTakeOutput: the amount of
\* data the returned pointer points to and the amount considered consumed.
TakenBytesAreReturned ==
  [][call = "idle" /\ call' = "idle" =>
       Len(delivered') - Len(delivered) = partial_pos_out' - partial_pos_out]_vars

-----------------------------------------------------------------------------
(* Refinement and liveness                                                 *)

\* The output side implements the queue of OutputStream.
Stream == INSTANCE OutputStream WITH
  decoded <- decoded, delivered <- delivered, room <- available_out,
  outcome <- IF call = "running" THEN "RUNNING" ELSE result
ImplementsOutputStream == Stream!Spec

FlushAndGoOn == FlushForInput /\ result' = "SUCCESS"

\* Inside a call nothing but the decoder runs; a caller that is told to come
\* back does so, with room or by taking output, and with further input.
Fairness ==
  /\ WF_vars(Internal)
  /\ SF_vars(FlushAndGoOn)
  /\ SF_vars(Decode)
  /\ \A room \in StreamRoom : SF_vars(StreamCall(room))
  /\ \A size \in TakeSizes : SF_vars(TakeOutput(size))

FairSpec == Spec /\ Fairness

\* A caller that keeps calling gets the whole stream or an error: no order of
\* full output buffers, missing input and ring wraps makes the two wait for
\* each other.
Completes == <>(Fatal \/ (call = "idle" /\ IsFinished))
=============================================================================
