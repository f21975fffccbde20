---------------------------- MODULE StreamInput ----------------------------
(***************************************************************************)
(* The input side of BrotliDecompressStream (src/src/decode.rs): how a     *)
(* compressed stream that arrives in pieces reaches the bit reader.        *)
(*                                                                         *)
(* What the decoder wants to read next is a DEMAND, a sequence of reads.   *)
(* One read alone is resumable: bytes it pulled stay pulled.  The later    *)
(* reads of a longer demand (a command and its extra bits, a distance, a   *)
(* block type with its length) are a transaction: when one fails, the bit  *)
(* reader returns to its saved state and the unread tail of the piece is   *)
(* kept in an internal buffer of 8 bytes, which the following calls extend *)
(* byte by byte until the demand is met.                                   *)
(*                                                                         *)
(* The demands of a stream are an arbitrary choice; bytes and bits are     *)
(* numbers (see BitReader), so "the right bit is read" is about numbers.   *)
(***************************************************************************)
EXTENDS BitReader

CONSTANTS
  Demands,       (* sequences of reads [peek, take]                         *)
  CopyLengths,   (* lengths of byte-aligned raw copies                      *)
  Pieces,        (* values of available_in of the caller                    *)
  FastBytes,     (* the 28 of CheckInputAmount                              *)
  MaxBits        (* bound: length of the stream in bits                     *)

\* The longest transactions of the code have three reads - a command with two
\* lengths, a block type with a block length - and take up to 63 bits; a read
\* looks at up to 30 bits (a distance of a large window).
Total(d) ==
  LET taken(k) == IF k \in DOMAIN d THEN d[k].take ELSE 0
  IN  taken(1) + taken(2) + taken(3)

ASSUME StreamInputConstants ==
  /\ Demands \subseteq Seq([peek : Nat, take : Nat])
  /\ \A d \in Demands :
       /\ Len(d) \in 1..3
       /\ \A k \in DOMAIN d :
            d[k].take <= d[k].peek /\ d[k].peek <= 4 * ByteBits
       /\ Total(d) <= RegBytes * ByteBits
  /\ CopyLengths \subseteq Nat \ {0}
  /\ Pieces \subseteq Nat
  /\ FastBytes \in Nat /\ FastBytes >= 2 * RegBytes
  /\ MaxBits \in Nat

VARIABLES
  br,             (* s.br                                                   *)
  source,         (* local_input: the caller's piece or the saved buffer    *)
  buffer,         (* s.buffer                                               *)
  saved_buffer,
  buffer_length,
  available_in,
  input_offset,   (* relative to the piece                                  *)
  offered,        (* length of the piece (xinput)                           *)
  base,           (* number of the piece's first byte in the stream         *)
  call,           (* inside BrotliDecompressStream, or not                  *)
  result,
  stage,          (* "READ", or "DONE" behind the last meta-block           *)
  demand,         (* the reads that failed and are to be tried again        *)
  copying,        (* raw bytes still to copy                                *)
  used            (* history: number of bits consumed                       *)

bufferVars == <<buffer, saved_buffer, buffer_length>>
callerVars == <<available_in, input_offset, offered, base>>
wantVars == <<stage, demand, copying, used>>
vars == <<br, source, bufferVars, callerVars, call, result, wantVars>>

NoByte == -1

XInput == [k \in 1..offered |-> base + k - 1]
LocalInput == IF source = "xinput" THEN XInput ELSE saved_buffer

Running == call = "running" /\ result = "SUCCESS"
OutOfInput == call = "running" /\ result = "NEEDS_MORE_INPUT"
Fatal == call = "idle" /\ result = "ERROR"

-----------------------------------------------------------------------------
(* The caller                                                              *)

\* b with the bytes of a new piece behind the first buffer_length.  (Mutant:
\* only the next byte is copied ahead.)
MutantCopiesOneAhead(b, n) ==
  [k \in 1..RegBytes |->
     IF k > buffer_length /\ k - buffer_length <= n /\ k = buffer_length + 1
     THEN base + input_offset + (k - buffer_length) - 1 ELSE b[k]]
CopiedAhead(b, n) ==
  [k \in 1..RegBytes |->
     IF k > buffer_length /\ k - buffer_length <= n
     THEN base + input_offset + (k - buffer_length) - 1 ELSE b[k]]

\* BrotliDecompressStream is called with a piece of n bytes.  With a tail in
\* the internal buffer it starts as if it had just run out of input.
StreamCall(n) ==
  /\ call = "idle"
  /\ ~Fatal
  /\ call' = "running"
  /\ base' = base + input_offset
  /\ offered' = n
  /\ input_offset' = 0
  /\ available_in' = n
  /\ IF buffer_length = 0
     THEN /\ source' = "xinput"
          /\ br' = [br EXCEPT !.avail_in = n, !.next_in = 0]
          /\ result' = "SUCCESS"
          /\ saved_buffer' = buffer
          /\ UNCHANGED buffer
     ELSE /\ source' = "saved_buffer"
          /\ br' = [br EXCEPT !.next_in = 0]
          /\ result' = "NEEDS_MORE_INPUT"
          /\ saved_buffer' = CopiedAhead(buffer, n)
          /\ buffer' = CopiedAhead(buffer, n)
  /\ UNCHANGED <<buffer_length, wantVars>>

\* After a fatal error every call fails and changes nothing.
StreamCallAfterError ==
  /\ Fatal
  /\ UNCHANGED vars

-----------------------------------------------------------------------------
(* The decoder reads                                                       *)

\* What the decoder may want: a demand that failed is tried again.
Wants(d) ==
  /\ Running /\ stage = "READ" /\ copying = 0
  /\ demand \in {<<>>, d}
  /\ used + Total(d) <= MaxBits

\* Read k of d, when there is one, after a read with outcome t.
NextRead(t, d, k) ==
  IF t.ok /\ k \in DOMAIN d THEN SafeRead(t.br, d[k], LocalInput) ELSE t

\* The reads of d one after the other.  When the first fails nothing is
\* restored; when a later one fails, everything is (the "memento").
Transaction(d) ==
  LET first == SafeRead(br, d[1], LocalInput)
      all == NextRead(NextRead(first, d, 2), d, 3)
  IN  IF ~all.ok /\ first.ok THEN [ok |-> FALSE, br |-> br] ELSE all

\* A read that failed is taken up again.
SafeReads(d) ==
  /\ Wants(d)
  /\ \E t \in {Transaction(d)} :
       /\ br' = t.br
       /\ demand' = IF t.ok THEN <<>> ELSE d
       /\ used' = IF t.ok THEN used + Total(d) ELSE used
       /\ result' = IF t.ok THEN result ELSE "NEEDS_MORE_INPUT"
  /\ UNCHANGED <<source, bufferVars, callerVars, call, stage, copying>>

\* Read k of d, when there is one, on the fast path.
NextFastRead(b, d, k) ==
  IF k \in DOMAIN d THEN FastRead(b, d[k], LocalInput) ELSE b

\* ProcessCommands with enough input for a whole command.
FastReads(d) ==
  /\ Wants(d)
  /\ br.avail_in >= FastBytes
  /\ LET first == NextFastRead(WarmupBitReader(br, LocalInput), d, 1)
     IN  br' = NextFastRead(NextFastRead(first, d, 2), d, 3)
  /\ demand' = <<>>
  /\ used' = used + Total(d)
  /\ UNCHANGED <<source, bufferVars, callerVars, call, result, stage, copying>>

\* The header of an uncompressed block of n bytes was read.
StartCopy(n) ==
  /\ Running /\ stage = "READ" /\ copying = 0 /\ demand = <<>>
  /\ used + PadBits(br) + n * ByteBits <= MaxBits
  /\ br' = JumpToByteBoundary(br)
  /\ used' = used + PadBits(br)
  /\ copying' = n
  /\ UNCHANGED <<source, bufferVars, callerVars, call, result, stage, demand>>

\* UNCOMPRESSED_NONE: as many bytes as there are, or fewer (the ring is full).
CopyRaw(n) ==
  LET all == Lesser(copying, GetRemainingBytes(br))
  IN  /\ Running /\ copying > 0
      /\ n <= all
      /\ br' = CopyBytes(br, n)
      /\ copying' = copying - n
      /\ used' = used + n * ByteBits
      /\ result' = IF n = all /\ n < copying THEN "NEEDS_MORE_INPUT" ELSE result
      /\ UNCHANGED <<source, bufferVars, callerVars, call, stage, demand>>

\* METABLOCK_DONE of the last meta-block.  (Mutant: without the unload.)
MutantDoneKeepsBytes ==
  /\ Running /\ stage = "READ" /\ copying = 0 /\ demand = <<>>
  /\ stage' = "DONE"
  /\ used' = used + PadBits(br)
  /\ br' = JumpToByteBoundary(br)
  /\ IF buffer_length = 0
     THEN /\ available_in' = br.avail_in
          /\ input_offset' = br.next_in
     ELSE UNCHANGED <<available_in, input_offset>>
  /\ UNCHANGED <<source, bufferVars, offered, base, call, result, demand,
                 copying>>
FinishLastMetablock ==
  /\ Running /\ stage = "READ" /\ copying = 0 /\ demand = <<>>
  /\ stage' = "DONE"
  /\ used' = used + PadBits(br)
  /\ IF buffer_length = 0
     THEN /\ br' = Unload(JumpToByteBoundary(br))
          /\ available_in' = br'.avail_in
          /\ input_offset' = br'.next_in
     ELSE /\ br' = JumpToByteBoundary(br)
          /\ UNCHANGED <<available_in, input_offset>>
  /\ UNCHANGED <<source, bufferVars, offered, base, call, result, demand,
                 copying>>

-----------------------------------------------------------------------------
(* The outer loop                                                          *)

\* DONE, all output written: returns at once, the buffer as it is.
ReturnSuccess ==
  /\ Running /\ stage = "DONE"
  /\ call' = "idle"
  /\ UNCHANGED <<br, source, bufferVars, callerVars, result, wantVars>>

\* Fail, or needs more output: the input buffer was consumed, or the unread
\* bytes of the piece go back to the caller.
Stop(r) ==
  /\ Running
  /\ demand = <<>>
  /\ result' = r
  /\ call' = "idle"
  /\ IF buffer_length # 0
     THEN /\ buffer_length' = 0
          /\ UNCHANGED <<br, available_in, input_offset>>
     ELSE /\ br' = Unload(br)
          /\ available_in' = br'.avail_in
          /\ input_offset' = br'.next_in
          /\ UNCHANGED buffer_length
  /\ UNCHANGED <<source, buffer, saved_buffer, offered, base, wantVars>>

\* Out of input, and writing what was decoded fails: returns as things are.
FailOutOfInput ==
  /\ OutOfInput
  /\ result' = "ERROR"
  /\ call' = "idle"
  /\ UNCHANGED <<br, source, bufferVars, callerVars, wantVars>>

\* Out of input, the buffer read to its end: on to the caller's piece.
SwitchToInput ==
  /\ OutOfInput
  /\ buffer_length # 0 /\ br.avail_in = 0
  /\ buffer_length' = 0
  /\ source' = "xinput"
  /\ br' = [br EXCEPT !.avail_in = available_in, !.next_in = input_offset]
  /\ result' = "SUCCESS"
  /\ UNCHANGED <<buffer, saved_buffer, callerVars, call, wantVars>>

\* Out of input, a tail in the buffer: one byte more, and try again.  (Mutant:
\* the last place of the buffer is not used.)
MutantSevenByteBuffer ==
  /\ OutOfInput
  /\ buffer_length # 0 /\ br.avail_in # 0 /\ available_in # 0
  /\ buffer_length + 1 < RegBytes
  /\ buffer' = [buffer EXCEPT ![buffer_length + 1] = XInput[input_offset + 1]]
  /\ buffer_length' = buffer_length + 1
  /\ br' = [br EXCEPT !.avail_in = buffer_length + 1]
  /\ input_offset' = input_offset + 1
  /\ available_in' = available_in - 1
  /\ result' = "SUCCESS"
  /\ UNCHANGED <<source, saved_buffer, offered, base, call, wantVars>>
AddByte ==
  /\ OutOfInput
  /\ buffer_length # 0 /\ br.avail_in # 0 /\ available_in # 0
  /\ buffer' = [buffer EXCEPT ![buffer_length + 1] = XInput[input_offset + 1]]
  /\ buffer_length' = buffer_length + 1
  /\ br' = [br EXCEPT !.avail_in = buffer_length + 1]
  /\ input_offset' = input_offset + 1
  /\ available_in' = available_in - 1
  /\ result' = "SUCCESS"
  /\ UNCHANGED <<source, saved_buffer, offered, base, call, wantVars>>

\* Out of input, a tail in the buffer and the piece used up.
ReturnWithTail ==
  /\ OutOfInput
  /\ buffer_length # 0 /\ br.avail_in # 0 /\ available_in = 0
  /\ call' = "idle"
  /\ UNCHANGED <<br, source, bufferVars, callerVars, result, wantVars>>

\* Out of input, reading the piece: the tail goes to the buffer.  (Mutant: the
\* tail is left to the caller, who is told it was taken.)
MutantDropsTail ==
  /\ OutOfInput
  /\ buffer_length = 0
  /\ input_offset' = br.next_in + br.avail_in
  /\ available_in' = 0
  /\ call' = "idle"
  /\ UNCHANGED <<br, source, bufferVars, offered, base, result, wantVars>>
SaveTail ==
  /\ OutOfInput
  /\ buffer_length = 0
  /\ buffer' = [k \in 1..RegBytes |-> IF k <= br.avail_in
                                      THEN XInput[br.next_in + k]
                                      ELSE buffer[k]]
  /\ buffer_length' = br.avail_in
  /\ input_offset' = br.next_in + br.avail_in
  /\ available_in' = 0
  /\ call' = "idle"
  /\ UNCHANGED <<br, source, saved_buffer, offered, base, result, wantVars>>

-----------------------------------------------------------------------------
(* Specification                                                           *)

Init ==
  /\ br = InitBitReader
  /\ source = "xinput"
  /\ buffer = [k \in 1..RegBytes |-> NoByte]
  /\ saved_buffer = buffer
  /\ buffer_length = 0
  /\ available_in = 0 /\ input_offset = 0 /\ offered = 0 /\ base = 0
  /\ call = "idle" /\ result = "NO_ERROR"
  /\ stage = "READ" /\ demand = <<>> /\ copying = 0 /\ used = 0

Reads ==
  \/ \E d \in Demands : SafeReads(d) \/ FastReads(d)
  \/ \E n \in 0..copying : CopyRaw(n)

OuterLoop ==
  \/ ReturnSuccess
  \/ SwitchToInput
  \/ AddByte
  \/ ReturnWithTail
  \/ SaveTail

Next ==
  \/ Reads
  \/ \E n \in CopyLengths : StartCopy(n)
  \/ FinishLastMetablock
  \/ OuterLoop
  \/ FailOutOfInput
  \/ \E r \in {"NEEDS_MORE_OUTPUT", "ERROR"} : Stop(r)
  \/ \E n \in Pieces : StreamCall(n)
  \/ StreamCallAfterError

Spec == Init /\ [][Next]_vars

-----------------------------------------------------------------------------
(* Invariants                                                              *)

\* The bits the decoder will see next: those in the accumulator, then those
\* of the window, then those of the piece behind the internal buffer.
Upcoming ==
  LET held == IF call = "running"
              THEN SubSeq(LocalInput, br.next_in + 1, br.next_in + br.avail_in)
              ELSE SubSeq(buffer, 1, IF buffer_length = 0 THEN 0 ELSE br.avail_in)
      rest == IF call = "running" /\ source = "xinput" THEN <<>>
              ELSE SubSeq(XInput, input_offset + 1, input_offset + available_in)
  IN  br.val \o BitsOf(held \o rest)

\* BrotliPeekByte: at a byte boundary the byte it reports is the byte of the
\* stream at that offset, whether it is in the accumulator or in the input.
PeekSeesStream ==
  Running /\ PadBits(br) = 0 =>
    \A offset \in 0..(GetRemainingBytes(br) - 1) :
      PeekByte(br, offset, LocalInput) = used \div ByteBits + offset

\* Bits are decoded in stream order, none lost, none twice: however the
\* stream was cut into pieces, what comes next is the first unconsumed bit -
\* also for a peek.  (After a fatal error nothing is read any more.)
BitsInOrder ==
  /\ ~Fatal => \A k \in DOMAIN Upcoming : Upcoming[k] = used + k - 1
  /\ PeekSeesStream

\* The internal buffer is never full when a byte is added to it, and the byte
\* is the one that was copied ahead (the assert_eq! of the outer loop); the
\* window of the bit reader lies in the input it reads, the unsigned next_in
\* never passes below 0 when bytes are given back, and no fill pulls more into
\* the accumulator than it holds.
BufferHasRoom ==
  /\ br.next_in >= 0 /\ br.avail_in >= 0
  /\ Len(br.val) <= RegBytes * ByteBits
  /\ call = "running" => br.next_in + br.avail_in <= Len(LocalInput)
  /\ buffer_length <= RegBytes
  /\ OutOfInput /\ buffer_length # 0 /\ br.avail_in # 0 /\ available_in # 0 =>
       /\ buffer_length < RegBytes
       /\ saved_buffer[buffer_length + 1] = XInput[input_offset + 1]

\* More input is asked for only when all that was given cannot satisfy the
\* decoder: neither a transaction that starts over nor a peek past its symbol
\* makes it wait for a byte it does not need.
AsksOnlyWhenShort ==
  call = "idle" /\ result = "NEEDS_MORE_INPUT" =>
    /\ available_in = 0
    /\ LET held == Len(br.val) + buffer_length * ByteBits
       IN  IF copying > 0 THEN held < ByteBits ELSE held < Total(demand)

-----------------------------------------------------------------------------
(* Refinement and liveness                                                 *)

\* The input side implements the stream of InputStream.
Source == INSTANCE InputStream WITH
  used <- used,
  taken <- IF call = "running" THEN base ELSE base + input_offset,
  offered <- offered,
  outcome <- IF call = "running" THEN "RUNNING" ELSE result
ImplementsInputStream == Source!Spec

\* A read that gets at least a bit or a byte of the input.
ReadsSomething == Reads /\ br' # br

\* When Reads and ReadsSomething are enabled: fairness is stated with these in
\* place of ENABLED, for which TLC evaluates a transaction very slowly.
CanTry ==
  \/ \E d \in Demands : Wants(d)
  \/ Running /\ copying > 0
CanRead ==
  \/ \E d \in Demands : Wants(d) /\ Transaction(d).br # br
  \/ Running /\ copying > 0 /\ GetRemainingBytes(br) > 0

\* Inside a call the decoder runs on, and is not stopped for output every
\* time before it reads; the stream ends; the caller keeps bringing input.
Fairness ==
  /\ WF_vars(OuterLoop)
  /\ <>[]CanTry => []<><<Reads>>_vars
  /\ []<>CanRead => []<><<ReadsSomething>>_vars
  /\ SF_vars(FinishLastMetablock)
  /\ \A n \in Pieces : SF_vars(StreamCall(n))

FairSpec == Spec /\ Fairness

\* A caller that keeps bringing pieces, some of them empty, is served to the
\* end of the stream: the buffer, the retries and the pieces never make the
\* decoder ask for input it then does not take.
Completes == <>(Fatal \/ (call = "idle" /\ stage = "DONE"))
=============================================================================
