------------------------- MODULE RingBuffer_proofs -------------------------
(***************************************************************************)
(* Theorems about RingBuffer, for every window, ring, dictionary and block *)
(* length and every caller.                                                *)
(*                                                                         *)
(* The inductive invariant has four parts.  The types; which states occur  *)
(* with which results (Control); where the three cursors `pos`,            *)
(* `rb_roundtrips` and `partial_pos_out` stand relative to each other      *)
(* (Cursors); and the account that relates the decoded bytes to the        *)
(* declared ones (Account), which alone keeps `pos` inside a halved ring,  *)
(* where no write ever wraps it.                                           *)
(***************************************************************************)
EXTENDS RingBuffer, SequenceTheorems, TLAPS

Byte == Int \cup {NoByte}

Base == rb_roundtrips * ringbuffer_size

\* Bytes a command still has to produce; they are already charged to mlen.
PendingStates == {"COMMAND_INNER", "COMMAND_INNER_WRITE",
                  "COMMAND_POST_WRAP_COPY", "COMMAND_POST_WRITE_2"}
Pending == IF state \in PendingStates THEN i ELSE 0

\* States in which the ring is full and waits to be written.
Brim == state \in WriteStates \/ substate_uncompressed = "WRITE"

Types ==
  /\ ringbuffer_size \in {0} \cup RingSizes
  /\ Allocated => ring \in [Cells(ringbuffer_size) -> Byte]
  /\ pos \in Nat /\ rb_roundtrips \in Nat /\ partial_pos_out \in Nat
  /\ should_wrap_ringbuffer \in BOOLEAN
  /\ state \in States /\ substate_uncompressed \in {"NONE", "WRITE"}
  /\ mlen \in Int /\ i \in Int /\ distance_code \in Nat /\ max_distance \in Nat
  /\ is_last \in BOOLEAN /\ ends_next \in BOOLEAN
  /\ call \in {"idle", "running"} /\ result \in Results
  /\ available_out \in Nat
  /\ decoded \in Nat /\ declared \in Nat
  /\ delivered \in Seq(Byte)

Control ==
  /\ ~Allocated => /\ state \in {"METABLOCK_BEGIN", "METABLOCK_DONE", "DONE"}
                    /\ rb_roundtrips = 0
  /\ substate_uncompressed = "WRITE" => state = "UNCOMPRESSED"
  /\ state \in {"METABLOCK_BEGIN", "DONE"} => mlen = 0
  /\ state = "METABLOCK_DONE" => mlen <= 0
  /\ state = "UNCOMPRESSED" => mlen >= 0
  /\ state = "COMMAND_INNER" => i >= 1
  /\ state \in PendingStates => i >= 0
  /\ result = "NEEDS_MORE_INPUT" =>
       state \in ReadStates \/ (state = "UNCOMPRESSED" /\ ~Brim)
  /\ call = "idle" /\ result = "SUCCESS" =>
       state = "DONE" /\ partial_pos_out = decoded

Cursors ==
  /\ decoded = Base + pos
  /\ Base <= partial_pos_out
  /\ partial_pos_out <= Base + pos
  /\ partial_pos_out <= Base + ringbuffer_size
  /\ ~Allocated => pos = 0
  /\ Allocated /\ ~Brim => pos < ringbuffer_size
  /\ Brim => \/ pos >= ringbuffer_size /\ pos < ringbuffer_size + Slack
             \/ FullRing /\ pos < Slack
  /\ Brim /\ state # "COMMAND_POST_WRITE_1" => pos \in {0, ringbuffer_size}
  /\ should_wrap_ringbuffer =>
       state = "COMMAND_POST_WRITE_1" /\ FullRing /\ pos < Slack
  /\ Len(delivered) <= partial_pos_out

Account ==
  /\ declared = decoded + Pending + mlen
  /\ partial_pos_out <= declared
  /\ Allocated /\ ~FullRing =>
       /\ rb_roundtrips = 0
       /\ is_last \/ ends_next
       /\ state = "METABLOCK_BEGIN" => ends_next
       /\ declared + ClippedDict + Gap <= ringbuffer_size

Inv == Types /\ Control /\ Cursors /\ Account

-----------------------------------------------------------------------------
(* Arithmetic                                                              *)

\* The bounds of the window and of the dictionary: the furthest distance a
\* command may use and the custom dictionary it keeps.
LEMMA SizeFacts ==
  /\ WindowSize \in Nat \ {0} /\ Gap \in Nat \ {0} /\ Chunk \in Nat \ {0}
  /\ Slack \in Nat \ {0} /\ DictSize \in Nat
  /\ Gap < WindowSize /\ Slack < WindowSize /\ Chunk <= Gap /\ Chunk <= Slack
  /\ MaxBackwardDistance \in Nat
  /\ MaxDistanceFromDict \in Int
  /\ ClippedDict \in Nat /\ ClippedDict <= WindowSize - Gap
  /\ NoByte \notin Int
BY RingConstants DEF MaxBackwardDistance, MaxDistanceFromDict, ClippedDict

\* Masking a position with ringbuffer_mask lands on a cell of the ring.
LEMMA ModuloRange ==
  ASSUME NEW x \in Int, NEW s \in Nat, s > 0
  PROVE  x % s \in 0..(s - 1)
OBVIOUS

\* A whole round of the ring does not change the cell of a position.
LEMMA RoundModulo ==
  ASSUME NEW r \in Nat, NEW s \in Nat, NEW x \in Nat, x < s
  PROVE  (r * s + x) % s = x
OBVIOUS

\* One more round trip of the ring adds its size to the position it counts.
LEMMA NextRound ==
  ASSUME NEW r \in Nat, NEW s \in Nat
  PROVE  (r + 1) * s = r * s + s /\ r * s \in Nat
OBVIOUS

-----------------------------------------------------------------------------
(* WriteRingBuffer                                                         *)

\* What the invariant says about the bytes WriteRingBuffer finds and writes.
LEMMA UnwrittenFacts ==
  ASSUME Types, Cursors, Allocated
  PROVE  /\ ringbuffer_size \in Nat \ {0}
         /\ Base \in Nat
         /\ ToWrite \in Nat
         /\ ToWrite =
              (IF pos > ringbuffer_size THEN Base + ringbuffer_size
                                        ELSE Base + pos) - partial_pos_out
         /\ Masked(partial_pos_out) \in Nat
         /\ Masked(partial_pos_out) + ToWrite <= ringbuffer_size
         /\ ToWrite > 0 =>
              Masked(partial_pos_out) = partial_pos_out - Base
<1>1. ringbuffer_size \in Nat \ {0}
  BY SizeFacts DEF Types, Allocated, RingSizes
<1>2. Base \in Nat
  BY <1>1, NextRound DEF Base, Types
<1>3. ToWrite =
        (IF pos > ringbuffer_size THEN Base + ringbuffer_size
                                  ELSE Base + pos) - partial_pos_out
  BY <1>1, <1>2 DEF ToWrite, UnwrittenBytes, Base, Types
<1>4. ToWrite \in Nat
  BY <1>1, <1>2, <1>3 DEF Types, Cursors
<1>5. Masked(partial_pos_out) \in Nat
  BY <1>1, ModuloRange DEF Masked, Types
<1>6. CASE partial_pos_out = Base + ringbuffer_size
  <2>1. partial_pos_out = (rb_roundtrips + 1) * ringbuffer_size + 0
    BY <1>1, <1>6, NextRound DEF Base, Types
  <2>2. Masked(partial_pos_out) = 0
    BY <1>1, <2>1, RoundModulo DEF Masked, Types
  <2>3. ToWrite = 0
    BY <1>1, <1>2, <1>3, <1>6 DEF Types, Cursors
  <2> QED BY <1>1, <1>2, <1>3, <1>4, <2>2, <2>3
<1>7. CASE partial_pos_out # Base + ringbuffer_size
  <2> DEFINE x == partial_pos_out - Base
  <2>1. x \in Nat /\ x < ringbuffer_size
    BY <1>1, <1>2, <1>7 DEF Types, Cursors
  <2>2. partial_pos_out = rb_roundtrips * ringbuffer_size + x
    BY <1>2 DEF Base, Types
  <2>3. Masked(partial_pos_out) = x
    BY <1>1, <2>1, <2>2, RoundModulo DEF Masked, Types
  <2> QED BY <1>1, <1>2, <1>3, <1>4, <1>5, <2>1, <2>3 DEF Types, Cursors
<1> QED BY <1>6, <1>7

\* What WriteRingBuffer hands out: a sequence of bytes, cut from the ring.
LEMMA WrittenFacts ==
  ASSUME Types, Cursors, Allocated, NEW avail \in Nat,
         NEW r \in [Cells(ringbuffer_size) -> Byte]
  PROVE  /\ NumWritten(avail) \in Nat
         /\ NumWritten(avail) <= avail
         /\ NumWritten(avail) <= ToWrite
         /\ Written(r, avail) \in Seq(Byte)
         /\ Len(Written(r, avail)) = IF mlen < 0 THEN 0
                                     ELSE NumWritten(avail)
         /\ mlen >= 0 => \A k \in 1..NumWritten(avail) :
              Written(r, avail)[k] = r[Masked(partial_pos_out) + k - 1]
<1>0. /\ ToWrite \in Nat /\ Masked(partial_pos_out) \in Nat
      /\ Masked(partial_pos_out) + ToWrite <= ringbuffer_size
  BY UnwrittenFacts
<1>1. NumWritten(avail) \in Nat /\ NumWritten(avail) <= avail
      /\ NumWritten(avail) <= ToWrite
  BY <1>0 DEF NumWritten
<1>2. CASE mlen < 0
  BY <1>1, <1>2 DEF Written, Types
<1>3. CASE ~(mlen < 0)
  <2> DEFINE N == NumWritten(avail)
             w == [k \in 1..N |-> r[Masked(partial_pos_out) + k - 1]]
  <2>1. Written(r, avail) = w
    BY <1>3 DEF Written
  <2>2. \A k \in 1..N : r[Masked(partial_pos_out) + k - 1] \in Byte
    <3> SUFFICES ASSUME NEW k \in 1..N
                 PROVE  r[Masked(partial_pos_out) + k - 1] \in Byte
      OBVIOUS
    <3>1. Masked(partial_pos_out) + k - 1 \in Cells(ringbuffer_size)
      BY <1>0, <1>1, SizeFacts DEF Cells, Types, Allocated, RingSizes
    <3> QED BY <3>1
  <2>3. w \in Seq(Byte) /\ Len(w) = N
    <3>1. w \in [1..N -> Byte]
      BY <2>2
    <3> HIDE DEF w
    <3>2. w \in Seq(Byte)
      BY <1>1, <3>1
    <3>3. DOMAIN w = 1..Len(w) /\ Len(w) \in Nat
      BY <3>2, LenProperties
    <3> QED BY <1>1, <3>1, <3>2, <3>3
  <2> QED BY <1>1, <1>3, <2>1, <2>3
<1> QED BY <1>2, <1>3 DEF Types

\* What WriteRingBuffer does to the cursors: nothing decoded is lost, and a
\* wrap moves a whole round from `pos` to `rb_roundtrips`.
LEMMA WriteCursors ==
  ASSUME Types, Cursors, Allocated, NEW avail \in Nat,
         WriteRingBuffer(avail), ringbuffer_size' = ringbuffer_size
  PROVE  /\ pos' \in Nat /\ rb_roundtrips' \in Nat /\ partial_pos_out' \in Nat
         /\ Base' \in Nat
         /\ partial_pos_out' = partial_pos_out
              + (IF mlen < 0 THEN 0 ELSE NumWritten(avail))
         /\ Base' + pos' = Base + pos
         /\ Base' <= partial_pos_out'
         /\ partial_pos_out' <= Base' + pos'
         /\ partial_pos_out' <= Base' + ringbuffer_size
         /\ IF WriteWraps(avail) THEN pos' = pos - ringbuffer_size
            ELSE pos' = pos /\ rb_roundtrips' = rb_roundtrips
<1> DEFINE n == IF mlen < 0 THEN 0 ELSE NumWritten(avail)
<1>1. /\ ringbuffer_size \in Nat \ {0} /\ Base \in Nat /\ ToWrite \in Nat
      /\ ToWrite = (IF pos > ringbuffer_size THEN Base + ringbuffer_size
                                             ELSE Base + pos) - partial_pos_out
      /\ NumWritten(avail) \in Nat /\ NumWritten(avail) <= ToWrite
  BY UnwrittenFacts DEF NumWritten
<1>2. /\ n \in Nat /\ n <= ToWrite
      /\ partial_pos_out' = partial_pos_out + n /\ partial_pos_out' \in Nat
  BY <1>1 DEF WriteRingBuffer, Types
<1>3. CASE WriteWraps(avail)
  <2>1. /\ pos' = pos - ringbuffer_size /\ pos >= ringbuffer_size
        /\ rb_roundtrips' = rb_roundtrips + 1
        /\ n = ToWrite
    BY <1>1, <1>3 DEF WriteRingBuffer, WriteWraps, Types
  <2>2. Base' = Base + ringbuffer_size
    BY <1>1, <2>1, NextRound DEF Base, Types
  <2> HIDE DEF n
  <2>3. partial_pos_out' = Base + ringbuffer_size
    BY <1>1, <1>2, <2>1 DEF Types
  <2> QED BY <1>1, <1>2, <1>3, <2>1, <2>2, <2>3 DEF Types, n
<1>4. CASE ~WriteWraps(avail)
  <2>1. pos' = pos /\ rb_roundtrips' = rb_roundtrips
    BY <1>4 DEF WriteRingBuffer
  <2>2. Base' = Base
    BY <2>1 DEF Base
  <2> HIDE DEF n
  <2>3. partial_pos_out + n <= Base + pos
        /\ partial_pos_out + n <= Base + ringbuffer_size
    BY <1>1, <1>2 DEF Types
  <2> QED BY <1>1, <1>2, <1>4, <2>1, <2>2, <2>3 DEF Types, Cursors, n
<1> QED BY <1>3, <1>4

-----------------------------------------------------------------------------
(* Ring content keeps its type                                             *)

\* Storing one byte leaves a ring of bytes.
LEMMA StoredType ==
  ASSUME Types, NEW p \in Nat, NEW n \in Nat, Allocated
  PROVE  Stored(ring, p, n) \in [Cells(ringbuffer_size) -> Byte]
BY DEF Stored, Types, Byte

\* Copying a run of cells inside the ring leaves a ring of bytes.
LEMMA MovedType ==
  ASSUME NEW size \in Nat, NEW r \in [Cells(size) -> Byte],
         NEW dst \in Nat, NEW src \in Nat, NEW n \in Nat, NEW d \in Int,
         src + n <= size + Slack
  PROVE  Moved(r, dst, src, n, d) \in [Cells(size) -> Byte]
<1> SUFFICES ASSUME NEW k \in Cells(size), k \in dst..(dst + n - 1)
             PROVE  CopyOf(r[src + (k - dst)], d) \in Byte
  BY DEF Moved
<1>1. src + (k - dst) \in Cells(size)
  BY SizeFacts DEF Cells
<1> QED BY <1>1 DEF CopyOf, Byte

\* Moving the slack to the ring's start leaves a ring of bytes.
LEMMA WrappedType ==
  ASSUME Types, Allocated, NEW p \in Nat, p <= Slack
  PROVE  Wrapped(ring, p) \in [Cells(ringbuffer_size) -> Byte]
<1> SUFFICES ASSUME NEW k \in Cells(ringbuffer_size), k < p
             PROVE  ring[ringbuffer_size + k] \in Byte
  BY DEF Wrapped, Types
<1>1. ringbuffer_size + k \in Cells(ringbuffer_size)
  BY SizeFacts DEF Cells, Types, RingSizes
<1> QED BY <1>1 DEF Types

-----------------------------------------------------------------------------
(* The steps that leave the ring alone                                     *)

\* Only results and calls change, in states where they may.
LEMMA OutcomeStep ==
  ASSUME Inv, UNCHANGED <<ringVars, streamVars, delivered>>,
         call' \in {"idle", "running"}, result' \in Results,
         available_out' \in Nat,
         result' = "NEEDS_MORE_INPUT" =>
           state \in ReadStates \/ (state = "UNCOMPRESSED" /\ ~Brim),
         call' = "idle" => result' # "SUCCESS"
  PROVE  Inv'
<1> USE DEF Inv, ringVars, streamVars
<1>1. Types' BY DEF Types, Allocated, Cells
<1>2. Control' BY DEF Control, Allocated, Brim
<1>3. Cursors' BY DEF Cursors, Allocated, FullRing, Brim, Base
<1>4. Account' BY DEF Account, Allocated, FullRing, Pending
<1> QED BY <1>1, <1>2, <1>3, <1>4

\* The start of a call changes only the call: the invariant holds after it.
LEMMA StreamCallStep ==
  ASSUME Inv, NEW room \in StreamRoom, StreamCall(room)
  PROVE  Inv'
<1>1. room \in Nat
  BY RingConstants
<1> QED BY <1>1, OutcomeStep DEF StreamCall, Inv, Control, Results

\* A call that ends for want of input preserves the invariant.
LEMMA RunOutOfInputStep ==
  ASSUME Inv, RunOutOfInput
  PROVE  Inv'
<1>1. call \in {"idle", "running"} /\ available_out \in Nat
  BY DEF Inv, Types
<1> QED BY <1>1, OutcomeStep DEF RunOutOfInput, Running, Results

\* A call that ends on a malformed stream preserves the invariant.
LEMMA FormatErrorStep ==
  ASSUME Inv, FormatError
  PROVE  Inv'
BY OutcomeStep DEF FormatError, Outcome, Inv, Types, Results

\* A step that changes nothing preserves the invariant.
LEMMA StutterStep ==
  ASSUME Inv, UNCHANGED vars
  PROVE  Inv'
<1> USE DEF Inv, vars, ringVars, streamVars, callVars
<1>1. Types' BY DEF Types, Allocated, Cells
<1>2. Control' BY DEF Control, Allocated, Brim
<1>3. Cursors' BY DEF Cursors, Allocated, FullRing, Brim, Base
<1>4. Account' BY DEF Account, Allocated, FullRing, Pending
<1> QED BY <1>1, <1>2, <1>3, <1>4

\* Reading a command preserves the invariant.
LEMMA ReadCommandStep ==
  ASSUME Inv, NEW insert \in InsertLengths, ReadCommand(insert)
  PROVE  Inv'
<1> USE DEF Inv, ReadCommand, Running, Continue, ringVars, callVars
<1>0. insert \in Nat
  BY RingConstants
<1>1. Types' BY <1>0 DEF Types, Allocated, Cells, States, ReadStates
<1>2. Control'
  BY <1>0 DEF Types, Control, Allocated, PendingStates, ReadStates
<1>3. Cursors'
  BY DEF Control, Cursors, Allocated, FullRing, Brim, Base, WriteStates
<1>4. Account'
  BY <1>0 DEF Types, Account, Allocated, FullRing, Pending, PendingStates
<1> QED BY <1>1, <1>2, <1>3, <1>4

\* The end of a byte-by-byte copy preserves the invariant.
LEMMA WrapCopyDoneStep ==
  ASSUME Inv, WrapCopyDone
  PROVE  Inv'
<1> USE DEF Inv, WrapCopyDone, Running, Continue, ringVars, callVars,
            AfterCommand
<1>1. Types' BY DEF Types, Allocated, Cells, States, ReadStates
<1>2. Control'
  BY DEF Types, Control, Allocated, PendingStates, ReadStates
<1>3. Cursors'
  BY DEF Control, Cursors, Allocated, FullRing, Brim, Base, WriteStates
<1>4. Account'
  BY DEF Types, Account, Allocated, FullRing, Pending, PendingStates
<1> QED BY <1>1, <1>2, <1>3, <1>4

\* The end of a meta-block preserves the invariant.
LEMMA FinishMetablockStep ==
  ASSUME Inv, FinishMetablock
  PROVE  Inv'
<1> USE DEF Inv, FinishMetablock, Running, Outcome, ringVars
<1>1. Types' BY DEF Types, Allocated, Cells, States, ReadStates, Results
<1>2. Control'
  BY DEF Types, Control, Allocated, PendingStates, ReadStates
<1>3. Cursors'
  BY DEF Control, Cursors, Allocated, FullRing, Brim, Base, WriteStates
<1>4. Account'
  BY DEF Types, Account, Allocated, FullRing, Pending, PendingStates
<1> QED BY <1>1, <1>2, <1>3, <1>4

\* The first header allocates the ring, later ones leave it.
LEMMA HeaderStep ==
  ASSUME Inv, NEW last \in BOOLEAN, NEW uncompressed \in BOOLEAN,
         NEW peeked \in BOOLEAN, NEW len \in BlockLengths \cup {0},
         ReadMetablockHeader(last, uncompressed, len, peeked)
  PROVE  Inv'
<1> USE DEF ReadMetablockHeader, Running, Continue, callVars
<1>0. /\ len \in Nat /\ declared' = declared + len /\ mlen' = len /\ i' = 0
      /\ declared \in Nat /\ mlen = 0 /\ state = "METABLOCK_BEGIN"
      /\ substate_uncompressed = "NONE" /\ ~Brim
  BY RingConstants DEF Inv, Types, Control, Brim, WriteStates
<1>1. CASE len # 0 /\ ~Allocated
  <2>1. PICK s \in RingSizes : /\ IsRingSize(s, last \/ peeked, len)
                               /\ ringbuffer_size' = s
                               /\ ring' = FreshRing(s)
    BY <1>1 DEF BrotliAllocateRingBuffer
  <2>2. s \in Nat \ {0} /\ Allocated'
    BY <2>1, SizeFacts DEF RingSizes, Allocated
  <2>3. ring' \in [Cells(s) -> Byte]
    BY <2>1, <2>2, SizeFacts DEF FreshRing, Byte, Cells
  <2>4. s # WindowSize => /\ last \/ peeked
                          /\ len + ClippedDict + Gap <= s
    <3> SUFFICES ASSUME s # WindowSize
                 PROVE  (last \/ peeked) /\ len + ClippedDict + Gap <= s
      OBVIOUS
    <3>1. s < WindowSize
      BY <2>1, SizeFacts DEF RingSizes
    <3>2. (last \/ peeked) /\ Halves(2 * s, len)
      BY <2>1, <3>1 DEF IsRingSize
    <3> QED BY <1>0, <2>2, <3>2, SizeFacts DEF Halves
  <2>5. /\ pos = 0 /\ rb_roundtrips \in Nat /\ ringbuffer_size = 0
        /\ partial_pos_out = 0 /\ decoded = 0 /\ Len(delivered) = 0
        /\ Base = 0
    BY <1>1 DEF Inv, Types, Cursors, Allocated, Base
  <2>6. rb_roundtrips = 0
    BY <1>1 DEF Inv, Control
  <2>7. Base' = 0
    BY <2>1, <2>2, <2>6 DEF Base
  <2>8. Types'
    BY <1>0, <1>1, <2>1, <2>2, <2>3
    DEF Inv, Types, Allocated, Cells, States, ReadStates
  <2>9. Control'
    BY <1>0, <1>1, <2>2 DEF Inv, Types, Control, PendingStates, ReadStates,
                            Brim, WriteStates
  <2>10. Cursors'
    BY <1>0, <1>1, <2>1, <2>2, <2>5, <2>7 DEF Inv, Cursors, Brim, WriteStates
  <2>11. Account'
    BY <1>0, <1>1, <2>1, <2>2, <2>4, <2>5, <2>6, SizeFacts
    DEF Inv, Account, FullRing, Pending, PendingStates
  <2> QED BY <2>8, <2>9, <2>10, <2>11 DEF Inv
<1>2. CASE ~(len # 0 /\ ~Allocated)
  <2>1. UNCHANGED <<ring, ringbuffer_size>>
    BY <1>2
  <2>2. Types'
    BY <1>0, <1>2, <2>1 DEF Inv, Types, Allocated, Cells, States, ReadStates
  <2>3. Control'
    BY <1>0, <1>2, <2>1 DEF Inv, Types, Control, PendingStates, ReadStates,
                            Brim, WriteStates, Allocated
  <2>4. Cursors'
    BY <1>0, <2>1
    DEF Inv, Cursors, Brim, WriteStates, Allocated, FullRing, Base
  <2>5. Account'
    BY <1>0, <1>2, <2>1
    DEF Inv, Types, Account, FullRing, Pending, PendingStates, Allocated
  <2> QED BY <2>2, <2>3, <2>4, <2>5 DEF Inv
<1> QED BY <1>1, <1>2

-----------------------------------------------------------------------------
(* The steps that decode into the ring                                     *)

\* n bytes more were decoded: the cursors stay in order.
LEMMA DecodedStep ==
  ASSUME Inv, Allocated, ~Brim, NEW n \in Nat,
         pos' = pos + n, pos' < ringbuffer_size + Slack, decoded' = decoded + n,
         UNCHANGED <<ringbuffer_size, rb_roundtrips, partial_pos_out,
                     should_wrap_ringbuffer, delivered>>,
         Brim' => pos' >= ringbuffer_size,
         ~Brim' => pos' < ringbuffer_size,
         (Brim' /\ state' # "COMMAND_POST_WRITE_1") => pos' = ringbuffer_size
  PROVE  Cursors'
<1>1. /\ Base \in Nat /\ Base' = Base /\ ringbuffer_size \in Nat
      /\ pos \in Nat /\ pos < ringbuffer_size /\ Slack \in Nat
  BY UnwrittenFacts, SizeFacts DEF Inv, Types, Cursors, Base
<1>2. ~should_wrap_ringbuffer
  BY DEF Inv, Cursors, Brim, WriteStates
<1> QED BY <1>1, <1>2 DEF Inv, Types, Cursors, Allocated

\* One literal stored in the ring preserves the invariant.
LEMMA DecodeLiteralStep ==
  ASSUME Inv, DecodeLiteral
  PROVE  Inv'
<1> USE DEF DecodeLiteral, Running, Continue, callVars
<1>1. Allocated /\ ~Brim /\ pos \in Nat /\ pos < ringbuffer_size
      /\ state = "COMMAND_INNER" /\ substate_uncompressed = "NONE" /\ i >= 1
      /\ i \in Int /\ ringbuffer_size \in Nat
  BY SizeFacts
  DEF Inv, Types, Control, Cursors, Brim, WriteStates, RingSizes
<1>2. ring' \in [Cells(ringbuffer_size) -> Byte]
  BY <1>1, StoredType DEF Inv
<1>3. Types'
  BY <1>1, <1>2 DEF Inv, Types, Allocated, Cells, States, ReadStates, WriteStates
<1>4. Control'
  BY <1>1 DEF Inv, Types, Control, Allocated, PendingStates, ReadStates, Brim,
              WriteStates
<1>5. Cursors'
  <2>1. Brim' => pos' = ringbuffer_size
    BY <1>1 DEF Brim, WriteStates
  <2>2. ~Brim' => pos' < ringbuffer_size
    BY <1>1 DEF Brim, WriteStates
  <2>3. pos' = pos + 1 /\ pos' < ringbuffer_size + Slack
    BY <1>1, SizeFacts
  <2> QED BY <1>1, <2>1, <2>2, <2>3, DecodedStep
<1>6. Account'
  BY <1>1 DEF Inv, Types, Account, Allocated, FullRing, Pending, PendingStates
<1> QED BY <1>3, <1>4, <1>5, <1>6 DEF Inv

\* One byte copied by the byte-by-byte loop preserves the invariant.
LEMMA WrapCopyByteStep ==
  ASSUME Inv, WrapCopyByte
  PROVE  Inv'
<1> USE DEF WrapCopyByte, Running, Continue, callVars
<1>1. Allocated /\ ~Brim /\ pos \in Nat /\ pos < ringbuffer_size
      /\ state = "COMMAND_POST_WRAP_COPY" /\ substate_uncompressed = "NONE"
      /\ i > 0 /\ i \in Int /\ distance_code \in Nat
      /\ ringbuffer_size \in Nat
  BY SizeFacts
  DEF Inv, Types, Control, Cursors, Brim, WriteStates, RingSizes
<1>2. ring' \in [Cells(ringbuffer_size) -> Byte]
  <2>1. Masked(pos - distance_code) \in Cells(ringbuffer_size)
    BY <1>1, ModuloRange, SizeFacts DEF Masked, Cells
  <2>2. CopyOf(ring[Masked(pos - distance_code)], distance_code) \in Byte
    BY <1>1, <2>1 DEF CopyOf, Byte, Inv, Types
  <2> QED BY <1>1, <2>2 DEF Inv, Types
<1>3. Types'
  BY <1>1, <1>2 DEF Inv, Types, Allocated, Cells, States, ReadStates, WriteStates
<1>4. Control'
  BY <1>1 DEF Inv, Types, Control, Allocated, PendingStates, ReadStates, Brim,
              WriteStates
<1>5. Cursors'
  <2>1. Brim' => pos' = ringbuffer_size
    BY <1>1 DEF Brim, WriteStates
  <2>2. ~Brim' => pos' < ringbuffer_size
    BY <1>1 DEF Brim, WriteStates
  <2>3. pos' = pos + 1 /\ pos' < ringbuffer_size + Slack
    BY <1>1, SizeFacts
  <2> QED BY <1>1, <2>1, <2>2, <2>3, DecodedStep
<1>6. Account'
  BY <1>1 DEF Inv, Types, Account, Allocated, FullRing, Pending, PendingStates
<1> QED BY <1>3, <1>4, <1>5, <1>6 DEF Inv

\* The furthest distance usable now is a number within the window's bounds.
LEMMA MaxDistanceNowType ==
  ASSUME Inv
  PROVE  MaxDistanceNow \in Nat
BY SizeFacts DEF Inv, Types, MaxDistanceNow

\* A word of the static dictionary copied into the ring, slack included,
\* preserves the invariant.
LEMMA CopyDictionaryWordStep ==
  ASSUME Inv, NEW n \in WordLengths, CopyDictionaryWord(n)
  PROVE  Inv'
<1> USE DEF CopyDictionaryWord, Running, Continue, callVars, AfterCommand
<1>0. n \in Nat /\ n <= Slack
  BY RingConstants
<1>1. Allocated /\ ~Brim /\ pos \in Nat /\ pos < ringbuffer_size
      /\ state = "COMMAND_POST_DECODE_LITERALS"
      /\ substate_uncompressed = "NONE" /\ ringbuffer_size \in Nat
  BY SizeFacts
  DEF Inv, Types, Control, Cursors, Brim, WriteStates, RingSizes
<1>2. ring' \in [Cells(ringbuffer_size) -> Byte]
  BY <1>0, <1>1, StoredType DEF Inv
<1>3. Types'
  <2>1. /\ max_distance' \in Nat /\ pos' \in Nat /\ decoded' \in Nat
        /\ mlen' \in Int
    <3>1. MaxDistanceNow \in Nat
      BY MaxDistanceNowType
    <3> QED BY <1>0, <1>1, <3>1 DEF Inv, Types
  <2>2. state' \in States
    BY DEF States, ReadStates, WriteStates
  <2> QED BY <1>2, <2>1, <2>2 DEF Inv, Types, Allocated, Cells
<1>4. Control'
  BY <1>1 DEF Inv, Types, Control, Allocated, PendingStates, ReadStates, Brim,
              WriteStates
<1>5. Cursors'
  <2>1. Brim' => pos' >= ringbuffer_size /\ state' = "COMMAND_POST_WRITE_1"
    BY <1>0, <1>1 DEF Brim, WriteStates
  <2>2. ~Brim' => pos' < ringbuffer_size
    BY <1>0, <1>1 DEF Brim, WriteStates
  <2>3. pos' = pos + n /\ pos' < ringbuffer_size + Slack
    BY <1>0, <1>1, SizeFacts
  <2> QED BY <1>0, <1>1, <2>1, <2>2, <2>3, DecodedStep
<1>6. Account'
  BY <1>0, <1>1
  DEF Inv, Types, Account, Allocated, FullRing, Pending, PendingStates
<1> QED BY <1>3, <1>4, <1>5, <1>6 DEF Inv

\* A copy inside the window, and one left to the byte-by-byte loop.
LEMMA CopyFromWindowStep ==
  ASSUME Inv, NEW d \in 1..MaxBackwardDistance, NEW n \in CopyLengths,
         CopyFromWindow(d, n)
  PROVE  Inv'
<1> DEFINE src == Masked(pos - d)
           guess == Moved(ring, pos, src, Chunk, d)
           wraps == \/ src + n > pos /\ pos + n > src
                    \/ pos + n >= ringbuffer_size
                    \/ src + n >= ringbuffer_size
           rest == IF n > 2 * Chunk THEN n - Chunk ELSE Chunk
<1> USE DEF Running, Continue, callVars, AfterCommand
<1>0. n \in Nat \ {0} /\ d \in Nat
  BY RingConstants, SizeFacts
<1>1. /\ Allocated /\ ~Brim /\ pos \in Nat /\ pos < ringbuffer_size
      /\ state = "COMMAND_POST_DECODE_LITERALS"
      /\ substate_uncompressed = "NONE" /\ ringbuffer_size \in Nat
      /\ max_distance' \in Nat /\ mlen \in Int /\ decoded \in Nat
  <2>1. MaxDistanceNow \in Nat
    BY MaxDistanceNowType
  <2> QED BY <2>1, SizeFacts
          DEF CopyFromWindow, Inv, Types, Control, Cursors, Brim, WriteStates,
              RingSizes
<1>2. src \in Nat /\ src < ringbuffer_size
  BY <1>0, <1>1, ModuloRange DEF Masked
<1>3. guess \in [Cells(ringbuffer_size) -> Byte]
  <2>1. ring \in [Cells(ringbuffer_size) -> Byte]
    BY <1>1 DEF Inv, Types
  <2>2. src + Chunk <= ringbuffer_size + Slack /\ Chunk \in Nat
    BY <1>1, <1>2, SizeFacts
  <2> HIDE DEF src
  <2> QED BY <1>0, <1>1, <1>2, <2>1, <2>2, MovedType
<1>4. CASE wraps
  <2>1. /\ ring' = guess /\ state' = "COMMAND_POST_WRAP_COPY"
        /\ UNCHANGED <<pos, decoded>>
    BY <1>4 DEF CopyFromWindow
  <2> HIDE DEF guess
  <2>2. Types'
    BY <1>0, <1>1, <1>3, <2>1
    DEF CopyFromWindow, Inv, Types, Allocated, Cells, States
  <2>3. Control'
    BY <1>0, <1>1, <2>1
    DEF CopyFromWindow, Inv, Control, Allocated, PendingStates, Brim,
        ReadStates, WriteStates
  <2>4. Cursors'
    BY <1>1, <2>1
    DEF CopyFromWindow, Inv, Cursors, Allocated, FullRing, Brim, WriteStates,
        Base
  <2>5. Account'
    BY <1>0, <1>1, <2>1
    DEF CopyFromWindow, Inv, Types, Account, Allocated, FullRing, Pending,
        PendingStates
  <2> QED BY <2>2, <2>3, <2>4, <2>5 DEF Inv
<1>5. CASE ~wraps
  <2>1. /\ ring' = IF n <= Chunk THEN guess
                   ELSE Moved(guess, pos + Chunk, src + Chunk, rest, d)
        /\ pos' = pos + n /\ decoded' = decoded + n
        /\ state' = AfterCommand(mlen - n)
    BY <1>5 DEF CopyFromWindow
  <2>2. pos + n < ringbuffer_size /\ src + n < ringbuffer_size
    BY <1>0, <1>1, <1>2, <1>5
  <2>3. ring' \in [Cells(ringbuffer_size) -> Byte]
    <3>1. CASE n <= Chunk
      BY <1>3, <2>1, <3>1
    <3>2. CASE ~(n <= Chunk)
      <4>1. /\ rest \in Nat /\ pos + Chunk \in Nat /\ src + Chunk \in Nat
            /\ (src + Chunk) + rest <= ringbuffer_size + Slack
        BY <1>0, <1>1, <1>2, <2>2, <3>2, SizeFacts
      <4> HIDE DEF guess, src, rest
      <4>2. Moved(guess, pos + Chunk, src + Chunk, rest, d)
              \in [Cells(ringbuffer_size) -> Byte]
        <5>1. d \in Int /\ ringbuffer_size \in Nat
          BY <1>0, <1>1
        <5> QED BY <1>3, <4>1, <5>1, MovedType
      <4> QED BY <2>1, <3>2, <4>2
    <3> QED BY <3>1, <3>2
  <2> HIDE DEF guess, src, rest
  <2>4. Types'
    <3>1. state' \in States
      BY <2>1 DEF States, ReadStates
    <3>2. pos' \in Nat /\ decoded' \in Nat /\ mlen' \in Int /\ i' \in Int
      BY <1>0, <1>1, <2>1 DEF CopyFromWindow
    <3> QED BY <1>0, <1>1, <2>3, <3>1, <3>2
            DEF CopyFromWindow, Inv, Types, Allocated, Cells
  <2>5. Control'
    BY <1>0, <1>1, <2>1
    DEF CopyFromWindow, Inv, Control, Allocated, PendingStates, Brim,
        ReadStates, WriteStates
  <2>6. Cursors'
    <3>1. ~Brim' /\ pos' < ringbuffer_size + Slack /\ pos' < ringbuffer_size
      BY <1>0, <1>1, <2>1, <2>2, SizeFacts
      DEF CopyFromWindow, Brim, WriteStates
    <3> QED BY <1>0, <1>1, <2>1, <3>1, DecodedStep DEF CopyFromWindow
  <2>7. Account'
    BY <1>0, <1>1, <2>1
    DEF CopyFromWindow, Inv, Types, Account, Allocated, FullRing, Pending,
        PendingStates
  <2> QED BY <2>4, <2>5, <2>6, <2>7 DEF Inv
<1> QED BY <1>4, <1>5

\* Raw bytes fill the ring at most up to its end; a halved ring, sized for
\* the declared length, they never fill.
LEMMA CopyUncompressedBytesStep ==
  ASSUME Inv, NEW n \in Nat, CopyUncompressedBytes(n)
  PROVE  Inv'
<1> USE DEF CopyUncompressedBytes, Running, Outcome
<1>1. /\ Allocated /\ ~Brim /\ pos \in Nat /\ pos < ringbuffer_size
      /\ state = "UNCOMPRESSED" /\ substate_uncompressed = "NONE"
      /\ ringbuffer_size \in Nat /\ ringbuffer_size <= WindowSize
      /\ mlen \in Int /\ decoded \in Nat /\ call = "running"
  BY SizeFacts
  DEF Inv, Types, Control, Cursors, Brim, WriteStates, RingSizes
<1>2. ring' \in [Cells(ringbuffer_size) -> Byte]
  BY <1>1, StoredType DEF Inv
<1>3. Types'
  <2>1. /\ pos' \in Nat /\ decoded' \in Nat /\ mlen' \in Int
        /\ state' \in States /\ substate_uncompressed' \in {"NONE", "WRITE"}
        /\ result' \in Results /\ call' \in {"idle", "running"}
    BY <1>1 DEF States, Results
  <2> QED BY <1>2, <2>1 DEF Inv, Types, Allocated, Cells
<1>4. Account'
  BY <1>1 DEF Inv, Types, Account, Allocated, FullRing, Pending, PendingStates
<1>5. substate_uncompressed' = "NONE" => pos' < ringbuffer_size
  <2>1. CASE FullRing
    BY <1>1, <2>1 DEF FullRing
  <2>2. CASE ~FullRing
    <3>1. /\ declared + ClippedDict + Gap <= ringbuffer_size
          /\ declared = decoded + mlen /\ decoded = pos /\ declared \in Nat
      BY <1>1, <2>2, SizeFacts
      DEF Inv, Types, Account, Cursors, Pending, PendingStates, Base
    <3> QED BY <1>1, <3>1, SizeFacts
  <2> QED BY <2>1, <2>2
<1>6. substate_uncompressed' = "WRITE" => pos' = ringbuffer_size /\ state' = state
  BY <1>1, SizeFacts
<1>7. /\ Brim' <=> substate_uncompressed' = "WRITE"
      /\ substate_uncompressed' \in {"NONE", "WRITE"}
  BY <1>1 DEF Brim, WriteStates
<1>8. Control'
  <2>1. /\ state' \in {"UNCOMPRESSED", "METABLOCK_DONE"}
        /\ state' = "METABLOCK_DONE" => mlen' = 0
        /\ mlen' >= 0
        /\ result' = "NEEDS_MORE_INPUT" => state' = "UNCOMPRESSED" /\ ~Brim'
        /\ call' = "running"
    BY <1>1, <1>7
  <2> QED BY <1>1, <1>6, <1>7, <2>1
          DEF Inv, Control, Allocated, PendingStates, ReadStates
<1>9. Cursors'
  <2>1. pos' < ringbuffer_size + Slack
    BY <1>5, <1>6, <1>7, <1>1, SizeFacts
  <2> QED BY <1>1, <1>5, <1>6, <1>7, <2>1, DecodedStep
<1> QED BY <1>3, <1>4, <1>8, <1>9 DEF Inv

-----------------------------------------------------------------------------
(* The steps that write                                                    *)

\* What a write to the caller keeps: the type and the length of what was
\* delivered, and that a block over its length delivers nothing.
LEMMA WriteToCallerFacts ==
  ASSUME Inv, Allocated, WriteToCaller, ringbuffer_size' = ringbuffer_size
  PROVE  /\ delivered' \in Seq(Byte)
         /\ Len(delivered') <= partial_pos_out'
         /\ partial_pos_out' <= declared
         /\ available_out' \in Nat
<1>1. /\ available_out \in Nat /\ delivered \in Seq(Byte) /\ mlen \in Int
      /\ Len(delivered) \in Nat /\ Len(delivered) <= partial_pos_out
      /\ partial_pos_out \in Nat
      /\ decoded = Base + pos /\ declared = decoded + Pending + mlen
      /\ Pending \in Nat /\ decoded \in Nat /\ partial_pos_out <= declared
  BY LenProperties
  DEF Inv, Types, Control, Cursors, Account, Pending, PendingStates
<1>2. /\ NumWritten(available_out) \in Nat
      /\ NumWritten(available_out) <= available_out
      /\ Written(ring, available_out) \in Seq(Byte)
      /\ Len(Written(ring, available_out)) =
            IF mlen < 0 THEN 0 ELSE NumWritten(available_out)
  <2>1. Types /\ Cursors /\ ring \in [Cells(ringbuffer_size) -> Byte]
    BY DEF Inv, Types
  <2> QED BY <1>1, <2>1, WrittenFacts
<1>3. /\ partial_pos_out' = partial_pos_out
           + (IF mlen < 0 THEN 0 ELSE NumWritten(available_out))
      /\ Base' + pos' = Base + pos /\ partial_pos_out' <= Base' + pos'
  <2>1. Types /\ Cursors /\ WriteRingBuffer(available_out)
    BY DEF Inv, WriteToCaller
  <2> QED BY <1>1, <2>1, WriteCursors
<1>4. delivered' \in Seq(Byte)
      /\ Len(delivered') = Len(delivered) + Len(Written(ring, available_out))
  <2>1. delivered' = delivered \o Written(ring, available_out)
    BY DEF WriteToCaller
  <2> QED BY <1>1, <1>2, <2>1, ConcatProperties
<1>5. partial_pos_out' <= declared
  <2>1. CASE mlen < 0
    BY <1>1, <1>3, <2>1
  <2>2. CASE ~(mlen < 0)
    BY <1>1, <1>3, <2>2
  <2> QED BY <2>1, <2>2
<1>6. available_out' \in Nat
  <2>1. available_out' = IF mlen < 0 THEN available_out
                         ELSE available_out - NumWritten(available_out)
    BY DEF WriteToCaller
  <2>2. /\ available_out \in Nat /\ NumWritten(available_out) \in Nat
        /\ NumWritten(available_out) <= available_out
    BY <1>1, <1>2
  <2>3. available_out - NumWritten(available_out) \in Nat
    BY <2>2
  <2>4. CASE mlen < 0
    BY <2>1, <2>2, <2>4
  <2>5. CASE ~(mlen < 0)
    BY <2>1, <2>3, <2>5
  <2> QED BY <2>4, <2>5
<1>7. Len(delivered') <= partial_pos_out'
  <2>1. PICK n \in Nat : /\ n = Len(Written(ring, available_out))
                         /\ Len(delivered') = Len(delivered) + n
                         /\ partial_pos_out' = partial_pos_out + n
    BY <1>2, <1>3, <1>4
  <2>2. /\ Len(delivered) \in Nat /\ partial_pos_out \in Nat
        /\ Len(delivered) <= partial_pos_out
    BY <1>1
  <2> QED BY <2>1, <2>2
<1> QED BY <1>4, <1>5, <1>6, <1>7

\* A write that does not wrap the ring.
LEMMA PlainWriteStep ==
  ASSUME Inv, Allocated, WriteToCaller, ~WriteWraps(available_out),
         UNCHANGED <<ring, ringbuffer_size, should_wrap_ringbuffer, streamVars>>,
         call' \in {"idle", "running"}, result' \in Results,
         result' = "NEEDS_MORE_INPUT" =>
           state \in ReadStates \/ (state = "UNCOMPRESSED" /\ ~Brim),
         (call' = "idle" /\ result' = "SUCCESS") =>
           state = "DONE" /\ partial_pos_out' = decoded
  PROVE  Inv'
<1>1. /\ delivered' \in Seq(Byte) /\ Len(delivered') <= partial_pos_out'
      /\ partial_pos_out' <= declared /\ available_out' \in Nat
  BY WriteToCallerFacts
<1>2. Types /\ Cursors /\ WriteRingBuffer(available_out)
      /\ available_out \in Nat
  BY DEF Inv, WriteToCaller, Types
<1>3. /\ partial_pos_out' \in Nat /\ Base' <= partial_pos_out'
      /\ partial_pos_out' <= Base' + pos'
      /\ partial_pos_out' <= Base' + ringbuffer_size
      /\ pos' = pos /\ rb_roundtrips' = rb_roundtrips
  BY <1>2, WriteCursors
<1>4. Base' = Base
  BY <1>3 DEF Base
<1> USE DEF streamVars
<1>5. Types'
  BY <1>1, <1>3 DEF Inv, Types, Allocated, Cells
<1>6. Control'
  BY <1>3 DEF Inv, Control, Allocated, Brim
<1>7. Cursors'
  BY <1>1, <1>3, <1>4 DEF Inv, Cursors, Allocated, FullRing, Brim
<1>8. Account'
  BY <1>1, <1>3 DEF Inv, Account, Allocated, FullRing, Pending
<1> QED BY <1>5, <1>6, <1>7, <1>8 DEF Inv

\* A write that succeeds in a write state: the ring is a full one - a halved
\* ring fills up only when a command overshoots its block - and it wraps,
\* unless BrotliDecoderTakeOutput wrapped it before.
LEMMA FullWrite ==
  ASSUME Inv, Allocated, Brim, WriteStatus(available_out, FALSE) = "SUCCESS"
  PROVE  /\ FullRing
         /\ WriteWraps(available_out) \/ pos < Slack
<1>1. mlen >= 0 /\ mlen \in Int
  BY DEF WriteStatus, Inv, Types
<1>2. CASE FullRing /\ pos < Slack
  BY <1>2
<1>3. CASE pos >= ringbuffer_size
  <2>1. FullRing
    <3> SUFFICES ASSUME ~FullRing PROVE FALSE
      OBVIOUS
    <3>1. /\ declared + ClippedDict + Gap <= ringbuffer_size
          /\ declared = decoded + Pending + mlen /\ decoded = pos
          /\ Pending \in Nat
          /\ pos \in Nat /\ ringbuffer_size \in Nat
      BY SizeFacts
      DEF Inv, Types, Control, Account, Cursors, Pending, PendingStates, Base,
          RingSizes
    <3> QED BY <1>1, <1>3, <3>1, SizeFacts
  <2>2. NumWritten(available_out) = ToWrite
    <3>1. Types /\ Cursors /\ available_out \in Nat
      BY DEF Inv, Types
    <3>2. ToWrite \in Nat
      BY <3>1, UnwrittenFacts
    <3>3. ~(NumWritten(available_out) < ToWrite)
      BY <1>1, <2>1 DEF WriteStatus
    <3> QED BY <3>1, <3>2, <3>3 DEF NumWritten
  <2> QED BY <1>1, <1>3, <2>1, <2>2 DEF WriteWraps
<1> QED BY <1>2, <1>3 DEF Inv, Cursors

\* A write that must not complete does not wrap.
LEMMA PartialWrite ==
  ASSUME Inv, Allocated, NEW force \in BOOLEAN,
         WriteStatus(available_out, force) # "SUCCESS"
  PROVE  ~WriteWraps(available_out)
<1>1. /\ NumWritten(available_out) \in Nat /\ ToWrite \in Nat /\ mlen \in Int
  <2>1. Types /\ Cursors /\ available_out \in Nat /\ mlen \in Int
    BY DEF Inv, Types
  <2>2. ToWrite \in Nat
    BY <2>1, UnwrittenFacts
  <2> QED BY <2>1, <2>2 DEF NumWritten
<1> QED BY <1>1 DEF WriteStatus, WriteWraps

\* A write in POST_WRITE_1 or POST_WRITE_2, with its wrap of the ring,
\* preserves the invariant.
LEMMA WriteAndWrapStep ==
  ASSUME Inv, WriteAndWrap
  PROVE  Inv'
<1> DEFINE status == WriteStatus(available_out, FALSE)
<1>1. /\ Allocated /\ Brim /\ state \in WriteStates /\ call = "running"
      /\ result = "SUCCESS" /\ substate_uncompressed = "NONE"
      /\ WriteToCaller /\ ringbuffer_size' = ringbuffer_size
      /\ should_wrap_ringbuffer \in BOOLEAN /\ available_out \in Nat
      /\ result' = status
      /\ call' = IF status \in {"SUCCESS", "NEEDS_MORE_INPUT"} THEN call
                 ELSE "idle"
  BY DEF WriteAndWrap, Running, Outcome, Inv, Types, Control, Brim, WriteStates
<1>2. CASE status # "SUCCESS"
  <2>1. ~WriteWraps(available_out)
    BY <1>1, <1>2, PartialWrite
  <2>2. UNCHANGED <<ring, ringbuffer_size, should_wrap_ringbuffer, streamVars>>
    BY <1>1, <1>2, <2>1 DEF WriteAndWrap, MustWrap, streamVars
  <2>3. /\ result' \in Results /\ result' # "NEEDS_MORE_INPUT"
        /\ result' # "SUCCESS" /\ call' \in {"idle", "running"}
    BY <1>1, <1>2 DEF WriteStatus, Results
  <2> QED BY <1>1, <2>1, <2>2, <2>3, PlainWriteStep
<1>3. CASE status = "SUCCESS"
  <2>1. /\ FullRing /\ (WriteWraps(available_out) \/ pos < Slack)
        /\ mlen >= 0 /\ mlen \in Int
    <3>1. FullRing /\ (WriteWraps(available_out) \/ pos < Slack)
      BY <1>1, <1>3, FullWrite
    <3> QED BY <1>3, <3>1 DEF WriteStatus, Inv, Types
  <2>2. /\ delivered' \in Seq(Byte) /\ Len(delivered') <= partial_pos_out'
        /\ partial_pos_out' <= declared /\ available_out' \in Nat
    BY <1>1, WriteToCallerFacts
  <2>3. /\ pos' \in Nat /\ rb_roundtrips' \in Nat /\ partial_pos_out' \in Nat
        /\ Base' + pos' = Base + pos /\ Base' <= partial_pos_out'
        /\ partial_pos_out' <= Base' + pos'
        /\ partial_pos_out' <= Base' + ringbuffer_size
        /\ IF WriteWraps(available_out) THEN pos' = pos - ringbuffer_size
           ELSE pos' = pos
    <3>1. Types /\ Cursors /\ WriteRingBuffer(available_out)
      BY <1>1 DEF Inv, WriteToCaller
    <3> QED BY <1>1, <2>1, <3>1, WriteCursors
  <2>4. pos' < Slack /\ pos' < ringbuffer_size /\ ringbuffer_size \in Nat
    BY <1>1, <2>1, <2>3, SizeFacts
    DEF Inv, Types, Cursors, FullRing, WriteWraps
  <2>5. ring' \in [Cells(ringbuffer_size) -> Byte]
    <3>1. Wrapped(ring, pos') \in [Cells(ringbuffer_size) -> Byte]
      <4>1. Types /\ pos' <= Slack
        BY <2>3, <2>4, SizeFacts DEF Inv
      <4> QED BY <1>1, <2>3, <4>1, WrappedType
    <3>2. ring \in [Cells(ringbuffer_size) -> Byte]
      BY <1>1 DEF Inv, Types
    <3> QED BY <1>3, <3>1, <3>2 DEF WriteAndWrap
  <2>6. /\ state' \in {"COMMAND_INNER", "METABLOCK_DONE", "COMMAND_BEGIN",
                       "COMMAND_POST_WRAP_COPY", "COMMAND_POST_DECODE_LITERALS"}
        /\ state' = "METABLOCK_DONE" => mlen <= 0
        /\ state' = "COMMAND_INNER" => i # 0 /\ state = "COMMAND_INNER_WRITE"
        /\ state' = "COMMAND_POST_WRAP_COPY" => state = "COMMAND_POST_WRITE_2"
        /\ state = "COMMAND_INNER_WRITE" /\ i # 0 => state' = "COMMAND_INNER"
        /\ state = "COMMAND_POST_WRITE_2" => state' = "COMMAND_POST_WRAP_COPY"
        /\ UNCHANGED <<ringbuffer_size, substate_uncompressed, mlen, i,
                       distance_code, is_last, ends_next, decoded, declared>>
        /\ should_wrap_ringbuffer' = FALSE
        /\ result' = "SUCCESS" /\ call' = "running"
    BY <1>1, <1>3 DEF WriteAndWrap, AfterCommand, WriteStates
  <2>7. max_distance' \in Nat
    BY <1>3, SizeFacts DEF WriteAndWrap, Inv, Types
  <2>8. ~Brim' /\ Allocated' /\ FullRing'
    BY <1>1, <2>1, <2>6 DEF Brim, WriteStates, Allocated, FullRing
  <2>9. Types'
    BY <2>2, <2>3, <2>5, <2>6, <2>7, <2>8
    DEF Inv, Types, Results, States, ReadStates, Allocated
  <2>10. Control'
    <3>1. /\ state' \in PendingStates => i' >= 0
          /\ state' = "COMMAND_INNER" => i' >= 1
      BY <1>1, <2>6 DEF Inv, Types, Control, PendingStates
    <3>2. /\ state' \notin {"METABLOCK_BEGIN", "DONE", "UNCOMPRESSED"}
          /\ substate_uncompressed' = "NONE"
          /\ mlen' = mlen
      BY <1>1, <2>6
    <3> QED BY <2>1, <2>6, <2>8, <3>1, <3>2 DEF Control
  <2>11. Cursors'
    BY <2>2, <2>3, <2>4, <2>6, <2>8 DEF Inv, Cursors
  <2>12. Account'
    <3>1. Pending' = Pending
      BY <1>1, <2>6 DEF Pending, PendingStates, WriteStates
    <3> QED BY <2>2, <2>6, <2>8, <3>1 DEF Inv, Account
  <2> QED BY <2>9, <2>10, <2>11, <2>12 DEF Inv
<1> QED BY <1>2, <1>3

\* The write of a full ring of raw bytes preserves the invariant.
LEMMA WriteUncompressedStep ==
  ASSUME Inv, WriteUncompressed
  PROVE  Inv'
<1> DEFINE status == WriteStatus(available_out, FALSE)
<1>1. /\ Allocated /\ Brim /\ state = "UNCOMPRESSED" /\ call = "running"
      /\ result = "SUCCESS" /\ substate_uncompressed = "WRITE"
      /\ WriteToCaller /\ UNCHANGED <<ring, ringbuffer_size, state, mlen, i,
           distance_code, is_last, ends_next, decoded, declared>>
      /\ should_wrap_ringbuffer = FALSE /\ available_out \in Nat
      /\ pos \in {0, ringbuffer_size}
      /\ result' = status
      /\ call' = IF status \in {"SUCCESS", "NEEDS_MORE_INPUT"} THEN call
                 ELSE "idle"
  BY DEF WriteUncompressed, Running, Outcome, Inv, Types, Control, Cursors, Brim
<1>2. CASE status # "SUCCESS"
  <2>1. ~WriteWraps(available_out)
    BY <1>1, <1>2, PartialWrite
  <2>2. UNCHANGED <<ring, ringbuffer_size, should_wrap_ringbuffer, streamVars>>
    BY <1>1, <1>2, <2>1 DEF WriteUncompressed, MustWrap, streamVars
  <2>3. /\ result' \in Results /\ result' # "NEEDS_MORE_INPUT"
        /\ result' # "SUCCESS" /\ call' \in {"idle", "running"}
    BY <1>1, <1>2 DEF WriteStatus, Results
  <2> QED BY <1>1, <2>1, <2>2, <2>3, PlainWriteStep
<1>3. CASE status = "SUCCESS"
  <2>1. FullRing /\ (WriteWraps(available_out) \/ pos < Slack)
    BY <1>1, <1>3, FullWrite
  <2>2. /\ delivered' \in Seq(Byte) /\ Len(delivered') <= partial_pos_out'
        /\ partial_pos_out' <= declared /\ available_out' \in Nat
    BY <1>1, WriteToCallerFacts
  <2>3. /\ pos' \in Nat /\ rb_roundtrips' \in Nat /\ partial_pos_out' \in Nat
        /\ Base' + pos' = Base + pos /\ Base' <= partial_pos_out'
        /\ partial_pos_out' <= Base' + pos'
        /\ partial_pos_out' <= Base' + ringbuffer_size
        /\ IF WriteWraps(available_out) THEN pos' = pos - ringbuffer_size
           ELSE pos' = pos
    <3>1. Types /\ Cursors /\ WriteRingBuffer(available_out)
      BY <1>1 DEF Inv, WriteToCaller
    <3> QED BY <1>1, <2>1, <3>1, WriteCursors
  <2>4. pos' = 0 /\ 0 < ringbuffer_size /\ ringbuffer_size \in Nat
    BY <1>1, <2>1, <2>3, SizeFacts DEF FullRing, WriteWraps
  <2>5. should_wrap_ringbuffer' = FALSE
    <3>1. WriteWraps(available_out) => pos = ringbuffer_size
      BY <1>1, <2>4 DEF WriteWraps
    <3>2. should_wrap_ringbuffer' =
            IF WriteWraps(available_out) THEN pos # ringbuffer_size
            ELSE should_wrap_ringbuffer
      BY DEF WriteUncompressed, MustWrap
    <3> QED BY <1>1, <3>1, <3>2
  <2>6. /\ substate_uncompressed' = "NONE" /\ max_distance' \in Nat
        /\ result' = "SUCCESS" /\ call' = "running"
    BY <1>1, <1>3, SizeFacts DEF WriteUncompressed, Inv, Types
  <2>7. ~Brim' /\ Allocated' /\ FullRing'
    BY <1>1, <2>1, <2>6 DEF Brim, WriteStates, Allocated, FullRing
  <2>8. Types'
    BY <1>1, <2>2, <2>3, <2>5, <2>6, <2>7
    DEF Inv, Types, Results, Allocated, Cells
  <2>9. Control'
    BY <1>1, <2>6, <2>7 DEF Inv, Control, PendingStates
  <2>10. Cursors'
    BY <1>1, <2>2, <2>3, <2>4, <2>5, <2>7 DEF Inv, Cursors
  <2>11. Account'
    BY <1>1, <2>2, <2>7 DEF Inv, Account, Pending
  <2> QED BY <2>8, <2>9, <2>10, <2>11 DEF Inv
<1> QED BY <1>2, <1>3

\* Outside the write states the ring is not full, and no write wraps it.
LEMMA FlushForInputStep ==
  ASSUME Inv, FlushForInput
  PROVE  Inv'
<1>1. /\ call = "running" /\ result = "NEEDS_MORE_INPUT"
      /\ state \in ReadStates \/ (state = "UNCOMPRESSED" /\ ~Brim)
      /\ UNCHANGED <<ring, ringbuffer_size, streamVars>>
      /\ result' \in {"ERROR", "SUCCESS", "NEEDS_MORE_INPUT"}
      /\ call' \in {"idle", "running"}
      /\ ~(call' = "idle" /\ result' = "SUCCESS")
      /\ available_out \in Nat
  BY DEF FlushForInput, Inv, Control, Types
<1>2. ~Brim
  BY <1>1 DEF Brim, ReadStates, WriteStates, Inv, Control
<1>3. CASE Allocated
  <2>1. ~WriteWraps(available_out)
    BY <1>2, <1>3, SizeFacts DEF WriteWraps, Inv, Types, Cursors, RingSizes
  <2>2. WriteToCaller /\ should_wrap_ringbuffer' = should_wrap_ringbuffer
    BY <1>3, <2>1 DEF FlushForInput, MustWrap
  <2>3. result' \in Results
    BY <1>1 DEF Results
  <2> QED BY <1>1, <1>3, <2>1, <2>2, <2>3, PlainWriteStep
<1>4. CASE ~Allocated
  <2>1. UNCHANGED <<ringVars, streamVars, delivered>> /\ available_out' \in Nat
    BY <1>1, <1>4 DEF FlushForInput, ringVars
  <2>2. result' \in Results
    BY <1>1 DEF Results
  <2> QED BY <1>1, <2>1, <2>2, OutcomeStep
<1> QED BY <1>3, <1>4

\* A call that ends in DONE with SUCCESS has delivered every decoded byte.
LEMMA FinishStreamStep ==
  ASSUME Inv, FinishStream
  PROVE  Inv'
<1>1. /\ state = "DONE" /\ ~Brim /\ call' = "idle"
      /\ UNCHANGED <<ring, ringbuffer_size, streamVars>>
      /\ available_out \in Nat
  BY DEF FinishStream, Inv, Control, Types, Brim, WriteStates
<1>2. CASE Allocated
  <2>1. ~WriteWraps(available_out)
    BY <1>1, <1>2, SizeFacts DEF WriteWraps, Inv, Types, Cursors, RingSizes
  <2>2. WriteToCaller /\ should_wrap_ringbuffer' = should_wrap_ringbuffer
    BY <1>2, <2>1 DEF FinishStream, MustWrap
  <2>3. result' \in Results /\ result' # "NEEDS_MORE_INPUT"
    BY <1>2 DEF FinishStream, WriteStatus, Results
  <2>4. result' = "SUCCESS" => partial_pos_out' = decoded
    <3> SUFFICES ASSUME result' = "SUCCESS" PROVE partial_pos_out' = decoded
      OBVIOUS
    <3>1. ~(mlen < 0) /\ ~(NumWritten(available_out) < ToWrite)
      BY <1>2 DEF FinishStream, WriteStatus
    <3>2. Types /\ Cursors /\ WriteRingBuffer(available_out)
      BY <2>2 DEF Inv, WriteToCaller
    <3>3. /\ ToWrite \in Nat
          /\ ToWrite = (IF pos > ringbuffer_size THEN Base + ringbuffer_size
                        ELSE Base + pos) - partial_pos_out
          /\ Base \in Nat /\ ringbuffer_size \in Nat
      BY <1>1, <1>2, <3>2, UnwrittenFacts
    <3>4. partial_pos_out' = partial_pos_out + NumWritten(available_out)
      BY <3>1, <3>2 DEF WriteRingBuffer
    <3>5. pos < ringbuffer_size /\ decoded = Base + pos /\ pos \in Nat
          /\ partial_pos_out \in Nat
      BY <1>1, <1>2, <3>2 DEF Cursors, Types
    <3> QED BY <1>1, <3>1, <3>3, <3>4, <3>5 DEF NumWritten
  <2> QED BY <1>1, <1>2, <2>1, <2>2, <2>3, <2>4, PlainWriteStep
<1>3. CASE ~Allocated
  <2>1. /\ UNCHANGED <<ringVars, streamVars, delivered, available_out>>
        /\ result' = "SUCCESS"
    BY <1>1, <1>3 DEF FinishStream, ringVars
  <2>2. partial_pos_out = decoded
    BY <1>3 DEF Inv, Types, Control, Cursors, Allocated, Base
  <2> USE DEF ringVars, streamVars
  <2>3. Types'
    BY <1>1, <2>1 DEF Inv, Types, Allocated, Cells, Results
  <2>4. Control'
    BY <1>1, <2>1, <2>2 DEF Inv, Control, Allocated, PendingStates, Brim
  <2>5. Cursors'
    BY <2>1 DEF Inv, Cursors, Allocated, FullRing, Brim, Base
  <2>6. Account'
    BY <2>1 DEF Inv, Account, Allocated, FullRing, Pending
  <2> QED BY <2>3, <2>4, <2>5, <2>6 DEF Inv
<1> QED BY <1>2, <1>3

\* BrotliDecoderTakeOutput: in a write state it may wrap the ring, and leave
\* the slack to be moved; elsewhere it only writes.
LEMMA TakeOutputStep ==
  ASSUME Inv, NEW size \in TakeSizes, TakeOutput(size)
  PROVE  Inv'
<1> DEFINE avail == IF size # 0 THEN size ELSE TakeAll
           content == IF should_wrap_ringbuffer THEN Wrapped(ring, pos)
                                                ELSE ring
<1>1. /\ call = "idle" /\ Allocated /\ ring' = content
      /\ WriteRingBuffer(avail)
      /\ should_wrap_ringbuffer' = (WriteWraps(avail) /\ pos # ringbuffer_size)
      /\ \/ delivered' = delivered \o Written(content, avail)
         \/ delivered' = delivered \o <<>>
      /\ UNCHANGED <<ringbuffer_size, streamVars, call, available_out, result>>
  BY DEF TakeOutput, MustWrap
<1>2. avail \in Nat
  BY RingConstants DEF TakeAll
<1>3. Types /\ Cursors /\ pos \in Nat /\ mlen \in Int
  BY DEF Inv, Types
<1>4. content \in [Cells(ringbuffer_size) -> Byte]
  <2>1. CASE should_wrap_ringbuffer
    <3>1. pos <= Slack
      BY <1>3, <2>1, SizeFacts DEF Cursors
    <3>2. Wrapped(ring, pos) \in [Cells(ringbuffer_size) -> Byte]
      BY <1>1, <1>3, <3>1, WrappedType
    <3> QED BY <2>1, <3>2
  <2>2. CASE ~should_wrap_ringbuffer
    BY <1>1, <1>3, <2>2 DEF Types
  <2> QED BY <2>1, <2>2
<1> HIDE DEF avail, content
<1>5. /\ NumWritten(avail) \in Nat
      /\ Written(content, avail) \in Seq(Byte)
      /\ Len(Written(content, avail)) =
           IF mlen < 0 THEN 0 ELSE NumWritten(avail)
  BY <1>1, <1>2, <1>3, <1>4, WrittenFacts
<1>6. /\ pos' \in Nat /\ rb_roundtrips' \in Nat /\ partial_pos_out' \in Nat
      /\ Base' \in Nat
      /\ partial_pos_out' = partial_pos_out
           + (IF mlen < 0 THEN 0 ELSE NumWritten(avail))
      /\ Base' + pos' = Base + pos
      /\ Base' <= partial_pos_out'
      /\ partial_pos_out' <= Base' + pos'
      /\ partial_pos_out' <= Base' + ringbuffer_size
      /\ IF WriteWraps(avail) THEN pos' = pos - ringbuffer_size
         ELSE pos' = pos /\ rb_roundtrips' = rb_roundtrips
  BY <1>1, <1>2, <1>3, WriteCursors
<1>7. /\ delivered' \in Seq(Byte)
      /\ Len(delivered') <= partial_pos_out'
  <2>1. delivered \in Seq(Byte) /\ partial_pos_out \in Nat
        /\ Len(delivered) <= partial_pos_out /\ Len(delivered) \in Nat
    BY <1>3, LenProperties DEF Types, Cursors
  <2>2. CASE delivered' = delivered \o Written(content, avail)
    <3>1. delivered' \in Seq(Byte)
          /\ Len(delivered') = Len(delivered) + Len(Written(content, avail))
      BY <1>5, <2>1, <2>2, ConcatProperties
    <3>2. PICK n \in Nat : /\ Len(delivered') = Len(delivered) + n
                           /\ partial_pos_out' = partial_pos_out + n
      BY <1>5, <1>6, <3>1
    <3>3. Len(delivered') <= partial_pos_out'
      BY <2>1, <3>2
    <3> QED BY <3>1, <3>3
  <2>3. CASE delivered' = delivered \o <<>>
    <3>1. delivered' \in Seq(Byte) /\ Len(delivered') = Len(delivered)
      BY <2>1, <2>3, EmptySeq, ConcatProperties
    <3> QED BY <1>5, <1>6, <2>1, <3>1
  <2> QED BY <1>1, <2>2, <2>3
<1>8. partial_pos_out' <= declared
  <2>1. /\ declared = decoded + Pending + mlen /\ Pending \in Nat
        /\ decoded = Base + pos /\ decoded \in Nat
        /\ partial_pos_out <= declared /\ partial_pos_out \in Nat
    BY DEF Inv, Types, Control, Cursors, Account, Pending, PendingStates
  <2>2. CASE mlen < 0
    BY <1>6, <2>1, <2>2
  <2>3. CASE ~(mlen < 0)
    BY <1>3, <1>6, <2>1, <2>3
  <2> QED BY <2>2, <2>3
<1>9. Types'
  BY <1>1, <1>4, <1>6, <1>7 DEF streamVars, Types, Inv, Allocated, Cells
<1>10. WriteWraps(avail) =>
         /\ FullRing /\ Brim /\ pos' < Slack
         /\ pos = ringbuffer_size => pos' = 0
         /\ state # "COMMAND_POST_WRITE_1" => pos = ringbuffer_size
  <2> SUFFICES ASSUME WriteWraps(avail)
               PROVE  /\ FullRing /\ Brim /\ pos' < Slack
                      /\ pos = ringbuffer_size => pos' = 0
                      /\ state # "COMMAND_POST_WRITE_1" =>
                           pos = ringbuffer_size
    OBVIOUS
  <2>1. FullRing /\ pos >= ringbuffer_size /\ ringbuffer_size \in Nat \ {0}
        /\ pos' = pos - ringbuffer_size
    BY <1>6, SizeFacts DEF WriteWraps, FullRing
  <2>2. Brim
    BY <1>1, <1>3, <2>1 DEF Cursors
  <2>3. pos < ringbuffer_size + Slack
    BY <1>3, <2>1, <2>2, SizeFacts DEF Cursors, FullRing
  <2> QED BY <1>3, <2>1, <2>2, <2>3, SizeFacts DEF Cursors
<1> USE DEF streamVars
<1>11. Control'
  <2>1. (call = "idle" /\ result = "SUCCESS") =>
          state = "DONE" /\ partial_pos_out' = decoded
    <3> SUFFICES ASSUME call = "idle", result = "SUCCESS"
                 PROVE  state = "DONE" /\ partial_pos_out' = decoded
      OBVIOUS
    <3>1. state = "DONE" /\ partial_pos_out = decoded /\ decoded = Base + pos
          /\ decoded \in Nat
      BY <1>3 DEF Inv, Control, Cursors, Types
    <3> QED BY <1>5, <1>6, <3>1
  <2> QED BY <1>1, <2>1 DEF Inv, Control, Allocated, PendingStates, Brim
<1>12. Cursors'
  <2>1. Brim' = Brim /\ FullRing' = FullRing /\ Allocated' /\ decoded' = decoded
    BY <1>1 DEF Brim, FullRing, Allocated
  <2>2. CASE WriteWraps(avail)
    BY <1>1, <1>3, <1>6, <1>7, <1>10, <2>1, <2>2 DEF Cursors
  <2>3. CASE ~WriteWraps(avail)
    BY <1>1, <1>3, <1>6, <1>7, <2>1, <2>3 DEF Cursors
  <2> QED BY <2>2, <2>3
<1>13. Account'
  <2>1. ~FullRing => rb_roundtrips' = rb_roundtrips
    BY <1>6 DEF WriteWraps
  <2> QED BY <1>1, <1>8, <2>1 DEF Inv, Account, Allocated, FullRing, Pending
<1> QED BY <1>9, <1>11, <1>12, <1>13 DEF Inv

-----------------------------------------------------------------------------
(* The invariant                                                           *)

\* The decoder before its first call satisfies the invariant.
LEMMA InitInv == Init => Inv
<1> SUFFICES ASSUME Init PROVE Inv
  OBVIOUS
<1> USE DEF Init
<1>1. Types
  <2>1. delivered \in Seq(Byte)
    BY EmptySeq
  <2>2. ~Allocated /\ state \in States /\ result \in Results
    BY DEF Allocated, States, ReadStates, Results
  <2>3. ringbuffer_size \in {0} \cup RingSizes
    OBVIOUS
  <2>4. /\ pos \in Nat /\ rb_roundtrips \in Nat /\ partial_pos_out \in Nat
        /\ mlen \in Int /\ i \in Int
    OBVIOUS
  <2> QED BY <2>1, <2>2, <2>3, <2>4 DEF Types
<1>2. Control
  BY DEF Control, Allocated, PendingStates, ReadStates
<1>3. Cursors
  BY DEF Cursors, Allocated, Brim, WriteStates, Base
<1>4. Account
  BY DEF Account, Allocated, Pending, PendingStates
<1> QED BY <1>1, <1>2, <1>3, <1>4 DEF Inv

\* Every step preserves the invariant.
LEMMA NextInv ==
  ASSUME Inv, [Next]_vars
  PROVE  Inv'
<1>1. CASE UNCHANGED vars
  BY <1>1, StutterStep
<1>2. CASE Decode
  <2>1. ASSUME NEW last \in BOOLEAN, NEW uncompressed \in BOOLEAN,
               NEW peeked \in BOOLEAN, NEW len \in BlockLengths \cup {0},
               ReadMetablockHeader(last, uncompressed, len, peeked)
        PROVE  Inv'
    BY <2>1, HeaderStep
  <2>2. ASSUME NEW insert \in InsertLengths, ReadCommand(insert)
        PROVE  Inv'
    BY <2>2, ReadCommandStep
  <2>3. CASE DecodeLiteral
    BY <2>3, DecodeLiteralStep
  <2>4. ASSUME NEW d \in 1..MaxBackwardDistance, NEW n \in CopyLengths,
               CopyFromWindow(d, n)
        PROVE  Inv'
    BY <2>4, CopyFromWindowStep
  <2>5. ASSUME NEW n \in WordLengths, CopyDictionaryWord(n)
        PROVE  Inv'
    BY <2>5, CopyDictionaryWordStep
  <2>6. ASSUME NEW n \in 1..WindowSize, CopyUncompressedBytes(n)
        PROVE  Inv'
    <3>1. n \in Nat
      BY SizeFacts
    <3> QED BY <2>6, <3>1, CopyUncompressedBytesStep
  <2> QED BY <1>2, <2>1, <2>2, <2>3, <2>4, <2>5, <2>6 DEF Decode
<1>3. CASE CopyUncompressedBytes(0)
  <2>1. 0 \in Nat
    OBVIOUS
  <2> QED BY <1>3, <2>1, CopyUncompressedBytesStep
<1>4. CASE WrapCopyByte
  BY <1>4, WrapCopyByteStep
<1>5. CASE WrapCopyDone
  BY <1>5, WrapCopyDoneStep
<1>6. CASE WriteAndWrap
  BY <1>6, WriteAndWrapStep
<1>7. CASE WriteUncompressed
  BY <1>7, WriteUncompressedStep
<1>8. CASE FinishMetablock
  BY <1>8, FinishMetablockStep
<1>9. CASE FinishStream
  BY <1>9, FinishStreamStep
<1>10. CASE FlushForInput
  BY <1>10, FlushForInputStep
<1>11. CASE RunOutOfInput
  BY <1>11, RunOutOfInputStep
<1>12. CASE FormatError
  BY <1>12, FormatErrorStep
<1>13. ASSUME NEW room \in StreamRoom, StreamCall(room)
       PROVE  Inv'
  BY <1>13, StreamCallStep
<1>14. CASE StreamCallAfterError
  BY <1>14, StutterStep DEF StreamCallAfterError
<1>15. ASSUME NEW size \in TakeSizes, TakeOutput(size)
       PROVE  Inv'
  BY <1>15, TakeOutputStep
<1> QED BY <1>1, <1>2, <1>3, <1>4, <1>5, <1>6, <1>7, <1>8, <1>9, <1>10, <1>11,
           <1>12, <1>13, <1>14, <1>15 DEF Next, Internal

\* Every step of the specification preserves the invariant.
LEMMA Invariance == Spec => []Inv
<1>1. Init => Inv
  BY InitInv
<1>2. Inv /\ [Next]_vars => Inv'
  BY NextInv
<1> QED BY <1>1, <1>2, PTL DEF Spec

-----------------------------------------------------------------------------
(* Theorems                                                                *)

\* The state of the output side keeps its types: no stream, no cut of the
\* output into calls makes a position negative, a cell hold anything but a
\* byte or a state be reached that the code does not name.
THEOREM TypeCorrect == Spec => []TypeOK
<1>1. Inv => TypeOK
  BY DEF Inv, Types, TypeOK, Byte
<1> QED BY <1>1, Invariance, PTL

\* A state that decodes has room for a byte in the ring and for an over-copy
\* or a dictionary word behind it, what a write hands out lies inside the
\* ring, and the unsigned subtraction of UnwrittenBytes never wraps around.
THEOREM PositionsStayInRange == Spec => []PositionsInRange
<1>1. Inv => PositionsInRange
  <2> SUFFICES ASSUME Inv, Allocated
               PROVE  /\ ~Brim => pos < ringbuffer_size
                      /\ pos <= ringbuffer_size + Slack
                      /\ ToWrite >= 0
                      /\ Masked(partial_pos_out) + ToWrite <= ringbuffer_size
    BY DEF PositionsInRange, Brim, Inv, Types
  <2>1. ToWrite \in Nat /\ Masked(partial_pos_out) + ToWrite <= ringbuffer_size
    <3>1. Types /\ Cursors
      BY DEF Inv
    <3> QED BY <3>1, UnwrittenFacts
  <2>2. ringbuffer_size \in Nat /\ pos \in Nat
    BY SizeFacts DEF Inv, Types, RingSizes
  <2> QED BY <2>1, <2>2, SizeFacts DEF Inv, Cursors
<1> QED BY <1>1, Invariance, PTL

-----------------------------------------------------------------------------
(***************************************************************************)
(* What the cells of the ring hold, for every window, ring and dictionary: *)
(* the bytes still to be delivered are in their cells, every distance the  *)
(* decoder accepts reaches the byte it names, and what stream calls hand   *)
(* out is the decoded stream in order.                                     *)
(*                                                                         *)
(* The inductive invariant adds two parts to the one above.                *)
(* Content: the last MaxBackwardDistance bytes, and all bytes of the       *)
(* current round, are in their cells.  It holds because every write beside *)
(* those bytes stays within Gap cells behind `pos`, and the window is the  *)
(* ring less Gap (a halved ring: the dictionary and all declared bytes fit *)
(* into the ring less Gap).  Distances: an accepted distance does not      *)
(* reach behind the first byte, dictionary included.                       *)
(***************************************************************************)

\* Byte number v is in cell v - WindowBase, or a ring size further on.
WindowBase ==
  IF should_wrap_ringbuffer THEN Base - ringbuffer_size ELSE Base

\* Content r of a ring of this size holds the window of a decoder with n
\* bytes decoded, byte number base in its first cell.
Holds(r, size, base, n) ==
  \A v \in (0 - ClippedDict)..(n - 1) :
    v >= base \/ v >= n - MaxBackwardDistance =>
      r[IF v >= base THEN v - base ELSE (v - base) + size] = v

\* (A command that overshoots its block is past that: it fails.)
Content ==
  Allocated /\ mlen >= 0 =>
    Holds(ring, ringbuffer_size, WindowBase, decoded)

CopyingStates == {"COMMAND_POST_WRAP_COPY", "COMMAND_POST_WRITE_2"}

\* A distance the decoder accepts: no further back than the window is long,
\* nor than the stream and the dictionary reach.
Reachable(d) ==
  d \in 1..MaxBackwardDistance /\ d <= decoded + ClippedDict

Distances ==
  /\ max_distance = MaxBackwardDistance =>
       decoded + ClippedDict >= MaxBackwardDistance
  /\ state \in CopyingStates => Reachable(distance_code)
  /\ Brim => decoded >= ringbuffer_size
  /\ TakeSizes = {} => ~should_wrap_ringbuffer

ContentInv == Inv /\ Content /\ Distances

-----------------------------------------------------------------------------
(* Arithmetic of the window                                                *)

\* What the invariant says of the sizes and of `pos` once a ring exists.
LEMMA RingFacts ==
  ASSUME Inv, Allocated
  PROVE  /\ ringbuffer_size \in Nat \ {0} /\ Base \in Nat /\ pos \in Nat
         /\ decoded \in Nat /\ decoded = Base + pos /\ mlen \in Int
         /\ ring \in [Cells(ringbuffer_size) -> Byte]
         /\ ~Brim => pos < ringbuffer_size /\ ~should_wrap_ringbuffer
         /\ ~Brim => WindowBase = Base
         /\ WindowBase \in Int
         /\ ~FullRing =>
              /\ Base = 0
              /\ mlen >= 0 =>
                   decoded + ClippedDict + Gap + Pending + mlen <= ringbuffer_size
         /\ Pending \in Nat
<1>1. /\ ringbuffer_size \in Nat \ {0} /\ Base \in Nat /\ pos \in Nat
      /\ decoded \in Nat /\ decoded = Base + pos /\ mlen \in Int
      /\ ring \in [Cells(ringbuffer_size) -> Byte]
  BY UnwrittenFacts DEF Inv, Types, Cursors
<1>2. ~Brim => pos < ringbuffer_size /\ ~should_wrap_ringbuffer
  BY DEF Inv, Cursors, Brim, WriteStates
<1>3. ~Brim => WindowBase = Base
  BY <1>2 DEF WindowBase
<1>4. WindowBase \in Int
  BY <1>1 DEF WindowBase
<1>5. Pending \in Nat
  BY DEF Inv, Types, Control, Pending, PendingStates
<1>6. ~FullRing => Base = 0
  BY <1>1 DEF Inv, Account, Base
<1>7. ~FullRing /\ mlen >= 0 =>
        decoded + ClippedDict + Gap + Pending + mlen <= ringbuffer_size
  <2> SUFFICES ASSUME ~FullRing, mlen >= 0
               PROVE decoded + ClippedDict + Gap + Pending + mlen
                       <= ringbuffer_size
    OBVIOUS
  <2>1. declared = decoded + Pending + mlen
        /\ declared + ClippedDict + Gap <= ringbuffer_size
    BY DEF Inv, Account
  <2> QED BY <1>1, <1>5, <2>1, SizeFacts
<1> QED BY <1>1, <1>2, <1>3, <1>4, <1>5, <1>6, <1>7

\* The window is the ring less its gap.
LEMMA WindowFacts ==
  /\ MaxBackwardDistance = WindowSize - Gap
  /\ MaxBackwardDistance \in Nat \ {0}
  /\ ClippedDict \in Nat /\ ClippedDict <= MaxBackwardDistance
  /\ DictSize > MaxBackwardDistance => ClippedDict = MaxBackwardDistance
  /\ DictSize <= MaxBackwardDistance => ClippedDict = DictSize
  /\ MaxDistanceFromDict = MaxBackwardDistance - DictSize
BY SizeFacts DEF MaxBackwardDistance, MaxDistanceFromDict, ClippedDict

\* Masking a position just before the ring lands at its end.
LEMMA NegativeModulo ==
  ASSUME NEW s \in Nat, NEW x \in Int, x < 0, x + s >= 0
  PROVE  x % s = x + s
OBVIOUS

\* A position inside the ring is its own cell.
LEMMA SmallModulo ==
  ASSUME NEW s \in Nat, NEW x \in Nat, x < s
  PROVE  x % s = x
OBVIOUS

\* Every distance the code lets pass lies in the window and reaches no byte
\* before the dictionary.
LEMMA DistanceFacts ==
  ASSUME Inv, Distances, NEW d \in 1..MaxDistanceNow
  PROVE  Reachable(d)
<1>1. /\ pos \in Nat /\ decoded \in Nat /\ max_distance \in Nat
      /\ MaxDistanceNow \in Nat /\ d \in Nat /\ 1 <= d /\ d <= MaxDistanceNow
      /\ pos <= decoded
  <2>1. MaxDistanceNow \in Nat
    BY MaxDistanceNowType
  <2>2. /\ pos \in Nat /\ decoded \in Nat /\ max_distance \in Nat
        /\ rb_roundtrips \in Nat /\ ringbuffer_size \in Nat
        /\ decoded = Base + pos
    BY SizeFacts DEF Inv, Types, Cursors, RingSizes
  <2>3. Base \in Nat
    BY <2>2, NextRound DEF Base
  <2> QED BY <2>1, <2>2, <2>3
<1>2. CASE max_distance = MaxBackwardDistance
  BY <1>1, <1>2, WindowFacts DEF Distances, MaxDistanceNow, Reachable
<1>3. CASE max_distance # MaxBackwardDistance /\ pos < MaxDistanceFromDict
  <2>1. MaxDistanceNow = pos + ClippedDict
    BY <1>3 DEF MaxDistanceNow
  <2>2. DictSize \in Nat /\ pos + DictSize < MaxBackwardDistance
    BY <1>1, <1>3, WindowFacts, SizeFacts
  <2> QED BY <1>1, <2>1, <2>2, WindowFacts DEF Reachable
<1>4. CASE max_distance # MaxBackwardDistance /\ ~(pos < MaxDistanceFromDict)
  <2>1. MaxDistanceNow = MaxBackwardDistance
    BY <1>4 DEF MaxDistanceNow
  <2>2. pos + ClippedDict >= MaxBackwardDistance
    BY <1>1, <1>4, WindowFacts, SizeFacts
  <2> QED BY <1>1, <2>1, <2>2, WindowFacts DEF Reachable
<1> QED BY <1>2, <1>3, <1>4

\* A reachable distance names the byte that many before the next one.
LEMMA ReadsByte ==
  ASSUME ContentInv, Allocated, ~Brim, mlen >= 0, NEW d, Reachable(d)
  PROVE  /\ Masked(pos - d) =
              IF d <= pos THEN pos - d ELSE (pos - d) + ringbuffer_size
         /\ Masked(pos - d) \in 0..(ringbuffer_size - 1)
         /\ ring[Masked(pos - d)] = decoded - d
<1> DEFINE v == decoded - d
<1>1. /\ ringbuffer_size \in Nat \ {0} /\ Base \in Nat /\ pos \in Nat
      /\ decoded \in Nat /\ decoded = Base + pos /\ pos < ringbuffer_size
      /\ WindowBase = Base
      /\ ~FullRing => /\ Base = 0
                      /\ decoded + ClippedDict + Gap + Pending + mlen
                           <= ringbuffer_size
      /\ Pending \in Nat /\ mlen \in Int
  BY RingFacts DEF ContentInv
<1>2. d \in Nat /\ 1 <= d /\ d <= MaxBackwardDistance
      /\ d <= decoded + ClippedDict
  BY WindowFacts DEF Reachable
<1>3. d > pos => (pos - d) + ringbuffer_size >= 0
  <2>1. CASE FullRing
    BY <1>1, <1>2, <2>1, WindowFacts, SizeFacts DEF FullRing
  <2>2. CASE ~FullRing
    BY <1>1, <1>2, <2>2, WindowFacts, SizeFacts
  <2> QED BY <2>1, <2>2
<1>4. Masked(pos - d) =
        IF d <= pos THEN pos - d ELSE (pos - d) + ringbuffer_size
  <2>1. CASE d <= pos
    <3>1. pos - d \in Nat /\ pos - d < ringbuffer_size
      BY <1>1, <1>2, <2>1
    <3>2. (pos - d) % ringbuffer_size = pos - d
      BY <1>1, <3>1, SmallModulo
    <3> QED BY <2>1, <3>2 DEF Masked
  <2>2. CASE ~(d <= pos)
    <3>1. /\ pos - d \in Int /\ pos - d < 0 /\ (pos - d) + ringbuffer_size >= 0
          /\ ringbuffer_size \in Nat
      BY <1>1, <1>2, <1>3, <2>2
    <3>2. (pos - d) % ringbuffer_size = (pos - d) + ringbuffer_size
      BY <3>1, NegativeModulo
    <3> QED BY <2>2, <3>2 DEF Masked
  <2> QED BY <2>1, <2>2
<1>5. /\ v \in (0 - ClippedDict)..(decoded - 1)
      /\ v >= decoded - MaxBackwardDistance
      /\ v >= Base <=> d <= pos
      /\ v - Base = pos - d
  BY <1>1, <1>2, WindowFacts
<1>6. ring[IF v >= Base THEN v - Base ELSE (v - Base) + ringbuffer_size] = v
  <2>1. Holds(ring, ringbuffer_size, Base, decoded)
    BY <1>1 DEF ContentInv, Content
  <2> HIDE DEF v
  <2> QED BY <1>5, <2>1 DEF Holds
<1>7. Masked(pos - d) \in 0..(ringbuffer_size - 1)
  BY <1>1, <1>2, <1>3, <1>4
<1> QED BY <1>4, <1>5, <1>6, <1>7

-----------------------------------------------------------------------------
(* Decoding into the ring                                                  *)

\* r is the ring after n more bytes: they are in their cells, and only the
\* Gap cells behind them may hold anything else than before.
Extends(r, n) ==
  /\ \A j \in 0..(n - 1) : r[pos + j] = decoded + j
  /\ \A k \in Cells(ringbuffer_size) :
       k < pos \/ k >= pos + n + Gap => r[k] = ring[k]

\* n more bytes in the ring, and the window has moved on by n bytes: what the
\* Gap cells behind `pos` held has left it.
LEMMA ExtendedWindow ==
  ASSUME Inv, Content, Allocated, ~Brim, mlen >= 0, NEW n \in Nat, NEW r,
         Extends(r, n), n <= Pending + mlen
  PROVE  Holds(r, ringbuffer_size, Base, decoded + n)
<1> SUFFICES ASSUME NEW v \in (0 - ClippedDict)..((decoded + n) - 1),
                    v >= Base \/ v >= (decoded + n) - MaxBackwardDistance
             PROVE  r[IF v >= Base THEN v - Base
                      ELSE (v - Base) + ringbuffer_size] = v
  BY DEF Holds
<1>1. /\ ringbuffer_size \in Nat \ {0} /\ Base \in Nat /\ pos \in Nat
      /\ decoded \in Nat /\ decoded = Base + pos /\ pos < ringbuffer_size
      /\ WindowBase = Base /\ Pending \in Nat /\ mlen \in Int
      /\ ~FullRing => /\ Base = 0
                      /\ decoded + ClippedDict + Gap + Pending + mlen
                           <= ringbuffer_size
  BY RingFacts
<1>2. v \in Int /\ v >= 0 - ClippedDict /\ v < decoded + n
  BY <1>1, SizeFacts
<1>3. Holds(ring, ringbuffer_size, Base, decoded)
  BY <1>1 DEF Content
<1>4. CASE v >= decoded
  <2>1. v - decoded \in 0..(n - 1) /\ v - Base = pos + (v - decoded)
        /\ v >= Base
    BY <1>1, <1>2, <1>4
  <2>2. r[pos + (v - decoded)] = decoded + (v - decoded)
    BY <2>1 DEF Extends
  <2> QED BY <1>1, <1>2, <2>1, <2>2
<1>5. CASE v < decoded /\ v >= Base
  <2>1. v - Base \in Cells(ringbuffer_size) /\ v - Base < pos
    BY <1>1, <1>2, <1>5, SizeFacts DEF Cells
  <2>2. v \in (0 - ClippedDict)..(decoded - 1)
    BY <1>1, <1>2, <1>5, SizeFacts
  <2>3. ring[v - Base] = v
    BY <1>3, <1>5, <2>2 DEF Holds
  <2>4. r[v - Base] = ring[v - Base]
    BY <2>1 DEF Extends
  <2> QED BY <1>5, <2>3, <2>4
<1>6. CASE v < Base
  <2> DEFINE c == (v - Base) + ringbuffer_size
  <2>1. v >= (decoded + n) - MaxBackwardDistance
    BY <1>2, <1>6, <1>1
  <2>2. v \in (0 - ClippedDict)..(decoded - 1) /\ ~(v >= Base)
        /\ v >= decoded - MaxBackwardDistance
    BY <1>1, <1>2, <1>6, <2>1, WindowFacts
  <2>3. ring[c] = v
    BY <1>3, <2>2 DEF Holds
  <2>4. c >= pos + n + Gap
    <3>1. CASE FullRing
      BY <1>1, <1>2, <2>1, <3>1, WindowFacts, SizeFacts DEF FullRing
    <3>2. CASE ~FullRing
      BY <1>1, <1>2, <3>2, WindowFacts, SizeFacts
    <3> QED BY <3>1, <3>2
  <2>5. c \in Cells(ringbuffer_size)
    BY <1>1, <1>2, <1>6, <2>4, SizeFacts DEF Cells
  <2> HIDE DEF c
  <2>6. r[c] = ring[c]
    BY <2>4, <2>5 DEF Extends
  <2> QED BY <2>2, <2>3, <2>6 DEF c
<1> QED BY <1>1, <1>2, <1>4, <1>5, <1>6

\* A step that stores n more bytes keeps the window intact.
LEMMA ExtendedContent ==
  ASSUME Inv, Content, Allocated, ~Brim, NEW n \in Nat, Extends(ring', n),
         decoded' = decoded + n,
         mlen' >= 0 => mlen >= 0 /\ n <= Pending + mlen,
         UNCHANGED <<ringbuffer_size, rb_roundtrips, should_wrap_ringbuffer>>
  PROVE  Content'
<1> SUFFICES ASSUME mlen' >= 0
             PROVE  Holds(ring', ringbuffer_size', WindowBase', decoded')
  BY DEF Content
<1>1. n <= Pending + mlen /\ mlen >= 0
  OBVIOUS
<1>2. Holds(ring', ringbuffer_size, Base, decoded + n)
  BY <1>1, ExtendedWindow
<1>3. WindowBase' = Base
  BY RingFacts DEF WindowBase, Base
<1> QED BY <1>2, <1>3

\* Storing the next n bytes at `pos` extends the window by them.
LEMMA StoredExtends ==
  ASSUME Inv, Allocated, NEW n \in Nat, pos + n <= ringbuffer_size + Slack
  PROVE  Extends(Stored(ring, pos, n), n)
<1>1. /\ DOMAIN ring = Cells(ringbuffer_size)
      /\ pos \in Nat /\ decoded \in Nat /\ ringbuffer_size \in Nat
  BY RingFacts
<1>2. ASSUME NEW j \in 0..(n - 1)
      PROVE  Stored(ring, pos, n)[pos + j] = decoded + j
  BY <1>1, SizeFacts DEF Stored, Cells
<1>3. ASSUME NEW k \in Cells(ringbuffer_size), k < pos \/ k >= pos + n + Gap
      PROVE  Stored(ring, pos, n)[k] = ring[k]
  BY <1>1, <1>3, SizeFacts DEF Stored, Cells
<1> QED BY <1>2, <1>3 DEF Extends

\* A literal, a dictionary word and raw bytes extend the window.
LEMMA StoreContent ==
  ASSUME ContentInv,
         \/ DecodeLiteral
         \/ \E n \in WordLengths : CopyDictionaryWord(n)
         \/ \E n \in Nat : CopyUncompressedBytes(n)
  PROVE  Content'
<1>1. Inv /\ Content
  BY DEF ContentInv
<1>2. CASE DecodeLiteral
  <2>1. /\ Allocated /\ ~Brim /\ Pending = i /\ i >= 1 /\ i \in Int
    BY <1>1, <1>2 DEF DecodeLiteral, Inv, Types, Control, Brim, WriteStates,
                      Pending, PendingStates
  <2>2. pos + 1 <= ringbuffer_size + Slack
    BY <1>1, <2>1, RingFacts, SizeFacts
  <2>3. Extends(ring', 1)
    BY <1>1, <1>2, <2>1, <2>2, StoredExtends DEF DecodeLiteral
  <2>4. mlen' = mlen /\ mlen \in Int
    BY <1>1, <1>2, <2>1, RingFacts DEF DecodeLiteral
  <2> QED BY <1>1, <1>2, <2>1, <2>3, <2>4, ExtendedContent DEF DecodeLiteral
<1>3. ASSUME NEW n \in WordLengths, CopyDictionaryWord(n)
      PROVE  Content'
  <2>0. n \in Nat /\ n <= Slack
    BY RingConstants
  <2>1. Allocated /\ ~Brim /\ Pending = 0
    BY <1>1, <1>3 DEF CopyDictionaryWord, Inv, Types, Control, Brim,
                      WriteStates, Pending, PendingStates
  <2>2. pos + n <= ringbuffer_size + Slack /\ mlen \in Int
    BY <1>1, <2>0, <2>1, RingFacts, SizeFacts
  <2>3. Extends(ring', n)
    BY <1>1, <1>3, <2>0, <2>1, <2>2, StoredExtends DEF CopyDictionaryWord
  <2>4. mlen' >= 0 => mlen >= 0 /\ n <= Pending + mlen
    BY <1>3, <2>0, <2>1, <2>2 DEF CopyDictionaryWord
  <2> QED BY <1>1, <1>3, <2>0, <2>1, <2>3, <2>4, ExtendedContent
          DEF CopyDictionaryWord
<1>4. ASSUME NEW n \in Nat, CopyUncompressedBytes(n)
      PROVE  Content'
  <2>1. Allocated /\ ~Brim /\ Pending = 0
    BY <1>1, <1>4 DEF CopyUncompressedBytes, Inv, Types, Control, Brim,
                      WriteStates, Pending, PendingStates
  <2>2. pos + n <= ringbuffer_size + Slack /\ mlen \in Int
    BY <1>1, <1>4, <2>1, RingFacts, SizeFacts DEF CopyUncompressedBytes
  <2>3. Extends(ring', n)
    BY <1>1, <1>4, <2>1, <2>2, StoredExtends DEF CopyUncompressedBytes
  <2>4. mlen' >= 0 => mlen >= 0 /\ n <= Pending + mlen
    BY <1>4, <2>1, <2>2 DEF CopyUncompressedBytes
  <2> QED BY <1>1, <1>4, <2>1, <2>3, <2>4, ExtendedContent
          DEF CopyUncompressedBytes
<1> QED BY <1>2, <1>3, <1>4

\* A byte of the byte-by-byte copy is the next byte of the stream.
LEMMA WrapCopyByteContent ==
  ASSUME ContentInv, WrapCopyByte
  PROVE  Content'
<1> SUFFICES ASSUME mlen >= 0 PROVE Content'
  BY DEF Content, WrapCopyByte
<1>1. /\ Inv /\ Content /\ Distances
      /\ Allocated /\ ~Brim /\ Pending = i /\ i >= 1 /\ i \in Int
      /\ state = "COMMAND_POST_WRAP_COPY" /\ mlen \in Int
  BY DEF ContentInv, WrapCopyByte, Inv, Types, Control, Brim, WriteStates,
         Pending, PendingStates
<1>2. /\ ringbuffer_size \in Nat \ {0} /\ pos \in Nat /\ decoded \in Nat
      /\ ring \in [Cells(ringbuffer_size) -> Byte] /\ pos < ringbuffer_size
  BY <1>1, RingFacts
<1>3. Reachable(distance_code)
  BY <1>1 DEF Distances, CopyingStates
<1>4. distance_code \in Nat
  BY <1>1 DEF Inv, Types
<1>5. ring[Masked(pos - distance_code)] = decoded - distance_code
  BY <1>1, <1>3, ReadsByte
<1>6. CopyOf(ring[Masked(pos - distance_code)], distance_code) = decoded
  BY <1>2, <1>4, <1>5, SizeFacts DEF CopyOf
<1>7. ring' = [ring EXCEPT ![pos] = decoded]
  BY <1>6 DEF WrapCopyByte
<1>8. Extends(ring', 1)
  <2>1. pos \in Cells(ringbuffer_size)
    BY <1>2, SizeFacts DEF Cells
  <2>2. \A j \in 0..(1 - 1) : ring'[pos + j] = decoded + j
    BY <1>2, <1>7, <2>1
  <2>3. \A k \in Cells(ringbuffer_size) :
          k < pos \/ k >= pos + 1 + Gap => ring'[k] = ring[k]
    BY <1>2, <1>7, SizeFacts DEF Cells
  <2> QED BY <2>2, <2>3 DEF Extends
<1>9. mlen >= 0 /\ 1 <= Pending + mlen
  BY <1>1
<1> QED BY <1>1, <1>8, <1>9, ExtendedContent DEF WrapCopyByte

\* The source of a copy that overlaps neither itself nor an end of the ring
\* holds the bytes the distance names.
LEMMA CopySource ==
  ASSUME ContentInv, Allocated, ~Brim, mlen >= 0, NEW d, Reachable(d),
         NEW n \in Nat, NEW src, src = Masked(pos - d),
         ~(src + n > pos /\ pos + n > src), src + n < ringbuffer_size,
         NEW j \in 0..(n - 1)
  PROVE  ring[src + j] = decoded - d + j
<1> DEFINE v == (decoded - d) + j
<1>1. /\ ringbuffer_size \in Nat \ {0} /\ Base \in Nat /\ pos \in Nat
      /\ decoded \in Nat /\ decoded = Base + pos /\ pos < ringbuffer_size
      /\ WindowBase = Base
  BY RingFacts DEF ContentInv
<1>2. d \in Nat /\ 1 <= d /\ d <= MaxBackwardDistance
      /\ d <= decoded + ClippedDict
  BY WindowFacts DEF Reachable
<1>3. src = IF d <= pos THEN pos - d ELSE (pos - d) + ringbuffer_size
  BY ReadsByte
<1>4. Holds(ring, ringbuffer_size, Base, decoded)
  BY <1>1 DEF ContentInv, Content
<1>5. /\ v \in (0 - ClippedDict)..(decoded - 1)
      /\ v >= decoded - MaxBackwardDistance
      /\ v >= Base <=> d <= pos
      /\ src + j = IF v >= Base THEN v - Base
                   ELSE (v - Base) + ringbuffer_size
  <2>1. CASE d <= pos
    <3>1. n <= d
      BY <1>1, <1>2, <1>3, <2>1
    <3> QED BY <1>1, <1>2, <1>3, <2>1, <3>1, WindowFacts
  <2>2. CASE ~(d <= pos)
    <3>1. (pos - d) + n < 0
      BY <1>1, <1>2, <1>3, <2>2
    <3> QED BY <1>1, <1>2, <1>3, <2>2, <3>1, WindowFacts
  <2> QED BY <2>1, <2>2
<1>6. ring[IF v >= Base THEN v - Base ELSE (v - Base) + ringbuffer_size] = v
  <2> HIDE DEF v
  <2> QED BY <1>4, <1>5 DEF Holds
<1> QED BY <1>1, <1>2, <1>5, <1>6

\* The guess a copy starts with, and its over-copy, stay within the window's
\* gap, and leave a copy that is left to the byte-by-byte loop untouched.
LEMMA CopyFromWindowContent ==
  ASSUME ContentInv, NEW d \in 1..MaxBackwardDistance, NEW n \in CopyLengths,
         CopyFromWindow(d, n)
  PROVE  Content'
<1> DEFINE src == Masked(pos - d)
           guess == Moved(ring, pos, src, Chunk, d)
           wraps == \/ src + n > pos /\ pos + n > src
                    \/ pos + n >= ringbuffer_size
                    \/ src + n >= ringbuffer_size
           rest == IF n > 2 * Chunk THEN n - Chunk ELSE Chunk
<1>0. n \in Nat \ {0} /\ d \in Nat /\ 1 <= d
  BY RingConstants, SizeFacts
<1>1. /\ Inv /\ Content /\ Distances
      /\ Allocated /\ ~Brim /\ Pending = 0 /\ mlen' = mlen - n
      /\ UNCHANGED <<ringbuffer_size, rb_roundtrips, should_wrap_ringbuffer>>
  BY DEF ContentInv, CopyFromWindow, Inv, Types, Control, Brim, WriteStates,
         Pending, PendingStates
<1>2. /\ ringbuffer_size \in Nat \ {0} /\ pos \in Nat /\ decoded \in Nat
      /\ ring \in [Cells(ringbuffer_size) -> Byte] /\ pos < ringbuffer_size
      /\ mlen \in Int
  BY <1>1, RingFacts
<1>3. SUFFICES ASSUME mlen' >= 0 PROVE Content'
  BY DEF Content
<1>4. mlen >= 0 /\ n <= Pending + mlen
  <2>1. mlen - n >= 0
    BY <1>1, <1>3
  <2> QED BY <1>0, <1>1, <1>2, <2>1
<1>5. Reachable(d)
  <2>1. MaxDistanceNow \in Nat /\ d <= MaxDistanceNow
    BY <1>1, MaxDistanceNowType DEF CopyFromWindow
  <2>2. d \in 1..MaxDistanceNow
    BY <1>0, <2>1
  <2> QED BY <1>1, <2>2, DistanceFacts
<1>6. src \in 0..(ringbuffer_size - 1)
  BY <1>1, <1>4, <1>5, ReadsByte
<1>7. \A k \in Cells(ringbuffer_size) :
        k < pos \/ k >= pos + Chunk => guess[k] = ring[k]
  BY <1>2, SizeFacts DEF Moved
<1>8. CASE wraps
  <2>1. ring' = guess /\ decoded' = decoded
    BY <1>8 DEF CopyFromWindow
  <2> HIDE DEF guess
  <2>2. Extends(ring', 0)
    BY <1>2, <1>7, <2>1, SizeFacts DEF Extends, Cells
  <2>3. decoded' = decoded + 0 /\ 0 \in Nat /\ 0 <= Pending + mlen
    BY <1>0, <1>1, <1>2, <1>4, <2>1
  <2> QED BY <1>1, <1>4, <2>2, <2>3, ExtendedContent
<1>9. CASE ~wraps
  <2>1. /\ ring' = IF n <= Chunk THEN guess
                   ELSE Moved(guess, pos + Chunk, src + Chunk, rest, d)
        /\ decoded' = decoded + n
    BY <1>9 DEF CopyFromWindow
  <2>2. /\ ~(src + n > pos /\ pos + n > src)
        /\ pos + n < ringbuffer_size /\ src + n < ringbuffer_size
    BY <1>0, <1>2, <1>6, <1>9
  <2>3. \A j \in 0..(n - 1) : ring[src + j] = (decoded - d) + j
    BY <1>0, <1>1, <1>4, <1>5, <2>2, CopySource
  <2>4. \A j \in 0..(n - 1) : CopyOf(ring[src + j], d) = decoded + j
    BY <1>0, <1>2, <2>3, SizeFacts DEF CopyOf
  <2>5. \A j \in 0..(n - 1) : j < Chunk => guess[pos + j] = decoded + j
    <3> SUFFICES ASSUME NEW j \in 0..(n - 1), j < Chunk
                 PROVE  guess[pos + j] = decoded + j
      OBVIOUS
    <3>1. /\ pos + j \in Cells(ringbuffer_size)
          /\ pos + j \in pos..(pos + Chunk - 1)
          /\ src + ((pos + j) - pos) = src + j
      BY <1>0, <1>2, <1>6, <2>2, SizeFacts DEF Cells
    <3> HIDE DEF src
    <3>2. guess[pos + j] = CopyOf(ring[src + ((pos + j) - pos)], d)
      BY <1>2, <3>1 DEF Moved
    <3> QED BY <2>4, <3>1, <3>2
  <2>6. Extends(ring', n)
    <3>1. CASE n <= Chunk
      <4>1. ring' = guess
        BY <2>1, <3>1
      <4> HIDE DEF guess
      <4>2. \A j \in 0..(n - 1) : ring'[pos + j] = decoded + j
        BY <1>0, <2>5, <3>1, <4>1, SizeFacts
      <4>3. \A k \in Cells(ringbuffer_size) :
              k < pos \/ k >= pos + n + Gap => ring'[k] = ring[k]
        BY <1>0, <1>2, <1>7, <4>1, SizeFacts DEF Cells
      <4> QED BY <4>2, <4>3 DEF Extends
    <3>2. CASE ~(n <= Chunk)
      <4>1. ring' = Moved(guess, pos + Chunk, src + Chunk, rest, d)
        BY <2>1, <3>2
      <4>2. /\ rest \in Nat /\ rest >= n - Chunk
            /\ pos + Chunk + rest <= pos + n + Gap
        BY <1>0, <1>2, <3>2, SizeFacts
      <4>3. DOMAIN guess = Cells(ringbuffer_size)
        BY <1>2 DEF Moved
      <4> HIDE DEF guess, rest
      <4>4. \A k \in Cells(ringbuffer_size) :
              ~(k \in (pos + Chunk)..(pos + Chunk + rest - 1)) =>
                ring'[k] = guess[k]
        BY <4>1, <4>3 DEF Moved
      <4>5. ASSUME NEW j \in 0..(n - 1)
            PROVE  ring'[pos + j] = decoded + j
        <5>0. pos + j \in Cells(ringbuffer_size)
          BY <1>0, <1>2, <2>2, SizeFacts DEF Cells
        <5>1. CASE j < Chunk
          <6>1. ~(pos + j \in (pos + Chunk)..(pos + Chunk + rest - 1))
            BY <1>2, <5>1, <4>2, SizeFacts
          <6> QED BY <2>5, <4>4, <5>0, <5>1, <6>1
        <5>2. CASE ~(j < Chunk)
          <6>1. /\ pos + j \in (pos + Chunk)..(pos + Chunk + rest - 1)
                /\ (src + Chunk) + ((pos + j) - (pos + Chunk)) = src + j
            BY <1>0, <1>2, <1>6, <4>2, <5>2, SizeFacts
          <6>2. /\ src + j \in Cells(ringbuffer_size)
                /\ src + j < pos \/ src + j >= pos + Chunk
            BY <1>0, <1>2, <1>6, <2>2, <3>2, SizeFacts DEF Cells
          <6> HIDE DEF src
          <6>3. ring'[pos + j] =
                  CopyOf(guess[(src + Chunk) + ((pos + j) - (pos + Chunk))], d)
            BY <4>1, <4>3, <5>0, <6>1 DEF Moved
          <6>4. guess[src + j] = ring[src + j]
            BY <1>7, <6>2
          <6> QED BY <2>4, <6>1, <6>3, <6>4
        <5> QED BY <5>1, <5>2
      <4>6. ASSUME NEW k \in Cells(ringbuffer_size),
                   k < pos \/ k >= pos + n + Gap
            PROVE  ring'[k] = ring[k]
        <5>1. /\ ~(k \in (pos + Chunk)..(pos + Chunk + rest - 1))
              /\ k < pos \/ k >= pos + Chunk
          BY <1>0, <1>2, <4>2, <4>6, SizeFacts DEF Cells
        <5> QED BY <1>7, <4>4, <5>1
      <4> QED BY <4>5, <4>6 DEF Extends
    <3> QED BY <3>1, <3>2
  <2> QED BY <1>0, <1>1, <1>4, <2>1, <2>6, ExtendedContent
<1> QED BY <1>8, <1>9

-----------------------------------------------------------------------------
(* The steps that move the base of the ring, or leave it                   *)

\* A step that leaves the cells, and byte 0 of the ring, as they are.
LEMMA SameContent ==
  ASSUME Content, UNCHANGED <<ring, ringbuffer_size, decoded>>,
         WindowBase' = WindowBase, mlen' >= 0 => mlen >= 0
  PROVE  Content'
BY DEF Content, Allocated

\* The slack moved to the front is the start of the next round, and what it
\* overwrites has left the window.
LEMMA WrappedWindow ==
  ASSUME Inv, Allocated, FullRing, NEW base \in Int,
         Holds(ring, ringbuffer_size, base, decoded),
         NEW p \in Nat, p <= Slack, decoded = (base + ringbuffer_size) + p
  PROVE  Holds(Wrapped(ring, p), ringbuffer_size, base + ringbuffer_size,
               decoded)
<1> DEFINE next == base + ringbuffer_size
<1> SUFFICES ASSUME NEW v \in (0 - ClippedDict)..(decoded - 1),
                    v >= next \/ v >= decoded - MaxBackwardDistance
             PROVE  Wrapped(ring, p)[IF v >= next THEN v - next
                                     ELSE (v - next) + ringbuffer_size] = v
  BY DEF Holds
<1>1. /\ ringbuffer_size \in Nat \ {0} /\ decoded \in Nat
      /\ DOMAIN ring = Cells(ringbuffer_size) /\ next \in Int
      /\ v \in Int /\ v < decoded
  BY RingFacts, SizeFacts
<1>2. p < ringbuffer_size
  BY SizeFacts DEF FullRing
<1>3. CASE v >= next
  <2>1. /\ v - next \in Cells(ringbuffer_size) /\ v - next < p
        /\ ringbuffer_size + (v - next) = v - base /\ v >= base
    BY <1>1, <1>2, <1>3, SizeFacts DEF Cells
  <2>2. Wrapped(ring, p)[v - next] = ring[ringbuffer_size + (v - next)]
    BY <1>1, <2>1 DEF Wrapped
  <2>3. ring[v - base] = v
    BY <2>1 DEF Holds
  <2> QED BY <1>3, <2>1, <2>2, <2>3
<1>4. CASE ~(v >= next)
  <2>1. v >= decoded - MaxBackwardDistance
    BY <1>4
  <2>2. /\ v - base \in Cells(ringbuffer_size) /\ ~(v - base < p) /\ v >= base
        /\ (v - next) + ringbuffer_size = v - base
    BY <1>1, <1>2, <1>4, <2>1, WindowFacts, SizeFacts DEF Cells, FullRing
  <2>3. Wrapped(ring, p)[v - base] = ring[v - base]
    BY <1>1, <2>2 DEF Wrapped
  <2>4. ring[v - base] = v
    BY <2>2 DEF Holds
  <2> QED BY <1>4, <2>2, <2>3, <2>4
<1> QED BY <1>3, <1>4

\* A ring filled exactly to its end begins a new round as it is.
LEMMA FullRound ==
  ASSUME Inv, Allocated, FullRing, NEW base \in Int,
         Holds(ring, ringbuffer_size, base, decoded),
         decoded = base + ringbuffer_size
  PROVE  Holds(ring, ringbuffer_size, base + ringbuffer_size, decoded)
<1>1. Holds(Wrapped(ring, 0), ringbuffer_size, base + ringbuffer_size, decoded)
  <2>1. 0 \in Nat /\ 0 <= Slack /\ decoded = (base + ringbuffer_size) + 0
    BY RingFacts, SizeFacts
  <2> QED BY <2>1, WrappedWindow
<1>2. Wrapped(ring, 0) = ring
  <2>1. ring \in [Cells(ringbuffer_size) -> Byte]
    BY RingFacts
  <2>2. \A k \in Cells(ringbuffer_size) : ~(k < 0)
    BY RingFacts, SizeFacts DEF Cells
  <2>3. Wrapped(ring, 0) = [k \in Cells(ringbuffer_size) |-> ring[k]]
    BY <2>1, <2>2 DEF Wrapped
  <2> QED BY <2>1, <2>3
<1> QED BY <1>1, <1>2

\* The first header lays the end of the dictionary at the end of the ring.
LEMMA HeaderContent ==
  ASSUME ContentInv, NEW last \in BOOLEAN, NEW uncompressed \in BOOLEAN,
         NEW peeked \in BOOLEAN, NEW len \in BlockLengths \cup {0},
         ReadMetablockHeader(last, uncompressed, len, peeked)
  PROVE  Content'
<1>1. /\ Inv /\ Content /\ mlen = 0
      /\ UNCHANGED <<rb_roundtrips, should_wrap_ringbuffer, decoded>>
  BY DEF ContentInv, ReadMetablockHeader, Inv, Control
<1>2. CASE len # 0 /\ ~Allocated
  <2>1. PICK s \in RingSizes : /\ ringbuffer_size' = s
                               /\ ring' = FreshRing(s)
    BY <1>2 DEF ReadMetablockHeader, BrotliAllocateRingBuffer
  <2>2. s \in Nat \ {0}
    BY <2>1, SizeFacts DEF RingSizes
  <2>3. /\ pos = 0 /\ rb_roundtrips = 0 /\ decoded = 0 /\ Base = 0
        /\ ~should_wrap_ringbuffer
    <3>1. pos = 0 /\ rb_roundtrips = 0 /\ ringbuffer_size = 0
      BY <1>1, <1>2 DEF Inv, Control, Cursors, Allocated
    <3>2. Base = 0
      BY <3>1 DEF Base
    <3> QED BY <1>1, <3>1, <3>2, SizeFacts DEF Inv, Cursors, FullRing
  <2>4. Holds(FreshRing(s), s, 0, 0)
    <3> SUFFICES ASSUME NEW v \in (0 - ClippedDict)..(0 - 1)
                 PROVE  FreshRing(s)[IF v >= 0 THEN v - 0 ELSE (v - 0) + s] = v
      BY DEF Holds
    <3>1. v \in Int /\ v < 0 /\ v >= 0 - ClippedDict /\ ClippedDict <= s
      <4>1. s # WindowSize => ClippedDict + len + Gap <= s
        <5> SUFFICES ASSUME s # WindowSize PROVE ClippedDict + len + Gap <= s
          OBVIOUS
        <5>1. /\ ringbuffer_size' # WindowSize /\ ringbuffer_size' # 0
              /\ ringbuffer_size' = s
              /\ declared' = len
              /\ mlen' = len
          <6>1. declared = 0
            BY <1>1, <2>3, RingConstants
            DEF ReadMetablockHeader, Inv, Types, Account, Pending, PendingStates
          <6> QED BY <2>1, <2>2, <6>1, RingConstants DEF ReadMetablockHeader
        <5>2. Account'
          BY <1>1, HeaderStep DEF Inv
        <5>3. declared' + ClippedDict + Gap <= ringbuffer_size'
          BY <5>1, <5>2 DEF Account, Allocated, FullRing
        <5>4. len \in Nat
          BY RingConstants
        <5> QED BY <5>1, <5>3, <5>4, SizeFacts
      <4>2. len \in Nat
        BY RingConstants
      <4> QED BY <2>2, <4>1, <4>2, SizeFacts
    <3>2. /\ v + s \in Cells(s) /\ v + s \in (s - ClippedDict)..(s - 1)
          /\ (v + s) - s = v
      BY <2>2, <3>1, SizeFacts DEF Cells
    <3>3. FreshRing(s)[v + s] = v
      BY <3>2 DEF FreshRing
    <3> QED BY <3>1, <3>3
  <2>5. WindowBase' = 0
    BY <1>1, <2>2, <2>1, <2>3 DEF WindowBase, Base
  <2>6. decoded' = 0
    BY <1>1, <2>3
  <2> QED BY <2>1, <2>4, <2>5, <2>6 DEF Content
<1>3. CASE ~(len # 0 /\ ~Allocated)
  <2>1. UNCHANGED <<ring, ringbuffer_size>>
    BY <1>3 DEF ReadMetablockHeader
  <2>2. WindowBase' = WindowBase
    BY <1>1, <2>1 DEF WindowBase, Base
  <2>3. mlen >= 0
    BY <1>1
  <2> QED BY <1>1, <2>1, <2>2, <2>3, SameContent
<1> QED BY <1>2, <1>3

\* A write moves the base by a ring size when it wraps, and wraps only a ring
\* whose slack is not still to be moved.
LEMMA WriteBase ==
  ASSUME Inv, Allocated, NEW avail \in Nat, WriteRingBuffer(avail),
         ringbuffer_size' = ringbuffer_size
  PROVE  /\ Base' = IF WriteWraps(avail) THEN Base + ringbuffer_size ELSE Base
         /\ WriteWraps(avail) =>
              /\ FullRing /\ ~should_wrap_ringbuffer
              /\ pos' \in Nat /\ pos = ringbuffer_size + pos' /\ pos' <= Slack
<1>1. /\ Types /\ Cursors /\ ringbuffer_size \in Nat \ {0} /\ Base \in Nat
      /\ pos \in Nat /\ rb_roundtrips \in Nat
  BY RingFacts DEF Inv, Types
<1>2. CASE WriteWraps(avail)
  <2>1. FullRing /\ pos >= ringbuffer_size /\ pos' = pos - ringbuffer_size
        /\ rb_roundtrips' = rb_roundtrips + 1
    BY <1>2 DEF WriteRingBuffer, WriteWraps
  <2>2. Base' = Base + ringbuffer_size
    BY <1>1, <2>1, NextRound DEF Base
  <2>3. ~should_wrap_ringbuffer
    BY <1>1, <2>1, SizeFacts DEF Cursors, FullRing
  <2>4. pos < ringbuffer_size + Slack
    BY <1>1, <2>1, SizeFacts DEF Cursors, FullRing
  <2>5. /\ pos - ringbuffer_size \in Nat
        /\ pos = ringbuffer_size + (pos - ringbuffer_size)
        /\ pos - ringbuffer_size <= Slack
    BY <1>1, <2>1, <2>4, SizeFacts
  <2> QED BY <1>2, <2>1, <2>2, <2>3, <2>5
<1>3. CASE ~WriteWraps(avail)
  BY <1>3 DEF WriteRingBuffer, Base
<1> QED BY <1>2, <1>3

\* A write that does not wrap the ring, and moves no slack.
LEMMA PlainContent ==
  ASSUME Inv, Content, Allocated, NEW avail \in Nat, WriteRingBuffer(avail),
         ~WriteWraps(avail),
         UNCHANGED <<ring, ringbuffer_size, should_wrap_ringbuffer, decoded,
                     mlen>>
  PROVE  Content'
<1>1. Base' = Base
  BY WriteBase
<1>2. WindowBase' = WindowBase
  BY <1>1 DEF WindowBase
<1> QED BY <1>2, SameContent

\* A write that wraps a ring filled exactly to its end.
LEMMA RoundContent ==
  ASSUME Inv, Content, Allocated, NEW avail \in Nat, WriteRingBuffer(avail),
         WriteWraps(avail), pos = ringbuffer_size, should_wrap_ringbuffer' = FALSE,
         UNCHANGED <<ring, ringbuffer_size, decoded, mlen>>
  PROVE  Content'
<1> SUFFICES ASSUME mlen >= 0
             PROVE  Holds(ring, ringbuffer_size, WindowBase', decoded)
  BY DEF Content
<1>1. FullRing /\ WindowBase = Base /\ WindowBase' = Base + ringbuffer_size
  BY WriteBase DEF WindowBase
<1>2. Holds(ring, ringbuffer_size, Base, decoded) /\ Base \in Int
      /\ decoded = Base + ringbuffer_size
  BY <1>1, RingFacts DEF Content
<1>3. Holds(ring, ringbuffer_size, Base + ringbuffer_size, decoded)
  BY <1>1, <1>2, FullRound
<1> QED BY <1>1, <1>3

\* A write that wraps the ring and moves the slack at once.
LEMMA WrapContent ==
  ASSUME Inv, Content, Allocated, NEW avail \in Nat, WriteRingBuffer(avail),
         WriteWraps(avail) \/ should_wrap_ringbuffer,
         should_wrap_ringbuffer' = FALSE, ring' = Wrapped(ring, pos'),
         UNCHANGED <<ringbuffer_size, decoded, mlen>>
  PROVE  Content'
<1> SUFFICES ASSUME mlen >= 0
             PROVE  Holds(ring', ringbuffer_size, WindowBase', decoded)
  BY DEF Content
<1>1. /\ Holds(ring, ringbuffer_size, WindowBase, decoded)
      /\ ringbuffer_size \in Nat \ {0} /\ Base \in Nat /\ pos \in Nat
      /\ decoded = Base + pos /\ WindowBase \in Int
  BY RingFacts DEF Content
<1>2. WindowBase' = Base'
  BY DEF WindowBase
<1>3. CASE WriteWraps(avail)
  <2>1. /\ FullRing /\ WindowBase = Base /\ WindowBase' = Base + ringbuffer_size
        /\ pos' \in Nat /\ pos = ringbuffer_size + pos' /\ pos' <= Slack
    BY <1>2, <1>3, WriteBase DEF WindowBase
  <2>2. PICK p \in Nat : p = pos' /\ pos = ringbuffer_size + p /\ p <= Slack
    BY <2>1
  <2>3. decoded = (Base + ringbuffer_size) + p
    BY <1>1, <2>2
  <2>4. Holds(Wrapped(ring, p), ringbuffer_size, Base + ringbuffer_size,
              decoded)
    BY <1>1, <2>1, <2>2, <2>3, WrappedWindow
  <2> QED BY <2>1, <2>2, <2>4
<1>4. CASE ~WriteWraps(avail)
  <2>1. /\ FullRing /\ should_wrap_ringbuffer /\ pos <= Slack
        /\ WindowBase = Base - ringbuffer_size
    BY <1>1, <1>4, SizeFacts DEF Inv, Cursors, WindowBase
  <2>2. pos' = pos /\ WindowBase' = Base
    BY <1>2, <1>4, WriteBase DEF WriteRingBuffer
  <2>3. /\ WindowBase + ringbuffer_size = Base
        /\ decoded = (WindowBase + ringbuffer_size) + pos
    BY <1>1, <2>1
  <2>4. Holds(Wrapped(ring, pos), ringbuffer_size, WindowBase + ringbuffer_size,
              decoded)
    BY <1>1, <2>1, <2>3, WrappedWindow
  <2> QED BY <2>2, <2>3, <2>4
<1> QED BY <1>3, <1>4

\* INNER_WRITE, POST_WRITE_1 and POST_WRITE_2 leave the window in its cells.
LEMMA WriteAndWrapContent ==
  ASSUME ContentInv, WriteAndWrap
  PROVE  Content'
<1> DEFINE status == WriteStatus(available_out, FALSE)
<1>1. /\ Inv /\ Content /\ Allocated /\ Brim
      /\ WriteRingBuffer(available_out) /\ available_out \in Nat
      /\ UNCHANGED <<ringbuffer_size, decoded, mlen>>
      /\ should_wrap_ringbuffer \in BOOLEAN
  BY DEF ContentInv, WriteAndWrap, WriteToCaller, Inv, Types, Control, Brim,
         WriteStates
<1>2. CASE status # "SUCCESS"
  <2>1. ~WriteWraps(available_out)
    BY <1>1, <1>2, PartialWrite
  <2>2. UNCHANGED <<ring, should_wrap_ringbuffer>>
    BY <1>2, <2>1 DEF WriteAndWrap, MustWrap
  <2> QED BY <1>1, <2>1, <2>2, PlainContent
<1>3. CASE status = "SUCCESS"
  <2>1. /\ should_wrap_ringbuffer' = FALSE
        /\ ring' = IF MustWrap(available_out, should_wrap_ringbuffer)
                   THEN Wrapped(ring, pos') ELSE ring
    BY <1>3 DEF WriteAndWrap
  <2>2. CASE MustWrap(available_out, should_wrap_ringbuffer)
    <3>1. WriteWraps(available_out) \/ should_wrap_ringbuffer
      BY <2>2 DEF MustWrap
    <3> QED BY <1>1, <2>1, <2>2, <3>1, WrapContent
  <2>3. CASE ~MustWrap(available_out, should_wrap_ringbuffer)
    <3>1. ring' = ring
      BY <2>1, <2>3
    <3>2. CASE WriteWraps(available_out)
      <4>1. pos = ringbuffer_size
        BY <2>3, <3>2 DEF MustWrap
      <4> QED BY <1>1, <2>1, <3>1, <3>2, <4>1, RoundContent
    <3>3. CASE ~WriteWraps(available_out)
      <4>1. should_wrap_ringbuffer = FALSE
        BY <1>1, <2>3, <3>3 DEF MustWrap
      <4> QED BY <1>1, <2>1, <3>1, <3>3, <4>1, PlainContent
    <3> QED BY <3>2, <3>3
  <2> QED BY <2>2, <2>3
<1> QED BY <1>2, <1>3

\* UNCOMPRESSED_WRITE, too: the ring was filled exactly to its end.
LEMMA WriteUncompressedContent ==
  ASSUME ContentInv, WriteUncompressed
  PROVE  Content'
<1>1. /\ Inv /\ Content /\ Allocated /\ Brim
      /\ WriteRingBuffer(available_out) /\ available_out \in Nat
      /\ UNCHANGED <<ring, ringbuffer_size, decoded, mlen>>
      /\ should_wrap_ringbuffer = FALSE /\ pos \in {0, ringbuffer_size}
      /\ should_wrap_ringbuffer' =
           MustWrap(available_out, should_wrap_ringbuffer)
  BY DEF ContentInv, WriteUncompressed, WriteToCaller, Inv, Types, Control,
         Cursors, Brim
<1>2. CASE WriteWraps(available_out)
  <2>1. pos = ringbuffer_size
    BY <1>1, <1>2, RingFacts DEF WriteWraps
  <2>2. should_wrap_ringbuffer' = FALSE
    BY <1>1, <1>2, <2>1 DEF MustWrap
  <2> QED BY <1>1, <1>2, <2>1, <2>2, RoundContent
<1>3. CASE ~WriteWraps(available_out)
  <2>1. should_wrap_ringbuffer' = should_wrap_ringbuffer
    BY <1>1, <1>3 DEF MustWrap
  <2> QED BY <1>1, <1>3, <2>1, PlainContent
<1> QED BY <1>2, <1>3

\* The writes before a return find a ring that is not full.
LEMMA ReturnContent ==
  ASSUME ContentInv, FlushForInput \/ FinishStream
  PROVE  Content'
<1>1. /\ Inv /\ Content /\ ~Brim /\ available_out \in Nat
      /\ UNCHANGED <<ring, ringbuffer_size, decoded, mlen>>
  <2>1. CASE FlushForInput
    BY <2>1 DEF ContentInv, FlushForInput, Inv, Types, Control, Brim,
                ReadStates, WriteStates, streamVars
  <2>2. CASE FinishStream
    BY <2>2 DEF ContentInv, FinishStream, Inv, Types, Control, Brim,
                WriteStates, streamVars
  <2> QED BY <2>1, <2>2
<1>2. CASE Allocated
  <2>1. ~WriteWraps(available_out)
    BY <1>1, <1>2, RingFacts DEF WriteWraps
  <2>2. WriteRingBuffer(available_out)
    BY <1>2 DEF FlushForInput, FinishStream, WriteToCaller
  <2>3. should_wrap_ringbuffer' = should_wrap_ringbuffer
    BY <1>2, <2>1 DEF FlushForInput, FinishStream, MustWrap
  <2> QED BY <1>1, <1>2, <2>1, <2>2, <2>3, PlainContent
<1>3. CASE ~Allocated
  BY <1>1, <1>3 DEF Content, Allocated
<1> QED BY <1>2, <1>3

\* TakeOutput first moves the slack that an earlier write left to be moved.
LEMMA TakeOutputContent ==
  ASSUME ContentInv, NEW size \in TakeSizes, TakeOutput(size)
  PROVE  Content'
<1> DEFINE avail == IF size # 0 THEN size ELSE TakeAll
<1>1. /\ Inv /\ Content /\ Allocated /\ WriteRingBuffer(avail)
      /\ ring' = IF should_wrap_ringbuffer THEN Wrapped(ring, pos) ELSE ring
      /\ should_wrap_ringbuffer' = (WriteWraps(avail) /\ pos # ringbuffer_size)
      /\ UNCHANGED <<ringbuffer_size, decoded, mlen>>
      /\ should_wrap_ringbuffer \in BOOLEAN
  BY DEF ContentInv, TakeOutput, MustWrap, streamVars, Inv, Types
<1>2. avail \in Nat
  BY RingConstants DEF TakeAll
<1> HIDE DEF avail
<1>3. /\ Base' = IF WriteWraps(avail) THEN Base + ringbuffer_size ELSE Base
      /\ WriteWraps(avail) => ~should_wrap_ringbuffer
  BY <1>1, <1>2, WriteBase
<1>4. CASE should_wrap_ringbuffer
  <2>1. ~WriteWraps(avail) /\ should_wrap_ringbuffer' = FALSE
    BY <1>1, <1>3, <1>4
  <2>2. pos' = pos
    BY <1>1, <2>1 DEF WriteRingBuffer
  <2>3. ring' = Wrapped(ring, pos')
    BY <1>1, <1>4, <2>2
  <2> QED BY <1>1, <1>2, <1>4, <2>1, <2>3, WrapContent
<1>5. CASE ~should_wrap_ringbuffer
  <2>1. ring' = ring
    BY <1>1, <1>5
  <2>2. CASE ~WriteWraps(avail)
    <3>1. should_wrap_ringbuffer' = should_wrap_ringbuffer
      BY <1>1, <1>5, <2>2
    <3> QED BY <1>1, <1>2, <2>1, <2>2, <3>1, PlainContent
  <2>3. CASE WriteWraps(avail) /\ pos = ringbuffer_size
    <3>1. should_wrap_ringbuffer' = FALSE
      BY <1>1, <2>3
    <3> QED BY <1>1, <1>2, <2>1, <2>3, <3>1, RoundContent
  <2>4. CASE WriteWraps(avail) /\ pos # ringbuffer_size
    <3>1. should_wrap_ringbuffer'
      BY <1>1, <2>4
    <3>2. Base \in Nat /\ ringbuffer_size \in Nat
      BY <1>1, RingFacts
    <3>3. WindowBase' = (Base + ringbuffer_size) - ringbuffer_size
      BY <1>1, <1>3, <2>4, <3>1 DEF WindowBase
    <3>4. WindowBase = Base
      BY <1>5 DEF WindowBase
    <3>5. WindowBase' = WindowBase
      BY <3>2, <3>3, <3>4
    <3> QED BY <1>1, <2>1, <3>5, SameContent
  <2> QED BY <2>2, <2>3, <2>4
<1> QED BY <1>4, <1>5

\* Every step leaves the window in its cells.
LEMMA NextContent ==
  ASSUME ContentInv, [Next]_vars
  PROVE  Content'
<1>1. Content
  BY DEF ContentInv
<1>2. ASSUME UNCHANGED ringVars, decoded' = decoded, mlen' >= 0 => mlen >= 0
      PROVE  Content'
  <2>1. WindowBase' = WindowBase
    BY <1>2 DEF ringVars, WindowBase, Base
  <2> QED BY <1>1, <1>2, <2>1, SameContent DEF ringVars
<1>3. CASE UNCHANGED vars
  BY <1>2, <1>3 DEF vars, streamVars
<1>4. CASE Decode
  <2>1. ASSUME NEW last \in BOOLEAN, NEW uncompressed \in BOOLEAN,
               NEW peeked \in BOOLEAN, NEW len \in BlockLengths \cup {0},
               ReadMetablockHeader(last, uncompressed, len, peeked)
        PROVE  Content'
    BY <2>1, HeaderContent
  <2>2. ASSUME NEW insert \in InsertLengths, ReadCommand(insert)
        PROVE  Content'
    <3>1. insert \in Nat /\ mlen \in Int
      BY RingConstants DEF ContentInv, Inv, Types
    <3>2. mlen - insert >= 0 => mlen >= 0
      BY <3>1
    <3> QED BY <1>2, <2>2, <3>2 DEF ReadCommand
  <2>3. CASE DecodeLiteral
    BY <2>3, StoreContent
  <2>4. ASSUME NEW d \in 1..MaxBackwardDistance, NEW n \in CopyLengths,
               CopyFromWindow(d, n)
        PROVE  Content'
    BY <2>4, CopyFromWindowContent
  <2>5. ASSUME NEW n \in WordLengths, CopyDictionaryWord(n)
        PROVE  Content'
    BY <2>5, StoreContent
  <2>6. ASSUME NEW n \in 1..WindowSize, CopyUncompressedBytes(n)
        PROVE  Content'
    <3>1. n \in Nat
      BY SizeFacts
    <3> QED BY <2>6, <3>1, StoreContent
  <2> QED BY <1>4, <2>1, <2>2, <2>3, <2>4, <2>5, <2>6 DEF Decode
<1>5. CASE CopyUncompressedBytes(0)
  <2>1. 0 \in Nat
    OBVIOUS
  <2> QED BY <1>5, <2>1, StoreContent
<1>6. CASE WrapCopyByte
  BY <1>6, WrapCopyByteContent
<1>7. CASE WrapCopyDone
  BY <1>2, <1>7 DEF WrapCopyDone
<1>8. CASE WriteAndWrap
  BY <1>8, WriteAndWrapContent
<1>9. CASE WriteUncompressed
  BY <1>9, WriteUncompressedContent
<1>10. CASE FinishMetablock
  BY <1>2, <1>10 DEF FinishMetablock
<1>11. CASE FinishStream \/ FlushForInput
  BY <1>11, ReturnContent
<1>12. CASE RunOutOfInput
  BY <1>2, <1>12 DEF RunOutOfInput, streamVars
<1>13. CASE FormatError
  BY <1>2, <1>13 DEF FormatError, streamVars
<1>14. ASSUME NEW room \in StreamRoom, StreamCall(room)
       PROVE  Content'
  BY <1>2, <1>14 DEF StreamCall, streamVars
<1>15. CASE StreamCallAfterError
  BY <1>2, <1>15 DEF StreamCallAfterError, vars, streamVars
<1>16. ASSUME NEW size \in TakeSizes, TakeOutput(size)
       PROVE  Content'
  BY <1>16, TakeOutputContent
<1> QED BY <1>3, <1>4, <1>5, <1>6, <1>7, <1>8, <1>9, <1>10, <1>11, <1>12,
           <1>13, <1>14, <1>15, <1>16 DEF Next, Internal

-----------------------------------------------------------------------------
(* Distances stay reachable                                                *)

\* A step that decodes m bytes and sets a limit or a distance only to one
\* that can be reached.
LEMMA DistancesKept ==
  ASSUME Inv, Distances, NEW m \in Nat, decoded' = decoded + m,
         max_distance' = max_distance
           \/ decoded + ClippedDict >= MaxBackwardDistance,
         state' \in CopyingStates =>
           \E d : Reachable(d) /\ distance_code' = d,
         Brim' => /\ decoded + m >= ringbuffer_size
                  /\ ringbuffer_size' = ringbuffer_size,
         TakeSizes = {} => ~should_wrap_ringbuffer'
  PROVE  Distances'
<1>1. /\ decoded \in Nat /\ ClippedDict \in Nat /\ MaxBackwardDistance \in Nat
      /\ decoded + m \in Nat
  BY WindowFacts DEF Inv, Types
<1>2. ASSUME max_distance' = MaxBackwardDistance
      PROVE  (decoded + m) + ClippedDict >= MaxBackwardDistance
  <2>1. decoded + ClippedDict >= MaxBackwardDistance
    BY <1>2 DEF Distances
  <2> QED BY <1>1, <2>1
<1>3. ASSUME state' \in CopyingStates
      PROVE  /\ distance_code' \in 1..MaxBackwardDistance
             /\ distance_code' <= (decoded + m) + ClippedDict
  <2>1. PICK d : Reachable(d) /\ distance_code' = d
    BY <1>3
  <2>2. d \in 1..MaxBackwardDistance /\ d <= (decoded + m) + ClippedDict
    BY <1>1, <2>1 DEF Reachable
  <2> QED BY <2>1, <2>2
<1>4. /\ max_distance' = MaxBackwardDistance =>
           decoded' + ClippedDict >= MaxBackwardDistance
      /\ state' \in CopyingStates =>
           /\ distance_code' \in 1..MaxBackwardDistance
           /\ distance_code' <= decoded' + ClippedDict
      /\ Brim' => decoded' >= ringbuffer_size'
  BY <1>2, <1>3
<1> QED BY <1>4 DEF Distances, Reachable

\* The limit of distances reaches the whole window only when it is filled.
LEMMA FullLimit ==
  ASSUME Inv, Distances, MaxDistanceNow = MaxBackwardDistance
  PROVE  decoded + ClippedDict >= MaxBackwardDistance
<1>1. MaxBackwardDistance \in 1..MaxDistanceNow
  BY WindowFacts
<1>2. Reachable(MaxBackwardDistance)
  BY <1>1, DistanceFacts
<1> QED BY <1>2, WindowFacts DEF Reachable, Inv, Types

\* A ring that is full to the brim holds the whole window.
LEMMA FullRingLimit ==
  ASSUME Inv, Distances, Brim, FullRing
  PROVE  decoded + ClippedDict >= MaxBackwardDistance
<1>1. decoded >= WindowSize /\ decoded \in Nat
  BY DEF Distances, FullRing, Inv, Types
<1> QED BY <1>1, WindowFacts, SizeFacts

\* A step that decodes nothing and sets no distance.
LEMMA SameDistances ==
  ASSUME Inv, Distances, decoded' = decoded, distance_code' = distance_code,
         max_distance' = max_distance
           \/ decoded + ClippedDict >= MaxBackwardDistance,
         state' \in CopyingStates => state \in CopyingStates,
         Brim' => Brim /\ ringbuffer_size' = ringbuffer_size,
         TakeSizes = {} => ~should_wrap_ringbuffer'
  PROVE  Distances'
<1>1. 0 \in Nat /\ decoded' = decoded + 0
  BY DEF Inv, Types
<1>2. Brim' => decoded + 0 >= ringbuffer_size
               /\ ringbuffer_size' = ringbuffer_size
  BY DEF Distances, Inv, Types
<1>3. state' \in CopyingStates => \E d : Reachable(d) /\ distance_code' = d
  BY DEF Distances
<1> QED BY <1>1, <1>2, <1>3, DistancesKept

\* The steps that decode keep the distances reachable.
LEMMA DecodeDistances ==
  ASSUME ContentInv, Decode \/ CopyUncompressedBytes(0) \/ WrapCopyByte
  PROVE  Distances'
<1>1. /\ Inv /\ Distances /\ decoded \in Nat /\ pos \in Nat
      /\ ringbuffer_size \in Nat /\ pos <= decoded
      /\ TakeSizes = {} => ~should_wrap_ringbuffer
  <2>1. /\ Inv /\ Distances /\ decoded \in Nat /\ pos \in Nat
        /\ ringbuffer_size \in Nat /\ decoded = Base + pos
        /\ rb_roundtrips \in Nat
    BY SizeFacts DEF ContentInv, Inv, Types, Cursors, RingSizes
  <2>2. Base \in Nat
    BY <2>1, NextRound DEF Base
  <2> QED BY <2>1, <2>2 DEF Distances
<1>2. ASSUME NEW last \in BOOLEAN, NEW uncompressed \in BOOLEAN,
             NEW peeked \in BOOLEAN, NEW len \in BlockLengths \cup {0},
             ReadMetablockHeader(last, uncompressed, len, peeked)
      PROVE  Distances'
  <2>1. state' \notin CopyingStates /\ ~Brim'
    BY <1>1, <1>2 DEF ReadMetablockHeader, CopyingStates, Brim, WriteStates,
                      Inv, Control
  <2> QED BY <1>1, <1>2, <2>1, SameDistances DEF ReadMetablockHeader
<1>3. ASSUME NEW insert \in InsertLengths, ReadCommand(insert)
      PROVE  Distances'
  <2>1. state' \notin CopyingStates /\ ~Brim'
    BY <1>1, <1>3 DEF ReadCommand, CopyingStates, Brim, WriteStates, Inv,
                      Control
  <2> QED BY <1>1, <1>3, <2>1, SameDistances DEF ReadCommand, ringVars
<1>4. CASE DecodeLiteral
  <2>1. state' \notin CopyingStates
    BY <1>4 DEF DecodeLiteral, CopyingStates
  <2>2. Brim' => pos + 1 = ringbuffer_size
    BY <1>1, <1>4 DEF DecodeLiteral, Brim, WriteStates, Inv, Control
  <2>3. Brim' => decoded + 1 >= ringbuffer_size
    BY <1>1, <2>2
  <2> QED BY <1>1, <1>4, <2>1, <2>3, DistancesKept DEF DecodeLiteral
<1>5. ASSUME NEW d \in 1..MaxBackwardDistance, NEW n \in CopyLengths,
             CopyFromWindow(d, n)
      PROVE  Distances'
  <2>1. n \in Nat /\ d \in Nat /\ 1 <= d
    BY RingConstants, WindowFacts
  <2>2. /\ d <= MaxDistanceNow /\ max_distance' = MaxDistanceNow
        /\ distance_code' = d
        /\ UNCHANGED <<ringbuffer_size, should_wrap_ringbuffer>>
        /\ decoded' = decoded \/ decoded' = decoded + n
    BY <1>5 DEF CopyFromWindow
  <2>3. Reachable(d)
    <3>1. MaxDistanceNow \in Nat
      BY <1>1, MaxDistanceNowType
    <3>2. d \in 1..MaxDistanceNow
      BY <2>1, <2>2, <3>1
    <3> QED BY <1>1, <3>2, DistanceFacts
  <2>4. ~Brim'
    BY <1>1, <1>5 DEF CopyFromWindow, AfterCommand, Brim, WriteStates, Inv,
                      Control
  <2>5. max_distance' = max_distance
          \/ decoded + ClippedDict >= MaxBackwardDistance
          \/ max_distance' # MaxBackwardDistance
    BY <1>1, <2>2, FullLimit
  <2>6. PICK m \in Nat : decoded' = decoded + m
    <3>1. decoded = decoded + 0 /\ 0 \in Nat
      BY <1>1
    <3> QED BY <2>1, <2>2, <3>1
  <2>7. CASE max_distance' # MaxBackwardDistance
    <3>1. decoded + m \in Nat /\ ClippedDict \in Nat
      BY <1>1, WindowFacts
    <3>2. d \in 1..MaxBackwardDistance /\ d <= (decoded + m) + ClippedDict
      BY <1>1, <2>1, <2>3, <3>1 DEF Reachable
    <3>3. state' \in CopyingStates =>
            /\ distance_code' \in 1..MaxBackwardDistance
            /\ distance_code' <= decoded' + ClippedDict
      BY <2>2, <2>6, <3>2
    <3> QED BY <1>1, <2>2, <2>4, <2>7, <3>3 DEF Distances, Reachable
  <2>8. CASE max_distance' = MaxBackwardDistance
    BY <1>1, <2>2, <2>3, <2>4, <2>5, <2>6, <2>8, DistancesKept
  <2> QED BY <2>7, <2>8
<1>6. ASSUME NEW n \in WordLengths, CopyDictionaryWord(n)
      PROVE  Distances'
  <2>1. n \in Nat
    BY RingConstants
  <2>2. state' \notin CopyingStates
    BY <1>6 DEF CopyDictionaryWord, AfterCommand, CopyingStates
  <2>3. Brim' => pos + n >= ringbuffer_size
    BY <1>1, <1>6 DEF CopyDictionaryWord, AfterCommand, Brim, WriteStates, Inv,
                      Control
  <2>4. Brim' => decoded + n >= ringbuffer_size
    BY <1>1, <2>1, <2>3
  <2>5. /\ max_distance' = MaxDistanceNow /\ decoded' = decoded + n
        /\ UNCHANGED <<ringbuffer_size, should_wrap_ringbuffer, distance_code>>
    BY <1>6 DEF CopyDictionaryWord
  <2>6. CASE MaxDistanceNow # MaxBackwardDistance
    <3>1. Brim' => decoded' >= ringbuffer_size'
      BY <2>4, <2>5
    <3> QED BY <1>1, <2>2, <2>5, <2>6, <3>1 DEF Distances
  <2>7. CASE MaxDistanceNow = MaxBackwardDistance
    <3>1. decoded + ClippedDict >= MaxBackwardDistance
      BY <1>1, <2>7, FullLimit
    <3> QED BY <1>1, <2>1, <2>2, <2>4, <2>5, <3>1, DistancesKept
  <2> QED BY <2>6, <2>7
<1>7. ASSUME NEW n \in Nat, CopyUncompressedBytes(n)
      PROVE  Distances'
  <2>1. state' \notin CopyingStates
    BY <1>7 DEF CopyUncompressedBytes, CopyingStates
  <2>2. Brim' => pos + n >= WindowSize
    BY <1>7 DEF CopyUncompressedBytes, Brim, WriteStates
  <2>3. ringbuffer_size <= WindowSize
    BY SizeFacts DEF ContentInv, Inv, Types, RingSizes
  <2>4. Brim' => decoded + n >= ringbuffer_size
    BY <1>1, <2>2, <2>3, SizeFacts
  <2> QED BY <1>1, <1>7, <2>1, <2>4, DistancesKept DEF CopyUncompressedBytes
<1>8. CASE WrapCopyByte
  <2>1. state \in CopyingStates /\ substate_uncompressed = "NONE"
    BY <1>1, <1>8 DEF WrapCopyByte, CopyingStates, Inv, Types, Control
  <2>2. Brim' => pos + 1 = ringbuffer_size
    BY <1>8, <2>1 DEF WrapCopyByte, Brim, WriteStates
  <2>3. Brim' => decoded + 1 >= ringbuffer_size
    BY <1>1, <2>2
  <2>4. \E d : Reachable(d) /\ distance_code' = d
    BY <1>1, <1>8, <2>1 DEF WrapCopyByte, Distances
  <2> QED BY <1>1, <1>8, <2>3, <2>4, DistancesKept DEF WrapCopyByte
<1>9. 1..WindowSize \subseteq Nat
  BY SizeFacts
<1> QED BY <1>2, <1>3, <1>4, <1>5, <1>6, <1>7, <1>8, <1>9 DEF Decode

\* The steps that write: a full ring sets the limit to the whole window.
LEMMA WriteDistances ==
  ASSUME ContentInv, WriteAndWrap \/ WriteUncompressed
  PROVE  Distances'
<1> DEFINE status == WriteStatus(available_out, FALSE)
<1>1. /\ Inv /\ Distances /\ Allocated /\ Brim
      /\ UNCHANGED <<decoded, distance_code, ringbuffer_size>>
      /\ should_wrap_ringbuffer \in BOOLEAN
      /\ max_distance' = max_distance
           \/ (FullRing /\ max_distance' = MaxBackwardDistance)
  <2>1. /\ UNCHANGED <<decoded, distance_code, ringbuffer_size>>
        /\ state \in WriteStates \/ substate_uncompressed = "WRITE"
        /\ state = "UNCOMPRESSED" \/ state \in WriteStates
    BY DEF WriteAndWrap, WriteUncompressed
  <2>2. Inv /\ Distances /\ Brim
    BY <2>1 DEF ContentInv, Brim
  <2>3. Allocated /\ should_wrap_ringbuffer \in BOOLEAN
    BY <2>1, <2>2 DEF Inv, Types, Control, WriteStates
  <2>4. max_distance' = max_distance
          \/ (FullRing /\ max_distance' = MaxBackwardDistance)
    <3>1. CASE WriteAndWrap
      BY <3>1 DEF WriteAndWrap
    <3>2. CASE WriteUncompressed
      BY <3>2 DEF WriteUncompressed
    <3> QED BY <3>1, <3>2
  <2> QED BY <2>1, <2>2, <2>3, <2>4
<1>2. max_distance' = max_distance
        \/ decoded + ClippedDict >= MaxBackwardDistance
  BY <1>1, FullRingLimit
<1>3. CASE WriteAndWrap
  <2>1. state' \in CopyingStates => state \in CopyingStates
    BY <1>3 DEF WriteAndWrap, AfterCommand, CopyingStates, WriteStates
  <2>2. should_wrap_ringbuffer' = FALSE
          \/ should_wrap_ringbuffer' = should_wrap_ringbuffer
    <3>1. CASE status = "SUCCESS"
      BY <1>3, <3>1 DEF WriteAndWrap
    <3>2. CASE status # "SUCCESS"
      <4>1. ~WriteWraps(available_out)
        BY <1>1, <3>2, PartialWrite
      <4> QED BY <1>3, <3>2, <4>1 DEF WriteAndWrap, MustWrap
    <3> QED BY <3>1, <3>2
  <2>3. TakeSizes = {} => ~should_wrap_ringbuffer'
    BY <1>1, <2>2 DEF Distances
  <2> QED BY <1>1, <1>2, <2>1, <2>3, SameDistances
<1>4. CASE WriteUncompressed
  <2>1. state' \notin CopyingStates
    BY <1>4 DEF WriteUncompressed, CopyingStates
  <2>2. /\ should_wrap_ringbuffer = FALSE /\ pos \in {0, ringbuffer_size}
        /\ should_wrap_ringbuffer' =
             MustWrap(available_out, should_wrap_ringbuffer)
    BY <1>1, <1>4 DEF WriteUncompressed, Inv, Types, Control, Cursors
  <2>3. WriteWraps(available_out) => pos = ringbuffer_size
    BY <1>1, <2>2, RingFacts DEF WriteWraps
  <2>4. should_wrap_ringbuffer' = FALSE
    BY <2>2, <2>3 DEF MustWrap
  <2> QED BY <1>1, <1>2, <2>1, <2>4, SameDistances
<1> QED BY <1>3, <1>4

\* The other steps decode nothing and set no distance.
LEMMA OtherDistances ==
  ASSUME ContentInv,
         \/ UNCHANGED vars
         \/ WrapCopyDone
         \/ FinishMetablock
         \/ FinishStream
         \/ FlushForInput
         \/ RunOutOfInput
         \/ FormatError
         \/ \E room \in StreamRoom : StreamCall(room)
         \/ StreamCallAfterError
         \/ \E size \in TakeSizes : TakeOutput(size)
  PROVE  Distances'
<1>1. /\ Inv /\ Distances /\ should_wrap_ringbuffer \in BOOLEAN
      /\ TakeSizes = {} => ~should_wrap_ringbuffer
  BY DEF ContentInv, Distances, Inv, Types
<1>2. CASE WrapCopyDone
  <2>1. /\ state' \notin CopyingStates /\ ~Brim'
        /\ UNCHANGED <<decoded, distance_code, max_distance,
                       should_wrap_ringbuffer>>
    BY <1>1, <1>2 DEF WrapCopyDone, AfterCommand, CopyingStates, Brim,
                      WriteStates, Inv, Control, ringVars
  <2> QED BY <1>1, <2>1, SameDistances
<1>3. CASE FinishMetablock
  <2>1. /\ state' \notin CopyingStates /\ ~Brim'
        /\ UNCHANGED <<decoded, distance_code, max_distance,
                       should_wrap_ringbuffer>>
    BY <1>1, <1>3 DEF FinishMetablock, CopyingStates, Brim, WriteStates, Inv,
                      Control, ringVars
  <2> QED BY <1>1, <2>1, SameDistances
<1>4. CASE FinishStream \/ FlushForInput
  <2>1. UNCHANGED <<streamVars, ringbuffer_size>>
    BY <1>4 DEF FinishStream, FlushForInput
  <2>2. Allocated => ~WriteWraps(available_out)
    <3>1. ~Brim
      BY <1>1, <1>4 DEF FinishStream, FlushForInput, Inv, Types, Control, Brim,
                        ReadStates, WriteStates
    <3> QED BY <1>1, <3>1, RingFacts DEF WriteWraps
  <2>3. should_wrap_ringbuffer' = should_wrap_ringbuffer
    BY <1>4, <2>2 DEF FinishStream, FlushForInput, MustWrap
  <2>4. Brim' = Brim
    BY <2>1 DEF Brim, streamVars
  <2> QED BY <1>1, <2>1, <2>3, <2>4, SameDistances DEF streamVars
<1>5. CASE \/ UNCHANGED vars \/ RunOutOfInput \/ FormatError
           \/ \E room \in StreamRoom : StreamCall(room)
           \/ StreamCallAfterError
  <2>1. UNCHANGED <<ringVars, streamVars>>
    BY <1>5 DEF vars, RunOutOfInput, FormatError, StreamCall,
                StreamCallAfterError
  <2>2. Brim' = Brim /\ ringbuffer_size' = ringbuffer_size
        /\ should_wrap_ringbuffer' = should_wrap_ringbuffer
    BY <2>1 DEF Brim, streamVars, ringVars
  <2> QED BY <1>1, <2>1, <2>2, SameDistances DEF streamVars
<1>6. CASE \E size \in TakeSizes : TakeOutput(size)
  <2>1. UNCHANGED <<streamVars, ringbuffer_size>> /\ TakeSizes # {}
    BY <1>6 DEF TakeOutput
  <2>2. Brim' = Brim
    BY <2>1 DEF Brim, streamVars
  <2> QED BY <1>1, <2>1, <2>2, SameDistances DEF streamVars
<1> QED BY <1>2, <1>3, <1>4, <1>5, <1>6

-----------------------------------------------------------------------------
(* The invariant                                                           *)

\* Before the first call there is no ring, and no distance.
LEMMA InitContentInv == Init => ContentInv
<1> SUFFICES ASSUME Init PROVE ContentInv
  OBVIOUS
<1>1. Inv
  BY InitInv
<1>2. Content
  BY DEF Init, Content, Allocated
<1>3. Distances
  BY WindowFacts DEF Init, Distances, CopyingStates, Brim, WriteStates
<1> QED BY <1>1, <1>2, <1>3 DEF ContentInv

\* Every step preserves the invariant.
LEMMA NextContentInv ==
  ASSUME ContentInv, [Next]_vars
  PROVE  ContentInv'
<1>1. Inv'
  BY NextInv DEF ContentInv
<1>2. Content'
  BY NextContent
<1>3. Distances'
  BY DecodeDistances, WriteDistances, OtherDistances DEF Next, Internal
<1> QED BY <1>1, <1>2, <1>3 DEF ContentInv

\* The invariant holds throughout every behaviour.
LEMMA ContentInvariance == Spec => []ContentInv
<1>1. Init => ContentInv
  BY InitContentInv
<1>2. ContentInv /\ [Next]_vars => ContentInv'
  BY NextContentInv
<1> QED BY <1>1, <1>2, PTL DEF Spec

-----------------------------------------------------------------------------
(* Theorems                                                                *)

\* Every distance the decoder accepts, and the two bytes a literal's context
\* is made of, read the byte they name: no over-copy, no word in the slack,
\* no wrap and no halved ring reaches into the window.
THEOREM WindowStaysIntact ==
  ASSUME 2 <= MaxBackwardDistance
  PROVE  Spec => []WindowIntact
<1>1. ContentInv => WindowIntact
  <2> SUFFICES ASSUME ContentInv, mlen >= 0
               PROVE  /\ state = "COMMAND_POST_DECODE_LITERALS" =>
                           \A d \in 1..MaxDistanceNow :
                             ring[Masked(pos - d)] = decoded - d
                      /\ state = "COMMAND_POST_WRAP_COPY" /\ i > 0 =>
                           ring[Masked(pos - distance_code)]
                             = decoded - distance_code
                      /\ state = "COMMAND_INNER" =>
                           \A d \in 1..2 :
                             d <= decoded =>
                               ring[Masked(pos - d)] = decoded - d
    BY DEF WindowIntact
  <2>1. /\ Inv /\ Distances
        /\ state \in {"COMMAND_POST_DECODE_LITERALS", "COMMAND_INNER",
                      "COMMAND_POST_WRAP_COPY"} => Allocated /\ ~Brim
    BY DEF ContentInv, Inv, Types, Control, Brim, WriteStates
  <2>2. ASSUME state = "COMMAND_POST_DECODE_LITERALS", NEW d \in 1..MaxDistanceNow
        PROVE  ring[Masked(pos - d)] = decoded - d
    <3>1. Reachable(d)
      BY <2>1, DistanceFacts
    <3> QED BY <2>1, <2>2, <3>1, ReadsByte
  <2>3. ASSUME state = "COMMAND_POST_WRAP_COPY"
        PROVE  ring[Masked(pos - distance_code)] = decoded - distance_code
    <3>1. Reachable(distance_code)
      BY <2>1, <2>3 DEF Distances, CopyingStates
    <3> QED BY <2>1, <2>3, <3>1, ReadsByte
  <2>4. ASSUME state = "COMMAND_INNER", NEW d \in 1..2, d <= decoded
        PROVE  ring[Masked(pos - d)] = decoded - d
    <3>1. decoded \in Nat
      BY <2>1 DEF Inv, Types
    <3>2. Reachable(d)
      BY <2>4, <3>1, WindowFacts DEF Reachable
    <3> QED BY <2>1, <2>4, <3>2, ReadsByte
  <2> QED BY <2>2, <2>3, <2>4
<1> QED BY <1>1, ContentInvariance, PTL

\* A byte decoded and not yet delivered is in its cell of the window.
LEMMA UnwrittenByte ==
  ASSUME ContentInv, mlen >= 0, NEW b \in partial_pos_out..(decoded - 1)
  PROVE  /\ Allocated /\ b \in Int /\ b >= Base
         /\ CellOf(b) \in Cells(ringbuffer_size)
         /\ ring[CellOf(b)] = b
<1>1. /\ Inv /\ Types /\ Control /\ Cursors /\ partial_pos_out \in Nat
      /\ decoded \in Nat
  BY DEF ContentInv, Inv, Types
<1>2. Allocated
  <2> SUFFICES ASSUME ~Allocated PROVE FALSE
    OBVIOUS
  <2>1. decoded = 0
    BY <1>1 DEF Types, Control, Cursors, Allocated, Base
  <2> QED BY <1>1, <2>1
<1>3. /\ ringbuffer_size \in Nat \ {0} /\ Base \in Nat /\ pos \in Nat
      /\ decoded = Base + pos /\ should_wrap_ringbuffer \in BOOLEAN
      /\ Base <= partial_pos_out /\ WindowBase \in Int
      /\ rb_roundtrips \in Nat
  BY <1>1, <1>2, RingFacts DEF Types, Cursors
<1>4. b \in Int /\ b >= Base /\ b < Base + pos
  BY <1>1, <1>3
<1>5. CellOf(b) = b - WindowBase /\ b >= WindowBase
  BY <1>3, <1>4 DEF CellOf, WindowBase, Base
<1>6. CellOf(b) \in Cells(ringbuffer_size)
  <2>1. CASE should_wrap_ringbuffer
    <3>1. pos < Slack
      BY <1>1, <2>1 DEF Cursors
    <3> QED BY <1>3, <1>4, <1>5, <2>1, <3>1, SizeFacts DEF Cells, WindowBase
  <2>2. CASE ~should_wrap_ringbuffer
    <3>1. pos <= ringbuffer_size + Slack
      BY <1>1, <1>2, <1>3, SizeFacts DEF Cursors
    <3> QED BY <1>3, <1>4, <1>5, <2>2, <3>1, SizeFacts DEF Cells, WindowBase
  <2> QED BY <2>1, <2>2
<1>7. ring[CellOf(b)] = b
  <2>1. Holds(ring, ringbuffer_size, WindowBase, decoded)
    BY <1>2 DEF ContentInv, Content
  <2>2. b \in (0 - ClippedDict)..(decoded - 1)
    BY <1>1, <1>3, <1>4, SizeFacts
  <2>3. ring[b - WindowBase] = b
    BY <1>5, <2>1, <2>2 DEF Holds
  <2> QED BY <1>5, <2>3
<1> QED BY <1>2, <1>4, <1>6, <1>7

\* No byte that was decoded and not yet delivered is overwritten, whether the
\* caller takes it with a stream call or with TakeOutput.
THEOREM UnwrittenStaysIntact == Spec => []UnwrittenIntact
<1>1. ContentInv => UnwrittenIntact
  BY UnwrittenByte DEF UnwrittenIntact
<1> QED BY <1>1, ContentInvariance, PTL

\* HasMoreOutput tells the truth between calls, and a finished decoder has
\* handed out every declared byte.
THEOREM QueriesAreExact == Spec => []OutputQueriesExact
<1>1. Inv => OutputQueriesExact
  <2> SUFFICES ASSUME Inv
               PROVE  /\ HasMoreOutput <=> ~Fatal /\ partial_pos_out < decoded
                      /\ IsFinished /\ ~Fatal => partial_pos_out = declared
    BY DEF OutputQueriesExact
  <2>1. partial_pos_out \in Nat /\ decoded \in Nat
    BY DEF Inv, Types
  <2>2. Allocated => /\ Base \in Nat /\ pos \in Nat /\ decoded = Base + pos
                     /\ partial_pos_out <= decoded
    BY RingFacts DEF Inv, Cursors
  <2>3. ~Allocated => partial_pos_out = 0 /\ decoded = 0
    BY <2>1 DEF Inv, Types, Control, Cursors, Allocated, Base
  <2>4. HasMoreOutput <=> ~Fatal /\ partial_pos_out < decoded
    <3>1. HasMoreOutput <=>
            ~Fatal /\ Allocated /\ Base + pos - partial_pos_out # 0
      BY DEF HasMoreOutput, UnwrittenBytes, Base
    <3> QED BY <2>1, <2>2, <2>3, <3>1
  <2>5. IsFinished /\ ~Fatal => partial_pos_out = declared
    <3> SUFFICES ASSUME IsFinished, ~Fatal
                 PROVE  partial_pos_out = declared
      OBVIOUS
    <3>1. state = "DONE" /\ ~(partial_pos_out < decoded)
      BY <2>4 DEF IsFinished
    <3>2. partial_pos_out <= decoded
      BY <2>1, <2>2, <2>3
    <3>3. declared = decoded
      BY <2>1, <3>1 DEF Inv, Control, Account, Pending, PendingStates
    <3> QED BY <2>1, <3>1, <3>2, <3>3
  <2> QED BY <2>4, <2>5
<1> QED BY <1>1, Invariance, PTL

-----------------------------------------------------------------------------
(* What is delivered                                                       *)

\* A caller that receives all output by TakeOutput, all there is at a time:
\* its stream calls have no room.  `*size = 0` asks for at most TakeAll bytes,
\* so a window must not be longer.
TakesAll ==
  /\ StreamRoom \subseteq {0}
  /\ TakeSizes \subseteq {0}
  /\ WindowSize <= TakeAll

\* A caller that stays with one of the two ways of receiving output.
OneWay == TakeSizes = {} \/ TakesAll

\* Such a caller has every byte that was handed out.
Received ==
  /\ Len(delivered) = partial_pos_out
  /\ TakesAll => available_out = 0

\* The next n bytes for a caller that has received some.
NextBytes(n) == [k \in 1..n |-> Len(delivered) + k - 1]

\* They are n bytes, and none for n = 0.
LEMMA NextBytesFacts ==
  ASSUME delivered \in Seq(Byte), NEW n \in Nat
  PROVE  /\ NextBytes(n) \in Seq(Byte)
         /\ Len(NextBytes(n)) = n
         /\ \A k \in 1..n : NextBytes(n)[k] = Len(delivered) + k - 1
         /\ n = 0 => delivered \o NextBytes(n) = delivered
<1> DEFINE w == NextBytes(n)
<1>1. Len(delivered) \in Nat
  BY LenProperties
<1>2. w \in [1..n -> Byte]
  <2>1. \A k \in 1..n : Len(delivered) + k - 1 \in Byte
    BY <1>1 DEF Byte
  <2> QED BY <2>1 DEF NextBytes
<1>3. \A k \in 1..n : w[k] = Len(delivered) + k - 1
  BY DEF NextBytes
<1>4. n = 0 => w = <<>>
  BY DEF NextBytes
<1> HIDE DEF w
<1>5. w \in Seq(Byte)
  BY <1>2
<1>6. DOMAIN w = 1..Len(w) /\ Len(w) \in Nat
  BY <1>5, LenProperties
<1>7. Len(w) = n
  BY <1>2, <1>6
<1>8. n = 0 => delivered \o w = delivered
  BY <1>4, ConcatEmptySeq
<1> QED BY <1>3, <1>5, <1>7, <1>8 DEF w

\* An unwritten byte is at the front of the ring, or will be when the slack
\* has been moved there.
LEMMA UnwrittenAtFront ==
  ASSUME ContentInv, mlen >= 0, NEW b \in partial_pos_out..(decoded - 1)
  PROVE  /\ ~should_wrap_ringbuffer => ring[b - Base] = b
         /\ should_wrap_ringbuffer => Wrapped(ring, pos)[b - Base] = b
<1>1. /\ Allocated /\ b \in Int /\ b >= Base
      /\ CellOf(b) \in Cells(ringbuffer_size) /\ ring[CellOf(b)] = b
  BY UnwrittenByte
<1>2. Inv /\ Cursors
  BY DEF ContentInv, Inv
<1>3. /\ ringbuffer_size \in Nat \ {0} /\ Base \in Nat /\ pos \in Nat
      /\ decoded = Base + pos /\ ring \in [Cells(ringbuffer_size) -> Byte]
  BY <1>1, <1>2, RingFacts
<1>4. b < Base + pos
  BY <1>1, <1>2, <1>3 DEF Inv, Types
<1>5. CASE ~should_wrap_ringbuffer
  <2>1. CellOf(b) = b - Base
    BY <1>1, <1>3, <1>5 DEF CellOf, Base
  <2> QED BY <1>1, <1>5, <2>1
<1>6. CASE should_wrap_ringbuffer
  <2>1. CellOf(b) = ringbuffer_size + (b - Base)
    BY <1>1, <1>3, <1>6 DEF CellOf, Base
  <2>2. pos < Slack
    BY <1>2, <1>6 DEF Cursors
  <2>3. b - Base \in Cells(ringbuffer_size) /\ b - Base < pos
    BY <1>1, <1>3, <1>4, <2>2, SizeFacts DEF Cells
  <2>4. Wrapped(ring, pos)[b - Base] = ring[ringbuffer_size + (b - Base)]
    BY <1>3, <2>3 DEF Wrapped
  <2> QED BY <1>1, <1>6, <2>1, <2>4
<1> QED BY <1>5, <1>6

\* A write from content r, with the unwritten bytes at its front, hands out
\* the next bytes of the stream.
LEMMA WrittenIsNext ==
  ASSUME ContentInv, Received, Allocated, mlen >= 0,
         NEW avail \in Nat, NEW r,
         avail # 0 => \A b \in partial_pos_out..(decoded - 1) : r[b - Base] = b
  PROVE  /\ Written(r, avail) = NextBytes(NumWritten(avail))
         /\ NumWritten(avail) \in Nat
         /\ NumWritten(avail) <= decoded - Len(delivered)
         /\ Len(delivered) \in Nat
<1>1. /\ Inv /\ Types /\ Cursors /\ partial_pos_out \in Nat
      /\ Len(delivered) = partial_pos_out /\ mlen \in Int
  BY DEF ContentInv, Inv, Types, Received
<1>2. /\ ringbuffer_size \in Nat \ {0} /\ Base \in Nat /\ pos \in Nat
      /\ decoded \in Nat /\ decoded = Base + pos
  BY <1>1, RingFacts
<1>3. /\ ToWrite \in Nat /\ ToWrite <= decoded - partial_pos_out
      /\ ToWrite > 0 => Masked(partial_pos_out) = partial_pos_out - Base
  <2>1. /\ ToWrite \in Nat
        /\ ToWrite = (IF pos > ringbuffer_size THEN Base + ringbuffer_size
                      ELSE Base + pos) - partial_pos_out
        /\ ToWrite > 0 => Masked(partial_pos_out) = partial_pos_out - Base
    BY <1>1, UnwrittenFacts
  <2> QED BY <1>1, <1>2, <2>1
<1>4. /\ NumWritten(avail) \in Nat /\ NumWritten(avail) <= ToWrite
      /\ NumWritten(avail) <= avail
  BY <1>3 DEF NumWritten
<1>5. ASSUME NEW k \in 1..NumWritten(avail)
      PROVE  r[Masked(partial_pos_out) + k - 1] = Len(delivered) + k - 1
  <2> DEFINE b == partial_pos_out + k - 1
  <2>1. b \in partial_pos_out..(decoded - 1) /\ ToWrite > 0 /\ avail # 0
    BY <1>1, <1>2, <1>3, <1>4
  <2>2. Masked(partial_pos_out) + k - 1 = b - Base
    BY <1>1, <1>2, <1>3, <2>1
  <2> HIDE DEF b
  <2>3. r[b - Base] = b
    BY <2>1
  <2> QED BY <1>1, <2>2, <2>3 DEF b
<1>6. Written(r, avail) =
        [k \in 1..NumWritten(avail) |-> r[Masked(partial_pos_out) + k - 1]]
  BY <1>1 DEF Written
<1>7. Written(r, avail) = NextBytes(NumWritten(avail))
  BY <1>5, <1>6 DEF NextBytes
<1> QED BY <1>1, <1>3, <1>4, <1>7, <1>2

\* A stream call hands out the next bytes of the stream, or nothing when a
\* command has overshot its block.
LEMMA WriteStep ==
  ASSUME ContentInv, Received, OneWay, Allocated, WriteToCaller
  PROVE  /\ mlen < 0 => /\ delivered' = delivered
                        /\ partial_pos_out' = partial_pos_out
         /\ mlen >= 0 =>
              /\ NumWritten(available_out) \in Nat
              /\ NumWritten(available_out) <= decoded - Len(delivered)
              /\ delivered' = delivered \o NextBytes(NumWritten(available_out))
              /\ partial_pos_out' = partial_pos_out + NumWritten(available_out)
<1>1. /\ delivered \in Seq(Byte) /\ available_out \in Nat /\ mlen \in Int
      /\ delivered' = delivered \o Written(ring, available_out)
      /\ partial_pos_out' = IF mlen < 0 THEN partial_pos_out
                            ELSE partial_pos_out + NumWritten(available_out)
  BY DEF ContentInv, Inv, Types, WriteToCaller, WriteRingBuffer
<1>2. CASE mlen < 0
  <2>1. delivered' = delivered
    BY <1>1, <1>2, ConcatEmptySeq DEF Written
  <2> QED BY <1>1, <1>2, <2>1
<1>3. CASE mlen >= 0
  <2>1. should_wrap_ringbuffer => available_out = 0
    BY DEF OneWay, Received, ContentInv, Distances
  <2>2. available_out # 0 =>
          \A b \in partial_pos_out..(decoded - 1) : ring[b - Base] = b
    BY <1>3, <2>1, UnwrittenAtFront
  <2>3. /\ Written(ring, available_out) = NextBytes(NumWritten(available_out))
        /\ NumWritten(available_out) \in Nat
        /\ NumWritten(available_out) <= decoded - Len(delivered)
    BY <1>1, <1>3, <2>2, WrittenIsNext
  <2> QED BY <1>1, <1>3, <2>3
<1> QED BY <1>1, <1>2, <1>3

\* With `*size = 0` there is room for all that is pending.
LEMMA TakeAllTakesAll ==
  ASSUME Inv, Allocated, mlen >= 0, WindowSize <= TakeAll
  PROVE  /\ TakeAll \in Nat \ {0}
         /\ NumWritten(TakeAll) = ToWrite
         /\ WriteStatus(TakeAll, TRUE) = "SUCCESS"
<1>1. /\ ToWrite \in Nat /\ Masked(partial_pos_out) \in Nat
      /\ Masked(partial_pos_out) + ToWrite <= ringbuffer_size
      /\ ringbuffer_size \in Nat /\ ringbuffer_size <= WindowSize
      /\ mlen \in Int
  BY UnwrittenFacts, SizeFacts DEF Inv, Types, Allocated, RingSizes
<1>2. TakeAll \in Nat \ {0} /\ WindowSize \in Nat
  BY SizeFacts DEF TakeAll
<1>3. ToWrite <= TakeAll
  BY <1>1, <1>2
<1>4. NumWritten(TakeAll) = ToWrite
  BY <1>1, <1>2, <1>3 DEF NumWritten
<1>5. WriteStatus(TakeAll, TRUE) = "SUCCESS"
  BY <1>1, <1>4 DEF WriteStatus
<1> QED BY <1>2, <1>4, <1>5

\* TakeOutput hands out the next bytes, from the slack when it waits to be
\* moved; there is room for all of them, so none is lost.
LEMMA TakeStep ==
  ASSUME ContentInv, Received, TakesAll, NEW size \in TakeSizes,
         TakeOutput(size)
  PROVE  \E n \in Nat : /\ n <= decoded - Len(delivered)
                        /\ delivered' = delivered \o NextBytes(n)
                        /\ partial_pos_out' = partial_pos_out + n
<1> DEFINE content == IF should_wrap_ringbuffer THEN Wrapped(ring, pos)
                                                ELSE ring
<1>1. size = 0 /\ Allocated /\ Inv
  BY DEF TakesAll, TakeOutput, ContentInv
<1>2. /\ delivered' = delivered \o
           (IF WriteStatus(TakeAll, TRUE) = "SUCCESS"
            THEN Written(content, TakeAll) ELSE <<>>)
      /\ partial_pos_out' = IF mlen < 0 THEN partial_pos_out
                            ELSE partial_pos_out + NumWritten(TakeAll)
  BY <1>1 DEF TakeOutput, WriteRingBuffer
<1>3. /\ delivered \in Seq(Byte) /\ mlen \in Int /\ partial_pos_out \in Nat
      /\ decoded \in Nat /\ Len(delivered) = partial_pos_out
  BY <1>1 DEF Inv, Types, Received
<1>4. CASE mlen < 0
  <2>1. delivered' = delivered \o <<>>
    BY <1>2, <1>4 DEF WriteStatus
  <2>2. /\ delivered' = delivered \o NextBytes(0)
        /\ partial_pos_out' = partial_pos_out + 0
    <3>1. delivered \o <<>> = delivered
      BY <1>3, ConcatEmptySeq
    <3>2. delivered \o NextBytes(0) = delivered
      BY <1>3, NextBytesFacts
    <3>3. delivered' = delivered \o NextBytes(0)
      BY <2>1, <3>1, <3>2
    <3>4. partial_pos_out' = partial_pos_out
      BY <1>2, <1>4
    <3> QED BY <1>3, <3>3, <3>4
  <2>3. 0 <= decoded - Len(delivered)
    <3>1. partial_pos_out <= decoded
      BY <1>1 DEF Inv, Cursors
    <3> QED BY <1>3, <3>1
  <2> QED BY <2>2, <2>3
<1>5. CASE mlen >= 0
  <2>1. TakeAll \in Nat /\ WriteStatus(TakeAll, TRUE) = "SUCCESS"
    BY <1>1, <1>5, TakeAllTakesAll DEF TakesAll
  <2>2. \A b \in partial_pos_out..(decoded - 1) : content[b - Base] = b
    BY <1>5, UnwrittenAtFront
  <2> HIDE DEF content
  <2>3. /\ Written(content, TakeAll) = NextBytes(NumWritten(TakeAll))
        /\ NumWritten(TakeAll) \in Nat
        /\ NumWritten(TakeAll) <= decoded - Len(delivered)
    BY <1>1, <1>5, <2>1, <2>2, WrittenIsNext
  <2>4. /\ delivered' = delivered \o NextBytes(NumWritten(TakeAll))
        /\ partial_pos_out' = partial_pos_out + NumWritten(TakeAll)
    BY <1>2, <1>3, <1>5, <2>1, <2>3
  <2> QED BY <2>3, <2>4
<1> QED BY <1>3, <1>4, <1>5

\* Nothing reaches a caller but by a write of the ring or by TakeOutput, and
\* nothing but those and the start of a call touches the output arguments.
LEMMA DeliveredStep ==
  ASSUME ContentInv, [Next]_vars
  PROVE  \/ UNCHANGED <<delivered, partial_pos_out, available_out>>
         \/ \E room \in StreamRoom : StreamCall(room)
         \/ Allocated /\ WriteToCaller
         \/ \E size \in TakeSizes : TakeOutput(size)
<1>1. CASE UNCHANGED vars
  BY <1>1 DEF vars, ringVars, callVars
<1>2. CASE Decode
  BY <1>2 DEF Decode, ReadMetablockHeader, ReadCommand, DecodeLiteral,
              CopyFromWindow, CopyDictionaryWord, CopyUncompressedBytes,
              Continue, ringVars, callVars
<1>3. CASE CopyUncompressedBytes(0) \/ WrapCopyByte \/ WrapCopyDone
             \/ FinishMetablock
  BY <1>3 DEF CopyUncompressedBytes, WrapCopyByte, WrapCopyDone,
              FinishMetablock, Continue, ringVars, callVars
<1>4. CASE FinishStream \/ FlushForInput
  BY <1>4 DEF FinishStream, FlushForInput
<1>5. CASE RunOutOfInput \/ FormatError \/ StreamCallAfterError
  BY <1>5 DEF RunOutOfInput, FormatError, StreamCallAfterError, vars, ringVars,
              callVars
<1>6. CASE WriteAndWrap \/ WriteUncompressed
  BY <1>6 DEF WriteAndWrap, WriteUncompressed, ContentInv, Inv, Control,
              WriteStates
<1> QED BY <1>1, <1>2, <1>3, <1>4, <1>5, <1>6 DEF Next, Internal

\* A caller that stays with one way has every byte that was handed out.
LEMMA ReceivedStep ==
  ASSUME ContentInv, Received, OneWay, [Next]_vars
  PROVE  Received'
<1>1. /\ delivered \in Seq(Byte) /\ Len(delivered) = partial_pos_out
      /\ partial_pos_out \in Nat /\ mlen \in Int /\ available_out \in Nat
  BY DEF ContentInv, Inv, Types, Received
<1>2. ASSUME NEW n \in Nat, delivered' = delivered \o NextBytes(n),
             partial_pos_out' = partial_pos_out + n
      PROVE  Len(delivered') = partial_pos_out'
  <2>1. NextBytes(n) \in Seq(Byte) /\ Len(NextBytes(n)) = n
    BY <1>1, NextBytesFacts
  <2>2. Len(delivered \o NextBytes(n)) = Len(delivered) + Len(NextBytes(n))
    BY <1>1, <2>1, ConcatProperties
  <2> QED BY <1>1, <1>2, <2>1, <2>2
<1>3. CASE UNCHANGED <<delivered, partial_pos_out, available_out>>
  BY <1>3 DEF Received
<1>4. ASSUME NEW room \in StreamRoom, StreamCall(room)
      PROVE  Received'
  <2>1. UNCHANGED <<delivered, partial_pos_out>> /\ available_out' = room
    BY <1>4 DEF StreamCall, ringVars
  <2> QED BY <2>1 DEF Received, TakesAll
<1>5. CASE Allocated /\ WriteToCaller
  <2>1. Len(delivered') = partial_pos_out'
    <3>1. CASE mlen < 0
      BY <1>1, <1>5, <3>1, WriteStep
    <3>2. CASE mlen >= 0
      BY <1>2, <1>5, <3>2, WriteStep
    <3> QED BY <1>1, <3>1, <3>2
  <2>2. TakesAll => available_out' = 0
    <3> SUFFICES ASSUME TakesAll PROVE available_out' = 0
      OBVIOUS
    <3>1. available_out = 0
      BY DEF Received
    <3>2. ToWrite \in Nat
      BY <1>5, UnwrittenFacts DEF ContentInv, Inv
    <3>3. NumWritten(available_out) = 0
      BY <3>1, <3>2 DEF NumWritten
    <3> QED BY <1>5, <3>1, <3>3 DEF WriteToCaller
  <2> QED BY <2>1, <2>2 DEF Received
<1>6. ASSUME NEW size \in TakeSizes, TakeOutput(size)
      PROVE  Received'
  <2>1. TakesAll
    BY DEF OneWay
  <2>2. Len(delivered') = partial_pos_out'
    BY <1>2, <1>6, <2>1, TakeStep
  <2>3. available_out' = available_out
    BY <1>6 DEF TakeOutput
  <2> QED BY <2>2, <2>3 DEF Received
<1> QED BY <1>3, <1>4, <1>5, <1>6, DeliveredStep

\* Before the first call nothing was handed out.
LEMMA InitReceived == Init => Received
BY EmptySeq DEF Init, Received

\* It holds throughout, for callers that stay with one way.
LEMMA ReceivedInvariance ==
  ASSUME OneWay
  PROVE  Spec => [](ContentInv /\ Received)
<1>1. Init => ContentInv /\ Received
  BY InitContentInv, InitReceived
<1>2. ContentInv /\ Received /\ [Next]_vars => (ContentInv /\ Received)'
  BY NextContentInv, ReceivedStep
<1> QED BY <1>1, <1>2, PTL DEF Spec

\* The declared lengths bound what a caller of either way receives: nothing of
\* a command that overshoots its block is delivered, and success means that
\* the declared bytes were decoded and delivered, no fewer and no more.
THEOREM OutputIsAsDeclared ==
  ASSUME OneWay
  PROVE  Spec => []OutputMatchesHeaders
<1>1. ContentInv /\ Received => OutputMatchesHeaders
  <2> SUFFICES ASSUME ContentInv, Received
               PROVE  /\ Len(delivered) <= declared
                      /\ call = "idle" /\ result = "SUCCESS" =>
                           /\ state = "DONE"
                           /\ decoded = declared
                           /\ Len(delivered) = declared
    BY DEF OutputMatchesHeaders
  <2>1. Len(delivered) = partial_pos_out /\ partial_pos_out <= declared
    BY DEF ContentInv, Inv, Account, Received
  <2>2. state = "DONE" => decoded = declared
    BY DEF ContentInv, Inv, Types, Control, Account, Pending, PendingStates
  <2> QED BY <2>1, <2>2 DEF ContentInv, Inv, Control
<1> QED BY <1>1, ReceivedInvariance, PTL

\* What was delivered are the first bytes of the stream, in their order.
InOrder == \A k \in 1..Len(delivered) : delivered[k] = k - 1

\* The next bytes keep what was delivered in order.
LEMMA NextInOrder ==
  ASSUME delivered \in Seq(Byte), NEW n \in Nat, InOrder,
         delivered' = delivered \o NextBytes(n)
  PROVE  InOrder'
<1> DEFINE w == NextBytes(n)
<1>1. /\ w \in Seq(Byte) /\ Len(w) = n /\ Len(delivered) \in Nat
      /\ \A k \in 1..n : w[k] = Len(delivered) + k - 1
  BY NextBytesFacts, LenProperties
<1>2. delivered' = delivered \o w
  OBVIOUS
<1> HIDE DEF w
<1>3. /\ Len(delivered \o w) = Len(delivered) + n
      /\ \A k \in 1..(Len(delivered) + n) :
           (delivered \o w)[k] = IF k <= Len(delivered) THEN delivered[k]
                                 ELSE w[k - Len(delivered)]
  BY <1>1, ConcatProperties
<1>4. \A k \in 1..(Len(delivered) + n) : (delivered \o w)[k] = k - 1
  <2> SUFFICES ASSUME NEW k \in 1..(Len(delivered) + n)
               PROVE  (delivered \o w)[k] = k - 1
    OBVIOUS
  <2>1. CASE k <= Len(delivered)
    <3>1. k \in 1..Len(delivered)
      BY <1>1, <2>1
    <3> QED BY <1>3, <2>1, <3>1 DEF InOrder
  <2>2. CASE ~(k <= Len(delivered))
    <3>1. k - Len(delivered) \in 1..n
      BY <1>1, <2>2
    <3>2. w[k - Len(delivered)] = Len(delivered) + (k - Len(delivered)) - 1
      BY <1>1, <3>1
    <3>3. (delivered \o w)[k] = w[k - Len(delivered)]
      BY <1>3, <2>2
    <3> QED BY <1>1, <2>2, <3>2, <3>3
  <2> QED BY <2>1, <2>2
<1>5. \A k \in 1..Len(delivered') : delivered'[k] = k - 1
  BY <1>2, <1>3, <1>4
<1> QED BY <1>5 DEF InOrder

\* Every step keeps what was delivered in order.
LEMMA InOrderStep ==
  ASSUME ContentInv, Received, OneWay, InOrder, [Next]_vars
  PROVE  InOrder'
<1>1. delivered \in Seq(Byte) /\ mlen \in Int
  BY DEF ContentInv, Inv, Types
<1>2. CASE delivered' = delivered
  BY <1>2 DEF InOrder
<1>3. ASSUME NEW n \in Nat, delivered' = delivered \o NextBytes(n)
      PROVE  InOrder'
  BY <1>1, <1>3, NextInOrder
<1>4. CASE Allocated /\ WriteToCaller
  <2>1. CASE mlen < 0
    BY <1>2, <1>4, <2>1, WriteStep
  <2>2. CASE mlen >= 0
    BY <1>3, <1>4, <2>2, WriteStep
  <2> QED BY <1>1, <2>1, <2>2
<1>5. ASSUME NEW size \in TakeSizes, TakeOutput(size)
      PROVE  InOrder'
  <2>1. TakesAll
    BY DEF OneWay
  <2> QED BY <1>3, <1>5, <2>1, TakeStep
<1>6. (\E room \in StreamRoom : StreamCall(room)) => delivered' = delivered
  BY DEF StreamCall
<1> QED BY <1>2, <1>4, <1>5, <1>6, DeliveredStep

\* The caller receives the decoded stream in order, without a gap, a repeat or
\* a byte that was not decoded, for every window, ring, limit and cut of the
\* output into calls, whichever of the two ways it stays with.
THEOREM DeliveredInOrder ==
  ASSUME OneWay
  PROVE  Spec => []DeliveredIsPrefix
<1>1. Init => InOrder
  BY EmptySeq DEF Init, InOrder
<1>2. ContentInv /\ Received /\ InOrder /\ [Next]_vars => InOrder'
  BY InOrderStep
<1>3. ContentInv /\ InOrder => DeliveredIsPrefix
  <2> SUFFICES ASSUME ContentInv PROVE Len(delivered) <= decoded
    BY DEF InOrder, DeliveredIsPrefix
  <2>1. /\ Len(delivered) \in Nat /\ partial_pos_out \in Nat /\ decoded \in Nat
        /\ Len(delivered) <= partial_pos_out /\ partial_pos_out <= decoded
    <3>1. /\ decoded = Base + pos /\ partial_pos_out <= Base + pos
          /\ Len(delivered) <= partial_pos_out
      BY DEF ContentInv, Inv, Cursors
    <3> QED BY <3>1, LenProperties DEF ContentInv, Inv, Types
  <2> QED BY <2>1
<1> QED BY <1>1, <1>2, <1>3, ReceivedInvariance, PTL DEF Spec

-----------------------------------------------------------------------------
(* What TakeOutput returns                                                 *)

\* When TakeOutput is asked for all there is, it returns as many bytes as it
\* counts as consumed, whatever else the caller does between its calls.
THEOREM TakingAllReturnsAll ==
  ASSUME TakeSizes \subseteq {0}, WindowSize <= TakeAll
  PROVE  Spec => TakenBytesAreReturned
<1> DEFINE Same == Len(delivered') - Len(delivered)
                     = partial_pos_out' - partial_pos_out
<1>1. ContentInv /\ [Next]_vars => Same
  <2> SUFFICES ASSUME ContentInv, [Next]_vars PROVE Same
    OBVIOUS
  <2>1. /\ Inv /\ Types /\ Cursors /\ delivered \in Seq(Byte)
        /\ Len(delivered) \in Nat /\ partial_pos_out \in Nat /\ mlen \in Int
    BY LenProperties DEF ContentInv, Inv, Types
  <2>2. ASSUME NEW r \in [Cells(ringbuffer_size) -> Byte], NEW avail \in Nat,
               Allocated, WriteRingBuffer(avail),
               delivered' = delivered \o Written(r, avail)
        PROVE  Same
    <3>1. /\ Written(r, avail) \in Seq(Byte) /\ NumWritten(avail) \in Nat
          /\ Len(Written(r, avail)) = IF mlen < 0 THEN 0 ELSE NumWritten(avail)
      BY <2>1, <2>2, WrittenFacts
    <3>2. Len(delivered') = Len(delivered) + Len(Written(r, avail))
      BY <2>1, <2>2, <3>1, ConcatProperties
    <3>3. partial_pos_out' = IF mlen < 0 THEN partial_pos_out
                             ELSE partial_pos_out + NumWritten(avail)
      BY <2>2 DEF WriteRingBuffer
    <3>4. CASE mlen < 0
      BY <2>1, <3>1, <3>2, <3>3, <3>4
    <3>5. CASE ~(mlen < 0)
      BY <2>1, <3>1, <3>2, <3>3, <3>5
    <3> QED BY <3>4, <3>5
  <2>3. CASE UNCHANGED <<delivered, partial_pos_out>>
    BY <2>1, <2>3
  <2>4. CASE Allocated /\ WriteToCaller
    <3>1. ring \in [Cells(ringbuffer_size) -> Byte] /\ available_out \in Nat
      BY <2>1, <2>4 DEF Types
    <3> QED BY <2>2, <2>4, <3>1 DEF WriteToCaller
  <2>5. ASSUME NEW size \in TakeSizes, TakeOutput(size)
        PROVE  Same
    <3> DEFINE content == IF should_wrap_ringbuffer THEN Wrapped(ring, pos)
                                                    ELSE ring
    <3>1. size = 0 /\ Allocated /\ WriteRingBuffer(TakeAll)
      BY <2>5 DEF TakeOutput
    <3>2. content \in [Cells(ringbuffer_size) -> Byte]
      <4>1. CASE should_wrap_ringbuffer
        <5>1. pos <= Slack /\ pos \in Nat
          BY <2>1, <4>1, SizeFacts DEF Cursors, Types
        <5> QED BY <2>1, <3>1, <4>1, <5>1, WrappedType
      <4>2. CASE ~should_wrap_ringbuffer
        BY <2>1, <3>1, <4>2 DEF Types
      <4> QED BY <4>1, <4>2
    <3>3. delivered' = delivered \o
            (IF WriteStatus(TakeAll, TRUE) = "SUCCESS"
             THEN Written(content, TakeAll) ELSE <<>>)
      BY <2>5, <3>1 DEF TakeOutput
    <3> HIDE DEF content, Same
    <3>4. TakeAll \in Nat
      BY DEF TakeAll
    <3>5. CASE mlen >= 0
      <4>1. WriteStatus(TakeAll, TRUE) = "SUCCESS"
        BY <2>1, <3>1, <3>5, TakeAllTakesAll
      <4>2. delivered' = delivered \o Written(content, TakeAll)
        BY <3>3, <4>1
      <4> QED BY <2>2, <3>1, <3>2, <3>4, <4>2
    <3>6. CASE mlen < 0
      <4>1. delivered' = delivered \o Written(content, TakeAll)
        BY <3>3, <3>6 DEF WriteStatus, Written
      <4> QED BY <2>2, <3>1, <3>2, <3>4, <4>1
    <3> QED BY <2>1, <3>5, <3>6
  <2>6. (\E room \in StreamRoom : StreamCall(room)) =>
          UNCHANGED <<delivered, partial_pos_out>>
    BY DEF StreamCall, ringVars
  <2> HIDE DEF Same
  <2> QED BY <2>3, <2>4, <2>5, <2>6, DeliveredStep
<1>2. Same => (call = "idle" /\ call' = "idle" =>
                 Len(delivered') - Len(delivered)
                   = partial_pos_out' - partial_pos_out)
  OBVIOUS
<1> HIDE DEF Same
<1> QED BY <1>1, <1>2, ContentInvariance, PTL DEF Spec, TakenBytesAreReturned

-----------------------------------------------------------------------------
(* The queue of OutputStream                                               *)

\* A step that delivers nothing inside a call decodes, or does nothing.
LEMMA DecodeIsDecode ==
  ASSUME ContentInv, Running, NEW m \in Nat, decoded' = decoded + m,
         UNCHANGED <<delivered, available_out>>, call' = "running"
  PROVE  Stream!Next
<1>1. decoded \in Nat /\ decoded + m \in Nat /\ decoded + m >= decoded
  BY DEF ContentInv, Inv, Types
<1>2. decoded' \in Nat /\ decoded' >= decoded
  BY <1>1
<1> QED BY <1>2 DEF Stream!Next, Stream!Decode, Running

\* A step that ends the call with an error and delivers nothing.
LEMMA FailIsFail ==
  ASSUME call = "running", call' = "idle", result' = "ERROR",
         UNCHANGED <<decoded, delivered, available_out>>
  PROVE  Stream!Next
BY DEF Stream!Next, Stream!Fail

\* A write to the caller is a write of the queue, or fails and delivers
\* nothing.
LEMMA WriteIsWrite ==
  ASSUME ContentInv, Received, OneWay, Allocated, WriteToCaller,
         call = "running", decoded' = decoded,
         mlen < 0 => call' = "idle" /\ result' = "ERROR",
         mlen >= 0 =>
           \/ call' = "running"
           \/ /\ call' = "idle" /\ result' = "NEEDS_MORE_OUTPUT"
              /\ NumWritten(available_out) < ToWrite
           \/ /\ call' = "idle" /\ result' = "NEEDS_MORE_INPUT" /\ ~Brim
           \/ /\ call' = "idle" /\ result' = "SUCCESS" /\ ~Brim
              /\ ~(NumWritten(available_out) < ToWrite)
  PROVE  Stream!Next
<1>1. /\ Inv /\ Types /\ Cursors /\ mlen \in Int /\ available_out \in Nat
      /\ delivered \in Seq(Byte)
      /\ Len(delivered) = partial_pos_out /\ partial_pos_out \in Nat
      /\ available_out' = IF mlen < 0 THEN available_out
                          ELSE available_out - NumWritten(available_out)
  BY DEF ContentInv, Inv, Types, Received, WriteToCaller
<1>2. CASE mlen < 0
  <2>1. delivered' = delivered
    BY <1>2, WriteStep
  <2> QED BY <1>1, <1>2, <2>1, FailIsFail
<1>3. CASE ~(mlen < 0)
  <2>0. mlen >= 0
    BY <1>1, <1>3
  <2> DEFINE n == NumWritten(available_out)
  <2>1. /\ delivered' = delivered \o NextBytes(n)
        /\ n \in Nat /\ n <= decoded - Len(delivered) /\ Len(delivered) \in Nat
    BY <1>1, <2>0, WriteStep
  <2>2. /\ ToWrite \in Nat /\ decoded \in Nat
        /\ ToWrite <= decoded - partial_pos_out
        /\ ~Brim => ToWrite = decoded - partial_pos_out
    <3>1. /\ ToWrite \in Nat
          /\ ToWrite = (IF pos > ringbuffer_size THEN Base + ringbuffer_size
                        ELSE Base + pos) - partial_pos_out
      BY <1>1, UnwrittenFacts
    <3>2. /\ ringbuffer_size \in Nat \ {0} /\ Base \in Nat /\ pos \in Nat
          /\ decoded \in Nat /\ decoded = Base + pos
          /\ ~Brim => pos < ringbuffer_size
      BY <1>1, RingFacts
    <3> QED BY <1>1, <3>1, <3>2
  <2>3. /\ n <= available_out
        /\ n < ToWrite => n = available_out
        /\ n = ToWrite \/ n = available_out
    BY <1>1, <2>2 DEF NumWritten
  <2>4. /\ delivered' = delivered \o Stream!Next_(n)
        /\ available_out' = available_out - n
    BY <1>1, <1>3, <2>1 DEF Stream!Next_, NextBytes
  <2>5. n \in 0..Stream!Pending /\ n <= Stream!Pending
    BY <1>1, <2>1, <2>2 DEF Stream!Pending
  <2>6. \/ call' = "running"
        \/ /\ call' = "idle" /\ result' = "NEEDS_MORE_OUTPUT"
           /\ n < Stream!Pending /\ n = available_out
        \/ /\ call' = "idle" /\ result' = "NEEDS_MORE_INPUT"
           /\ n = Stream!Pending \/ n = available_out
        \/ /\ call' = "idle" /\ result' = "SUCCESS" /\ n = Stream!Pending
    <3>1. n < ToWrite => n < Stream!Pending /\ n = available_out
      BY <1>1, <2>1, <2>2, <2>3 DEF Stream!Pending
    <3>2. ~Brim => n = Stream!Pending \/ n = available_out
      BY <1>1, <2>2, <2>3 DEF Stream!Pending
    <3>3. ~Brim /\ ~(n < ToWrite) => n = Stream!Pending
      BY <1>1, <2>1, <2>2, <2>3 DEF Stream!Pending
    <3> QED BY <2>0, <3>1, <3>2, <3>3
  <2> HIDE DEF n
  <2>7. Stream!Write(n)
    BY <2>3, <2>4, <2>5, <2>6 DEF Stream!Write
  <2> QED BY <2>5, <2>7 DEF Stream!Next
<1> QED BY <1>2, <1>3

\* The steps that write and the return of a call are steps of the queue.
LEMMA WritingIsStep ==
  ASSUME ContentInv, Received, OneWay,
         WriteAndWrap \/ WriteUncompressed \/ FinishStream \/ FlushForInput
  PROVE  Stream!Next
<1>1. /\ Inv /\ call = "running" /\ mlen \in Int /\ decoded' = decoded
      /\ available_out \in Nat
  BY DEF ContentInv, Inv, Types, Running, WriteAndWrap, WriteUncompressed,
         FinishStream, FlushForInput, streamVars
<1>2. CASE WriteAndWrap \/ WriteUncompressed
  <2> DEFINE status == WriteStatus(available_out, FALSE)
  <2>1. /\ WriteToCaller /\ result' = status
        /\ call' = IF status \in {"SUCCESS", "NEEDS_MORE_INPUT"} THEN call
                   ELSE "idle"
    BY <1>2 DEF WriteAndWrap, WriteUncompressed, Outcome
  <2>2. Allocated
    BY <1>1, <1>2 DEF WriteAndWrap, WriteUncompressed, Inv, Control,
                      WriteStates
  <2>3. /\ mlen < 0 => status = "ERROR"
        /\ mlen >= 0 => \/ status = "SUCCESS"
                        \/ /\ status = "NEEDS_MORE_OUTPUT"
                           /\ NumWritten(available_out) < ToWrite
    BY <1>1 DEF WriteStatus
  <2> HIDE DEF status
  <2>4. /\ mlen < 0 => call' = "idle" /\ result' = "ERROR"
        /\ mlen >= 0 => \/ call' = "running"
                        \/ /\ call' = "idle" /\ result' = "NEEDS_MORE_OUTPUT"
                           /\ NumWritten(available_out) < ToWrite
    BY <1>1, <2>1, <2>3
  <2> QED BY <1>1, <2>1, <2>2, <2>4, WriteIsWrite
<1>3. CASE FinishStream /\ Allocated
  <2>1. /\ WriteToCaller /\ result' = WriteStatus(available_out, TRUE)
        /\ call' = "idle"
    BY <1>3 DEF FinishStream
  <2>2. ~Brim /\ mlen = 0
    BY <1>1, <1>3 DEF FinishStream, Inv, Types, Control, Brim, WriteStates
  <2>3. \/ /\ result' = "NEEDS_MORE_OUTPUT"
           /\ NumWritten(available_out) < ToWrite
        \/ result' = "SUCCESS" /\ ~(NumWritten(available_out) < ToWrite)
    BY <2>1, <2>2 DEF WriteStatus
  <2>4. mlen >= 0 /\ ~(mlen < 0)
    BY <2>2
  <2> QED BY <1>1, <1>3, <2>1, <2>2, <2>3, <2>4, WriteIsWrite
<1>4. CASE FlushForInput /\ Allocated
  <2>1. /\ WriteToCaller
        /\ mlen < 0 => result' = "ERROR" /\ call' = "idle"
        /\ ~(mlen < 0) =>
             \/ call' = call
             \/ call' = "idle" /\ result' = result
        /\ result = "NEEDS_MORE_INPUT"
    BY <1>4 DEF FlushForInput
  <2>2. ~Brim
    BY <1>1, <2>1 DEF Inv, Types, Control, Brim, ReadStates, WriteStates
  <2>3. mlen >= 0 => \/ call' = "running"
                     \/ call' = "idle" /\ result' = "NEEDS_MORE_INPUT"
    BY <1>1, <2>1
  <2> QED BY <1>1, <1>4, <2>1, <2>2, <2>3, WriteIsWrite
<1>5. CASE (FinishStream \/ FlushForInput) /\ ~Allocated
  <2>1. /\ Len(delivered) \in Nat /\ decoded = 0 /\ Len(delivered) = 0
        /\ delivered \in Seq(Byte)
    <3>1. decoded = 0 /\ partial_pos_out = 0
      BY <1>1, <1>5 DEF Inv, Types, Control, Cursors, Allocated, Base
    <3> QED BY <1>1, <3>1 DEF Inv, Types, Received
  <2>2. /\ UNCHANGED <<delivered, available_out, decoded>>
        /\ \/ call' = "running"
           \/ call' = "idle" /\ result' \in {"SUCCESS", "NEEDS_MORE_INPUT"}
    BY <1>1, <1>5 DEF FinishStream, FlushForInput
  <2>3. Stream!Pending = 0
    BY <2>1 DEF Stream!Pending
  <2>4. delivered = delivered \o Stream!Next_(0)
    <3>1. Stream!Next_(0) = <<>>
      BY DEF Stream!Next_
    <3> QED BY <2>1, <3>1, ConcatEmptySeq
  <2>5. available_out = available_out - 0
    BY <1>1
  <2>6. Stream!Write(0)
    BY <1>1, <2>2, <2>3, <2>4, <2>5 DEF Stream!Write
  <2> QED BY <2>3, <2>6 DEF Stream!Next
<1> QED BY <1>2, <1>3, <1>4, <1>5

\* The steps that decode are decoding steps of the queue, or failures.
LEMMA DecodingIsStep ==
  ASSUME ContentInv,
         \/ Decode
         \/ CopyUncompressedBytes(0)
         \/ WrapCopyByte
         \/ WrapCopyDone
         \/ FinishMetablock
         \/ RunOutOfInput
         \/ FormatError
  PROVE  Stream!Next
<1>1. Running /\ call = "running" /\ decoded \in Nat
  BY DEF Decode, ReadMetablockHeader, ReadCommand, DecodeLiteral,
         CopyFromWindow, CopyDictionaryWord, CopyUncompressedBytes,
         WrapCopyByte, WrapCopyDone, FinishMetablock, RunOutOfInput,
         FormatError, Running, ContentInv, Inv, Types
<1>2. UNCHANGED <<delivered, available_out>>
  BY DEF Decode, ReadMetablockHeader, ReadCommand, DecodeLiteral,
         CopyFromWindow, CopyDictionaryWord, CopyUncompressedBytes,
         WrapCopyByte, WrapCopyDone, FinishMetablock, RunOutOfInput,
         FormatError, Continue, callVars
<1>3. \/ call' = "running" /\ (\E m \in Nat : decoded' = decoded + m)
      \/ call' = "idle" /\ result' = "ERROR" /\ decoded' = decoded
  <2>0. decoded = decoded + 0 /\ 0 \in Nat
    BY <1>1
  <2>1. CASE Decode
    <3>1. ASSUME NEW last \in BOOLEAN, NEW uncompressed \in BOOLEAN,
                 NEW peeked \in BOOLEAN, NEW len \in BlockLengths \cup {0},
                 ReadMetablockHeader(last, uncompressed, len, peeked)
          PROVE  call' = "running" /\ decoded' = decoded
      BY <1>1, <3>1 DEF ReadMetablockHeader, Continue, callVars
    <3>2. ASSUME NEW insert \in InsertLengths, ReadCommand(insert)
          PROVE  call' = "running" /\ decoded' = decoded
      BY <1>1, <3>2 DEF ReadCommand, Continue, callVars
    <3>3. CASE DecodeLiteral
      BY <1>1, <3>3 DEF DecodeLiteral, Continue, callVars
    <3>4. ASSUME NEW d \in 1..MaxBackwardDistance, NEW n \in CopyLengths,
                 CopyFromWindow(d, n)
          PROVE  /\ call' = "running" /\ n \in Nat
                 /\ decoded' = decoded \/ decoded' = decoded + n
      BY <1>1, <3>4, RingConstants DEF CopyFromWindow, Continue, callVars
    <3>5. ASSUME NEW n \in WordLengths, CopyDictionaryWord(n)
          PROVE  call' = "running" /\ n \in Nat /\ decoded' = decoded + n
      BY <1>1, <3>5, RingConstants DEF CopyDictionaryWord, Continue, callVars
    <3>6. ASSUME NEW n \in 1..WindowSize, CopyUncompressedBytes(n)
          PROVE  call' = "running" /\ n \in Nat /\ decoded' = decoded + n
      BY <1>1, <3>6, SizeFacts DEF CopyUncompressedBytes, Outcome
    <3> QED BY <2>0, <2>1, <3>1, <3>2, <3>3, <3>4, <3>5, <3>6 DEF Decode
  <2>2. CASE CopyUncompressedBytes(0) \/ WrapCopyByte \/ WrapCopyDone
    BY <1>1, <2>0, <2>2 DEF CopyUncompressedBytes, WrapCopyByte, WrapCopyDone,
                            Outcome, Continue, callVars
  <2>3. CASE FinishMetablock \/ RunOutOfInput \/ FormatError
    BY <1>1, <2>0, <2>3 DEF FinishMetablock, RunOutOfInput, FormatError,
                            Outcome, streamVars
  <2> QED BY <2>1, <2>2, <2>3
<1> QED BY <1>1, <1>2, <1>3, DecodeIsDecode, FailIsFail

\* The output side starts as the queue does.
LEMMA InitIsStreamInit == Init => Stream!Init
BY DEF Init, Stream!Init

\* What TakeOutput hands out is taken from the queue.
LEMMA TakingIsStep ==
  ASSUME ContentInv, Received, OneWay, NEW size \in TakeSizes,
         TakeOutput(size)
  PROVE  Stream!Next
<1>1. TakesAll
  BY DEF OneWay
<1>2. PICK n \in Nat : /\ n <= decoded - Len(delivered)
                       /\ delivered' = delivered \o NextBytes(n)
  BY <1>1, TakeStep
<1>3. /\ call = "idle" /\ result # "ERROR" /\ result # "RUNNING"
      /\ UNCHANGED <<decoded, available_out, call, result>>
  BY DEF TakeOutput, Fatal, streamVars, ContentInv, Inv, Types, Results
<1>4. n \in 0..Stream!Pending /\ n <= Stream!Pending
  <2>1. Len(delivered) \in Nat /\ decoded \in Nat
    BY LenProperties DEF ContentInv, Inv, Types
  <2> QED BY <1>2, <2>1 DEF Stream!Pending
<1>5. delivered' = delivered \o Stream!Next_(n)
  BY <1>2 DEF Stream!Next_, NextBytes
<1>6. Stream!Take(n)
  BY <1>3, <1>4, <1>5 DEF Stream!Take
<1> QED BY <1>4, <1>6 DEF Stream!Next

\* Every step of the output side is a step of the queue, or none.
LEMMA StepIsStreamStep ==
  ASSUME ContentInv, Received, OneWay, [Next]_vars
  PROVE  [Stream!Next]_(Stream!vars)
<1>1. CASE UNCHANGED vars \/ StreamCallAfterError
  BY <1>1 DEF StreamCallAfterError, vars, streamVars, callVars, Stream!vars
<1>2. ASSUME NEW room \in StreamRoom, StreamCall(room)
      PROVE  Stream!Next
  <2>1. room \in Nat /\ result \in Results
    BY RingConstants DEF ContentInv, Inv, Types
  <2>2. /\ call = "idle" /\ result # "ERROR" /\ result # "RUNNING"
        /\ call' = "running" /\ available_out' \in Nat
        /\ UNCHANGED <<decoded, delivered>>
    BY <1>2, <2>1 DEF StreamCall, Fatal, Results, streamVars
  <2> QED BY <2>2 DEF Stream!Next, Stream!Call
<1>3. CASE WriteAndWrap \/ WriteUncompressed \/ FinishStream \/ FlushForInput
  BY <1>3, WritingIsStep
<1>4. CASE \/ Decode \/ CopyUncompressedBytes(0) \/ WrapCopyByte
           \/ WrapCopyDone \/ FinishMetablock \/ RunOutOfInput \/ FormatError
  BY <1>4, DecodingIsStep
<1>5. ASSUME NEW size \in TakeSizes, TakeOutput(size)
      PROVE  Stream!Next
  BY <1>5, TakingIsStep
<1> QED BY <1>1, <1>2, <1>3, <1>4, <1>5 DEF Next, Internal

\* To a caller that stays with one way of receiving output, stream calls or
\* TakeOutput, the ring, its wraps and its slack are invisible: the output side
\* is a queue that hands out the next bytes, asks for room only when it has
\* more, asks for input only when nothing it has room for is held back, and
\* succeeds only when everything was handed out.
THEOREM RingImplementsQueue ==
  ASSUME OneWay
  PROVE  Spec => ImplementsOutputStream
<1>1. ContentInv /\ Received /\ [Next]_vars => [Stream!Next]_(Stream!vars)
  BY StepIsStreamStep
<1> QED BY <1>1, InitIsStreamInit, ReceivedInvariance, PTL
        DEF Spec, Stream!Spec, ImplementsOutputStream
=============================================================================
