------------------------ MODULE StreamHeader_proofs ------------------------
(***************************************************************************)
(* Theorems about StreamHeader, for all values of nibbles, bytes and       *)
(* offsets and any number of meta-blocks.                                  *)
(*                                                                         *)
(* The inductive invariant says of every place where a call may end what   *)
(* the fields read so far are and what the decoder has kept of them: how   *)
(* many digits of a length were read, and that the sum so far is their     *)
(* number (LengthSoFar); that the width of a number of block types is in   *)
(* the place of the result (CountSoFar); that the context modes read so    *)
(* far are the first of the list (ModesSoFar).  Position makes these hold  *)
(* while a call runs and between two calls: it is the local counter of a   *)
(* loop, or the saved one.                                                 *)
(***************************************************************************)
EXTENDS StreamHeader, SequenceTheorems, TLAPS

Errors ==
  {"ERROR_FORMAT_WINDOW_BITS", "ERROR_FORMAT_PADDING_2",
   "ERROR_FORMAT_EXUBERANT_NIBBLE", "ERROR_FORMAT_EXUBERANT_META_NIBBLE",
   "ERROR_FORMAT_RESERVED"}

Substates ==
  {"NONE", "EMPTY", "NIBBLES", "SIZE", "UNCOMPRESSED", "RESERVED", "BYTES", "METADATA"}

Types ==
  /\ running \in BOOLEAN /\ large_window \in BOOLEAN /\ asked_large \in BOOLEAN
  /\ window_bits \in Nat
  /\ substate_metablock_header \in Substates
  /\ is_last_metablock \in 0..1 /\ is_uncompressed \in 0..1 /\ is_metadata \in 0..1
  /\ meta_block_remaining_len \in Nat /\ skipped \in Nat
  /\ size_nibbles \in Nat
  /\ loop_counter \in Nat /\ i \in Nat
  /\ num_block_types \in [Categories -> Nat]
  /\ read \in Seq(Nat)

\* Where a loop over a local counter stands, also between two calls.
Position == IF running THEN i ELSE loop_counter

\* Which fields a header begins with, of n that were read.
Begun(n) ==
  /\ part = "header" /\ Len(read) = n /\ n >= 1
  /\ read[1] = is_last_metablock
  /\ is_last_metablock = 1 /\ n >= 2 => read[2] = 0

\* The field that has the number of digits.
SizeField == IF is_last_metablock = 1 THEN 3 ELSE 2

\* n digits of a length, or of a length of metadata, were read.
SizeRead(n) ==
  /\ is_metadata = 0
  /\ size_nibbles \in 4..6 /\ n \in 0..size_nibbles
  /\ Begun(SizeField + n) /\ read[SizeField] = size_nibbles - 4
  /\ meta_block_remaining_len = Number(read, SizeField, n, 4)

MetadataRead(n) ==
  /\ is_metadata = 1
  /\ size_nibbles \in 1..3 /\ n \in 0..size_nibbles
  /\ Begun(SizeField + 2 + n)
  /\ read[SizeField] = 3 /\ read[SizeField + 2] = size_nibbles
  /\ meta_block_remaining_len = Number(read, SizeField + 2, n, 8)

NoDigitYet == meta_block_remaining_len = 0

LengthSoFar ==
  /\ substate_metablock_header # "NONE" /\ state \notin Errors =>
       state = "METABLOCK_HEADER" /\ skipped = 0 /\ is_uncompressed = 0
  /\ state = "METABLOCK_HEADER" =>
       /\ substate_metablock_header = "EMPTY" =>
            is_last_metablock = 1 /\ Begun(1) /\ is_metadata = 0 /\ NoDigitYet
       /\ substate_metablock_header = "NIBBLES" =>
            Begun(SizeField - 1) /\ is_metadata = 0 /\ NoDigitYet
       /\ substate_metablock_header = "SIZE" =>
            SizeRead(Position) /\ Position < size_nibbles
       /\ substate_metablock_header = "RESERVED" =>
            /\ Begun(SizeField) /\ read[SizeField] = 3
            /\ is_metadata = 1 /\ NoDigitYet /\ loop_counter = 0
       /\ substate_metablock_header = "BYTES" =>
            /\ Begun(SizeField + 1) /\ read[SizeField] = 3
            /\ is_metadata = 1 /\ NoDigitYet /\ loop_counter = 0
       /\ substate_metablock_header = "METADATA" =>
            MetadataRead(Position) /\ Position < size_nibbles
       /\ substate_metablock_header = "UNCOMPRESSED" =>
            SizeRead(size_nibbles) \/ MetadataRead(size_nibbles)

CountStates == {"HUFFMAN_CODE_0", "HUFFMAN_CODE_1", "METABLOCK_HEADER_2"}

CountSoFar ==
  /\ substate_decode_uint8 \in {"NONE", "SHORT", "LONG"}
  /\ part = "count" => state \in CountStates
  /\ state = "HUFFMAN_CODE_1" => loop_counter \in 0..2
  /\ part = "count" /\ substate_decode_uint8 = "NONE" /\ state # "HUFFMAN_CODE_1" =>
       loop_counter \in 1..3
  /\ substate_decode_uint8 # "NONE" =>
       /\ state = "HUFFMAN_CODE_0" /\ loop_counter \in 0..2
       /\ part = "count" /\ read # <<>> /\ read[1] = 1
       /\ substate_decode_uint8 = "SHORT" => Len(read) = 1
       /\ substate_decode_uint8 = "LONG" =>
            /\ Len(read) = 2 /\ read[2] \in 1..7
            /\ num_block_types[loop_counter] = read[2]

\* Every category has a block type, once a meta-block has begun.
ModesSoFar ==
  /\ state \in CountStates \cup {"METABLOCK_HEADER", "CONTEXT_MODES"} =>
       \A c \in Categories : num_block_types[c] >= 1
  /\ part = "modes" => state \in {"CONTEXT_MODES", "CONTEXT_MAP_1"}
  /\ state = "CONTEXT_MODES" =>
       /\ Position < num_block_types[0]
       /\ context_modes \in [1..num_block_types[0] -> Nat]
       /\ IF Position = 0 THEN part = "distances"
          ELSE /\ part = "modes" /\ Len(read) = Position
               /\ \A k \in 1..Position : context_modes[k] = read[k]

\* The fields of the window and what the decoder made of them.
SmallWindow ==
  \/ read = <<0>> /\ window_bits = 16
  \/ \E n \in 1..7 : read = <<1 + 2 * n>> /\ window_bits = 17 + n
  \/ read = <<1>> /\ window_bits = 17
  \/ \E n \in 2..7 : read = <<1 + 16 * n>> /\ window_bits = 8 + n

WindowSoFar ==
  /\ state \in {"UNINITED", "LARGE_WINDOW_BITS"} => part = "window"
  /\ part = "window" =>
       \/ state = "UNINITED" /\ read = <<>> /\ large_window = asked_large
       \/ state = "LARGE_WINDOW_BITS" /\ read = <<17>>
       \/ state = "METABLOCK_HEADER"
       \/ /\ state = "METABLOCK_BEGIN"
          /\ SmallWindow \/ (window_bits \in 10..30 /\ read = <<17, window_bits>>)
       \/ /\ state = "ERROR_FORMAT_WINDOW_BITS"
          /\ \/ ~asked_large
             \/ read = <<145>>
             \/ \E n \in (0..63) \ (10..30) : read = <<17, n>>

Inv ==
  /\ Types
  /\ LengthSoFar /\ HeaderAsSaid
  /\ CountSoFar /\ CountAsSaid
  /\ ModesSoFar /\ ModesAsSaid
  /\ WindowSoFar

-----------------------------------------------------------------------------
(* Numbers given by their digits                                           *)

\* The place values of digits are natural numbers.
LEMMA PlaceValues ==
  ASSUME NEW w \in {4, 8}, NEW k \in Nat, w * k <= 24
  PROVE  2^(w * k) \in Nat
<1>1. CASE w = 4
  <2>0. 2^0 \in Nat /\ 2^4 \in Nat /\ 2^8 \in Nat /\ 2^12 \in Nat /\ 2^16 \in Nat
        /\ 2^20 \in Nat /\ 2^24 \in Nat
    OBVIOUS
  <2>1. w * k \in {0, 4, 8, 12, 16, 20, 24}
    BY <1>1
  <2> QED
    BY <2>0, <2>1
<1>2. CASE w = 8
  <2>0. 2^0 \in Nat /\ 2^8 \in Nat /\ 2^16 \in Nat /\ 2^24 \in Nat
    OBVIOUS
  <2>1. w * k \in {0, 8, 16, 24}
    BY <1>2
  <2> QED
    BY <2>0, <2>1
<1> QED
  BY <1>1, <1>2

LEMMA CountPower ==
  ASSUME NEW w \in 1..7
  PROVE  2^w \in Nat /\ 2^w >= 1
<1>1. CASE w = 1
  BY <1>1
<1>2. CASE w = 2
  BY <1>2
<1>3. CASE w = 3
  BY <1>3
<1>4. CASE w = 4
  BY <1>4
<1>5. CASE w = 5
  BY <1>5
<1>6. CASE w = 6
  BY <1>6
<1>7. CASE w = 7
  BY <1>7
<1> QED
  BY <1>1, <1>2, <1>3, <1>4, <1>5, <1>6, <1>7

\* A digit is a natural number times its place value.
LEMMA DigitIsNat ==
  ASSUME NEW f \in Seq(Nat), NEW at \in Nat, NEW k \in Nat, NEW w \in {4, 8},
         k >= 1, at + k <= Len(f), w * (k - 1) <= 24
  PROVE  f[at + k] * 2^(w * (k - 1)) \in Nat
<1>1. f[at + k] \in Nat
  BY LenProperties
<1>2. 2^(w * (k - 1)) \in Nat
  <2>1. k - 1 \in Nat
    OBVIOUS
  <2> QED
    BY <2>1, PlaceValues
<1> DEFINE x == f[at + k]
           y == 2^(w * (k - 1))
<1> HIDE DEF x, y
<1>3. x \in Nat /\ y \in Nat => x * y \in Nat
  OBVIOUS
<1> QED
  BY <1>1, <1>2, <1>3 DEF x, y

LEMMA NumberIsNat ==
  ASSUME NEW f \in Seq(Nat), NEW at \in Nat, NEW n \in Nat, NEW w \in {4, 8},
         at + n <= Len(f), w * n <= 28
  PROVE  Number(f, at, n, w) \in Nat
<1> DEFINE digit(k) == IF k <= n THEN f[at + k] * 2^(w * (k - 1)) ELSE 0
<1>1. \A k \in 1..7 : digit(k) \in Nat
  <2> TAKE k \in 1..7
  <2>1. CASE k <= n
    <3>1. w * (k - 1) <= 24 /\ at + k <= Len(f) /\ k \in Nat /\ k >= 1
      BY <2>1, LenProperties
    <3> QED
      BY <3>1, <2>1, DigitIsNat
  <2>2. CASE k > n
    BY <2>2
  <2> QED
    BY <2>1, <2>2
<1>2. Number(f, at, n, w) =
        digit(1) + digit(2) + digit(3) + digit(4) + digit(5) + digit(6) + digit(7)
  BY DEF Number
<1> HIDE DEF digit
<1>3. /\ digit(1) \in Nat /\ digit(2) \in Nat /\ digit(3) \in Nat /\ digit(4) \in Nat
      /\ digit(5) \in Nat /\ digit(6) \in Nat /\ digit(7) \in Nat
  BY <1>1
<1>4. PICK d1 \in Nat, d2 \in Nat, d3 \in Nat, d4 \in Nat, d5 \in Nat, d6 \in Nat,
           d7 \in Nat :
        /\ d1 = digit(1) /\ d2 = digit(2) /\ d3 = digit(3) /\ d4 = digit(4)
        /\ d5 = digit(5) /\ d6 = digit(6) /\ d7 = digit(7)
  BY <1>3, Zenon
<1>5. Number(f, at, n, w) = d1 + d2 + d3 + d4 + d5 + d6 + d7
  BY <1>2, <1>4, Zenon
<1> QED
  BY <1>5

LEMMA NumberOfNone ==
  ASSUME NEW f, NEW at, NEW w
  PROVE  Number(f, at, 0, w) = 0
BY DEF Number

\* A field more does not change the number of the digits in front of it.
LEMMA NumberStays ==
  ASSUME NEW f \in Seq(Nat), NEW v \in Nat, NEW at \in Nat, NEW n \in Nat, NEW w,
         at + n <= Len(f)
  PROVE  Number(Append(f, v), at, n, w) = Number(f, at, n, w)
<1>1. \A k \in 1..n : Append(f, v)[at + k] = f[at + k]
  BY AppendProperties, LenProperties
<1> DEFINE g == Append(f, v)
<1> HIDE DEF g
<1>2. \A k \in 1..n : g[at + k] = f[at + k]
  BY <1>1 DEF g
<1>3. Number(g, at, n, w) = Number(f, at, n, w)
  BY <1>2 DEF Number
<1> QED
  BY <1>3 DEF g

\* A digit more counts at its place.
LEMMA NumberGrows ==
  ASSUME NEW f \in Seq(Nat), NEW v \in Nat, NEW at \in Nat, NEW n \in Nat, NEW w \in {4, 8},
         at + n = Len(f), w * n <= 24
  PROVE  Number(Append(f, v), at, n + 1, w) = Number(f, at, n, w) + v * 2^(w * n)
<1> DEFINE g == Append(f, v)
           digit(k) == f[at + k] * 2^(w * (k - 1))
           new == v * 2^(w * n)
           sum(m) == (IF 1 <= m THEN digit(1) ELSE 0) + (IF 2 <= m THEN digit(2) ELSE 0)
                   + (IF 3 <= m THEN digit(3) ELSE 0) + (IF 4 <= m THEN digit(4) ELSE 0)
                   + (IF 5 <= m THEN digit(5) ELSE 0) + (IF 6 <= m THEN digit(6) ELSE 0)
                   + (IF 7 <= m THEN digit(7) ELSE 0)
<1>1. /\ g[at + n + 1] = v
      /\ \A k \in 1..n : g[at + k] = f[at + k]
  BY AppendProperties, LenProperties
<1>2. \A k \in 1..n : digit(k) \in Nat
  <2> TAKE k \in 1..n
  <2>1. w * (k - 1) <= 24 /\ at + k <= Len(f) /\ k \in Nat /\ k >= 1
    OBVIOUS
  <2> QED
    BY <2>1, DigitIsNat
<1>3. new \in Nat
  <2>1. 2^(w * n) \in Nat
    BY PlaceValues
  <2> DEFINE y == 2^(w * n)
  <2> HIDE DEF y
  <2>2. y \in Nat => v * y \in Nat
    OBVIOUS
  <2> QED
    BY <2>1, <2>2 DEF y
<1>4. n \in 0..6
  OBVIOUS
<1>5. Number(f, at, n, w) = sum(n)
  BY DEF Number
<1>6. Number(g, at, n + 1, w) = sum(n) + new
  <2> DEFINE place(k) == IF k <= n + 1 THEN g[at + k] * 2^(w * (k - 1)) ELSE 0
  <2>1. \A k \in 1..n : place(k) = digit(k)
    BY <1>1
  <2>2. place(n + 1) = new
    <3>1. at + (n + 1) = at + n + 1 /\ (n + 1) - 1 = n
      OBVIOUS
    <3> QED
      BY <1>1, <3>1
  <2>3. \A k \in (n + 2)..7 : place(k) = 0
    OBVIOUS
  <2>4. Number(g, at, n + 1, w) =
          place(1) + place(2) + place(3) + place(4) + place(5) + place(6) + place(7)
    BY DEF Number
  <2> HIDE DEF place, digit, new, g
  <2> DEFINE a(k) == IF k <= n THEN digit(k) ELSE 0
             b(k) == IF k = n + 1 THEN new ELSE 0
  <2>5. ASSUME NEW k \in 1..7
        PROVE  a(k) \in Nat /\ place(k) = a(k) + b(k)
    <3>1. CASE k <= n
      <4>1. a(k) = digit(k) /\ digit(k) \in Nat /\ b(k) = 0 /\ place(k) = digit(k)
        BY <3>1, <1>2, <1>4, <2>1
      <4> HIDE DEF a, b
      <4> QED
        BY <4>1
    <3>2. CASE k = n + 1
      <4>1. a(k) = 0 /\ b(k) = new /\ place(k) = new
        BY <3>2, <1>4, <2>2
      <4> HIDE DEF a, b
      <4> QED
        BY <4>1, <1>3
    <3>3. CASE k > n + 1
      <4>1. a(k) = 0 /\ b(k) = 0 /\ place(k) = 0
        BY <3>3, <1>4, <2>3
      <4> HIDE DEF a, b
      <4> QED
        BY <4>1
    <3> QED
      BY <3>1, <3>2, <3>3, <1>4
  <2>6. sum(n) = a(1) + a(2) + a(3) + a(4) + a(5) + a(6) + a(7)
    OBVIOUS
  <2> HIDE DEF a, sum
  <2>7. PICK a1 \in Nat, a2 \in Nat, a3 \in Nat, a4 \in Nat, a5 \in Nat, a6 \in Nat,
             a7 \in Nat :
          /\ a1 = a(1) /\ a2 = a(2) /\ a3 = a(3) /\ a4 = a(4)
          /\ a5 = a(5) /\ a6 = a(6) /\ a7 = a(7)
    <3>1. /\ a(1) \in Nat /\ a(2) \in Nat /\ a(3) \in Nat /\ a(4) \in Nat
          /\ a(5) \in Nat /\ a(6) \in Nat /\ a(7) \in Nat
      BY <2>5
    <3> QED
      BY <3>1, Zenon
  <2>8. PICK last \in Nat : last = new
    BY <1>3, Zenon
  <2> DEFINE c(k) == IF n = k THEN last ELSE 0
  <2>9. /\ place(1) = a1 + c(0) /\ place(2) = a2 + c(1) /\ place(3) = a3 + c(2)
        /\ place(4) = a4 + c(3) /\ place(5) = a5 + c(4) /\ place(6) = a6 + c(5)
        /\ place(7) = a7 + c(6)
    <3>1. /\ place(1) = a(1) + b(1) /\ place(2) = a(2) + b(2) /\ place(3) = a(3) + b(3)
          /\ place(4) = a(4) + b(4) /\ place(5) = a(5) + b(5) /\ place(6) = a(6) + b(6)
          /\ place(7) = a(7) + b(7)
      <4> HIDE DEF b
      <4> QED
        BY <2>5
    <3>2. /\ b(1) = c(0) /\ b(2) = c(1) /\ b(3) = c(2) /\ b(4) = c(3)
          /\ b(5) = c(4) /\ b(6) = c(5) /\ b(7) = c(6)
      BY <1>4, <2>8
    <3> HIDE DEF b, c
    <3> QED
      BY <3>1, <3>2, <2>7, Zenon
  <2>10. sum(n) = a1 + a2 + a3 + a4 + a5 + a6 + a7
    BY <2>6, <2>7, Zenon
  <2>11. Number(g, at, n + 1, w) =
           (a1 + c(0)) + (a2 + c(1)) + (a3 + c(2)) + (a4 + c(3)) + (a5 + c(4)) + (a6 + c(5))
             + (a7 + c(6))
    <3> HIDE DEF c
    <3> QED
      BY <2>4, <2>9, Zenon
  <2>12. (a1 + c(0)) + (a2 + c(1)) + (a3 + c(2)) + (a4 + c(3)) + (a5 + c(4)) + (a6 + c(5))
             + (a7 + c(6))
           = (a1 + a2 + a3 + a4 + a5 + a6 + a7) + last
    BY <1>4
  <2> QED
    BY <2>8, <2>10, <2>11, <2>12, Zenon
<1> HIDE DEF digit, new
<1> QED
  BY <1>5, <1>6 DEF g, new

-----------------------------------------------------------------------------
(* The fields of a header                                                  *)

LEMMA AppendFacts ==
  ASSUME NEW f \in Seq(Nat), NEW v \in Nat
  PROVE  /\ Append(f, v) \in Seq(Nat) /\ Len(Append(f, v)) = Len(f) + 1
         /\ Append(f, v)[Len(f) + 1] = v
         /\ \A k \in 1..Len(f) : Append(f, v)[k] = f[k]
BY AppendProperties

\* Inside a header, what is read is a header.
LEMMA HeaderIsRead ==
  ASSUME Inv, state = "METABLOCK_HEADER", substate_metablock_header # "NONE"
  PROVE  part = "header" /\ skipped = 0 /\ is_uncompressed = 0
<1>1. skipped = 0 /\ is_uncompressed = 0
  BY DEF Inv, LengthSoFar, Errors
<1>2. part = "header"
  <2>1. CASE substate_metablock_header \in {"EMPTY", "NIBBLES", "RESERVED", "BYTES"}
    BY <2>1 DEF Inv, LengthSoFar, Begun
  <2>2. CASE substate_metablock_header = "SIZE"
    BY <2>2 DEF Inv, LengthSoFar, SizeRead, Begun
  <2>3. CASE substate_metablock_header = "METADATA"
    BY <2>3 DEF Inv, LengthSoFar, MetadataRead, Begun
  <2>4. CASE substate_metablock_header = "UNCOMPRESSED"
    BY <2>4 DEF Inv, LengthSoFar, SizeRead, MetadataRead, Begun
  <2> QED
    BY <2>1, <2>2, <2>3, <2>4 DEF Inv, Types, Substates
<1> QED
  BY <1>1, <1>2

\* A field more.
LEMMA BegunGrows ==
  ASSUME Types, NEW n \in Nat, Begun(n), NEW v \in Nat,
         is_last_metablock = 1 /\ n = 1 => v = 0,
         read' = Append(read, v), UNCHANGED <<part, is_last_metablock>>
  PROVE  /\ Begun(n + 1)' /\ read'[n + 1] = v
         /\ \A k \in 1..n : read'[k] = read[k]
<1>1. /\ Len(read') = n + 1 /\ read'[n + 1] = v
      /\ \A k \in 1..n : read'[k] = read[k]
  BY AppendFacts DEF Types, Begun
<1>2. n >= 1 /\ read[1] = is_last_metablock /\ part = "header"
      /\ (is_last_metablock = 1 /\ n >= 2 => read[2] = 0)
  BY DEF Begun
<1>3. read'[1] = is_last_metablock
  BY <1>1, <1>2
<1>4. is_last_metablock = 1 /\ n + 1 >= 2 => read'[2] = 0
  <2>1. CASE n = 1
    BY <1>1, <2>1
  <2>2. CASE n >= 2
    BY <1>1, <1>2, <2>2
  <2>3. n = 1 \/ n >= 2
    BY <1>2
  <2> QED
    BY <2>1, <2>2, <2>3
<1> QED
  BY <1>1, <1>2, <1>3, <1>4 DEF Begun

LEMMA SizeReadGrows ==
  ASSUME Types, NEW n \in Nat, SizeRead(n), n < size_nibbles, NEW v \in Nat,
         read' = Append(read, v),
         meta_block_remaining_len' = meta_block_remaining_len + v * 2^(4 * n),
         UNCHANGED <<part, is_last_metablock, is_metadata, size_nibbles>>
  PROVE  SizeRead(n + 1)'
<1>0. PICK at \in {2, 3} : at = SizeField
  BY DEF SizeField
<1>1. at = SizeField' /\ size_nibbles \in 4..6
  BY <1>0 DEF SizeField, SizeRead
<1>2. /\ Begun(at + n) /\ read[at] = size_nibbles - 4 /\ is_metadata = 0
      /\ meta_block_remaining_len = Number(read, at, n, 4)
  BY <1>0 DEF SizeRead
<1>3. /\ Begun(at + n + 1)' /\ \A k \in 1..(at + n) : read'[k] = read[k]
  <2>1. at + n \in Nat /\ at + n # 1
    BY <1>0
  <2> QED
    BY <2>1, <1>2, BegunGrows
<1>4. Number(read', at, n + 1, 4) = Number(read, at, n, 4) + v * 2^(4 * n)
  <2>1. at \in Nat /\ at + n = Len(read) /\ 4 * n <= 24 /\ read \in Seq(Nat)
    BY <1>0, <1>1, <1>2 DEF Begun, Types
  <2> QED
    BY <2>1, NumberGrows
<1>5. at + n + 1 = at + (n + 1)
  BY <1>1
<1>6. Begun(at + (n + 1))'
  BY <1>3, <1>5, <1>1
<1>7. read'[at] = size_nibbles - 4
  <2>1. at \in 1..(at + n)
    BY <1>0
  <2> QED
    BY <2>1, <1>2, <1>3
<1>8. meta_block_remaining_len' = Number(read', at, n + 1, 4)
  BY <1>2, <1>4
<1> QED
  BY <1>1, <1>2, <1>6, <1>7, <1>8 DEF SizeRead

LEMMA MetadataReadGrows ==
  ASSUME Types, NEW n \in Nat, MetadataRead(n), n < size_nibbles, NEW v \in Nat,
         read' = Append(read, v),
         meta_block_remaining_len' = meta_block_remaining_len + v * 2^(8 * n),
         UNCHANGED <<part, is_last_metablock, is_metadata, size_nibbles>>
  PROVE  MetadataRead(n + 1)'
<1>0. PICK at \in {2, 3} : at = SizeField
  BY DEF SizeField
<1>1. at = SizeField' /\ size_nibbles \in 1..3
  BY <1>0 DEF SizeField, MetadataRead
<1>2. /\ Begun(at + 2 + n) /\ read[at] = 3 /\ read[at + 2] = size_nibbles
      /\ is_metadata = 1
      /\ meta_block_remaining_len = Number(read, at + 2, n, 8)
  BY <1>0 DEF MetadataRead
<1>3. /\ Begun(at + 2 + n + 1)' /\ \A k \in 1..(at + 2 + n) : read'[k] = read[k]
  <2>1. at + 2 + n \in Nat /\ at + 2 + n # 1
    BY <1>0
  <2> QED
    BY <2>1, <1>2, BegunGrows
<1>4. Number(read', at + 2, n + 1, 8) = Number(read, at + 2, n, 8) + v * 2^(8 * n)
  <2>1. at + 2 \in Nat
    BY <1>0
  <2>2. 8 * n <= 24
    <3>1. n \in {0, 1, 2}
      BY <1>1
    <3> QED
      BY <3>1
  <2>3. (at + 2) + n = Len(read)
    BY <1>0, <1>2 DEF Begun
  <2>4. read \in Seq(Nat)
    BY DEF Types
  <2> QED
    BY <2>1, <2>2, <2>3, <2>4, NumberGrows
<1>5. at + 2 + n + 1 = at + 2 + (n + 1)
  BY <1>1
<1>6. Begun(at + 2 + (n + 1))'
  BY <1>3, <1>5, <1>1
<1>7. read'[at] = 3 /\ read'[at + 2] = size_nibbles
  <2>1. at \in 1..(at + 2 + n) /\ at + 2 \in 1..(at + 2 + n)
    BY <1>0
  <2> QED
    BY <2>1, <1>2, <1>3
<1>8. meta_block_remaining_len' = Number(read', at + 2, n + 1, 8)
  BY <1>2, <1>4
<1> QED
  BY <1>1, <1>2, <1>6, <1>7, <1>8 DEF MetadataRead

-----------------------------------------------------------------------------
(* The actions keep the invariant                                          *)

LEMMA MissFieldKeepsInv ==
  ASSUME Inv, MissField
  PROVE  Inv'
<1>1. Types'
  BY DEF Inv, Types, MissField, AwaitsField, InLoop, SaysUncompressed, windowVars,
       lengthVars, countVars, modeVars, readVars, blockVars
<1>2. LengthSoFar'
  <2>1. UNCHANGED <<state, skipped, lengthVars, read, part>>
    BY DEF MissField, readVars, blockVars
  <2>2. IF InLoop THEN Position' = Position ELSE loop_counter' = loop_counter
    BY DEF MissField, Position, Inv, Types
  <2>3. state = "METABLOCK_HEADER" /\ substate_metablock_header \in {"RESERVED", "BYTES"} =>
          loop_counter' = loop_counter
    BY <2>2 DEF InLoop
  <2>4. state = "METABLOCK_HEADER" /\ substate_metablock_header \in {"SIZE", "METADATA"} =>
          Position' = Position
    BY <2>2 DEF InLoop
  <2> QED
    BY <2>1, <2>3, <2>4 DEF Inv, LengthSoFar, Begun, SizeField, SizeRead, MetadataRead,
         NoDigitYet, lengthVars
<1>3. HeaderAsSaid'
  BY DEF Inv, HeaderAsSaid, LengthSoFar, Types, MissField, AwaitsField, InLoop,
       SaysUncompressed, lengthVars, readVars, blockVars
<1>4. CountSoFar'
  BY DEF Inv, CountSoFar, CountStates, Types, MissField, AwaitsField, InLoop,
       SaysUncompressed, countVars, readVars
<1>5. CountAsSaid'
  BY DEF Inv, CountAsSaid, CountSoFar, CountStates, Types, MissField, AwaitsField, InLoop,
       SaysUncompressed, countVars, readVars
<1>6. ModesSoFar'
  BY DEF Inv, ModesSoFar, Position, CountStates, Types, MissField, AwaitsField, InLoop,
       SaysUncompressed, countVars, modeVars, readVars
<1>7. ModesAsSaid'
  BY DEF ModesAsSaid, ModesSoFar, Types, MissField, AwaitsField, InLoop, SaysUncompressed,
       modeVars, readVars
<1>8. WindowSoFar'
  BY DEF Inv, WindowSoFar, SmallWindow, LengthSoFar, Types, MissField, AwaitsField,
       InLoop, SaysUncompressed, windowVars, readVars
<1> QED
  BY <1>1, <1>2, <1>3, <1>4, <1>5, <1>6, <1>7, <1>8 DEF Inv

LEMMA ResumeKeepsInv ==
  ASSUME Inv, Resume
  PROVE  Inv'
<1>1. Types'
  BY DEF Inv, Types, Resume, InLoop, windowVars, lengthVars, countVars, modeVars,
       readVars, blockVars
<1>2. LengthSoFar'
  BY DEF Inv, LengthSoFar, Begun, SizeField, SizeRead, MetadataRead, NoDigitYet, Position,
       Errors, Types, Resume, InLoop, lengthVars, readVars, blockVars
<1>3. HeaderAsSaid'
  BY DEF Inv, HeaderAsSaid, LengthSoFar, Types, Resume, InLoop, lengthVars, readVars,
       blockVars
<1>4. CountSoFar'
  BY DEF Inv, CountSoFar, CountStates, Types, Resume, InLoop, countVars, readVars
<1>5. CountAsSaid'
  BY DEF Inv, CountAsSaid, CountSoFar, CountStates, Types, Resume, InLoop, countVars,
       readVars
<1>6. ModesSoFar'
  BY DEF Inv, ModesSoFar, Position, CountStates, Types, Resume, InLoop, countVars,
       modeVars, readVars
<1>7. ModesAsSaid'
  BY DEF Inv, ModesAsSaid, ModesSoFar, Types, Resume, InLoop, modeVars, readVars
<1>8. WindowSoFar'
  BY DEF Inv, WindowSoFar, SmallWindow, LengthSoFar, Types, Resume, InLoop, windowVars,
       readVars
<1> QED
  BY <1>1, <1>2, <1>3, <1>4, <1>5, <1>6, <1>7, <1>8 DEF Inv

LEMMA DecodeWindowBitsKeepsInv ==
  ASSUME Inv, NEW n0 \in 0..1, NEW n1 \in 0..7, NEW n2 \in 0..7, DecodeWindowBits(n0, n1, n2)
  PROVE  Inv'
<1>0. \/ n0 = 0 /\ read' = <<0>> /\ window_bits' = 16
      \/ n1 \in 1..7 /\ read' = <<1 + 2 * n1>> /\ window_bits' = 17 + n1
      \/ read' = <<1>> /\ window_bits' = 17
      \/ n2 \in 2..7 /\ read' = <<1 + 16 * n2>> /\ window_bits' = 8 + n2
  <2>1. CASE n0 = 0
    BY <2>1 DEF DecodeWindowBits, First, WindowBits
  <2>2. CASE n0 = 1 /\ n1 # 0
    BY <2>2 DEF DecodeWindowBits, First, WindowBits
  <2>3. CASE n0 = 1 /\ n1 = 0 /\ n2 = 0
    BY <2>3 DEF DecodeWindowBits, First, WindowBits
  <2>4. CASE n0 = 1 /\ n1 = 0 /\ n2 # 0
    BY <2>4 DEF DecodeWindowBits, First, WindowBits
  <2> QED
    BY <2>1, <2>2, <2>3, <2>4
<1>1. Types'
  <2>1. \E x \in Nat : read' = <<x>>
    BY <1>0
  <2>2. read' \in Seq(Nat)
    BY <2>1
  <2>3. window_bits' \in Nat
    BY <1>0
  <2> QED
    BY <2>2, <2>3 DEF Inv, Types, DecodeWindowBits, In, lengthVars, loopVars, countVars,
         modeVars, blockVars
<1>2. LengthSoFar'
  BY DEF Inv, LengthSoFar, Begun, SizeField, SizeRead, MetadataRead, NoDigitYet, Position,
       Errors, Types, DecodeWindowBits, In, First, WindowBits, lengthVars, loopVars,
       blockVars
<1>3. HeaderAsSaid'
  BY DEF HeaderAsSaid, LengthSoFar, Types, DecodeWindowBits, In, First, WindowBits,
       lengthVars, blockVars
<1>4. CountSoFar'
  BY DEF Inv, CountSoFar, CountStates, Types, DecodeWindowBits, In, First, WindowBits,
       loopVars, countVars
<1>5. CountAsSaid'
  BY DEF CountAsSaid, CountSoFar, CountStates, Types, DecodeWindowBits, In, First,
       WindowBits, loopVars, countVars
<1>6. ModesSoFar'
  BY DEF ModesSoFar, Position, CountStates, Types, DecodeWindowBits, In, First,
       WindowBits, loopVars, countVars, modeVars
<1>7. ModesAsSaid'
  BY DEF ModesAsSaid, ModesSoFar, Types, DecodeWindowBits, In, First, WindowBits, modeVars
<1>8. WindowSoFar'
  <2>1. SmallWindow'
    BY <1>0 DEF SmallWindow
  <2> QED
    BY <2>1 DEF WindowSoFar, DecodeWindowBits
<1> QED
  BY <1>1, <1>2, <1>3, <1>4, <1>5, <1>6, <1>7, <1>8 DEF Inv

LEMMA DecodeLargeWindowKeepsInv ==
  ASSUME Inv, NEW n3 \in 0..1, DecodeLargeWindow(n3)
  PROVE  Inv'
<1>1. Types'
  BY DEF Inv, Types, DecodeLargeWindow, In, First, lengthVars, loopVars, countVars,
       modeVars, blockVars
<1>2. LengthSoFar'
  BY DEF Inv, LengthSoFar, Begun, SizeField, SizeRead, MetadataRead, NoDigitYet, Position,
       Errors, Types, DecodeLargeWindow, In, First, lengthVars, loopVars, blockVars
<1>3. HeaderAsSaid'
  BY DEF HeaderAsSaid, LengthSoFar, Types, DecodeLargeWindow, In, First, lengthVars,
       blockVars
<1>4. CountSoFar'
  BY DEF Inv, CountSoFar, CountStates, Types, DecodeLargeWindow, In, First, loopVars,
       countVars
<1>5. CountAsSaid'
  BY DEF CountAsSaid, CountSoFar, CountStates, Types, DecodeLargeWindow, In, First,
       loopVars, countVars
<1>6. ModesSoFar'
  BY DEF ModesSoFar, Position, CountStates, Types, DecodeLargeWindow, In, First, loopVars,
       countVars, modeVars
<1>7. ModesAsSaid'
  BY DEF ModesAsSaid, ModesSoFar, Types, DecodeLargeWindow, In, First, modeVars
<1>8. WindowSoFar'
  <2>1. large_window = asked_large
    BY DEF Inv, WindowSoFar, DecodeLargeWindow, In
  <2>2. CASE large_window /\ n3 = 0
    <3>1. state' = "LARGE_WINDOW_BITS" /\ part' = "window"
      BY <2>2 DEF DecodeLargeWindow, First
    <3>2. read' = <<17>>
      <4>1. read' = <<17 + 128 * n3>> /\ 17 + 128 * n3 = 17
        BY <2>2 DEF DecodeLargeWindow, First
      <4> QED
        BY <4>1
    <3> QED
      BY <3>1, <3>2 DEF WindowSoFar
  <2>3. CASE large_window /\ n3 = 1
    <3>1. state' = "ERROR_FORMAT_WINDOW_BITS"
      <4>1. ~large_window'
        <5>1. n3 # 0
          BY <2>3
        <5>2. large_window' = (large_window /\ n3 = 0)
          BY DEF DecodeLargeWindow
        <5> QED
          BY <5>1, <5>2, Zenon
      <4> QED
        BY <4>1 DEF DecodeLargeWindow
    <3>2. read' = <<145>>
      <4>1. read' = <<17 + 128 * n3>> /\ 17 + 128 * n3 = 145
        BY <2>3 DEF DecodeLargeWindow, First
      <4> QED
        BY <4>1
    <3> QED
      BY <3>1, <3>2 DEF WindowSoFar
  <2>4. CASE ~large_window
    BY <2>1, <2>4 DEF WindowSoFar, DecodeLargeWindow, First
  <2> QED
    BY <2>2, <2>3, <2>4
<1> QED
  BY <1>1, <1>2, <1>3, <1>4, <1>5, <1>6, <1>7, <1>8 DEF Inv

LEMMA ReadLargeWindowBitsKeepsInv ==
  ASSUME Inv, NEW n \in 0..63, ReadLargeWindowBits(n)
  PROVE  Inv'
<1>1. Types'
  BY DEF Inv, Types, ReadLargeWindowBits, In, Field, lengthVars, loopVars, countVars,
       modeVars, blockVars
<1>2. LengthSoFar'
  BY DEF Inv, LengthSoFar, Begun, SizeField, SizeRead, MetadataRead, NoDigitYet, Position,
       Errors, Types, ReadLargeWindowBits, In, Field, lengthVars, loopVars, blockVars
<1>3. HeaderAsSaid'
  BY DEF HeaderAsSaid, LengthSoFar, Types, ReadLargeWindowBits, In, Field, lengthVars,
       blockVars
<1>4. CountSoFar'
  BY DEF Inv, CountSoFar, CountStates, Types, ReadLargeWindowBits, In, Field, loopVars,
       countVars
<1>5. CountAsSaid'
  BY DEF Inv, CountAsSaid, CountSoFar, CountStates, Types, ReadLargeWindowBits, In, Field,
       loopVars, countVars
<1>6. ModesSoFar'
  BY DEF Inv, ModesSoFar, Position, CountStates, Types, ReadLargeWindowBits, In, Field,
       loopVars, countVars, modeVars
<1>7. ModesAsSaid'
  BY DEF ModesAsSaid, ModesSoFar, Types, ReadLargeWindowBits, In, Field, modeVars
<1>8. WindowSoFar'
  <2>1. read = <<17>> /\ part = "window"
    BY DEF Inv, WindowSoFar, ReadLargeWindowBits, In
  <2>2. read' = <<17, n>> /\ window_bits' = n
    <3>1. read' = Append(<<17>>, n) /\ window_bits' = n
      BY <2>1 DEF ReadLargeWindowBits, Field
    <3>2. Append(<<17>>, n) = <<17, n>>
      <4> DEFINE f == Append(<<17>>, n)
                 g == <<17, n>>
      <4>1. f \in Seq(Nat) /\ Len(f) = 2 /\ f[1] = 17 /\ f[2] = n
        <5>1. <<17>> \in Seq(Nat) /\ Len(<<17>>) = 1 /\ <<17>>[1] = 17 /\ n \in Nat
          OBVIOUS
        <5> QED
          BY <5>1, AppendFacts
      <4>2. g \in Seq(Nat) /\ Len(g) = 2 /\ g[1] = 17 /\ g[2] = n
        OBVIOUS
      <4> HIDE DEF f, g
      <4>3. \A k \in 1..Len(f) : f[k] = g[k]
        BY <4>1, <4>2
      <4>4. f = g
        BY <4>1, <4>2, <4>3, SeqEqual
      <4> QED
        BY <4>4 DEF f, g
    <3> QED
      BY <3>1, <3>2
  <2>3. CASE n \in 10..30
    BY <2>2, <2>3 DEF WindowSoFar, ReadLargeWindowBits
  <2>4. CASE n \notin 10..30
    BY <2>2, <2>4 DEF WindowSoFar, ReadLargeWindowBits
  <2> QED
    BY <2>3, <2>4
<1> QED
  BY <1>1, <1>2, <1>3, <1>4, <1>5, <1>6, <1>7, <1>8 DEF Inv

LEMMA MetablockBeginKeepsInv ==
  ASSUME Inv, MetablockBegin
  PROVE  Inv'
<1>1. Types'
  BY DEF Inv, Types, MetablockBegin, In, windowVars, loopVars, readVars, blockVars
<1>2. LengthSoFar'
  BY DEF Inv, LengthSoFar, Begun, SizeField, SizeRead, MetadataRead, NoDigitYet, Position,
       Errors, Types, MetablockBegin, In, loopVars, readVars, blockVars
<1>3. HeaderAsSaid'
  BY DEF HeaderAsSaid, LengthSoFar, Types, MetablockBegin, In, readVars, blockVars
<1>4. CountSoFar'
  BY DEF Inv, CountSoFar, CountStates, Types, MetablockBegin, In, loopVars, readVars
<1>5. CountAsSaid'
  BY DEF Inv, CountAsSaid, CountSoFar, CountStates, Types, MetablockBegin, In, loopVars,
       readVars
<1>6. ModesSoFar'
  BY DEF Inv, ModesSoFar, Position, CountStates, Types, MetablockBegin, In, loopVars,
       readVars
<1>7. ModesAsSaid'
  BY DEF ModesAsSaid, ModesSoFar, Types, MetablockBegin, In, readVars
<1>8. WindowSoFar'
  BY DEF WindowSoFar, SmallWindow, LengthSoFar, Types, MetablockBegin, In, windowVars,
       readVars
<1> QED
  BY <1>1, <1>2, <1>3, <1>4, <1>5, <1>6, <1>7, <1>8 DEF Inv

LEMMA ReadIsLastKeepsInv ==
  ASSUME Inv, NEW v \in 0..1, ReadIsLast(v)
  PROVE  Inv'
<1>1. Types'
  <2>1. read' \in Seq(Nat)
    BY AppendFacts DEF ReadIsLast, InHeader, In, First, readVars
  <2> QED
    BY <2>1 DEF Inv, Types, ReadIsLast, InHeader, In, First, Substates, windowVars,
         lengthVars, loopVars, countVars, modeVars, readVars, blockVars
<1>2. LengthSoFar'
  BY DEF LengthSoFar, Begun, SizeField, SizeRead, MetadataRead, NoDigitYet, Position,
       Errors, Types, ReadIsLast, InHeader, In, First, loopVars
<1>3. HeaderAsSaid'
  BY DEF HeaderAsSaid, LengthSoFar, Types, ReadIsLast, InHeader, In, First
<1>4. CountSoFar'
  BY DEF Inv, CountSoFar, CountStates, Types, ReadIsLast, InHeader, In, First, loopVars,
       countVars
<1>5. CountAsSaid'
  BY DEF CountAsSaid, CountSoFar, CountStates, Types, ReadIsLast, InHeader, In, First,
       loopVars, countVars
<1>6. ModesSoFar'
  BY DEF Inv, ModesSoFar, Position, CountStates, Types, ReadIsLast, InHeader, In, First,
       loopVars, countVars, modeVars
<1>7. ModesAsSaid'
  BY DEF ModesAsSaid, ModesSoFar, Types, ReadIsLast, InHeader, In, First, modeVars
<1>8. WindowSoFar'
  BY DEF WindowSoFar, SmallWindow, LengthSoFar, Types, ReadIsLast, InHeader, In, First,
       windowVars
<1> QED
  BY <1>1, <1>2, <1>3, <1>4, <1>5, <1>6, <1>7, <1>8 DEF Inv

LEMMA ReadIsEmptyKeepsInv ==
  ASSUME Inv, NEW v \in 0..1, ReadIsEmpty(v)
  PROVE  Inv'
<1>0. /\ is_last_metablock = 1 /\ Begun(1) /\ is_metadata = 0
      /\ meta_block_remaining_len = 0 /\ skipped = 0 /\ is_uncompressed = 0
  BY HeaderIsRead DEF Inv, LengthSoFar, NoDigitYet, InHeader, In, ReadIsEmpty
<1>1. Types'
  <2>1. read' \in Seq(Nat)
    BY AppendFacts DEF Inv, Types, ReadIsEmpty, InHeader, In, HeaderDone, Padding,
         readVars
  <2> QED
    BY <2>1 DEF Inv, Types, ReadIsEmpty, InHeader, In, HeaderDone, Padding, Substates,
         windowVars, lengthVars, loopVars, countVars, modeVars, readVars, blockVars
<1>2. LengthSoFar'
  <2>1. CASE v = 0
    <3>1. Begun(2)'
      BY <1>0, <2>1, BegunGrows DEF Inv, ReadIsEmpty
    <3> QED
      BY <1>0, <2>1, <3>1 DEF LengthSoFar, ReadIsEmpty, InHeader, In, SizeField,
           NoDigitYet, blockVars
  <2>2. CASE v = 1
    BY <1>0, <2>2 DEF LengthSoFar, ReadIsEmpty, HeaderDone, Padding
  <2> QED
    BY <2>1, <2>2
<1>3. HeaderAsSaid'
  <2>1. CASE v = 0
    BY <2>1 DEF HeaderAsSaid, ReadIsEmpty, InHeader, In
  <2>2. CASE v = 1
    <3>1. read'[1] = 1 /\ read'[2] = 1
      <4>1. /\ read \in Seq(Nat) /\ Len(read) = 1 /\ read[1] = 1 /\ v \in Nat
            /\ read' = Append(read, v)
        BY <1>0 DEF Inv, Types, Begun, ReadIsEmpty
      <4>2. 1 \in 1..Len(read) /\ Len(read) + 1 = 2
        BY <4>1
      <4> QED
        BY <2>2, <4>1, <4>2, AppendFacts
    <3> QED
      BY <1>0, <2>2, <3>1 DEF HeaderAsSaid, HeaderSays, ReadIsEmpty, blockVars
  <2> QED
    BY <2>1, <2>2
<1>4. CountSoFar'
  BY DEF Inv, CountSoFar, CountStates, Types, ReadIsEmpty, InHeader, In, HeaderDone,
       Padding, loopVars, countVars
<1>5. CountAsSaid'
  BY DEF Inv, CountAsSaid, CountSoFar, CountStates, Types, ReadIsEmpty, InHeader, In,
       HeaderDone, Padding, loopVars, countVars
<1>6. ModesSoFar'
  BY DEF Inv, ModesSoFar, Position, CountStates, Types, ReadIsEmpty, InHeader, In,
       HeaderDone, Padding, loopVars, countVars, modeVars
<1>7. ModesAsSaid'
  BY DEF ModesAsSaid, ModesSoFar, Types, ReadIsEmpty, InHeader, In, HeaderDone, Padding,
       modeVars
<1>8. WindowSoFar'
  BY HeaderIsRead DEF WindowSoFar, ReadIsEmpty, InHeader, In, HeaderDone, Padding
<1> QED
  BY <1>1, <1>2, <1>3, <1>4, <1>5, <1>6, <1>7, <1>8 DEF Inv

LEMMA ReadNibbleCountKeepsInv ==
  ASSUME Inv, NEW v \in 0..3, ReadNibbleCount(v)
  PROVE  Inv'
<1>0. /\ Begun(SizeField - 1) /\ is_metadata = 0
      /\ meta_block_remaining_len = 0 /\ skipped = 0 /\ is_uncompressed = 0
  BY HeaderIsRead DEF Inv, LengthSoFar, NoDigitYet, InHeader, In, ReadNibbleCount
<1>1. Types'
  <2>1. read' \in Seq(Nat)
    BY AppendFacts DEF Inv, Types, ReadNibbleCount, InHeader, In, Field, readVars
  <2> QED
    BY <2>1 DEF Inv, Types, ReadNibbleCount, InHeader, In, Field, Substates, windowVars,
         lengthVars, loopVars, countVars, modeVars, readVars, blockVars
<1>2. LengthSoFar'
  <2>1. PICK n \in {1, 2} : n = SizeField - 1 /\ SizeField = n + 1 /\ SizeField' = n + 1
                            /\ (n = 1 => is_last_metablock = 0)
    BY DEF SizeField, Inv, Types, ReadNibbleCount
  <2>2. Begun(n + 1)' /\ read'[n + 1] = v
    <3>1. Begun(n) /\ n \in Nat /\ v \in Nat
      BY <1>0, <2>1
    <3>2. Types /\ read' = Append(read, v) /\ UNCHANGED <<part, is_last_metablock>>
      BY DEF Inv, ReadNibbleCount, Field
    <3>3. is_last_metablock = 1 /\ n = 1 => v = 0
      BY <2>1
    <3> QED
      BY <3>1, <3>2, <3>3, BegunGrows
  <2>3. CASE v = 3
    BY <1>0, <2>1, <2>2, <2>3 DEF LengthSoFar, ReadNibbleCount, InHeader, In, NoDigitYet,
         blockVars
  <2>4. CASE v \in 0..2
    <3>1. Number(read', SizeField', 0, 4) = 0
      BY NumberOfNone
    <3>2. SizeField' + 0 = n + 1
      BY <2>1
    <3>3. SizeRead(0)'
      BY <1>0, <2>1, <2>2, <2>4, <3>1, <3>2 DEF SizeRead, ReadNibbleCount
    <3>4. Position' = 0 /\ 0 < size_nibbles'
      BY <2>4 DEF Position, ReadNibbleCount
    <3> QED
      BY <1>0, <2>4, <3>3, <3>4 DEF LengthSoFar, ReadNibbleCount, InHeader, In, blockVars
  <2> QED
    BY <2>3, <2>4
<1>3. HeaderAsSaid'
  BY DEF HeaderAsSaid, LengthSoFar, Types, ReadNibbleCount, InHeader, In, Field, blockVars
<1>4. CountSoFar'
  BY DEF Inv, CountSoFar, CountStates, Types, ReadNibbleCount, InHeader, In, Field,
       countVars
<1>5. CountAsSaid'
  BY DEF Inv, CountAsSaid, CountSoFar, CountStates, Types, ReadNibbleCount, InHeader, In,
       Field, countVars
<1>6. ModesSoFar'
  BY DEF Inv, ModesSoFar, Position, CountStates, Types, ReadNibbleCount, InHeader, In,
       Field, countVars, modeVars
<1>7. ModesAsSaid'
  BY DEF ModesAsSaid, ModesSoFar, Types, ReadNibbleCount, InHeader, In, Field, modeVars
<1>8. WindowSoFar'
  BY DEF WindowSoFar, SmallWindow, LengthSoFar, Types, ReadNibbleCount, InHeader, In,
       Field, windowVars
<1> QED
  BY <1>1, <1>2, <1>3, <1>4, <1>5, <1>6, <1>7, <1>8 DEF Inv

LEMMA ReadNibbleKeepsInv ==
  ASSUME Inv, NEW v \in Nibbles, ReadNibble(v)
  PROVE  Inv'
<1>0. /\ i \in Nat /\ i < size_nibbles /\ size_nibbles \in 4..6 /\ SizeRead(i)
      /\ v \in Nat /\ part = "header" /\ skipped = 0 /\ is_uncompressed = 0
  BY HeaderIsRead, StreamHeaderConstants
     DEF Inv, LengthSoFar, Position, SizeRead, InHeader, In, ReadNibble, ReadDigit
<1>a. PICK n \in Nat : n = i
  BY <1>0
<1>1. Types'
  <2>1. read' \in Seq(Nat)
    BY <1>0, AppendFacts DEF Inv, Types, ReadNibble, ReadDigit, Field
  <2>2. v * 2^(4 * i) \in Nat
    <3>1. 4 * i <= 24
      <4>1. i \in 0..5 /\ (4 = 8 => i \in 0..2)
        BY <1>0
      <4> QED
        BY <4>1
    <3>2. 2^(4 * i) \in Nat
      BY <1>0, <3>1, PlaceValues
    <3>3. \A x \in Nat : v * x \in Nat
      BY <1>0
    <3> QED
      BY <3>2, <3>3
  <2>3. meta_block_remaining_len' \in Nat
    <3> DEFINE x == v * 2^(4 * i)
    <3>1. meta_block_remaining_len' \in {meta_block_remaining_len, meta_block_remaining_len + x}
      BY DEF ReadNibble, ReadDigit, lengthVars
    <3>2. x \in Nat
      BY <2>2
    <3> HIDE DEF x
    <3> QED
      BY <3>1, <3>2 DEF Inv, Types
  <2>4. substate_metablock_header' \in Substates
    BY DEF ReadNibble, InHeader, ReadDigit, Substates, lengthVars
  <2>5. /\ i' \in Nat /\ loop_counter' \in Nat
        /\ is_last_metablock' \in 0..1 /\ is_uncompressed' \in 0..1
        /\ is_metadata' \in 0..1 /\ size_nibbles' \in Nat
    BY DEF Inv, Types, ReadNibble, ReadDigit, lengthVars, loopVars
  <2> QED
    BY <2>1, <2>3, <2>4, <2>5 DEF Inv, Types, ReadNibble, ReadDigit, windowVars,
         countVars, blockVars
<1>2. LengthSoFar'
  <2>1. CASE i + 1 = size_nibbles /\ size_nibbles > 4 /\ v = 0
    BY <2>1 DEF LengthSoFar, ReadNibble, ReadDigit, Errors
  <2>2. CASE ~(i + 1 = size_nibbles /\ size_nibbles > 4 /\ v = 0)
    <3>1. SizeRead(n + 1)'
      <4>1. /\ read' = Append(read, v)
            /\ meta_block_remaining_len' = meta_block_remaining_len + v * 2^(4 * n)
            /\ UNCHANGED <<part, is_last_metablock, is_metadata, size_nibbles>>
        BY <1>a, <2>2 DEF ReadNibble, ReadDigit, Field
      <4>2. Types /\ SizeRead(n) /\ n < size_nibbles /\ v \in Nat
        BY <1>0, <1>a DEF Inv
      <4> QED
        BY <4>1, <4>2, SizeReadGrows
    <3>2. /\ state' = "METABLOCK_HEADER" /\ running' /\ i' = n + 1
          /\ size_nibbles' = size_nibbles
          /\ UNCHANGED <<skipped, is_uncompressed>>
          /\ substate_metablock_header' =
               IF n + 1 = size_nibbles THEN "UNCOMPRESSED" ELSE "SIZE"
      BY <1>a, <2>2 DEF ReadNibble, InHeader, In, ReadDigit, blockVars
    <3>3. Position' = n + 1
      BY <3>2 DEF Position
    <3>4. CASE n + 1 = size_nibbles
      <4>1. SizeRead(size_nibbles)'
        BY <3>1, <3>2, <3>4
      <4> QED
        BY <1>0, <3>2, <3>4, <4>1 DEF LengthSoFar
    <3>5. CASE n + 1 # size_nibbles
      <4>1. n + 1 < size_nibbles
        BY <1>0, <1>a, <3>5
      <4>2. SizeRead(Position)' /\ (Position < size_nibbles)'
        BY <3>1, <3>2, <3>3, <4>1
      <4> QED
        BY <1>0, <3>2, <3>5, <4>2 DEF LengthSoFar
    <3> QED
      BY <3>4, <3>5
  <2> QED
    BY <2>1, <2>2
<1>3. HeaderAsSaid'
  BY DEF HeaderAsSaid, LengthSoFar, Types, ReadNibble, InHeader, In, ReadDigit, Field,
       lengthVars, blockVars
<1>4. CountSoFar'
  BY DEF Inv, CountSoFar, CountStates, Types, ReadNibble, InHeader, In, ReadDigit, Field,
       loopVars, countVars
<1>5. CountAsSaid'
  BY DEF Inv, CountAsSaid, CountSoFar, CountStates, Types, ReadNibble, InHeader, In,
       ReadDigit, Field, loopVars, countVars
<1>6. ModesSoFar'
  BY DEF Inv, ModesSoFar, Position, CountStates, Types, ReadNibble, InHeader, In,
       ReadDigit, Field, loopVars, countVars, modeVars
<1>7. ModesAsSaid'
  BY DEF ModesAsSaid, ModesSoFar, Types, ReadNibble, InHeader, In, ReadDigit, Field,
       modeVars
<1>8. WindowSoFar'
  BY HeaderIsRead DEF WindowSoFar, ReadNibble, InHeader, In, ReadDigit, Field
<1> QED
  BY <1>1, <1>2, <1>3, <1>4, <1>5, <1>6, <1>7, <1>8 DEF Inv

LEMMA ReadLengthByteKeepsInv ==
  ASSUME Inv, NEW v \in Bytes, ReadLengthByte(v)
  PROVE  Inv'
<1>0. /\ i \in Nat /\ i < size_nibbles /\ size_nibbles \in 1..3 /\ MetadataRead(i)
      /\ v \in Nat /\ part = "header" /\ skipped = 0 /\ is_uncompressed = 0
  BY HeaderIsRead, StreamHeaderConstants
     DEF Inv, LengthSoFar, Position, MetadataRead, InHeader, In, ReadLengthByte, ReadDigit
<1>a. PICK n \in Nat : n = i
  BY <1>0
<1>1. Types'
  <2>1. read' \in Seq(Nat)
    BY <1>0, AppendFacts DEF Inv, Types, ReadLengthByte, ReadDigit, Field
  <2>2. v * 2^(8 * i) \in Nat
    <3>1. 8 * i <= 24
      <4>1. i \in 0..5 /\ (8 = 8 => i \in 0..2)
        BY <1>0
      <4> QED
        BY <4>1
    <3>2. 2^(8 * i) \in Nat
      BY <1>0, <3>1, PlaceValues
    <3>3. \A x \in Nat : v * x \in Nat
      BY <1>0
    <3> QED
      BY <3>2, <3>3
  <2>3. meta_block_remaining_len' \in Nat
    <3> DEFINE x == v * 2^(8 * i)
    <3>1. meta_block_remaining_len' \in {meta_block_remaining_len, meta_block_remaining_len + x}
      BY DEF ReadLengthByte, ReadDigit, lengthVars
    <3>2. x \in Nat
      BY <2>2
    <3> HIDE DEF x
    <3> QED
      BY <3>1, <3>2 DEF Inv, Types
  <2>4. substate_metablock_header' \in Substates
    BY DEF ReadLengthByte, InHeader, ReadDigit, Substates, lengthVars
  <2>5. /\ i' \in Nat /\ loop_counter' \in Nat
        /\ is_last_metablock' \in 0..1 /\ is_uncompressed' \in 0..1
        /\ is_metadata' \in 0..1 /\ size_nibbles' \in Nat
    BY DEF Inv, Types, ReadLengthByte, ReadDigit, lengthVars, loopVars
  <2> QED
    BY <2>1, <2>3, <2>4, <2>5 DEF Inv, Types, ReadLengthByte, ReadDigit, windowVars,
         countVars, blockVars
<1>2. LengthSoFar'
  <2>1. CASE i + 1 = size_nibbles /\ size_nibbles > 1 /\ v = 0
    BY <2>1 DEF LengthSoFar, ReadLengthByte, ReadDigit, Errors
  <2>2. CASE ~(i + 1 = size_nibbles /\ size_nibbles > 1 /\ v = 0)
    <3>1. MetadataRead(n + 1)'
      <4>1. /\ read' = Append(read, v)
            /\ meta_block_remaining_len' = meta_block_remaining_len + v * 2^(8 * n)
            /\ UNCHANGED <<part, is_last_metablock, is_metadata, size_nibbles>>
        BY <1>a, <2>2 DEF ReadLengthByte, ReadDigit, Field
      <4>2. Types /\ MetadataRead(n) /\ n < size_nibbles /\ v \in Nat
        BY <1>0, <1>a DEF Inv
      <4> QED
        BY <4>1, <4>2, MetadataReadGrows
    <3>2. /\ state' = "METABLOCK_HEADER" /\ running' /\ i' = n + 1
          /\ size_nibbles' = size_nibbles
          /\ UNCHANGED <<skipped, is_uncompressed>>
          /\ substate_metablock_header' =
               IF n + 1 = size_nibbles THEN "UNCOMPRESSED" ELSE "METADATA"
      BY <1>a, <2>2 DEF ReadLengthByte, InHeader, In, ReadDigit, blockVars
    <3>3. Position' = n + 1
      BY <3>2 DEF Position
    <3>4. CASE n + 1 = size_nibbles
      <4>1. MetadataRead(size_nibbles)'
        BY <3>1, <3>2, <3>4
      <4> QED
        BY <1>0, <3>2, <3>4, <4>1 DEF LengthSoFar
    <3>5. CASE n + 1 # size_nibbles
      <4>1. n + 1 < size_nibbles
        BY <1>0, <1>a, <3>5
      <4>2. MetadataRead(Position)' /\ (Position < size_nibbles)'
        BY <3>1, <3>2, <3>3, <4>1
      <4> QED
        BY <1>0, <3>2, <3>5, <4>2 DEF LengthSoFar
    <3> QED
      BY <3>4, <3>5
  <2> QED
    BY <2>1, <2>2
<1>3. HeaderAsSaid'
  BY DEF HeaderAsSaid, LengthSoFar, Types, ReadLengthByte, InHeader, In, ReadDigit, Field,
       lengthVars, blockVars
<1>4. CountSoFar'
  BY DEF Inv, CountSoFar, CountStates, Types, ReadLengthByte, InHeader, In, ReadDigit,
       Field, loopVars, countVars
<1>5. CountAsSaid'
  BY DEF Inv, CountAsSaid, CountSoFar, CountStates, Types, ReadLengthByte, InHeader, In,
       ReadDigit, Field, loopVars, countVars
<1>6. ModesSoFar'
  BY DEF Inv, ModesSoFar, Position, CountStates, Types, ReadLengthByte, InHeader, In,
       ReadDigit, Field, loopVars, countVars, modeVars
<1>7. ModesAsSaid'
  BY DEF ModesAsSaid, ModesSoFar, Types, ReadLengthByte, InHeader, In, ReadDigit, Field,
       modeVars
<1>8. WindowSoFar'
  BY HeaderIsRead DEF WindowSoFar, ReadLengthByte, InHeader, In, ReadDigit, Field
<1> QED
  BY <1>1, <1>2, <1>3, <1>4, <1>5, <1>6, <1>7, <1>8 DEF Inv

LEMMA ReadReservedKeepsInv ==
  ASSUME Inv, NEW v \in 0..1, ReadReserved(v)
  PROVE  Inv'
<1>0. /\ Begun(SizeField) /\ read[SizeField] = 3 /\ is_metadata = 1
      /\ meta_block_remaining_len = 0 /\ skipped = 0 /\ is_uncompressed = 0
      /\ loop_counter = 0
  BY HeaderIsRead DEF Inv, LengthSoFar, NoDigitYet, InHeader, In, ReadReserved
<1>1. Types'
  <2>1. read' \in Seq(Nat)
    BY AppendFacts DEF Inv, Types, ReadReserved, InHeader, In, Field, readVars
  <2> QED
    BY <2>1 DEF Inv, Types, ReadReserved, InHeader, In, Field, Substates, windowVars,
         lengthVars, loopVars, countVars, modeVars, readVars, blockVars
<1>2. LengthSoFar'
  <2>1. CASE v = 0
    <3>1. PICK n \in {2, 3} : n = SizeField /\ SizeField' = n
      BY DEF SizeField, ReadReserved
    <3>2. Begun(n + 1)' /\ read'[n] = read[n]
      <4>1. Begun(n) /\ n \in Nat /\ n # 1 /\ v \in Nat /\ n \in 1..n
        BY <1>0, <3>1
      <4> QED
        BY <4>1, BegunGrows DEF Inv, ReadReserved, Field
    <3> QED
      BY <1>0, <2>1, <3>1, <3>2 DEF LengthSoFar, ReadReserved, InHeader, In, NoDigitYet,
           blockVars, loopVars
  <2>2. CASE v = 1
    BY <2>2 DEF LengthSoFar, ReadReserved, Errors
  <2> QED
    BY <2>1, <2>2
<1>3. HeaderAsSaid'
  BY DEF HeaderAsSaid, LengthSoFar, Types, ReadReserved, InHeader, In, Field, blockVars
<1>4. CountSoFar'
  BY DEF Inv, CountSoFar, CountStates, Types, ReadReserved, InHeader, In, Field, loopVars,
       countVars
<1>5. CountAsSaid'
  BY DEF Inv, CountAsSaid, CountSoFar, CountStates, Types, ReadReserved, InHeader, In,
       Field, loopVars, countVars
<1>6. ModesSoFar'
  BY DEF Inv, ModesSoFar, Position, CountStates, Types, ReadReserved, InHeader, In, Field,
       loopVars, countVars, modeVars
<1>7. ModesAsSaid'
  BY DEF ModesAsSaid, ModesSoFar, Types, ReadReserved, InHeader, In, Field, modeVars
<1>8. WindowSoFar'
  BY HeaderIsRead DEF WindowSoFar, ReadReserved, InHeader, In, Field
<1> QED
  BY <1>1, <1>2, <1>3, <1>4, <1>5, <1>6, <1>7, <1>8 DEF Inv

LEMMA ReadByteCountKeepsInv ==
  ASSUME Inv, NEW v \in 0..3, ReadByteCount(v)
  PROVE  Inv'
<1>0. /\ Begun(SizeField + 1) /\ read[SizeField] = 3 /\ is_metadata = 1
      /\ meta_block_remaining_len = 0 /\ skipped = 0 /\ is_uncompressed = 0
      /\ loop_counter = 0
  BY HeaderIsRead DEF Inv, LengthSoFar, NoDigitYet, InHeader, In, ReadByteCount
<1>a. PICK n \in {2, 3} : n = SizeField /\ SizeField' = n
                          /\ (is_last_metablock = 1 => n = 3)
                          /\ (is_last_metablock = 0 => n = 2)
  BY DEF SizeField, ReadByteCount, Inv, Types
<1>b. Begun(n + 2)' /\ read'[n] = 3 /\ read'[n + 2] = v
  <2>1. /\ Begun(n + 1) /\ n + 1 \in Nat /\ n + 1 # 1 /\ v \in Nat /\ n \in 1..(n + 1)
        /\ (n + 1) + 1 = n + 2
    BY <1>0, <1>a
  <2>2. Begun((n + 1) + 1)' /\ read'[(n + 1) + 1] = v /\ read'[n] = read[n]
    BY <2>1, BegunGrows DEF Inv, ReadByteCount
  <2> QED
    BY <1>0, <1>a, <2>1, <2>2
<1>1. Types'
  <2>1. read' \in Seq(Nat)
    BY AppendFacts DEF Inv, Types, ReadByteCount, InHeader, In, HeaderDone, Padding,
         readVars
  <2> QED
    BY <2>1 DEF Inv, Types, ReadByteCount, InHeader, In, HeaderDone, Padding, Substates,
         windowVars, lengthVars, loopVars, countVars, modeVars, readVars, blockVars
<1>2. LengthSoFar'
  <2>1. CASE v = 0
    BY <1>0, <2>1 DEF LengthSoFar, ReadByteCount, HeaderDone, Padding
  <2>2. CASE v \in 1..3
    <3>1. Number(read', SizeField' + 2, 0, 8) = 0
      BY NumberOfNone
    <3>2. SizeField' + 2 + 0 = n + 2 /\ SizeField' + 2 = n + 2
      BY <1>a
    <3>3. MetadataRead(0)'
      BY <1>0, <1>a, <1>b, <2>2, <3>1, <3>2 DEF MetadataRead, ReadByteCount
    <3>4. Position' = 0 /\ 0 < size_nibbles'
      BY <1>0, <2>2 DEF Position, ReadByteCount
    <3> QED
      BY <1>0, <2>2, <3>3, <3>4 DEF LengthSoFar, ReadByteCount, InHeader, In, blockVars
  <2> QED
    BY <2>1, <2>2
<1>3. HeaderAsSaid'
  <2>1. CASE v = 0
    <3>1. /\ read'[1] = is_last_metablock /\ (is_last_metablock = 1 => read'[2] = 0)
          /\ UNCHANGED <<is_last_metablock, is_metadata, is_uncompressed, skipped,
                         meta_block_remaining_len>>
      BY <1>a, <1>b DEF Begun, ReadByteCount, blockVars
    <3>2. HeaderSays(read') =
            [last |-> is_last_metablock, len |-> 0, metadata |-> 1, uncompressed |-> 0]
      BY <1>a, <1>b, <2>1, <3>1 DEF HeaderSays, Inv, Types
    <3> QED
      BY <1>0, <3>1, <3>2 DEF HeaderAsSaid
  <2>2. CASE v # 0
    BY <2>2 DEF HeaderAsSaid, ReadByteCount, InHeader, In
  <2> QED
    BY <2>1, <2>2
<1>4. CountSoFar'
  BY DEF Inv, CountSoFar, CountStates, Types, ReadByteCount, InHeader, In, HeaderDone,
       Padding, loopVars, countVars
<1>5. CountAsSaid'
  BY DEF Inv, CountAsSaid, CountSoFar, CountStates, Types, ReadByteCount, InHeader, In,
       HeaderDone, Padding, loopVars, countVars
<1>6. ModesSoFar'
  BY DEF Inv, ModesSoFar, Position, CountStates, Types, ReadByteCount, InHeader, In,
       HeaderDone, Padding, loopVars, countVars, modeVars
<1>7. ModesAsSaid'
  BY DEF ModesAsSaid, ModesSoFar, Types, ReadByteCount, InHeader, In, HeaderDone, Padding,
       modeVars
<1>8. WindowSoFar'
  BY HeaderIsRead DEF WindowSoFar, ReadByteCount, InHeader, In, HeaderDone, Padding
<1> QED
  BY <1>1, <1>2, <1>3, <1>4, <1>5, <1>6, <1>7, <1>8 DEF Inv

LEMMA ReadIsUncompressedKeepsInv ==
  ASSUME Inv, NEW v \in 0..1, ReadIsUncompressed(v)
  PROVE  Inv'
<1>0. /\ SizeRead(size_nibbles) \/ MetadataRead(size_nibbles)
      /\ skipped = 0 /\ is_uncompressed = 0
  BY HeaderIsRead DEF Inv, LengthSoFar, InHeader, In, ReadIsUncompressed
<1>a. PICK at \in {2, 3} : at = SizeField /\ (is_last_metablock = 1 => at = 3)
                           /\ (is_last_metablock = 0 => at = 2)
  BY DEF SizeField, Types
<1>b. /\ meta_block_remaining_len' = meta_block_remaining_len + 1
      /\ meta_block_remaining_len \in Nat /\ is_last_metablock \in 0..1
      /\ UNCHANGED <<is_last_metablock, is_metadata, skipped>>
  BY DEF ReadIsUncompressed, blockVars, Inv, Types
<1>1. Types'
  <2>1. read' \in {read, Append(read, v)} /\ read \in Seq(Nat) /\ v \in Nat
    BY DEF Inv, Types, ReadIsUncompressed
  <2>2. read' \in Seq(Nat)
    BY <2>1, AppendFacts
  <2>3. loop_counter' \in Nat /\ i' \in Nat
    BY DEF Inv, Types, ReadIsUncompressed, HeaderDone, loopVars
  <2> QED
    BY <1>b, <2>2, <2>3 DEF Inv, Types, ReadIsUncompressed, InHeader, In, Substates,
         windowVars, countVars, modeVars, blockVars
<1>2. LengthSoFar'
  BY DEF LengthSoFar, Begun, SizeField, SizeRead, MetadataRead, NoDigitYet, Position,
       Errors, Types, ReadIsUncompressed, InHeader, In, HeaderDone, Padding,
       SaysUncompressed, loopVars, blockVars
<1>3. HeaderAsSaid'
  <2> SUFFICES HeaderSays(read') =
                 [last |-> is_last_metablock, len |-> meta_block_remaining_len + 1,
                  metadata |-> is_metadata, uncompressed |-> is_uncompressed']
    BY <1>0, <1>b DEF HeaderAsSaid
  <2>1. CASE SizeRead(size_nibbles)
    <3>1. /\ is_metadata = 0 /\ size_nibbles \in 4..6 /\ Begun(at + size_nibbles)
          /\ read[at] = size_nibbles - 4
          /\ meta_block_remaining_len = Number(read, at, size_nibbles, 4)
      BY <1>a, <2>1 DEF SizeRead
    <3>2. CASE is_last_metablock = 0
      <4>1. read' = Append(read, v) /\ is_uncompressed' = v /\ v \in Nat
        BY <3>1, <3>2 DEF ReadIsUncompressed, SaysUncompressed
      <4>2. at = 2 /\ Len(read) = 2 + size_nibbles /\ read \in Seq(Nat) /\ read[1] = 0
        BY <1>a, <3>1, <3>2 DEF Begun, Inv, Types
      <4>3. /\ read'[1] = 0 /\ read'[2] = size_nibbles - 4
            /\ Len(read') = Len(read) + 1 /\ read'[Len(read')] = v
        <5>1. 1 \in 1..Len(read) /\ 2 \in 1..Len(read)
          BY <3>1, <4>2
        <5> QED
          BY <3>1, <4>1, <4>2, <5>1, AppendFacts
      <4>4. Number(read', 2, size_nibbles, 4) = meta_block_remaining_len
        <5>1. 2 + size_nibbles <= Len(read) /\ size_nibbles \in Nat
          BY <3>1, <4>2
        <5> QED
          BY <3>1, <4>1, <4>2, <5>1, NumberStays
      <4>5. 4 + read'[2] = size_nibbles /\ read'[2] # 3
        BY <3>1, <4>3
      <4>6. HeaderSays(read') =
              [last |-> 0, len |-> 1 + Number(read', 2, size_nibbles, 4), metadata |-> 0,
               uncompressed |-> v]
        BY <4>3, <4>5 DEF HeaderSays
      <4> QED
        BY <1>b, <3>1, <3>2, <4>1, <4>4, <4>6
    <3>3. CASE is_last_metablock = 1
      <4>1. read' = read /\ is_uncompressed' = 0
        BY <1>0, <3>3 DEF ReadIsUncompressed, SaysUncompressed
      <4>2. at = 3 /\ read[1] = 1 /\ read[2] = 0
        BY <1>a, <3>1, <3>3 DEF Begun
      <4>3. 4 + read[3] = size_nibbles /\ read[3] # 3
        BY <3>1, <4>2
      <4> QED
        BY <1>b, <3>1, <3>3, <4>1, <4>2, <4>3 DEF HeaderSays
    <3> QED
      BY <1>b, <3>2, <3>3
  <2>2. CASE MetadataRead(size_nibbles)
    <3>1. /\ is_metadata = 1 /\ size_nibbles \in 1..3 /\ Begun(at + 2 + size_nibbles)
          /\ read[at] = 3 /\ read[at + 2] = size_nibbles
          /\ meta_block_remaining_len = Number(read, at + 2, size_nibbles, 8)
      BY <1>a, <2>2 DEF MetadataRead
    <3>2. read' = read /\ is_uncompressed' = 0
      BY <1>0, <3>1 DEF ReadIsUncompressed, SaysUncompressed
    <3>3. read[1] = is_last_metablock /\ (is_last_metablock = 1 => read[2] = 0)
      BY <1>a, <3>1 DEF Begun
    <3> QED
      BY <1>a, <1>b, <3>1, <3>2, <3>3 DEF HeaderSays
  <2> QED
    BY <1>0, <2>1, <2>2
<1>4. CountSoFar'
  BY DEF Inv, CountSoFar, CountStates, Types, ReadIsUncompressed, InHeader, In,
       HeaderDone, Padding, SaysUncompressed, loopVars, countVars
<1>5. CountAsSaid'
  BY DEF Inv, CountAsSaid, CountSoFar, CountStates, Types, ReadIsUncompressed, InHeader,
       In, HeaderDone, Padding, SaysUncompressed, loopVars, countVars
<1>6. ModesSoFar'
  BY DEF Inv, ModesSoFar, Position, CountStates, Types, ReadIsUncompressed, InHeader, In,
       HeaderDone, Padding, SaysUncompressed, loopVars, countVars, modeVars
<1>7. ModesAsSaid'
  BY DEF ModesAsSaid, ModesSoFar, Types, ReadIsUncompressed, InHeader, In, HeaderDone,
       Padding, SaysUncompressed, modeVars
<1>8. WindowSoFar'
  BY HeaderIsRead DEF WindowSoFar, ReadIsUncompressed, InHeader, In, HeaderDone, Padding
<1> QED
  BY <1>1, <1>2, <1>3, <1>4, <1>5, <1>6, <1>7, <1>8 DEF Inv

LEMMA SkipMetadataKeepsInv ==
  ASSUME Inv, NEW n \in {1, meta_block_remaining_len}, SkipMetadata(n)
  PROVE  Inv'
<1>1. Types'
  BY DEF Inv, Types, SkipMetadata, In, windowVars, loopVars, countVars, modeVars, readVars
<1>2. LengthSoFar'
  BY DEF Inv, LengthSoFar, Begun, SizeField, SizeRead, MetadataRead, NoDigitYet, Position,
       Errors, Types, SkipMetadata, In, loopVars, readVars
<1>3. HeaderAsSaid'
  BY DEF Inv, HeaderAsSaid, LengthSoFar, Types, SkipMetadata, In, readVars
<1>4. CountSoFar'
  BY DEF Inv, CountSoFar, CountStates, Types, SkipMetadata, In, loopVars, countVars,
       readVars
<1>5. CountAsSaid'
  BY DEF Inv, CountAsSaid, CountSoFar, CountStates, Types, SkipMetadata, In, loopVars,
       countVars, readVars
<1>6. ModesSoFar'
  BY DEF Inv, ModesSoFar, Position, CountStates, Types, SkipMetadata, In, loopVars,
       countVars, modeVars, readVars
<1>7. ModesAsSaid'
  BY DEF ModesAsSaid, ModesSoFar, Types, SkipMetadata, In, modeVars, readVars
<1>8. WindowSoFar'
  BY DEF Inv, WindowSoFar, SmallWindow, LengthSoFar, Types, SkipMetadata, In, windowVars,
       readVars
<1> QED
  BY <1>1, <1>2, <1>3, <1>4, <1>5, <1>6, <1>7, <1>8 DEF Inv

LEMMA DecodeBodyKeepsInv ==
  ASSUME Inv, DecodeBody
  PROVE  Inv'
<1>1. Types'
  BY DEF Inv, Types, DecodeBody, windowVars, loopVars, countVars, modeVars, blockVars
<1>2. LengthSoFar'
  BY DEF Inv, LengthSoFar, Begun, SizeField, SizeRead, MetadataRead, NoDigitYet, Position,
       Errors, Types, DecodeBody, loopVars, blockVars
<1>3. HeaderAsSaid'
  BY DEF HeaderAsSaid, LengthSoFar, Types, DecodeBody, blockVars
<1>4. CountSoFar'
  BY DEF Inv, CountSoFar, CountStates, Types, DecodeBody, loopVars, countVars
<1>5. CountAsSaid'
  BY DEF CountAsSaid, CountSoFar, CountStates, Types, DecodeBody, loopVars, countVars
<1>6. ModesSoFar'
  BY DEF ModesSoFar, Position, CountStates, Types, DecodeBody, loopVars, countVars,
       modeVars
<1>7. ModesAsSaid'
  BY DEF ModesAsSaid, ModesSoFar, Types, DecodeBody, modeVars
<1>8. WindowSoFar'
  BY DEF WindowSoFar, SmallWindow, LengthSoFar, Types, DecodeBody, windowVars
<1> QED
  BY <1>1, <1>2, <1>3, <1>4, <1>5, <1>6, <1>7, <1>8 DEF Inv

LEMMA FinishMetablockKeepsInv ==
  ASSUME Inv, FinishMetablock
  PROVE  Inv'
<1>1. Types'
  BY DEF Inv, Types, FinishMetablock, In, Padding, windowVars, lengthVars, loopVars,
       countVars
<1>2. LengthSoFar'
  BY DEF Inv, LengthSoFar, Begun, SizeField, SizeRead, MetadataRead, NoDigitYet, Position,
       Errors, Types, FinishMetablock, In, Padding, lengthVars, loopVars
<1>3. HeaderAsSaid'
  BY DEF HeaderAsSaid, LengthSoFar, Types, FinishMetablock, In, Padding, lengthVars
<1>4. CountSoFar'
  BY DEF Inv, CountSoFar, CountStates, Types, FinishMetablock, In, Padding, loopVars,
       countVars
<1>5. CountAsSaid'
  BY DEF Inv, CountAsSaid, CountSoFar, CountStates, Types, FinishMetablock, In, Padding,
       loopVars, countVars
<1>6. ModesSoFar'
  BY DEF Inv, ModesSoFar, Position, CountStates, Types, FinishMetablock, In, Padding,
       loopVars, countVars
<1>7. ModesAsSaid'
  BY DEF ModesAsSaid, ModesSoFar, Types, FinishMetablock, In, Padding
<1>8. WindowSoFar'
  BY DEF Inv, WindowSoFar, SmallWindow, LengthSoFar, Types, FinishMetablock, In, Padding,
       windowVars
<1> QED
  BY <1>1, <1>2, <1>3, <1>4, <1>5, <1>6, <1>7, <1>8 DEF Inv

LEMMA ReadCountFlagKeepsInv ==
  ASSUME Inv, NEW v \in 0..1, ReadCountFlag(v)
  PROVE  Inv'
<1>1. Types'
  BY DEF Inv, Types, ReadCountFlag, InCount, In, First, CountIs, CountGoesOn, windowVars,
       lengthVars, modeVars, blockVars
<1>2. LengthSoFar'
  BY DEF Inv, LengthSoFar, Begun, SizeField, SizeRead, MetadataRead, NoDigitYet, Position,
       Errors, Types, ReadCountFlag, InCount, In, First, CountIs, CountGoesOn, lengthVars,
       blockVars
<1>3. HeaderAsSaid'
  BY DEF HeaderAsSaid, LengthSoFar, Types, ReadCountFlag, InCount, In, First, CountIs,
       CountGoesOn, lengthVars, blockVars
<1>4. CountSoFar'
  BY DEF Inv, CountSoFar, CountStates, Types, ReadCountFlag, InCount, In, First, CountIs,
       CountGoesOn
<1>5. CountAsSaid'
  <2>1. CASE v = 0
    <3>1. loop_counter \in Categories /\ num_block_types \in [Categories -> Nat]
      BY DEF ReadCountFlag, InCount, Inv, Types, Categories
    <3>2. /\ read' = <<0>> /\ state' = "HUFFMAN_CODE_0"
          /\ loop_counter' = loop_counter + 1
          /\ num_block_types'[loop_counter] = 1
      BY <2>1, <3>1 DEF ReadCountFlag, InCount, In, First, CountIs
    <3>3. loop_counter' - 1 = loop_counter /\ read'[1] = 0
      BY <3>1, <3>2 DEF Categories
    <3> QED
      BY <3>2, <3>3 DEF CountAsSaid
  <2>2. CASE v = 1
    BY <2>2 DEF CountAsSaid, ReadCountFlag, CountGoesOn
  <2> QED
    BY <2>1, <2>2
<1>6. ModesSoFar'
  BY DEF Inv, ModesSoFar, Position, CountStates, Types, ReadCountFlag, InCount, In, First,
       CountIs, CountGoesOn, modeVars
<1>7. ModesAsSaid'
  BY DEF ModesAsSaid, ModesSoFar, Types, ReadCountFlag, InCount, In, First, CountIs,
       CountGoesOn, modeVars
<1>8. WindowSoFar'
  BY DEF WindowSoFar, SmallWindow, LengthSoFar, Types, ReadCountFlag, InCount, In, First,
       CountIs, CountGoesOn, windowVars
<1> QED
  BY <1>1, <1>2, <1>3, <1>4, <1>5, <1>6, <1>7, <1>8 DEF Inv

LEMMA ReadCountWidthKeepsInv ==
  ASSUME Inv, NEW v \in 0..7, ReadCountWidth(v)
  PROVE  Inv'
<1>0. /\ loop_counter \in Categories /\ num_block_types \in [Categories -> Nat]
      /\ loop_counter \in 0..2
      /\ part = "count" /\ read \in Seq(Nat) /\ Len(read) = 1 /\ read[1] = 1
  BY DEF ReadCountWidth, InCount, Inv, Types, Categories, CountSoFar
<1>a. /\ Len(read') = 2 /\ read'[1] = 1 /\ read'[2] = v /\ part' = "count"
      /\ read' # <<>>
  <2>1. read' = Append(read, v) /\ part' = part /\ v \in Nat
    BY DEF ReadCountWidth, Field
  <2>2. 1 \in 1..Len(read) /\ Len(read) + 1 = 2
    BY <1>0
  <2>3. Len(read') = 2 /\ read'[1] = 1 /\ read'[2] = v
    BY <1>0, <2>1, <2>2, AppendFacts
  <2> QED
    BY <1>0, <2>1, <2>3
<1>1. Types'
  BY DEF Inv, Types, ReadCountWidth, InCount, In, Field, CountIs, CountGoesOn, windowVars,
       lengthVars, modeVars, blockVars
<1>2. LengthSoFar'
  BY DEF Inv, LengthSoFar, Begun, SizeField, SizeRead, MetadataRead, NoDigitYet, Position,
       Errors, Types, ReadCountWidth, InCount, In, Field, CountIs, CountGoesOn,
       lengthVars, blockVars
<1>3. HeaderAsSaid'
  BY <1>a DEF HeaderAsSaid
<1>4. CountSoFar'
  <2>1. CASE v = 0
    BY <1>0, <1>a, <2>1 DEF CountSoFar, CountStates, ReadCountWidth, InCount, In, CountIs
  <2>2. CASE v \in 1..7
    <3>1. num_block_types'[loop_counter] = v
      BY <1>0, <2>2 DEF ReadCountWidth, CountGoesOn
    <3> QED
      BY <1>0, <1>a, <2>2, <3>1 DEF CountSoFar, CountStates, ReadCountWidth, InCount, In,
           CountGoesOn
  <2> QED
    BY <2>1, <2>2
<1>5. CountAsSaid'
  <2>1. CASE v = 0
    <3>1. /\ state' = "HUFFMAN_CODE_1" /\ loop_counter' = loop_counter
          /\ num_block_types'[loop_counter] = 2
      BY <1>0, <2>1 DEF ReadCountWidth, In, CountIs
    <3> QED
      BY <1>a, <2>1, <3>1 DEF CountAsSaid
  <2>2. CASE v \in 1..7
    BY <2>2 DEF CountAsSaid, ReadCountWidth, CountGoesOn
  <2> QED
    BY <2>1, <2>2
<1>6. ModesSoFar'
  BY DEF Inv, ModesSoFar, Position, CountStates, Types, ReadCountWidth, InCount, In,
       Field, CountIs, CountGoesOn, modeVars
<1>7. ModesAsSaid'
  BY DEF ModesAsSaid, ModesSoFar, Types, ReadCountWidth, InCount, In, Field, CountIs,
       CountGoesOn, modeVars
<1>8. WindowSoFar'
  BY DEF Inv, WindowSoFar, SmallWindow, LengthSoFar, Types, ReadCountWidth, InCount, In,
       Field, CountIs, CountGoesOn, windowVars
<1> QED
  BY <1>1, <1>2, <1>3, <1>4, <1>5, <1>6, <1>7, <1>8 DEF Inv

LEMMA ReadCountRestKeepsInv ==
  ASSUME Inv, NEW v \in 0..127, ReadCountRest(v)
  PROVE  Inv'
<1>0. /\ loop_counter \in Categories /\ num_block_types \in [Categories -> Nat]
      /\ loop_counter \in 0..2
      /\ part = "count" /\ read \in Seq(Nat) /\ Len(read) = 2 /\ read[1] = 1
      /\ read[2] \in 1..7 /\ num_block_types[loop_counter] = read[2]
  BY DEF ReadCountRest, InCount, Inv, Types, Categories, CountSoFar
<1>a. PICK power \in Nat : power = 2^read[2] /\ power >= 1
  <2>1. PICK n \in 1..7 : n = read[2]
    BY <1>0
  <2> QED
    BY <2>1, CountPower
<1>b. /\ Len(read') = 3 /\ read' \in Seq(Nat) /\ read'[1] = 1 /\ read'[2] = read[2]
      /\ read'[3] = v /\ part' = "count"
  <2>1. read' = Append(read, v) /\ part' = part
    BY DEF ReadCountRest, Field
  <2>2. 1 \in 1..Len(read) /\ 2 \in 1..Len(read) /\ Len(read) + 1 = 3 /\ v \in Nat
    BY <1>0
  <2>3. /\ Len(read') = 3 /\ read' \in Seq(Nat) /\ read'[1] = 1 /\ read'[2] = read[2]
        /\ read'[3] = v
    BY <1>0, <2>1, <2>2, AppendFacts
  <2> QED
    BY <1>0, <2>1, <2>3
<1>c. CountIs(power + v)
  BY <1>0, <1>a DEF ReadCountRest
<1>d. /\ num_block_types' = [num_block_types EXCEPT ![loop_counter] = power + v + 1]
      /\ power + v # 0 /\ substate_decode_uint8' = "NONE"
      /\ state' = "HUFFMAN_CODE_1" /\ loop_counter' = loop_counter
  BY <1>a, <1>c DEF CountIs
<1>1. Types'
  <2>1. power + v + 1 \in Nat
    BY <1>a
  <2>2. num_block_types' \in [Categories -> Nat]
    BY <1>0, <1>d, <2>1
  <2> QED
    BY <1>b, <1>d, <2>2 DEF Inv, Types, ReadCountRest, InCount, In, windowVars,
         lengthVars, modeVars, blockVars
<1>2. LengthSoFar'
  BY DEF Inv, LengthSoFar, Begun, SizeField, SizeRead, MetadataRead, NoDigitYet, Position,
       Errors, Types, ReadCountRest, InCount, In, Field, CountIs, lengthVars, blockVars
<1>3. HeaderAsSaid'
  BY <1>b DEF HeaderAsSaid
<1>4. CountSoFar'
  BY <1>0, <1>b, <1>d DEF CountSoFar, CountStates
<1>5. CountAsSaid'
  <2>1. num_block_types'[loop_counter'] = power + v + 1
    BY <1>0, <1>d
  <2>2. 2^read'[2] = power
    BY <1>a, <1>b
  <2>3. read'[2] # 0
    BY <1>0, <1>b
  <2>4. (CASE read'[1] = 0 -> 0
            [] read'[1] = 1 /\ read'[2] = 0 -> 1
            [] OTHER -> 2^read'[2] + read'[3]) = power + v
    BY <1>b, <2>2, <2>3
  <2>5. power + v + 1 = 1 + (power + v)
    BY <1>a
  <2> QED
    BY <1>d, <2>1, <2>4, <2>5 DEF CountAsSaid
<1>6. ModesSoFar'
  <2>1. \A c \in Categories : num_block_types'[c] >= 1
    <3>1. power + v + 1 >= 1
      BY <1>a
    <3>2. \A c \in Categories : num_block_types[c] >= 1
      BY DEF Inv, ModesSoFar, CountStates, ReadCountRest, InCount, In
    <3> QED
      BY <1>0, <1>d, <3>1, <3>2
  <2> QED
    BY <1>b, <1>d, <2>1 DEF ModesSoFar
<1>7. ModesAsSaid'
  BY DEF ModesAsSaid, ModesSoFar, Types, ReadCountRest, InCount, In, Field, CountIs,
       modeVars
<1>8. WindowSoFar'
  BY DEF Inv, WindowSoFar, SmallWindow, LengthSoFar, Types, ReadCountRest, InCount, In,
       Field, CountIs, windowVars
<1> QED
  BY <1>1, <1>2, <1>3, <1>4, <1>5, <1>6, <1>7, <1>8 DEF Inv

LEMMA ReadBlockCodesKeepsInv ==
  ASSUME Inv, ReadBlockCodes
  PROVE  Inv'
<1>1. Types'
  BY DEF Inv, Types, ReadBlockCodes, In, windowVars, lengthVars, countVars, modeVars,
       blockVars
<1>2. LengthSoFar'
  BY DEF Inv, LengthSoFar, Begun, SizeField, SizeRead, MetadataRead, NoDigitYet, Position,
       Errors, Types, ReadBlockCodes, In, lengthVars, blockVars
<1>3. HeaderAsSaid'
  BY DEF HeaderAsSaid, LengthSoFar, Types, ReadBlockCodes, In, lengthVars, blockVars
<1>4. CountSoFar'
  BY DEF Inv, CountSoFar, CountStates, Types, ReadBlockCodes, In, countVars
<1>5. CountAsSaid'
  BY DEF CountAsSaid, CountSoFar, CountStates, Types, ReadBlockCodes, In, countVars
<1>6. ModesSoFar'
  BY DEF Inv, ModesSoFar, Position, CountStates, Types, ReadBlockCodes, In, countVars,
       modeVars
<1>7. ModesAsSaid'
  BY DEF ModesAsSaid, ModesSoFar, Types, ReadBlockCodes, In, modeVars
<1>8. WindowSoFar'
  BY DEF WindowSoFar, SmallWindow, LengthSoFar, Types, ReadBlockCodes, In, windowVars
<1> QED
  BY <1>1, <1>2, <1>3, <1>4, <1>5, <1>6, <1>7, <1>8 DEF Inv

LEMMA CountsDoneKeepsInv ==
  ASSUME Inv, CountsDone
  PROVE  Inv'
<1>1. Types'
  BY DEF Inv, Types, CountsDone, In, windowVars, lengthVars, loopVars, countVars,
       modeVars, readVars, blockVars
<1>2. LengthSoFar'
  BY DEF Inv, LengthSoFar, Begun, SizeField, SizeRead, MetadataRead, NoDigitYet, Position,
       Errors, Types, CountsDone, In, lengthVars, loopVars, readVars, blockVars
<1>3. HeaderAsSaid'
  BY DEF HeaderAsSaid, LengthSoFar, Types, CountsDone, In, lengthVars, readVars, blockVars
<1>4. CountSoFar'
  BY DEF Inv, CountSoFar, CountStates, Types, CountsDone, In, loopVars, countVars,
       readVars
<1>5. CountAsSaid'
  BY DEF Inv, CountAsSaid, CountSoFar, CountStates, Types, CountsDone, In, loopVars,
       countVars, readVars
<1>6. ModesSoFar'
  BY DEF Inv, ModesSoFar, Position, CountStates, Types, CountsDone, In, loopVars,
       countVars, modeVars, readVars
<1>7. ModesAsSaid'
  BY DEF ModesAsSaid, ModesSoFar, Types, CountsDone, In, modeVars, readVars
<1>8. WindowSoFar'
  BY DEF Inv, WindowSoFar, SmallWindow, LengthSoFar, Types, CountsDone, In, windowVars,
       readVars
<1> QED
  BY <1>1, <1>2, <1>3, <1>4, <1>5, <1>6, <1>7, <1>8 DEF Inv

LEMMA ReadDistanceParametersKeepsInv ==
  ASSUME Inv, NEW v \in 0..63, ReadDistanceParameters(v)
  PROVE  Inv'
<1>1. Types'
  BY DEF Inv, Types, ReadDistanceParameters, In, First, windowVars, lengthVars, countVars,
       blockVars
<1>2. LengthSoFar'
  BY DEF Inv, LengthSoFar, Begun, SizeField, SizeRead, MetadataRead, NoDigitYet, Position,
       Errors, Types, ReadDistanceParameters, In, First, lengthVars, blockVars
<1>3. HeaderAsSaid'
  BY DEF HeaderAsSaid, LengthSoFar, Types, ReadDistanceParameters, In, First, lengthVars,
       blockVars
<1>4. CountSoFar'
  BY DEF Inv, CountSoFar, CountStates, Types, ReadDistanceParameters, In, First, countVars
<1>5. CountAsSaid'
  BY DEF CountAsSaid, CountSoFar, CountStates, Types, ReadDistanceParameters, In, First,
       countVars
<1>6. ModesSoFar'
  <2>1. /\ num_block_types \in [Categories -> Nat] /\ 0 \in Categories
        /\ \A c \in Categories : num_block_types[c] >= 1
    BY DEF Inv, Types, Categories, ModesSoFar, CountStates, ReadDistanceParameters, In
  <2>2. num_block_types[0] \in Nat /\ num_block_types[0] >= 1
    BY <2>1
  <2>3. Position' = 0
    BY DEF Position, ReadDistanceParameters
  <2>4. context_modes' \in [1..num_block_types[0] -> Nat]
    BY DEF ReadDistanceParameters
  <2> QED
    BY <2>1, <2>2, <2>3, <2>4 DEF ModesSoFar, ReadDistanceParameters, First, countVars
<1>7. ModesAsSaid'
  BY DEF ModesAsSaid, ModesSoFar, Types, ReadDistanceParameters, In, First
<1>8. WindowSoFar'
  BY DEF WindowSoFar, SmallWindow, LengthSoFar, Types, ReadDistanceParameters, In, First,
       windowVars
<1> QED
  BY <1>1, <1>2, <1>3, <1>4, <1>5, <1>6, <1>7, <1>8 DEF Inv

LEMMA ReadContextModeKeepsInv ==
  ASSUME Inv, NEW v \in 0..3, ReadContextMode(v)
  PROVE  Inv'
<1>0. PICK n \in Nat : n = num_block_types[0]
  BY DEF Inv, Types, Categories
<1>a. /\ i \in Nat /\ i < n /\ context_modes \in [1..n -> Nat] /\ v \in Nat
      /\ read \in Seq(Nat)
      /\ i # 0 => /\ part = "modes" /\ Len(read) = i
                  /\ \A k \in 1..i : context_modes[k] = read[k]
      /\ \A c \in Categories : num_block_types[c] >= 1
  BY <1>0 DEF Inv, Types, ModesSoFar, Position, ReadContextMode, In
<1>b. /\ read' \in Seq(Nat) /\ part' = "modes" /\ Len(read') = i + 1
      /\ read'[i + 1] = v
      /\ \A k \in 1..i : read'[k] = context_modes[k]
  <2>1. CASE i = 0
    <3>1. read' = <<v>> /\ part' = "modes"
      BY <2>1 DEF ReadContextMode, First
    <3> QED
      BY <1>a, <2>1, <3>1
  <2>2. CASE i # 0
    <3>1. read' = Append(read, v) /\ part' = part
      BY <2>2 DEF ReadContextMode, Field
    <3> QED
      BY <1>a, <2>2, <3>1, AppendFacts
  <2> QED
    BY <2>1, <2>2
<1>c. /\ context_modes' \in [1..n -> Nat]
      /\ \A k \in 1..(i + 1) : context_modes'[k] = read'[k]
  <2>1. context_modes' = [context_modes EXCEPT ![i + 1] = v] /\ i + 1 \in 1..n
    BY <1>a DEF ReadContextMode
  <2>2. \A k \in 1..i : k \in 1..n /\ k # i + 1
    BY <1>a
  <2>3. \A k \in 1..i : context_modes'[k] = read'[k]
    BY <1>a, <1>b, <2>1, <2>2
  <2>4. context_modes'[i + 1] = read'[i + 1]
    BY <1>a, <1>b, <2>1
  <2>5. \A k \in 1..(i + 1) : k \in 1..i \/ k = i + 1
    BY <1>a
  <2> QED
    BY <1>a, <2>1, <2>3, <2>4, <2>5
<1>d. /\ i' = i + 1 /\ running' /\ num_block_types' = num_block_types
      /\ state' = IF i + 1 = n THEN "CONTEXT_MAP_1" ELSE "CONTEXT_MODES"
  BY <1>0 DEF ReadContextMode, In, countVars
<1>1. Types'
  <2>1. running \in BOOLEAN /\ running' \in BOOLEAN /\ i' \in Nat
    BY <1>a, <1>d DEF Inv, Types
  <2> QED
    BY <1>b, <2>1 DEF Inv, Types, ReadContextMode, windowVars, lengthVars, countVars,
         blockVars
<1>2. LengthSoFar'
  BY DEF Inv, LengthSoFar, Begun, SizeField, SizeRead, MetadataRead, NoDigitYet, Position,
       Errors, Types, ReadContextMode, In, First, Field, lengthVars, blockVars
<1>3. HeaderAsSaid'
  BY DEF HeaderAsSaid, LengthSoFar, Types, ReadContextMode, In, First, Field, lengthVars,
       blockVars
<1>4. CountSoFar'
  BY DEF Inv, CountSoFar, CountStates, Types, ReadContextMode, In, First, Field, countVars
<1>5. CountAsSaid'
  BY DEF Inv, CountAsSaid, CountSoFar, CountStates, Types, ReadContextMode, In, First,
       Field, countVars
<1>6. ModesSoFar'
  <2>1. Position' = i + 1
    BY <1>d DEF Position
  <2>2. CASE i + 1 = n
    BY <1>a, <1>b, <1>d, <2>2 DEF ModesSoFar
  <2>3. CASE i + 1 # n
    <3>1. i + 1 < n /\ i + 1 # 0
      BY <1>a, <2>3
    <3> QED
      BY <1>0, <1>a, <1>b, <1>c, <1>d, <2>1, <3>1 DEF ModesSoFar
  <2> QED
    BY <2>2, <2>3
<1>7. ModesAsSaid'
  <2>1. CASE i + 1 = n
    <3>1. read' \in [1..n -> Nat]
      BY <1>b, <2>1, LenProperties
    <3>2. \A k \in 1..n : context_modes'[k] = read'[k]
      BY <1>c, <2>1
    <3>3. context_modes' = read'
      BY <1>c, <3>1, <3>2
    <3> QED
      BY <3>3 DEF ModesAsSaid
  <2>2. CASE i + 1 # n
    BY <1>d, <2>2 DEF ModesAsSaid
  <2> QED
    BY <2>1, <2>2
<1>8. WindowSoFar'
  BY DEF Inv, WindowSoFar, SmallWindow, LengthSoFar, Types, ReadContextMode, In, First,
       Field, windowVars
<1> QED
  BY <1>1, <1>2, <1>3, <1>4, <1>5, <1>6, <1>7, <1>8 DEF Inv

-----------------------------------------------------------------------------
(* The invariant                                                           *)

LEMMA InitInv == Init => Inv
<1> SUFFICES ASSUME Init PROVE Inv
  OBVIOUS
<1>1. Types
  <2>1. large_window \in BOOLEAN /\ asked_large \in BOOLEAN
    BY Zenon DEF Init
  <2>2. read \in Seq(Nat) /\ num_block_types \in [Categories -> Nat]
    BY DEF Init
  <2>3. /\ running = FALSE /\ substate_metablock_header = "NONE"
        /\ window_bits = 0 /\ is_last_metablock = 0 /\ is_uncompressed = 0
        /\ is_metadata = 0 /\ meta_block_remaining_len = 0 /\ skipped = 0
        /\ size_nibbles = 0 /\ loop_counter = 0 /\ i = 0
    BY DEF Init
  <2>4. /\ substate_metablock_header \in Substates
        /\ window_bits \in Nat /\ is_last_metablock \in 0..1
        /\ is_uncompressed \in 0..1 /\ is_metadata \in 0..1
        /\ meta_block_remaining_len \in Nat /\ skipped \in Nat
        /\ size_nibbles \in Nat /\ loop_counter \in Nat /\ i \in Nat
    BY <2>3 DEF Substates
  <2>5. running \in BOOLEAN
    BY <2>3, Zenon
  <2> QED
    BY <2>1, <2>2, <2>4, <2>5, Zenon DEF Types
<1>2. LengthSoFar
  BY DEF Init, LengthSoFar
<1>3. HeaderAsSaid /\ CountAsSaid /\ ModesAsSaid
  BY DEF Init, HeaderAsSaid, CountAsSaid, ModesAsSaid
<1>4. CountSoFar
  BY DEF Init, CountSoFar
<1>5. ModesSoFar
  BY DEF Init, ModesSoFar, CountStates
<1>6. WindowSoFar
  BY DEF Init, WindowSoFar
<1> QED
  BY <1>1, <1>2, <1>3, <1>4, <1>5, <1>6 DEF Inv

LEMMA StutterInv == Inv /\ UNCHANGED vars => Inv'
<1> SUFFICES ASSUME Inv, UNCHANGED vars PROVE Inv'
  OBVIOUS
<1> USE DEF vars, windowVars, lengthVars, loopVars, countVars, modeVars, readVars, blockVars
<1>1. Types'
  BY DEF Inv, Types
<1>2. LengthSoFar'
  BY DEF Inv, LengthSoFar, Begun, SizeField, SizeRead, MetadataRead, NoDigitYet, Position
<1>3. HeaderAsSaid' /\ CountAsSaid' /\ ModesAsSaid'
  BY DEF Inv, HeaderAsSaid, CountAsSaid, ModesAsSaid
<1>4. CountSoFar'
  BY DEF Inv, CountSoFar
<1>5. ModesSoFar'
  BY DEF Inv, ModesSoFar, Position
<1>6. WindowSoFar'
  BY DEF Inv, WindowSoFar, SmallWindow
<1> QED
  BY <1>1, <1>2, <1>3, <1>4, <1>5, <1>6 DEF Inv

LEMMA NextInv == Inv /\ [Next]_vars => Inv'
<1> SUFFICES ASSUME Inv, [Next]_vars PROVE Inv'
  OBVIOUS
<1>1. CASE MissField \/ Resume
  BY <1>1, MissFieldKeepsInv, ResumeKeepsInv
<1>2. CASE Window
  BY <1>2, DecodeWindowBitsKeepsInv, DecodeLargeWindowKeepsInv,
       ReadLargeWindowBitsKeepsInv DEF Window
<1>3. CASE Header
  BY <1>3, MetablockBeginKeepsInv, ReadIsLastKeepsInv, ReadIsEmptyKeepsInv,
       ReadReservedKeepsInv, ReadIsUncompressedKeepsInv, ReadNibbleCountKeepsInv,
       ReadByteCountKeepsInv, ReadNibbleKeepsInv, ReadLengthByteKeepsInv DEF Header
<1>4. CASE Counts
  BY <1>4, ReadCountFlagKeepsInv, ReadCountWidthKeepsInv, ReadCountRestKeepsInv,
       ReadBlockCodesKeepsInv, CountsDoneKeepsInv DEF Counts
<1>5. CASE Modes
  BY <1>5, ReadDistanceParametersKeepsInv, ReadContextModeKeepsInv DEF Modes
<1>6. CASE Body
  BY <1>6, SkipMetadataKeepsInv, DecodeBodyKeepsInv, FinishMetablockKeepsInv DEF Body
<1>7. CASE UNCHANGED vars
  BY <1>7, StutterInv
<1> QED
  BY <1>1, <1>2, <1>3, <1>4, <1>5, <1>6, <1>7 DEF Next

\* Wherever a call may end, what the decoder has kept of a header, of a number of
\* block types or of the context modes is what the fields read so far say.
THEOREM InvHolds == Spec => []Inv
<1>1. Init => Inv
  BY InitInv
<1>2. Inv /\ [Next]_vars => Inv'
  BY NextInv
<1> QED
  BY <1>1, <1>2, PTL DEF Spec

\* However the input is cut into calls, the decoder makes of the fields of a
\* meta-block header what they mean when they are read at once: DecodeMetaBlockLength,
\* DecodeVarLenUint8 and ReadContextModes resume where they stopped.
THEOREM FieldsStayAsSaid == Spec => []FieldsAsSaid
<1>1. Inv => FieldsAsSaid
  BY DEF Inv, FieldsAsSaid
<1> QED
  BY <1>1, InvHolds, PTL

-----------------------------------------------------------------------------
(* The peek of brotli_decode                                               *)

\* What lg_window_size finds, arm by arm.
LEMMA PeekedWindow ==
  ASSUME NEW first \in 0..255, NEW second \in 0..63
  PROVE  /\ first % 2 = 0 => LgWindowSize(first, second) = <<16, 1>>
         /\ \A n \in 1..7 :
              first % 16 = 1 + 2 * n => LgWindowSize(first, second) = <<17 + n, 4>>
         /\ first % 128 = 1 => LgWindowSize(first, second) = <<17, 7>>
         /\ \A n \in 2..7 :
              first % 128 = 1 + 16 * n => LgWindowSize(first, second) = <<8 + n, 7>>
         /\ first = 17 /\ second \in 10..30 =>
              LgWindowSize(first, second) = <<second, 14>>
         /\ first = 17 /\ second \notin 10..30 => LgWindowSize(first, second) = <<>>
         /\ first = 145 => LgWindowSize(first, second) = <<>>
<1>1. ASSUME first % 2 = 0
      PROVE  LgWindowSize(first, second) = <<16, 1>>
  <2>1. /\ first % 16 \notin {3, 5, 7, 9, 11, 13, 15}
        /\ first % 128 \notin {33, 49, 65, 81, 97, 113}
        /\ first % 128 # 1 /\ first # 17
    BY <1>1
  <2> QED
    BY <1>1, <2>1 DEF LgWindowSize
<1>2. ASSUME NEW n \in 1..7, first % 16 = 1 + 2 * n
      PROVE  LgWindowSize(first, second) = <<17 + n, 4>>
  <2>1. /\ first % 2 # 0
        /\ first % 16 \in {3, 5, 7, 9, 11, 13, 15}
        /\ first % 128 \notin {33, 49, 65, 81, 97, 113}
        /\ first % 128 # 1 /\ first # 17
    BY <1>2
  <2>2. (first % 16) \div 2 = n
    BY <1>2
  <2> QED
    BY <2>1, <2>2 DEF LgWindowSize
<1>3. ASSUME first % 128 = 1
      PROVE  LgWindowSize(first, second) = <<17, 7>>
  <2>1. /\ first % 2 # 0
        /\ first % 16 \notin {3, 5, 7, 9, 11, 13, 15}
        /\ first # 17
    BY <1>3
  <2> QED
    BY <1>3, <2>1 DEF LgWindowSize
<1>4. ASSUME NEW n \in 2..7, first % 128 = 1 + 16 * n
      PROVE  LgWindowSize(first, second) = <<8 + n, 7>>
  <2>1. /\ first % 2 # 0
        /\ first % 16 \notin {3, 5, 7, 9, 11, 13, 15}
        /\ first % 128 \in {33, 49, 65, 81, 97, 113}
        /\ first % 128 # 1 /\ first # 17
    BY <1>4
  <2>2. (first % 128) \div 16 = n
    BY <1>4
  <2> QED
    BY <2>1, <2>2 DEF LgWindowSize
<1>5. ASSUME first \in {17, 145}
      PROVE  /\ first % 2 # 0
             /\ first % 16 \notin {3, 5, 7, 9, 11, 13, 15}
             /\ first % 128 \notin {33, 49, 65, 81, 97, 113}
             /\ first % 128 # 1
  BY <1>5
<1>6. second % 64 = second
  OBVIOUS
<1>7. ASSUME first = 17, second \in 10..30
      PROVE  LgWindowSize(first, second) = <<second, 14>>
  BY <1>5, <1>6, <1>7 DEF LgWindowSize
<1>8. ASSUME first = 17, second \notin 10..30
      PROVE  LgWindowSize(first, second) = <<>>
  BY <1>5, <1>6, <1>8 DEF LgWindowSize
<1>9. ASSUME first = 145
      PROVE  LgWindowSize(first, second) = <<>>
  BY <1>5, <1>9 DEF LgWindowSize
<1> QED
  BY <1>1, <1>2, <1>3, <1>4, <1>7, <1>8, <1>9

\* The bits the peek compares, by the fields of the decoder.
PeekedBits(f) ==
  IF f % 2 = 0 THEN 1
  ELSE IF (f \div 2) % 8 # 0 THEN 4
  ELSE IF f % 128 # 17 THEN 7
  ELSE 8

LEMMA WindowFollows == Inv => WindowAsPeeked
<1> DEFINE Peeks(first, second) ==
             CASE state = "METABLOCK_BEGIN" ->
                    LgWindowSize(first, second) =
                      <<window_bits, IF Len(read) = 2 THEN 14 ELSE PeekedBits(read[1])>>
               [] state = "ERROR_FORMAT_WINDOW_BITS" /\ asked_large ->
                    LgWindowSize(first, second) = <<>>
               [] OTHER -> TRUE
<1> SUFFICES ASSUME Inv, part = "window", read # <<>>, state # "LARGE_WINDOW_BITS",
                    NEW first \in 0..255, NEW second \in 0..63,
                    first % 2^PeekedBits(read[1]) = read[1],
                    Len(read) = 2 => second = read[2]
             PROVE  Peeks(first, second)
  BY DEF WindowAsPeeked, PeekedBits
<1>0. 2^1 = 2 /\ 2^4 = 16 /\ 2^7 = 128 /\ 2^8 = 256
  OBVIOUS
<1>1. CASE state = "METABLOCK_BEGIN" /\ SmallWindow
  <2>1. CASE read = <<0>> /\ window_bits = 16
    <3>1. first % 2 = 0
      <4>1. read[1] = 0 /\ PeekedBits(0) = 1
        BY <2>1 DEF PeekedBits
      <4>2. first % 2^1 = 0
        BY <4>1, Zenon
      <4> QED
        BY <4>2
    <3>2. LgWindowSize(first, second) = <<16, 1>>
      BY <3>1, PeekedWindow
    <3> QED
      BY <1>1, <2>1, <3>2 DEF PeekedBits
  <2>2. ASSUME NEW n \in 1..7, read = <<1 + 2 * n>>, window_bits = 17 + n
        PROVE  Peeks(first, second)
    <3>1. PeekedBits(1 + 2 * n) = 4
      BY DEF PeekedBits
    <3>2. first % 16 = 1 + 2 * n
      BY <1>0, <2>2, <3>1
    <3>3. LgWindowSize(first, second) = <<17 + n, 4>>
      BY <3>2, PeekedWindow
    <3> QED
      BY <1>1, <2>2, <3>1, <3>3
  <2>3. CASE read = <<1>> /\ window_bits = 17
    <3>1. first % 128 = 1
      <4>1. read[1] = 1 /\ PeekedBits(1) = 7
        BY <2>3 DEF PeekedBits
      <4>2. first % 2^7 = 1
        BY <4>1, Zenon
      <4> QED
        BY <4>2
    <3>2. LgWindowSize(first, second) = <<17, 7>>
      BY <3>1, PeekedWindow
    <3> QED
      BY <1>1, <2>3, <3>2 DEF PeekedBits
  <2>4. ASSUME NEW n \in 2..7, read = <<1 + 16 * n>>, window_bits = 8 + n
        PROVE  Peeks(first, second)
    <3>1. PeekedBits(1 + 16 * n) = 7
      BY DEF PeekedBits
    <3>2. first % 128 = 1 + 16 * n
      BY <1>0, <2>4, <3>1
    <3>3. LgWindowSize(first, second) = <<8 + n, 7>>
      BY <3>2, PeekedWindow
    <3> QED
      BY <1>1, <2>4, <3>1, <3>3
  <2> QED
    BY <1>1, <2>1, <2>2, <2>3, <2>4 DEF SmallWindow
<1>2. ASSUME NEW n \in 0..63, read = <<17, n>>
      PROVE  first = 17 /\ second = n /\ PeekedBits(read[1]) = 8 /\ Len(read) = 2
  <2>1. PeekedBits(17) = 8
    BY DEF PeekedBits
  <2>2. read[1] = 17 /\ read[2] = n /\ Len(read) = 2
    BY <1>2
  <2>3. first % 2^8 = 17
    BY <2>1, <2>2, Zenon
  <2>4. first = 17
    BY <2>3
  <2> QED
    BY <2>1, <2>2, <2>4
<1>3. CASE state = "METABLOCK_BEGIN" /\ window_bits \in 10..30 /\ read = <<17, window_bits>>
  <2>1. first = 17 /\ second = window_bits /\ Len(read) = 2
    BY <1>2, <1>3
  <2>2. LgWindowSize(first, second) = <<window_bits, 14>>
    BY <1>3, <2>1, PeekedWindow
  <2> QED
    BY <1>3, <2>1, <2>2
<1>4. CASE state = "ERROR_FORMAT_WINDOW_BITS"
  <2>1. CASE ~asked_large
    BY <1>4, <2>1
  <2>2. CASE read = <<145>>
    <3>1. first % 256 = 145
      <4>1. read[1] = 145 /\ PeekedBits(145) = 8
        BY <2>2 DEF PeekedBits
      <4>2. PICK value \in Nat : value = read[1] /\ value = 145
        BY <4>1
      <4>3. first % 2^PeekedBits(value) = value
        BY <4>2, Zenon
      <4>4. first % 2^8 = value
        BY <4>1, <4>2, <4>3, Zenon
      <4> QED
        BY <4>2, <4>4
    <3>2. first = 145
      BY <3>1
    <3>3. LgWindowSize(first, second) = <<>>
      BY <3>2, PeekedWindow
    <3> QED
      BY <1>4, <3>3
  <2>3. ASSUME NEW n \in (0..63) \ (10..30), read = <<17, n>>
        PROVE  Peeks(first, second)
    <3>1. LgWindowSize(first, second) = <<>>
      BY <1>2, <2>3, PeekedWindow
    <3> QED
      BY <1>4, <3>1
  <2> QED
    BY <1>4, <2>1, <2>2, <2>3 DEF Inv, WindowSoFar
<1>5. CASE state = "METABLOCK_HEADER"
  BY <1>5
<1> QED
  BY <1>1, <1>3, <1>4, <1>5 DEF Inv, WindowSoFar

\* brotli_decode sizes its memory by a peek at the first two bytes of the stream
\* (lg_window_size); DecodeWindowBits and the state LARGE_WINDOW_BITS make the same
\* of them, whatever bits follow.
THEOREM WindowStaysAsPeeked == Spec => []WindowAsPeeked
<1>1. Inv => WindowAsPeeked
  BY WindowFollows
<1> QED
  BY <1>1, InvHolds, PTL
=============================================================================
