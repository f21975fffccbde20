------------------------- MODULE StreamInput_proofs -------------------------
(***************************************************************************)
(* The input side reads the stream in order, for every sequence of         *)
(* transactions and however the stream is cut into pieces.                 *)
(***************************************************************************)
EXTENDS StreamInput, SequenceTheorems, TLAPS

-----------------------------------------------------------------------------
(* Bytes as bits                                                           *)

\* The number of bits in n bytes.
BitLen(n) == n * ByteBits

LEMMA BitLenFacts ==
  /\ BitLen(0) = 0 /\ BitLen(1) = ByteBits
  /\ ByteBits \in Nat /\ ByteBits > 0
<1> QED BY BitReaderConstants DEF BitLen

LEMMA BitLenType ==
  ASSUME NEW n \in Int
  PROVE  BitLen(n) \in Int /\ BitLen(n) = n * ByteBits
<1> QED BY BitReaderConstants DEF BitLen

LEMMA BitLenSum ==
  ASSUME NEW m \in Int, NEW n \in Int
  PROVE  /\ BitLen(m + n) = BitLen(m) + BitLen(n)
         /\ BitLen(m - n) = BitLen(m) - BitLen(n)
<1> QED BY BitReaderConstants DEF BitLen

\* A byte more is ByteBits more.
LEMMA BitLenOrder ==
  ASSUME NEW m \in Int, NEW n \in Int
  PROVE  /\ m <= n => BitLen(m) <= BitLen(n)
         /\ m < n => BitLen(m) + ByteBits <= BitLen(n)
<1>1. ASSUME m <= n PROVE BitLen(m) <= BitLen(n)
  <2>1. PICK k \in Nat : n = m + k
    <3>1. n - m \in Nat /\ n = m + (n - m)
      BY <1>1
    <3> QED BY <3>1
  <2>2. BitLen(k) \in Nat
    BY BitReaderConstants DEF BitLen
  <2>3. BitLen(n) = BitLen(m) + BitLen(k)
    BY <2>1, BitLenSum
  <2>4. BitLen(m) \in Int
    BY BitLenType
  <2> QED BY <2>2, <2>3, <2>4
<1>2. ASSUME m < n PROVE BitLen(m) + ByteBits <= BitLen(n)
  <2>1. PICK k \in Nat : n = (m + 1) + k
    <3>1. n - (m + 1) \in Nat /\ n = (m + 1) + (n - (m + 1))
      BY <1>2
    <3> QED BY <3>1
  <2>2. k * ByteBits \in Nat
    BY BitReaderConstants
  <2>3. BitLen(n) = BitLen(m + 1) + BitLen(k)
    BY <2>1, BitLenSum
  <2>4. BitLen(m + 1) = BitLen(m) + ByteBits
    BY BitLenSum, BitLenFacts
  <2> QED BY <2>2, <2>3, <2>4, BitLenType, BitLenFacts
<1> QED BY <1>1, <1>2

\* The whole bytes of x bits, and the bits that are left.
LEMMA WholeBytes ==
  ASSUME NEW x \in Nat
  PROVE  /\ x \div ByteBits \in Nat
         /\ x % ByteBits \in 0..(ByteBits - 1)
         /\ x = BitLen(x \div ByteBits) + (x % ByteBits)
<1>1. ByteBits \in Nat \ {0}
  BY BitReaderConstants
<1>2. x \div ByteBits \in Nat /\ x % ByteBits \in 0..(ByteBits - 1)
  BY <1>1
<1>3. x = (x \div ByteBits) * ByteBits + (x % ByteBits)
  BY <1>1
<1> QED BY <1>2, <1>3 DEF BitLen

LEMMA WholeBytesUnique ==
  ASSUME NEW q \in Int, NEW x \in Nat,
         BitLen(q) <= x, x < BitLen(q) + ByteBits
  PROVE  x \div ByteBits = q /\ x % ByteBits = x - BitLen(q)
<1> DEFINE d == x \div ByteBits
<1>1. /\ d \in Nat /\ x % ByteBits \in 0..(ByteBits - 1)
      /\ x = BitLen(d) + (x % ByteBits)
  BY WholeBytes
<1>2. BitLen(d) \in Int /\ BitLen(q) \in Int /\ ByteBits \in Nat
  BY <1>1, BitLenType, BitLenFacts
<1> HIDE DEF d
<1>3. ~(d < q)
  <2>1. d < q => BitLen(d) + ByteBits <= BitLen(q)
    BY <1>1, BitLenOrder
  <2> QED BY <1>1, <1>2, <2>1
<1>4. ~(q < d)
  <2>1. q < d => BitLen(q) + ByteBits <= BitLen(d)
    BY <1>1, BitLenOrder
  <2> QED BY <1>1, <1>2, <2>1
<1>5. d = q
  BY <1>1, <1>3, <1>4
<1>6. x % ByteBits = x - BitLen(q)
  BY <1>1, <1>2, <1>5
<1> QED BY <1>5, <1>6 DEF d

-----------------------------------------------------------------------------
(* The bit reader                                                          *)

\* A function on 1..n is a sequence of length n.
LEMMA FunctionIsSeq ==
  ASSUME NEW n \in Nat, NEW f \in [1..n -> Int]
  PROVE  f \in Seq(Int) /\ Len(f) = n
<1>1. f \in Seq(Int)
  BY SeqDef
<1>2. DOMAIN f = 1..n /\ DOMAIN f = 1..Len(f) /\ Len(f) \in Nat
  BY <1>1, LenProperties
<1> QED BY <1>1, <1>2

\* The bits of bytes that follow each other follow each other.
LEMMA BitsOfFollow ==
  ASSUME NEW bytes \in Seq(Int), NEW p \in Int,
         \A j \in 1..Len(bytes) : bytes[j] = p + j - 1
  PROVE  /\ BitsOf(bytes) \in Seq(Int)
         /\ Len(BitsOf(bytes)) = BitLen(Len(bytes))
         /\ \A k \in 1..BitLen(Len(bytes)) :
              BitsOf(bytes)[k] = BitLen(p) + k - 1
<1> DEFINE n == BitLen(Len(bytes))
<1>1. Len(bytes) \in Nat /\ n \in Nat /\ n = Len(bytes) * ByteBits
  <2>1. Len(bytes) \in Nat
    BY LenProperties
  <2> QED BY <2>1, BitReaderConstants DEF BitLen
<1>2. ASSUME NEW k \in 1..n
      PROVE  bytes[(k - 1) \div ByteBits + 1] * ByteBits + ((k - 1) % ByteBits)
               = BitLen(p) + k - 1
  <2> DEFINE x == k - 1
             q == x \div ByteBits
  <2>1. x \in Nat /\ x < n
    BY <1>1
  <2>2. /\ q \in Nat /\ x % ByteBits \in 0..(ByteBits - 1)
        /\ x = BitLen(q) + (x % ByteBits)
    BY <2>1, WholeBytes
  <2> HIDE DEF q, x
  <2>3. BitLen(q) \in Int /\ BitLen(p) \in Int /\ ByteBits \in Nat
    BY <2>2, BitLenType, BitLenFacts
  <2>4. q < Len(bytes)
    <3>1. ~(Len(bytes) <= q)
      <4>1. Len(bytes) <= q => n <= BitLen(q)
        BY <1>1, <2>2, BitLenOrder
      <4> QED BY <1>1, <2>1, <2>2, <2>3, <4>1
    <3> QED BY <1>1, <2>2, <3>1
  <2>5. bytes[q + 1] = p + q
    BY <1>1, <2>2, <2>4
  <2>6. bytes[q + 1] * ByteBits = BitLen(p) + BitLen(q)
    BY <2>2, <2>5, BitLenSum, BitLenType
  <2>7. bytes[q + 1] * ByteBits + (x % ByteBits) = BitLen(p) + x
    BY <2>2, <2>3, <2>6
  <2>8. x = k - 1 /\ k \in Int
    BY <1>1 DEF x
  <2> QED BY <2>3, <2>7, <2>8 DEF q, x
<1>3. BitsOf(bytes) = [k \in 1..n |->
         bytes[(k - 1) \div ByteBits + 1] * ByteBits + ((k - 1) % ByteBits)]
  BY <1>1 DEF BitsOf
<1>4. BitLen(p) \in Int
  BY BitLenType
<1> HIDE DEF n
<1>5. \A k \in 1..n : BitsOf(bytes)[k] = BitLen(p) + k - 1
  BY <1>2, <1>3
<1>6. BitsOf(bytes) \in [1..n -> Int]
  <2>1. \A k \in 1..n :
          bytes[(k - 1) \div ByteBits + 1] * ByteBits + ((k - 1) % ByteBits) \in Int
    BY <1>1, <1>2, <1>4
  <2> QED BY <1>3, <2>1
<1> QED BY <1>1, <1>5, <1>6, FunctionIsSeq DEF n

IsReader(b) == b \in [val : Seq(Int), next_in : Nat, avail_in : Nat]

\* Reader b is at bit u of the stream: the accumulator holds the bits from
\* there on, and the bytes of its input that were not read are p and the
\* following ones.
IsAt(b, u, p, input) ==
  /\ IsReader(b)
  /\ \A k \in 1..Len(b.val) : b.val[k] = u + k - 1
  /\ BitLen(p) = u + Len(b.val)
  /\ input \in Seq(Int) /\ b.next_in + b.avail_in <= Len(input)
  /\ \A k \in 1..b.avail_in : input[b.next_in + k] = p + k - 1

\* Reader c is b with n more bytes and without u bits.
Moved(b, c, n, u) ==
  /\ c.next_in = b.next_in + n
  /\ c.avail_in = b.avail_in - n
  /\ Len(c.val) = Len(b.val) + BitLen(n) - u

LEMMA PullBytesFacts ==
  ASSUME NEW b, NEW u \in Int, NEW p \in Int, NEW input, IsAt(b, u, p, input),
         NEW n \in 0..b.avail_in
  PROVE  /\ IsAt(PullBytes(b, n, input), u, p + n, input)
         /\ Moved(b, PullBytes(b, n, input), n, 0)
<1> DEFINE bytes == SubSeq(input, b.next_in + 1, b.next_in + n)
           c == PullBytes(b, n, input)
<1>0. /\ b.val \in Seq(Int) /\ input \in Seq(Int)
      /\ \A k \in 1..b.avail_in : input[b.next_in + k] = p + k - 1
      /\ \A k \in 1..Len(b.val) : b.val[k] = u + k - 1
  BY DEF IsAt, IsReader
<1>1. /\ b.next_in \in Nat /\ b.avail_in \in Nat /\ Len(b.val) \in Nat
      /\ n \in Nat /\ n <= b.avail_in /\ Len(input) \in Nat
      /\ b.next_in + b.avail_in <= Len(input)
      /\ BitLen(p) = u + Len(b.val)
  BY <1>0, LenProperties DEF IsAt, IsReader
<1>2. bytes \in Seq(Int) /\ Len(bytes) = n
      /\ \A j \in 1..n : bytes[j] = p + j - 1
  <2>1. \A j \in (b.next_in + 1)..(b.next_in + n) : input[j] \in Int
    BY <1>0, <1>1, LenProperties
  <2>2. /\ bytes \in Seq(Int)
        /\ Len(bytes) = n
        /\ \A j \in 1..n : bytes[j] = input[b.next_in + 1 + j - 1]
    <3> DEFINE from == b.next_in + 1
               to == b.next_in + n
    <3>1. from \in Int /\ to \in Int
      BY <1>1
    <3>2. bytes = SubSeq(input, from, to)
      OBVIOUS
    <3>3. \A j \in from..to : input[j] \in Int
      BY <2>1
    <3> HIDE DEF from, to, bytes
    <3>4. /\ bytes \in Seq(Int)
          /\ Len(bytes) = IF from <= to THEN to - from + 1 ELSE 0
          /\ \A j \in 1..(to - from + 1) : bytes[j] = input[from + j - 1]
      BY <3>1, <3>2, <3>3, SubSeqProperties
    <3>5. to - from + 1 = n /\ Len(bytes) = n
      <4>1. to - from + 1 = n /\ from \in Int /\ to \in Int
        BY <1>1 DEF from, to
      <4> QED BY <1>1, <3>4, <4>1
    <3>6. \A j \in 1..n : bytes[j] = input[from + j - 1]
      BY <3>4, <3>5
    <3> QED BY <3>4, <3>5, <3>6 DEF from
  <2> HIDE DEF bytes
  <2>3. Len(bytes) = n
    BY <1>1, <2>2
  <2>4. ASSUME NEW j \in 1..n PROVE bytes[j] = p + j - 1
    <3>1. bytes[j] = input[b.next_in + 1 + j - 1]
      BY <1>1, <2>2
    <3>2. b.next_in + 1 + j - 1 = b.next_in + j
      BY <1>1
    <3>3. input[b.next_in + j] = p + j - 1
      BY <1>0, <1>1
    <3> QED BY <3>1, <3>2, <3>3
  <2> QED BY <2>2, <2>3, <2>4
<1>3. c = [val |-> b.val \o BitsOf(bytes), next_in |-> b.next_in + n,
           avail_in |-> b.avail_in - n]
  BY DEF PullBytes
<1> HIDE DEF bytes, c
<1>4. /\ BitsOf(bytes) \in Seq(Int) /\ Len(BitsOf(bytes)) = BitLen(n)
      /\ \A k \in 1..BitLen(n) : BitsOf(bytes)[k] = BitLen(p) + k - 1
  BY <1>2, BitsOfFollow
<1>5. BitLen(n) \in Nat
  BY <1>4, LenProperties
<1>6. /\ c.val \in Seq(Int) /\ Len(c.val) = Len(b.val) + BitLen(n)
      /\ \A k \in 1..(Len(b.val) + BitLen(n)) :
           c.val[k] = IF k <= Len(b.val) THEN b.val[k]
                      ELSE BitsOf(bytes)[k - Len(b.val)]
  <2> DEFINE more == BitsOf(bytes)
  <2>1. c.val = b.val \o more
    BY <1>3
  <2>2. more \in Seq(Int) /\ Len(more) = BitLen(n)
    BY <1>4
  <2> HIDE DEF more
  <2>3. /\ c.val \in Seq(Int) /\ Len(c.val) = Len(b.val) + Len(more)
        /\ \A k \in 1..(Len(b.val) + Len(more)) :
             c.val[k] = IF k <= Len(b.val) THEN b.val[k] ELSE more[k - Len(b.val)]
    <3>1. b.val \in Seq(Int)
      BY <1>0
    <3> DEFINE all == b.val \o more
    <3>2. /\ all \in Seq(Int) /\ Len(all) = Len(b.val) + Len(more)
          /\ \A k \in 1..(Len(b.val) + Len(more)) :
               all[k] = IF k <= Len(b.val) THEN b.val[k] ELSE more[k - Len(b.val)]
      BY <2>2, <3>1, ConcatProperties
    <3> HIDE DEF all
    <3>3. c.val = all
      BY <2>1 DEF all
    <3> QED BY <3>2, <3>3
  <2>4. \A k \in 1..(Len(b.val) + BitLen(n)) :
          c.val[k] = IF k <= Len(b.val) THEN b.val[k] ELSE more[k - Len(b.val)]
    BY <2>2, <2>3
  <2> QED BY <2>2, <2>3, <2>4 DEF more
<1>7. ASSUME NEW k \in 1..Len(c.val) PROVE c.val[k] = u + k - 1
  <2>1. CASE k <= Len(b.val)
    BY <1>0, <1>1, <1>5, <1>6, <2>1
  <2>2. CASE ~(k <= Len(b.val))
    <3>1. k - Len(b.val) \in 1..BitLen(n) /\ k \in 1..(Len(b.val) + BitLen(n))
      <4>1. Len(c.val) = Len(b.val) + BitLen(n)
        BY <1>6
      <4> QED BY <1>1, <1>5, <2>2, <4>1
    <3>2. c.val[k] = BitLen(p) + (k - Len(b.val)) - 1
      BY <1>4, <1>6, <2>2, <3>1
    <3>3. PICK l \in Nat : l = Len(b.val)
      BY <1>1
    <3>4. c.val[k] = (u + l) + (k - l) - 1
      BY <1>1, <3>2, <3>3
    <3>5. k \in Int
      BY <3>1
    <3> QED BY <3>4, <3>5
  <2> QED BY <2>1, <2>2
<1>8. BitLen(p + n) = u + Len(c.val)
  <2>1. BitLen(p + n) = BitLen(p) + BitLen(n)
    <3>1. n \in Int
      OBVIOUS
    <3> QED BY <3>1, BitLenSum
  <2>2. Len(c.val) = Len(b.val) + BitLen(n)
    BY <1>6
  <2> QED BY <1>1, <1>5, <2>1, <2>2
<1>9. c.next_in = b.next_in + n /\ c.avail_in = b.avail_in - n
      /\ c = [val |-> c.val, next_in |-> c.next_in, avail_in |-> c.avail_in]
  BY <1>3
<1>10. IsReader(c)
  <2>1. b.next_in + n \in Nat /\ b.avail_in - n \in Nat
    BY <1>1
  <2>2. c.val \in Seq(Int) /\ c.next_in \in Nat /\ c.avail_in \in Nat
    BY <1>6, <1>9, <2>1
  <2> QED BY <1>9, <2>2 DEF IsReader
<1>11. ASSUME NEW k \in 1..c.avail_in
       PROVE  input[c.next_in + k] = (p + n) + k - 1
  <2>1. n + k \in 1..b.avail_in
    BY <1>1, <1>9
  <2>2. input[b.next_in + (n + k)] = p + (n + k) - 1
    BY <1>0, <2>1
  <2>3. c.next_in + k = b.next_in + (n + k) /\ (p + n) + k - 1 = p + (n + k) - 1
    BY <1>1, <1>9
  <2> QED BY <2>2, <2>3
<1>12. c.next_in + c.avail_in <= Len(input)
  BY <1>1, <1>9
<1>13. IsAt(c, u, p + n, input)
  BY <1>0, <1>7, <1>8, <1>10, <1>11, <1>12 DEF IsAt
<1>14. Moved(b, c, n, 0)
  BY <1>1, <1>5, <1>6, <1>9 DEF Moved
<1> QED BY <1>13, <1>14 DEF c

LEMMA DropBitsFacts ==
  ASSUME NEW b, NEW u \in Int, NEW p \in Int, NEW input, IsAt(b, u, p, input),
         NEW n \in 0..Len(b.val)
  PROVE  /\ IsAt(DropBits(b, n), u + n, p, input)
         /\ Moved(b, DropBits(b, n), 0, n)
<1> DEFINE c == DropBits(b, n)
<1>0. /\ b.val \in Seq(Int)
      /\ \A k \in 1..Len(b.val) : b.val[k] = u + k - 1 /\ b.val[k] \in Int
  BY LenProperties DEF IsAt, IsReader
<1>1. /\ b.next_in \in Nat /\ b.avail_in \in Nat
      /\ Len(b.val) \in Nat /\ n \in Nat /\ n <= Len(b.val)
      /\ BitLen(p) = u + Len(b.val)
  BY <1>0, LenProperties DEF IsAt, IsReader
<1>2. c = [val |-> SubSeq(b.val, n + 1, Len(b.val)), next_in |-> b.next_in,
           avail_in |-> b.avail_in]
  <2>1. b \in [val : Seq(Int), next_in : Nat, avail_in : Nat]
    BY DEF IsAt, IsReader
  <2>2. c = [b EXCEPT !.val = SubSeq(b.val, n + 1, Len(b.val))]
    BY DEF DropBits
  <2> HIDE DEF c
  <2> QED BY <2>1, <2>2
<1> HIDE DEF c
<1>3. /\ c.val \in Seq(Int) /\ Len(c.val) = Len(b.val) - n
      /\ \A k \in 1..(Len(b.val) - n) : c.val[k] = b.val[n + k]
  <2>1. c.val = SubSeq(b.val, n + 1, Len(b.val))
    BY <1>2
  <2>2. \A k \in (n + 1)..Len(b.val) : b.val[k] \in Int
    BY <1>0, <1>1
  <2>3. /\ c.val \in Seq(Int)
        /\ Len(c.val) = IF n + 1 <= Len(b.val) THEN Len(b.val) - (n + 1) + 1 ELSE 0
        /\ \A k \in 1..(Len(b.val) - (n + 1) + 1) : c.val[k] = b.val[n + 1 + k - 1]
    <3>1. n + 1 \in Int /\ Len(b.val) \in Int
      BY <1>1
    <3> QED BY <2>1, <2>2, <3>1, SubSeqProperties
  <2>4. Len(c.val) = Len(b.val) - n
    <3>1. Len(c.val) = IF n + 1 <= Len(b.val) THEN Len(b.val) - (n + 1) + 1 ELSE 0
      BY <2>3
    <3> QED BY <1>1, <3>1
  <2>5. ASSUME NEW k \in 1..(Len(b.val) - n) PROVE c.val[k] = b.val[n + k]
    <3>1. k \in 1..(Len(b.val) - (n + 1) + 1) /\ n + 1 + k - 1 = n + k
      BY <1>1
    <3> QED BY <2>3, <3>1
  <2> QED BY <2>3, <2>4, <2>5
<1>4. ASSUME NEW k \in 1..Len(c.val) PROVE c.val[k] = (u + n) + k - 1
  <2>1. n + k \in 1..Len(b.val) /\ k \in 1..(Len(b.val) - n)
    <3>1. Len(c.val) = Len(b.val) - n
      BY <1>3
    <3> QED BY <1>1, <3>1
  <2>2. c.val[k] = u + (n + k) - 1
    BY <1>0, <1>3, <2>1
  <2> QED BY <1>1, <2>2
<1>5. c.next_in = b.next_in /\ c.avail_in = b.avail_in /\ IsReader(c)
  BY <1>1, <1>2, <1>3 DEF IsReader
<1>6. BitLen(p) = (u + n) + Len(c.val)
  <2>1. PICK l \in Nat : l = Len(b.val)
    BY <1>1
  <2>2. Len(c.val) = l - n
    BY <1>3, <2>1
  <2>3. BitLen(p) = u + l
    BY <1>1, <2>1
  <2>4. u + l = (u + n) + (l - n)
    <3>1. n \in Int
      BY <1>1
    <3> QED BY <3>1
  <2> QED BY <2>2, <2>3, <2>4
<1>7. IsAt(c, u + n, p, input)
  BY <1>4, <1>5, <1>6 DEF IsAt
<1>8. Moved(b, c, 0, n)
  BY <1>1, <1>3, <1>5, BitLenFacts DEF Moved
<1> QED BY <1>7, <1>8 DEF c

\* The accumulator holds no more than RegBytes bytes.
Fits(b) == Len(b.val) <= BitLen(RegBytes)

LEMMA RegisterLen == BitLen(RegBytes) = 8 * ByteBits
<1> QED BY BitReaderConstants DEF BitLen

\* The numbers of a reader.
LEMMA ReaderTypes ==
  ASSUME NEW b, IsReader(b)
  PROVE  b.val \in Seq(Int) /\ b.next_in \in Nat /\ b.avail_in \in Nat
         /\ Len(b.val) \in Nat
<1>1. b.val \in Seq(Int) /\ b.next_in \in Nat /\ b.avail_in \in Nat
  BY DEF IsReader
<1> QED BY <1>1, LenProperties

\* Pulling byte by byte ends with the bits that are looked at, or with the
\* input.
LEMMA SafeGetBitsFacts ==
  ASSUME NEW b, NEW u \in Int, NEW p \in Int, NEW input, IsAt(b, u, p, input),
         Fits(b), NEW peek \in Nat, peek <= 4 * ByteBits
  PROVE  \E n \in 0..b.avail_in :
           /\ IsAt(SafeGetBits(b, peek, input), u, p + n, input)
           /\ Moved(b, SafeGetBits(b, peek, input), n, 0)
           /\ Fits(SafeGetBits(b, peek, input))
           /\ Len(SafeGetBits(b, peek, input).val) >= peek \/ n = b.avail_in
<1> DEFINE missing == peek - Len(b.val)
           x == missing + ByteBits - 1
           q == x \div ByteBits
           g == SafeGetBits(b, peek, input)
<1>1. b.avail_in \in Nat /\ Len(b.val) \in Nat /\ ByteBits \in Nat /\ ByteBits > 0
  BY ReaderTypes, BitLenFacts DEF IsAt
<1>2. CASE missing <= 0
  <2>1. g = b
    BY <1>2 DEF SafeGetBits, GetAvailableBits
  <2>2. IsAt(b, u, p + 0, input)
    <3>1. p + 0 = p
      OBVIOUS
    <3> QED BY <3>1
  <2>3. Moved(b, b, 0, 0)
    BY <1>1, BitLenFacts, ReaderTypes DEF Moved, IsAt
  <2>4. Len(b.val) >= peek
    BY <1>1, <1>2
  <2>5. 0 \in 0..b.avail_in
    BY <1>1
  <2> HIDE DEF g
  <2> QED BY <2>1, <2>2, <2>3, <2>4, <2>5 DEF g
<1>3. CASE missing > 0
  <2>1. x \in Nat /\ missing \in Nat /\ x = missing + ByteBits - 1
    BY <1>1, <1>3
  <2>2. missing = peek - Len(b.val)
    OBVIOUS
  <2> HIDE DEF x
  <2>3. q \in Nat /\ x % ByteBits \in 0..(ByteBits - 1)
        /\ x = BitLen(q) + (x % ByteBits)
    BY <2>1, WholeBytes
  <2> DEFINE n == Lesser(q, b.avail_in)
  <2>4. g = PullBytes(b, n, input)
    <3>1. ~(peek - Len(b.val) <= 0)
      BY <1>1, <1>3
    <3> QED BY <3>1 DEF SafeGetBits, GetAvailableBits, x
  <2> HIDE DEF q, missing, g
  <2>5. n \in 0..b.avail_in /\ n <= q /\ (n = q \/ n = b.avail_in)
    BY <1>1, <2>3 DEF Lesser
  <2> HIDE DEF n
  <2>6. IsAt(g, u, p + n, input) /\ Moved(b, g, n, 0)
    BY <2>4, <2>5, PullBytesFacts
  <2>7. /\ BitLen(q) \in Int /\ BitLen(n) \in Int /\ n \in Int
        /\ BitLen(q) >= missing /\ BitLen(q) <= missing + ByteBits - 1
    <3>1. BitLen(q) \in Int /\ BitLen(n) \in Int /\ n \in Int
      BY <2>3, <2>5, BitLenType
    <3>2. PICK rest \in 0..(ByteBits - 1) : x = BitLen(q) + rest
      BY <2>3
    <3>3. rest \in Int /\ 0 <= rest /\ rest <= ByteBits - 1
      BY <1>1, <3>2
    <3> QED BY <1>1, <2>1, <3>1, <3>2, <3>3
  <2>8. BitLen(n) <= BitLen(q)
    BY <2>3, <2>5, <2>7, BitLenOrder
  <2>9. Len(g.val) = Len(b.val) + BitLen(n)
    BY <1>1, <2>6, <2>7 DEF Moved
  <2>10. Fits(g)
    <3>1. Len(b.val) + BitLen(n) <= peek + ByteBits - 1
      <4>1. PICK i \in Int, j \in Int : i = BitLen(n) /\ j = BitLen(q)
        BY <2>7
      <4>2. i <= j /\ j <= missing + ByteBits - 1
        BY <2>7, <2>8, <4>1
      <4>3. PICK l \in Nat : l = Len(b.val)
        BY <1>1
      <4>4. missing = peek - l
        BY <2>2, <4>3
      <4>5. i <= (peek - l) + ByteBits - 1
        BY <1>1, <2>1, <4>2, <4>4
      <4>6. l + i <= peek + ByteBits - 1
        BY <1>1, <4>5
      <4> QED BY <4>1, <4>3, <4>6
    <3>2. Len(b.val) + BitLen(n) <= 8 * ByteBits
      BY <1>1, <2>7, <3>1
    <3> QED BY <2>9, <3>2, RegisterLen DEF Fits
  <2>11. Len(g.val) >= peek \/ n = b.avail_in
    <3>1. CASE n = q
      BY <1>1, <2>1, <2>2, <2>7, <2>9, <3>1
    <3> QED BY <2>5, <3>1
  <2> QED BY <2>5, <2>6, <2>10, <2>11 DEF g
<1>4. missing <= 0 \/ missing > 0
  BY <1>1
<1> QED BY <1>2, <1>3, <1>4

LEMMA ReaderNumbers ==
  ASSUME NEW b, NEW u, NEW p, NEW input, IsAt(b, u, p, input)
  PROVE  /\ b.next_in \in Nat /\ b.avail_in \in Nat /\ Len(b.val) \in Nat
         /\ BitLen(b.avail_in) \in Int
<1>1. b.next_in \in Nat /\ b.avail_in \in Nat /\ Len(b.val) \in Nat
  BY ReaderTypes DEF IsAt
<1>2. b.avail_in \in Int
  BY <1>1
<1> QED BY <1>1, <1>2, BitLenType

\* The part of a transaction that reads up to here: u bits were consumed.
ReadTo(b, c, u0, p0, u, input) ==
  \E n \in 0..b.avail_in :
    IsAt(c, u0 + u, p0 + n, input) /\ Moved(b, c, n, u) /\ Fits(c)

\* A read succeeds when the bits it takes are there, however many it looks at;
\* one that fails has pulled all there is.
LEMMA SafeReadFacts ==
  ASSUME NEW b, NEW u \in Int, NEW p \in Int, NEW input, IsAt(b, u, p, input),
         Fits(b), NEW read \in [peek : Nat, take : Nat],
         read.take <= read.peek, read.peek <= 4 * ByteBits
  PROVE  /\ SafeRead(b, read, input).ok
              <=> read.take <= Len(b.val) + BitLen(b.avail_in)
         /\ SafeRead(b, read, input).ok \in BOOLEAN
         /\ SafeRead(b, read, input).ok =>
              ReadTo(b, SafeRead(b, read, input).br, u, p, read.take, input)
         /\ ~SafeRead(b, read, input).ok =>
              /\ ReadTo(b, SafeRead(b, read, input).br, u, p, 0, input)
              /\ SafeRead(b, read, input).br.avail_in = 0
<1> DEFINE g == SafeGetBits(b, read.peek, input)
           ok == GetAvailableBits(g) >= read.take
           t == SafeRead(b, read, input)
<1>1. b.avail_in \in Nat /\ Len(b.val) \in Nat
      /\ read.peek \in Nat /\ read.take \in Nat
  BY ReaderTypes DEF IsAt
<1>2. PICK n \in 0..b.avail_in :
        /\ IsAt(g, u, p + n, input) /\ Moved(b, g, n, 0) /\ Fits(g)
        /\ Len(g.val) >= read.peek \/ n = b.avail_in
  BY <1>1, SafeGetBitsFacts
<1>3. /\ t.ok = ok
      /\ t.br = IF ok THEN DropBits(g, read.take) ELSE g
  BY DEF SafeRead
<1> HIDE DEF t, g
<1>4. /\ n \in Nat /\ n <= b.avail_in /\ BitLen(n) \in Int
      /\ Len(g.val) \in Nat /\ BitLen(b.avail_in) \in Int
      /\ Len(g.val) = Len(b.val) + BitLen(n)
      /\ BitLen(n) <= BitLen(b.avail_in)
  <2>1. n \in Nat /\ n <= b.avail_in /\ n \in Int
    BY <1>1
  <2>2. BitLen(n) \in Int /\ BitLen(b.avail_in) \in Int
        /\ BitLen(n) <= BitLen(b.avail_in)
    <3>1. b.avail_in \in Int
      BY <1>1
    <3>2. BitLen(n) \in Int /\ BitLen(b.avail_in) \in Int
      BY <2>1, <3>1, BitLenType
    <3>3. n <= b.avail_in => BitLen(n) <= BitLen(b.avail_in)
      BY <2>1, <3>1, BitLenOrder
    <3> QED BY <2>1, <3>2, <3>3
  <2>3. Len(g.val) \in Nat
    BY <1>2, ReaderTypes DEF IsAt
  <2>4. Len(g.val) = Len(b.val) + BitLen(n) - 0
    BY <1>2 DEF Moved
  <2> QED BY <1>1, <2>1, <2>2, <2>3, <2>4
<1>5. ok <=> read.take <= Len(b.val) + BitLen(b.avail_in)
  <2>1. ok <=> Len(g.val) >= read.take
    BY DEF GetAvailableBits
  <2>2. CASE n = b.avail_in
    BY <1>1, <1>4, <2>1, <2>2
  <2>3. CASE Len(g.val) >= read.peek
    BY <1>1, <1>4, <2>1, <2>3
  <2> QED BY <1>2, <2>2, <2>3
<1>6. ASSUME ok PROVE ReadTo(b, t.br, u, p, read.take, input)
  <2>1. read.take \in 0..Len(g.val)
    BY <1>1, <1>4, <1>6 DEF GetAvailableBits
  <2>2. p + n \in Int
    BY <1>4
  <2> DEFINE d == DropBits(g, read.take)
  <2>3. IsAt(d, u + read.take, p + n, input) /\ Moved(g, d, 0, read.take)
    BY <1>2, <2>1, <2>2, DropBitsFacts
  <2>4. t.br = d
    BY <1>3, <1>6
  <2> HIDE DEF d
  <2>5. Len(d.val) = Len(g.val) - read.take
    <3>1. Len(d.val) = Len(g.val) + BitLen(0) - read.take
      BY <2>3 DEF Moved
    <3> QED BY <1>1, <1>4, <3>1, BitLenFacts
  <2>6. Moved(b, d, n, read.take)
    <3>1. /\ d.next_in = g.next_in + 0 /\ d.avail_in = g.avail_in - 0
          /\ g.next_in = b.next_in + n /\ g.avail_in = b.avail_in - n
      BY <1>2, <2>3 DEF Moved
    <3>2. b.next_in \in Nat
      BY ReaderTypes DEF IsAt
    <3>3. d.next_in = b.next_in + n /\ d.avail_in = b.avail_in - n
      BY <1>1, <1>4, <3>1, <3>2
    <3>4. Len(d.val) = Len(b.val) + BitLen(n) - read.take
      BY <1>4, <2>5
    <3> QED BY <3>3, <3>4 DEF Moved
  <2>7. Fits(d)
    <3>1. Len(g.val) <= 8 * ByteBits
      BY <1>2, RegisterLen DEF Fits
    <3>2. Len(d.val) <= 8 * ByteBits
      BY <1>1, <1>4, <2>5, <3>1, BitLenFacts
    <3> QED BY <3>2, RegisterLen DEF Fits
  <2> QED BY <2>3, <2>4, <2>6, <2>7 DEF ReadTo
<1>7. ASSUME ~ok
      PROVE  ReadTo(b, t.br, u, p, 0, input) /\ t.br.avail_in = 0
  <2>1. t.br = g
    BY <1>3, <1>7
  <2>2. n = b.avail_in
    <3>1. ~(Len(g.val) >= read.peek)
      BY <1>1, <1>4, <1>7 DEF GetAvailableBits
    <3> QED BY <1>2, <3>1
  <2>3. g.avail_in = 0
    <3>1. g.avail_in = b.avail_in - n
      BY <1>2 DEF Moved
    <3> QED BY <1>1, <2>2, <3>1
  <2>4. u + 0 = u
    OBVIOUS
  <2> QED BY <1>2, <2>1, <2>3, <2>4 DEF ReadTo
<1>8. ok \in BOOLEAN
  BY <1>1, <1>4 DEF GetAvailableBits
<1> QED BY <1>3, <1>5, <1>6, <1>7, <1>8 DEF t

\* Two parts of a transaction, one behind the other.
LEMMA ReadToTwice ==
  ASSUME NEW b, NEW c, NEW e, NEW u \in Int, NEW p \in Int, NEW input,
         IsAt(b, u, p, input), NEW i \in Nat, NEW j \in Nat,
         ReadTo(b, c, u, p, i, input),
         \A n \in Nat : IsAt(c, u + i, p + n, input) =>
                          ReadTo(c, e, u + i, p + n, j, input)
  PROVE  ReadTo(b, e, u, p, i + j, input)
<1>1. PICK n \in 0..b.avail_in :
        IsAt(c, u + i, p + n, input) /\ Moved(b, c, n, i) /\ Fits(c)
  BY DEF ReadTo
<1>2. /\ b.avail_in \in Nat /\ b.next_in \in Nat /\ Len(b.val) \in Nat
      /\ c.avail_in \in Nat /\ c.next_in \in Nat /\ Len(c.val) \in Nat
  BY <1>1, ReaderTypes DEF IsAt
<1>3. n \in Nat /\ n <= b.avail_in
  BY <1>2
<1>4. ReadTo(c, e, u + i, p + n, j, input)
  BY <1>1, <1>3
<1>5. PICK m \in 0..c.avail_in :
        IsAt(e, (u + i) + j, (p + n) + m, input) /\ Moved(c, e, m, j) /\ Fits(e)
  BY <1>4 DEF ReadTo
<1>6. m \in Nat /\ m <= c.avail_in /\ c.avail_in = b.avail_in - n
  BY <1>1, <1>2, <1>5 DEF Moved
<1>7. n + m \in 0..b.avail_in
  BY <1>2, <1>3, <1>6
<1>8. (u + i) + j = u + (i + j) /\ (p + n) + m = p + (n + m)
  BY <1>3, <1>6
<1>9. Moved(b, e, n + m, i + j)
  <2>1. /\ c.next_in = b.next_in + n /\ c.avail_in = b.avail_in - n
        /\ e.next_in = c.next_in + m /\ e.avail_in = c.avail_in - m
    BY <1>1, <1>5 DEF Moved
  <2>2. e.next_in = b.next_in + (n + m) /\ e.avail_in = b.avail_in - (n + m)
    <3>1. /\ e.next_in = (b.next_in + n) + m
          /\ e.avail_in = (b.avail_in - n) - m
      BY <2>1
    <3>2. PICK x \in Int, y \in Int : x = b.next_in /\ y = b.avail_in
      BY <1>2
    <3>3. (x + n) + m = x + (n + m) /\ (y - n) - m = y - (n + m)
      BY <1>3, <1>6
    <3> QED BY <3>1, <3>2, <3>3
  <2>3. Len(e.val) = Len(b.val) + BitLen(n + m) - (i + j)
    <3>1. BitLen(n + m) = BitLen(n) + BitLen(m)
      BY <1>3, <1>6, BitLenSum
    <3>2. BitLen(n) \in Int /\ BitLen(m) \in Int
      BY <1>3, <1>6, BitLenType
    <3>3. /\ Len(c.val) = Len(b.val) + BitLen(n) - i
          /\ Len(e.val) = Len(c.val) + BitLen(m) - j
      BY <1>1, <1>5 DEF Moved
    <3>4. PICK l \in Int, x \in Int, y \in Int :
            l = Len(b.val) /\ x = BitLen(n) /\ y = BitLen(m)
      BY <1>2, <3>2
    <3>5. Len(e.val) = ((l + x) - i) + y - j
      BY <3>3, <3>4
    <3>6. ((l + x) - i) + y - j = l + (x + y) - (i + j)
      OBVIOUS
    <3> QED BY <3>1, <3>4, <3>5, <3>6
  <2> QED BY <2>2, <2>3 DEF Moved
<1> QED BY <1>5, <1>7, <1>8, <1>9 DEF ReadTo

-----------------------------------------------------------------------------
(* Transactions                                                            *)

\* What read k of d takes.
Taken(d, k) == IF k \in DOMAIN d THEN d[k].take ELSE 0

LEMMA DemandFacts ==
  ASSUME NEW d \in Demands
  PROVE  /\ 1 \in DOMAIN d
         /\ Taken(d, 1) = d[1].take
         /\ \A k \in DOMAIN d :
              /\ d[k] \in [peek : Nat, take : Nat]
              /\ d[k].take <= d[k].peek /\ d[k].peek <= 4 * ByteBits
         /\ \A k \in 1..3 : Taken(d, k) \in Nat
         /\ Total(d) = (Taken(d, 1) + Taken(d, 2)) + Taken(d, 3)
         /\ Total(d) \in Nat /\ Total(d) <= BitLen(RegBytes)
         /\ d # <<>>
<1>1. /\ d \in Seq([peek : Nat, take : Nat]) /\ Len(d) \in 1..3
      /\ \A k \in DOMAIN d :
           d[k].take <= d[k].peek /\ d[k].peek <= 4 * ByteBits
      /\ Total(d) <= RegBytes * ByteBits
  BY StreamInputConstants
<1>2. /\ DOMAIN d = 1..Len(d)
      /\ \A k \in DOMAIN d : d[k] \in [peek : Nat, take : Nat]
  BY <1>1, LenProperties, ElementOfSeq
<1>3. 1 \in DOMAIN d /\ d # <<>>
  BY <1>1, <1>2
<1>4. \A k \in 1..3 : Taken(d, k) \in Nat
  BY <1>2 DEF Taken
<1>5. Total(d) = (Taken(d, 1) + Taken(d, 2)) + Taken(d, 3)
  BY DEF Total, Taken
<1>6. Total(d) \in Nat
  BY <1>4, <1>5
<1> QED BY <1>1, <1>2, <1>3, <1>4, <1>5, <1>6 DEF Taken, BitLen

\* t is the outcome of reads that take u bits, started with reader b: they
\* succeed when b and its input have so many.
Outcome(t, u, b, u0, p0, input) ==
  /\ t.ok \in BOOLEAN
  /\ t.ok => /\ ReadTo(b, t.br, u0, p0, u, input)
             /\ u <= Len(b.val) + BitLen(b.avail_in)
  /\ ~t.ok => Len(b.val) + BitLen(b.avail_in) < u

LEMMA NextReadFacts ==
  ASSUME NEW b, NEW u0 \in Int, NEW p0 \in Int, IsAt(b, u0, p0, LocalInput),
         NEW d \in Demands, NEW k \in 1..3, NEW u \in Nat, NEW t,
         Outcome(t, u, b, u0, p0, LocalInput)
  PROVE  Outcome(NextRead(t, d, k), u + Taken(d, k), b, u0, p0, LocalInput)
<1>1. Taken(d, k) \in Nat
  BY DemandFacts
<1>2. Len(b.val) \in Nat /\ b.avail_in \in Nat /\ BitLen(b.avail_in) \in Int
  BY ReaderNumbers
<1>3. CASE ~t.ok
  <2>1. NextRead(t, d, k) = t
    BY <1>3 DEF NextRead
  <2>2. Len(b.val) + BitLen(b.avail_in) < u + Taken(d, k)
    BY <1>1, <1>2, <1>3 DEF Outcome
  <2> QED BY <1>3, <2>1, <2>2 DEF Outcome
<1>4. CASE t.ok /\ k \notin DOMAIN d
  <2>1. NextRead(t, d, k) = t
    BY <1>4 DEF NextRead
  <2>2. u + Taken(d, k) = u
    BY <1>4 DEF Taken
  <2> QED BY <2>1, <2>2
<1>5. CASE t.ok /\ k \in DOMAIN d
  <2> DEFINE s == SafeRead(t.br, d[k], LocalInput)
  <2>1. NextRead(t, d, k) = s /\ Taken(d, k) = d[k].take
    BY <1>5 DEF NextRead, Taken
  <2>2. PICK n \in 0..b.avail_in :
          /\ IsAt(t.br, u0 + u, p0 + n, LocalInput)
          /\ Moved(b, t.br, n, u) /\ Fits(t.br)
    BY <1>5 DEF Outcome, ReadTo
  <2>3. n \in Nat /\ u0 + u \in Int /\ p0 + n \in Int
    BY <1>2
  <2>4. /\ d[k] \in [peek : Nat, take : Nat]
        /\ d[k].take <= d[k].peek /\ d[k].peek <= 4 * ByteBits
    BY <1>5, DemandFacts
  <2>5. \A m \in Nat : IsAt(t.br, u0 + u, p0 + m, LocalInput) =>
          /\ s.ok <=> d[k].take <= Len(t.br.val) + BitLen(t.br.avail_in)
          /\ s.ok \in BOOLEAN
          /\ s.ok => ReadTo(t.br, s.br, u0 + u, p0 + m, d[k].take, LocalInput)
    <3> SUFFICES ASSUME NEW m \in Nat, IsAt(t.br, u0 + u, p0 + m, LocalInput)
                 PROVE  /\ s.ok <=> d[k].take <= Len(t.br.val) + BitLen(t.br.avail_in)
                        /\ s.ok \in BOOLEAN
                        /\ s.ok => ReadTo(t.br, s.br, u0 + u, p0 + m,
                                          d[k].take, LocalInput)
      OBVIOUS
    <3>1. p0 + m \in Int
      OBVIOUS
    <3> QED BY <2>2, <2>3, <2>4, <3>1, SafeReadFacts
  <2> HIDE DEF s
  <2>6. s.ok \in BOOLEAN /\ (s.ok <=> u + Taken(d, k) <= Len(b.val) + BitLen(b.avail_in))
    <3>1. /\ t.br.avail_in = b.avail_in - n
          /\ Len(t.br.val) = Len(b.val) + BitLen(n) - u
      BY <2>2 DEF Moved
    <3>2. BitLen(t.br.avail_in) = BitLen(b.avail_in) - BitLen(n)
      <4>1. b.avail_in \in Int /\ n \in Int
        BY <1>2, <2>3
      <4>2. BitLen(b.avail_in - n) = BitLen(b.avail_in) - BitLen(n)
        BY <4>1, BitLenSum
      <4> QED BY <3>1, <4>2
    <3>3. BitLen(n) \in Int
      BY <2>3, BitLenType
    <3>4. Len(t.br.val) + BitLen(t.br.avail_in)
            = (Len(b.val) + BitLen(b.avail_in)) - u
      BY <1>2, <3>1, <3>2, <3>3
    <3>5. s.ok \in BOOLEAN
          /\ (s.ok <=> Taken(d, k) <= (Len(b.val) + BitLen(b.avail_in)) - u)
      BY <2>1, <2>2, <2>3, <2>5, <3>4
    <3> QED BY <1>1, <1>2, <3>5
  <2>7. s.ok => ReadTo(b, s.br, u0, p0, u + Taken(d, k), LocalInput)
    <3> SUFFICES ASSUME s.ok
                 PROVE  ReadTo(b, s.br, u0, p0, u + Taken(d, k), LocalInput)
      OBVIOUS
    <3>1. ReadTo(b, t.br, u0, p0, u, LocalInput)
      BY <1>5 DEF Outcome
    <3>2. \A m \in Nat : IsAt(t.br, u0 + u, p0 + m, LocalInput) =>
            ReadTo(t.br, s.br, u0 + u, p0 + m, Taken(d, k), LocalInput)
      BY <2>1, <2>5
    <3> QED BY <1>1, <3>1, <3>2, ReadToTwice
  <2>8. ~s.ok => Len(b.val) + BitLen(b.avail_in) < u + Taken(d, k)
    BY <1>1, <1>2, <2>6
  <2> QED BY <2>1, <2>6, <2>7, <2>8 DEF Outcome
<1>6. t.ok \in BOOLEAN
  BY DEF Outcome
<1> QED BY <1>3, <1>4, <1>5, <1>6

\* A transaction succeeds when the accumulator and the input have the bits it
\* takes.  One that fails has pulled all there is when its first read failed,
\* and changed nothing otherwise.
LEMMA TransactionFacts ==
  ASSUME NEW u \in Int, NEW p \in Int, IsAt(br, u, p, LocalInput), Fits(br),
         NEW d \in Demands
  PROVE  /\ Transaction(d).ok \in BOOLEAN
         /\ Transaction(d).ok =>
              ReadTo(br, Transaction(d).br, u, p, Total(d), LocalInput)
         /\ ~Transaction(d).ok =>
              /\ Len(br.val) + BitLen(br.avail_in) < Total(d)
              /\ \/ /\ Len(br.val) + BitLen(br.avail_in) < d[1].take
                    /\ ReadTo(br, Transaction(d).br, u, p, 0, LocalInput)
                    /\ Transaction(d).br.avail_in = 0
                 \/ /\ d[1].take <= Len(br.val) + BitLen(br.avail_in)
                    /\ Transaction(d).br = br
<1> DEFINE first == SafeRead(br, d[1], LocalInput)
           second == NextRead(first, d, 2)
           all == NextRead(second, d, 3)
           t == Transaction(d)
<1>1. t = IF ~all.ok /\ first.ok THEN [ok |-> FALSE, br |-> br] ELSE all
  BY DEF Transaction
<1>2. /\ d[1] \in [peek : Nat, take : Nat]
      /\ d[1].take <= d[1].peek /\ d[1].peek <= 4 * ByteBits
      /\ Taken(d, 1) = d[1].take /\ \A k \in 1..3 : Taken(d, k) \in Nat
      /\ Total(d) = (Taken(d, 1) + Taken(d, 2)) + Taken(d, 3)
  BY DemandFacts
<1>3. /\ Len(br.val) \in Nat /\ br.avail_in \in Nat
      /\ BitLen(br.avail_in) \in Int /\ d[1].take \in Nat
      /\ Taken(d, 1) \in Nat /\ Taken(d, 2) \in Nat /\ Taken(d, 3) \in Nat
  BY <1>2, ReaderNumbers
<1>4. /\ first.ok <=> d[1].take <= Len(br.val) + BitLen(br.avail_in)
      /\ first.ok \in BOOLEAN
      /\ first.ok => ReadTo(br, first.br, u, p, d[1].take, LocalInput)
      /\ ~first.ok => /\ ReadTo(br, first.br, u, p, 0, LocalInput)
                      /\ first.br.avail_in = 0
  BY <1>2, SafeReadFacts
<1>5. ~first.ok => all = first
  BY DEF NextRead
<1> HIDE DEF first, t
<1>6. Outcome(first, Taken(d, 1), br, u, p, LocalInput)
  <2>1. Taken(d, 1) = d[1].take
    BY <1>2
  <2>2. ~first.ok => Len(br.val) + BitLen(br.avail_in) < Taken(d, 1)
    BY <1>3, <1>4, <2>1
  <2>3. first.ok => Taken(d, 1) <= Len(br.val) + BitLen(br.avail_in)
    BY <1>4, <2>1
  <2> QED BY <1>4, <2>1, <2>2, <2>3 DEF Outcome
<1>7. Outcome(second, Taken(d, 1) + Taken(d, 2), br, u, p, LocalInput)
  <2>1. 2 \in 1..3
    OBVIOUS
  <2> QED BY <1>3, <1>6, <2>1, NextReadFacts DEF second
<1> HIDE DEF second
<1>8. Outcome(all, Total(d), br, u, p, LocalInput)
  <2>1. Taken(d, 1) + Taken(d, 2) \in Nat
    BY <1>3
  <2>2. 3 \in 1..3
    OBVIOUS
  <2>3. Total(d) = (Taken(d, 1) + Taken(d, 2)) + Taken(d, 3)
    BY <1>2
  <2>4. Outcome(all, (Taken(d, 1) + Taken(d, 2)) + Taken(d, 3), br, u, p,
                LocalInput)
    BY <1>7, <2>1, <2>2, NextReadFacts DEF all
  <2> QED BY <2>3, <2>4
<1> HIDE DEF all
<1>9. CASE ~all.ok /\ first.ok
  <2>1. t.ok = FALSE /\ t.br = br
    BY <1>1, <1>9
  <2>2. Len(br.val) + BitLen(br.avail_in) < Total(d)
    BY <1>8, <1>9 DEF Outcome
  <2> QED BY <1>4, <1>9, <2>1, <2>2 DEF t
<1>10. CASE ~all.ok /\ ~first.ok
  <2>1. t = first
    BY <1>1, <1>5, <1>10
  <2>2. Len(br.val) + BitLen(br.avail_in) < d[1].take
    BY <1>3, <1>4, <1>10
  <2> QED BY <1>4, <1>8, <1>10, <2>1, <2>2 DEF Outcome, t
<1>11. CASE all.ok
  BY <1>1, <1>8, <1>11 DEF Outcome, t
<1>12. all.ok \in BOOLEAN /\ first.ok \in BOOLEAN
  BY <1>4, <1>8 DEF Outcome
<1> QED BY <1>9, <1>10, <1>11, <1>12 DEF t

-----------------------------------------------------------------------------
(* The fast path                                                           *)

\* A fill leaves the bits that are looked at, and does not overflow.
LEMMA FillBitWindowFacts ==
  ASSUME NEW b, NEW u \in Int, NEW p \in Int, NEW input, IsAt(b, u, p, input),
         Fits(b), NEW peek \in Nat, peek <= 4 * ByteBits,
         BitLen(RegBytes) <= Len(b.val) + BitLen(b.avail_in)
  PROVE  \E n \in 0..b.avail_in :
           /\ IsAt(FillBitWindow(b, peek, input), u, p + n, input)
           /\ Moved(b, FillBitWindow(b, peek, input), n, 0)
           /\ Fits(FillBitWindow(b, peek, input))
           /\ Len(FillBitWindow(b, peek, input).val) >= peek
<1> DEFINE a == Len(b.val)
           g == FillBitWindow(b, peek, input)
<1>1. /\ b.next_in \in Nat /\ b.avail_in \in Nat /\ a \in Nat
      /\ ByteBits \in Nat /\ ByteBits > 0 /\ BitLen(b.avail_in) \in Int
  BY ReaderNumbers, BitLenFacts
<1>2. 8 * ByteBits <= a + BitLen(b.avail_in) /\ a <= 8 * ByteBits
  BY RegisterLen DEF Fits
<1>3. g = IF peek <= ByteBits /\ a <= ByteBits THEN PullBytes(b, 7, input)
          ELSE IF peek <= 2 * ByteBits /\ a <= 2 * ByteBits
          THEN PullBytes(b, 6, input)
          ELSE IF a <= 4 * ByteBits THEN PullBytes(b, 4, input) ELSE b
  BY DEF FillBitWindow, GetAvailableBits
<1> HIDE DEF a, g
<1>4. ASSUME NEW n \in {4, 6, 7}, a + BitLen(n) <= 8 * ByteBits,
             a + BitLen(n) >= peek, g = PullBytes(b, n, input)
      PROVE  \E m \in 0..b.avail_in :
               /\ IsAt(g, u, p + m, input) /\ Moved(b, g, m, 0)
               /\ Fits(g) /\ Len(g.val) >= peek
  <2>1. n \in Nat /\ n \in Int /\ BitLen(n) \in Int
    <3>1. n \in Nat /\ n \in Int
      OBVIOUS
    <3> QED BY <3>1, BitLenType
  <2>2. n \in 0..b.avail_in
    <3>1. BitLen(n) <= BitLen(b.avail_in)
      BY <1>1, <1>2, <1>4, <2>1
    <3>2. b.avail_in \in Int
      BY <1>1
    <3>3. b.avail_in < n => BitLen(b.avail_in) + ByteBits <= BitLen(n)
      BY <2>1, <3>2, BitLenOrder
    <3> QED BY <1>1, <2>1, <3>1, <3>3
  <2>3. IsAt(g, u, p + n, input) /\ Moved(b, g, n, 0)
    BY <1>4, <2>2, PullBytesFacts
  <2>4. Len(g.val) = a + BitLen(n)
    <3>1. Len(g.val) = a + BitLen(n) - 0
      BY <2>3 DEF Moved, a
    <3> QED BY <1>1, <2>1, <3>1
  <2>5. Fits(g) /\ Len(g.val) >= peek
    BY <1>4, <2>4, RegisterLen DEF Fits
  <2> QED BY <2>2, <2>3, <2>5
<1>5. BitLen(4) = 4 * ByteBits /\ BitLen(6) = 6 * ByteBits
      /\ BitLen(7) = 7 * ByteBits
  BY DEF BitLen
<1>6. CASE peek <= ByteBits /\ a <= ByteBits
  <2>1. g = PullBytes(b, 7, input)
    BY <1>3, <1>6
  <2>2. a + BitLen(7) <= 8 * ByteBits /\ a + BitLen(7) >= peek
    BY <1>1, <1>5, <1>6
  <2> QED BY <1>4, <2>1, <2>2 DEF g
<1>7. CASE ~(peek <= ByteBits /\ a <= ByteBits)
           /\ peek <= 2 * ByteBits /\ a <= 2 * ByteBits
  <2>1. g = PullBytes(b, 6, input)
    BY <1>3, <1>7
  <2>2. a + BitLen(6) <= 8 * ByteBits /\ a + BitLen(6) >= peek
    BY <1>1, <1>5, <1>7
  <2> QED BY <1>4, <2>1, <2>2 DEF g
<1>8. CASE ~(peek <= ByteBits /\ a <= ByteBits)
           /\ ~(peek <= 2 * ByteBits /\ a <= 2 * ByteBits) /\ a <= 4 * ByteBits
  <2>1. g = PullBytes(b, 4, input)
    BY <1>3, <1>8
  <2>2. a + BitLen(4) <= 8 * ByteBits /\ a + BitLen(4) >= peek
    BY <1>1, <1>5, <1>8
  <2> QED BY <1>4, <2>1, <2>2 DEF g
<1>9. CASE ~(a <= 4 * ByteBits)
  <2>1. g = b
    <3>1. ~(a <= ByteBits) /\ ~(a <= 2 * ByteBits)
      BY <1>1, <1>9
    <3> QED BY <1>3, <1>9, <3>1
  <2>2. IsAt(g, u, p + 0, input)
    <3>1. p + 0 = p
      OBVIOUS
    <3> QED BY <2>1, <3>1
  <2>3. Moved(b, g, 0, 0)
    BY <1>1, <2>1, BitLenFacts DEF Moved, a
  <2>4. Len(g.val) >= peek /\ 0 \in 0..b.avail_in
    BY <1>1, <1>9, <2>1 DEF a
  <2> QED BY <2>1, <2>2, <2>3, <2>4 DEF g
<1> QED BY <1>6, <1>7, <1>8, <1>9

\* Dropping bits of the accumulator is a part of a transaction.
LEMMA DropIsRead ==
  ASSUME NEW b, NEW u \in Int, NEW p \in Int, NEW input, IsAt(b, u, p, input),
         NEW g, NEW n \in 0..b.avail_in, IsAt(g, u, p + n, input),
         Moved(b, g, n, 0), Fits(g), NEW take \in Nat, take <= Len(g.val)
  PROVE  ReadTo(b, DropBits(g, take), u, p, take, input)
<1> DEFINE c == DropBits(g, take)
<1>1. /\ b.next_in \in Nat /\ b.avail_in \in Nat /\ Len(b.val) \in Nat
      /\ Len(g.val) \in Nat
  BY ReaderNumbers
<1>2. n \in Nat /\ n \in Int /\ BitLen(n) \in Int
  <2>1. n \in Nat /\ n \in Int
    BY <1>1
  <2> QED BY <2>1, BitLenType
<1>3. p + n \in Int /\ take \in 0..Len(g.val)
  BY <1>1, <1>2
<1>4. IsAt(c, u + take, p + n, input) /\ Moved(g, c, 0, take)
  BY <1>3, DropBitsFacts
<1> HIDE DEF c
<1>5. /\ Len(g.val) = Len(b.val) + BitLen(n) - 0
      /\ Len(c.val) = Len(g.val) + BitLen(0) - take
      /\ g.next_in = b.next_in + n /\ g.avail_in = b.avail_in - n
      /\ c.next_in = g.next_in + 0 /\ c.avail_in = g.avail_in - 0
  BY <1>4 DEF Moved
<1>6. PICK l \in Int, i \in Int : l = Len(b.val) /\ i = BitLen(n)
  BY <1>1, <1>2
<1>7. Len(g.val) = l + i /\ Len(c.val) = l + i - take
  BY <1>1, <1>5, <1>6, BitLenFacts
<1>8. Moved(b, c, n, take)
  <2>1. c.next_in = b.next_in + n /\ c.avail_in = b.avail_in - n
    BY <1>1, <1>2, <1>5
  <2> QED BY <1>6, <1>7, <2>1 DEF Moved
<1>9. Fits(c)
  <2>1. l + i <= 8 * ByteBits
    BY <1>7, RegisterLen DEF Fits
  <2>2. l + i - take <= 8 * ByteBits
    BY <2>1, BitLenFacts
  <2> QED BY <1>7, <2>2, RegisterLen DEF Fits
<1> QED BY <1>4, <1>8, <1>9 DEF ReadTo, c

LEMMA FastReadFacts ==
  ASSUME NEW b, NEW u \in Int, NEW p \in Int, NEW input, IsAt(b, u, p, input),
         Fits(b), NEW read \in [peek : Nat, take : Nat],
         read.take <= read.peek, read.peek <= 4 * ByteBits,
         BitLen(RegBytes) <= Len(b.val) + BitLen(b.avail_in)
  PROVE  ReadTo(b, FastRead(b, read, input), u, p, read.take, input)
<1> DEFINE g == FillBitWindow(b, read.peek, input)
<1>1. read.peek \in Nat /\ read.take \in Nat
  OBVIOUS
<1>2. PICK n \in 0..b.avail_in :
        /\ IsAt(g, u, p + n, input) /\ Moved(b, g, n, 0) /\ Fits(g)
        /\ Len(g.val) >= read.peek
  BY <1>1, FillBitWindowFacts
<1>3. FastRead(b, read, input) = DropBits(g, read.take)
  BY DEF FastRead
<1> HIDE DEF g
<1>4. Len(g.val) \in Nat
  BY <1>2, ReaderNumbers
<1>5. read.take <= Len(g.val)
  BY <1>1, <1>2, <1>4
<1> QED BY <1>1, <1>2, <1>3, <1>5, DropIsRead

\* With enough input for the whole transaction.
LEMMA NextFastReadFacts ==
  ASSUME NEW b, NEW u0 \in Int, NEW p0 \in Int, IsAt(b, u0, p0, LocalInput),
         NEW d \in Demands, NEW k \in 1..3, NEW u \in Nat, NEW c,
         ReadTo(b, c, u0, p0, u, LocalInput),
         u + BitLen(RegBytes) <= Len(b.val) + BitLen(b.avail_in)
  PROVE  ReadTo(b, NextFastRead(c, d, k), u0, p0, u + Taken(d, k), LocalInput)
<1>1. CASE k \notin DOMAIN d
  <2>1. NextFastRead(c, d, k) = c /\ Taken(d, k) = 0
    BY <1>1 DEF NextFastRead, Taken
  <2>2. u + Taken(d, k) = u
    BY <2>1
  <2> QED BY <2>1, <2>2
<1>2. CASE k \in DOMAIN d
  <2> DEFINE e == FastRead(c, d[k], LocalInput)
  <2>1. NextFastRead(c, d, k) = e /\ Taken(d, k) = d[k].take
    BY <1>2 DEF NextFastRead, Taken
  <2>2. /\ d[k] \in [peek : Nat, take : Nat] /\ d[k].take \in Nat
        /\ d[k].take <= d[k].peek /\ d[k].peek <= 4 * ByteBits
    BY <1>2, DemandFacts
  <2>3. PICK n \in 0..b.avail_in :
          /\ IsAt(c, u0 + u, p0 + n, LocalInput)
          /\ Moved(b, c, n, u) /\ Fits(c)
    BY DEF ReadTo
  <2>4. BitLen(RegBytes) <= Len(c.val) + BitLen(c.avail_in)
    <3>1. /\ b.avail_in \in Int /\ Len(b.val) \in Int
          /\ BitLen(b.avail_in) \in Int
      BY ReaderNumbers
    <3>2. n \in Int /\ BitLen(n) \in Int
      BY <3>1, BitLenType
    <3>3. c.avail_in = b.avail_in - n /\ Len(c.val) = Len(b.val) + BitLen(n) - u
      BY <2>3 DEF Moved
    <3>4. BitLen(c.avail_in) = BitLen(b.avail_in) - BitLen(n)
      <4>1. BitLen(b.avail_in - n) = BitLen(b.avail_in) - BitLen(n)
        BY <3>1, <3>2, BitLenSum
      <4> QED BY <3>3, <4>1
    <3>5. PICK l \in Int, i \in Int, a \in Int :
            l = Len(b.val) /\ i = BitLen(n) /\ a = BitLen(b.avail_in)
      BY <3>1, <3>2
    <3>6. Len(c.val) + BitLen(c.avail_in) = (l + i - u) + (a - i)
      BY <3>3, <3>4, <3>5
    <3>7. u + BitLen(RegBytes) <= l + a
      BY <3>5
    <3>8. BitLen(RegBytes) \in Int
      BY RegisterLen, BitLenFacts
    <3> QED BY <3>6, <3>7, <3>8
  <2>5. \A m \in Nat : IsAt(c, u0 + u, p0 + m, LocalInput) =>
          ReadTo(c, e, u0 + u, p0 + m, d[k].take, LocalInput)
    <3> SUFFICES ASSUME NEW m \in Nat, IsAt(c, u0 + u, p0 + m, LocalInput)
                 PROVE  ReadTo(c, e, u0 + u, p0 + m, d[k].take, LocalInput)
      OBVIOUS
    <3>1. u0 + u \in Int /\ p0 + m \in Int
      OBVIOUS
    <3> QED BY <2>2, <2>3, <2>4, <3>1, FastReadFacts
  <2> HIDE DEF e
  <2>6. ReadTo(b, e, u0, p0, u + d[k].take, LocalInput)
    BY <2>2, <2>5, ReadToTwice
  <2> QED BY <2>1, <2>6
<1> QED BY <1>1, <1>2

LEMMA FastTransactionFacts ==
  ASSUME NEW u \in Int, NEW p \in Int, IsAt(br, u, p, LocalInput), Fits(br),
         NEW d \in Demands, br.avail_in >= FastBytes
  PROVE  ReadTo(br, NextFastRead(NextFastRead(
                      NextFastRead(WarmupBitReader(br, LocalInput), d, 1), d, 2),
                      d, 3),
                u, p, Total(d), LocalInput)
<1> DEFINE warm == WarmupBitReader(br, LocalInput)
           first == NextFastRead(warm, d, 1)
           second == NextFastRead(first, d, 2)
           third == NextFastRead(second, d, 3)
<1>1. /\ br.next_in \in Nat /\ br.avail_in \in Nat /\ Len(br.val) \in Nat
      /\ BitLen(br.avail_in) \in Int /\ ByteBits \in Nat /\ ByteBits > 0
      /\ br.val \in Seq(Int)
  BY ReaderNumbers, BitLenFacts DEF IsAt, IsReader
<1>2. br.avail_in >= 16
  <2>1. FastBytes \in Nat /\ FastBytes >= 16
    BY StreamInputConstants, BitReaderConstants
  <2> QED BY <1>1, <2>1
<1>3. 16 * ByteBits <= BitLen(br.avail_in)
  <2>1. BitLen(16) <= BitLen(br.avail_in)
    BY <1>1, <1>2, BitLenOrder
  <2> QED BY <2>1 DEF BitLen
<1>4. /\ Taken(d, 1) \in Nat /\ Taken(d, 2) \in Nat /\ Taken(d, 3) \in Nat
      /\ Total(d) = (Taken(d, 1) + Taken(d, 2)) + Taken(d, 3)
      /\ Total(d) <= 8 * ByteBits
  BY DemandFacts, RegisterLen
<1>5. ReadTo(br, warm, u, p, 0, LocalInput)
  <2>1. u + 0 = u /\ p + 0 = p
    OBVIOUS
  <2>2. CASE br.val # <<>>
    <3>1. warm = br
      BY <2>2 DEF WarmupBitReader
    <3>2. Moved(br, br, 0, 0) /\ 0 \in 0..br.avail_in
      BY <1>1, BitLenFacts DEF Moved
    <3> QED BY <2>1, <3>1, <3>2 DEF ReadTo
  <2>3. CASE br.val = <<>>
    <3>1. warm = PullBytes(br, 1, LocalInput)
      BY <2>3 DEF WarmupBitReader
    <3>2. 1 \in 0..br.avail_in
      BY <1>1, <1>2
    <3>3. IsAt(warm, u, p + 1, LocalInput) /\ Moved(br, warm, 1, 0)
      BY <3>1, <3>2, PullBytesFacts
    <3>4. Fits(warm)
      <4>1. Len(br.val) = 0
        BY <1>1, <2>3, EmptySeq
      <4>2. Len(warm.val) = 0 + ByteBits - 0
        BY <3>3, <4>1, BitLenFacts DEF Moved
      <4> QED BY <1>1, <4>2, RegisterLen DEF Fits
    <3> QED BY <2>1, <3>2, <3>3, <3>4 DEF ReadTo
  <2> QED BY <2>2, <2>3
<1> HIDE DEF warm
<1>6. \A i \in Nat : i <= 8 * ByteBits =>
        i + BitLen(RegBytes) <= Len(br.val) + BitLen(br.avail_in)
  <2>1. PICK l \in Nat, a \in Int : l = Len(br.val) /\ a = BitLen(br.avail_in)
    BY <1>1
  <2>2. 16 * ByteBits <= a
    BY <1>3, <2>1
  <2>3. \A i \in Nat : i <= 8 * ByteBits => i + 8 * ByteBits <= l + a
    BY <1>1, <2>2
  <2> QED BY <2>1, <2>3, RegisterLen
<1>7. ReadTo(br, first, u, p, Taken(d, 1), LocalInput)
  <2>1. 0 + BitLen(RegBytes) <= Len(br.val) + BitLen(br.avail_in)
    BY <1>1, <1>6
  <2>2. 0 + Taken(d, 1) = Taken(d, 1) /\ 0 \in Nat /\ 1 \in 1..3
    BY <1>4
  <2>3. ReadTo(br, first, u, p, 0 + Taken(d, 1), LocalInput)
    BY <1>5, <2>1, <2>2, NextFastReadFacts
  <2> QED BY <2>2, <2>3
<1> HIDE DEF first
<1>8. ReadTo(br, second, u, p, Taken(d, 1) + Taken(d, 2), LocalInput)
  <2>1. Taken(d, 1) + BitLen(RegBytes) <= Len(br.val) + BitLen(br.avail_in)
    <3>1. Taken(d, 1) <= 8 * ByteBits
      BY <1>1, <1>4
    <3> QED BY <1>4, <1>6, <3>1
  <2>2. 2 \in 1..3
    OBVIOUS
  <2> QED BY <1>4, <1>7, <2>1, <2>2, NextFastReadFacts
<1> HIDE DEF second
<1>9. ReadTo(br, third, u, p, (Taken(d, 1) + Taken(d, 2)) + Taken(d, 3),
             LocalInput)
  <2>1. Taken(d, 1) + Taken(d, 2) \in Nat
    BY <1>4
  <2>2. (Taken(d, 1) + Taken(d, 2)) + BitLen(RegBytes)
          <= Len(br.val) + BitLen(br.avail_in)
    <3>1. Taken(d, 1) + Taken(d, 2) <= 8 * ByteBits
      BY <1>1, <1>4
    <3> QED BY <1>6, <2>1, <3>1
  <2>3. 3 \in 1..3
    OBVIOUS
  <2> QED BY <1>8, <2>1, <2>2, <2>3, NextFastReadFacts
<1> QED BY <1>4, <1>9 DEF third, second, first, warm

-----------------------------------------------------------------------------
(* Byte-aligned copies, padding and giving bytes back                      *)

\* The accumulator's whole bytes and the bits that are left.
LEMMA HeldBytes ==
  ASSUME NEW b, IsReader(b)
  PROVE  \E q \in Nat, r \in 0..(ByteBits - 1) :
           /\ q = GetAvailableBits(b) \div ByteBits /\ r = PadBits(b)
           /\ Len(b.val) = BitLen(q) + r /\ BitLen(q) \in Nat
<1>1. Len(b.val) \in Nat
  BY ReaderTypes
<1> DEFINE q == Len(b.val) \div ByteBits
           r == Len(b.val) % ByteBits
<1>2. q \in Nat /\ r \in 0..(ByteBits - 1) /\ Len(b.val) = BitLen(q) + r
  BY <1>1, WholeBytes
<1>3. BitLen(q) \in Nat
  <2> HIDE DEF q
  <2>1. q * ByteBits \in Nat
    BY <1>2, BitReaderConstants
  <2> QED BY <2>1 DEF BitLen
<1> QED BY <1>2, <1>3 DEF GetAvailableBits, PadBits

\* Skipping the padding bits brings the reader to a byte boundary.
LEMMA JumpFacts ==
  ASSUME NEW b, NEW u \in Int, NEW p \in Int, NEW input, IsAt(b, u, p, input),
         Fits(b)
  PROVE  /\ PadBits(b) \in Nat
         /\ ReadTo(b, JumpToByteBoundary(b), u, p, PadBits(b), input)
         /\ \E q \in Nat : /\ Len(JumpToByteBoundary(b).val) = BitLen(q)
                           /\ u + PadBits(b) = BitLen(p - q)
                           /\ BitLen(q) <= Len(b.val)
<1> DEFINE c == JumpToByteBoundary(b)
<1>1. PICK q \in Nat, r \in 0..(ByteBits - 1) :
        r = PadBits(b) /\ Len(b.val) = BitLen(q) + r /\ BitLen(q) \in Nat
  <2>1. IsReader(b)
    BY DEF IsAt
  <2> QED BY <2>1, HeldBytes
<1>2. r \in Nat
  BY BitLenFacts
<1>3. /\ b.next_in \in Nat /\ b.avail_in \in Nat /\ Len(b.val) \in Nat
      /\ r \in 0..Len(b.val)
  <2>1. b.next_in \in Nat /\ b.avail_in \in Nat /\ Len(b.val) \in Nat
    BY ReaderNumbers
  <2>2. r <= Len(b.val)
    BY <1>1, <1>2, <2>1
  <2> QED BY <1>2, <2>1, <2>2
<1>4. c = DropBits(b, r)
  BY <1>1 DEF JumpToByteBoundary
<1> HIDE DEF c
<1>5. /\ 0 \in 0..b.avail_in /\ IsAt(b, u, p + 0, input)
      /\ Moved(b, b, 0, 0)
  <2>1. p + 0 = p
    OBVIOUS
  <2>2. 0 \in 0..b.avail_in
    BY <1>3
  <2> QED BY <1>3, <2>1, <2>2, BitLenFacts DEF Moved
<1>6. ReadTo(b, c, u, p, r, input)
  <2>1. r <= Len(b.val)
    BY <1>3
  <2> QED BY <1>2, <1>4, <1>5, <2>1, DropIsRead
<1>7. Len(c.val) = BitLen(q)
  <2>1. Moved(b, c, 0, r)
    BY <1>3, <1>4, DropBitsFacts
  <2>2. Len(c.val) = Len(b.val) + 0 - r
    BY <2>1, BitLenFacts DEF Moved
  <2> QED BY <1>1, <1>2, <2>2
<1>8. u + r = BitLen(p - q)
  <2>1. BitLen(p - q) = BitLen(p) - BitLen(q)
    BY BitLenSum
  <2>2. BitLen(p) = u + Len(b.val)
    BY DEF IsAt
  <2> QED BY <1>1, <1>2, <2>1, <2>2
<1>9. BitLen(q) <= Len(b.val)
  BY <1>1, <1>2
<1> QED BY <1>1, <1>2, <1>6, <1>7, <1>8, <1>9 DEF c

\* At a byte boundary n whole bytes are copied, first from the accumulator.
LEMMA CopyBytesFacts ==
  ASSUME NEW b, NEW v \in Int, NEW p \in Int, NEW input,
         IsAt(b, BitLen(v), p, input), Fits(b),
         NEW n \in 0..GetRemainingBytes(b)
  PROVE  /\ ReadTo(b, CopyBytes(b, n), BitLen(v), p, BitLen(n), input)
         /\ n = GetRemainingBytes(b) =>
              CopyBytes(b, n).avail_in = 0 /\ Len(CopyBytes(b, n).val) = 0
<1> DEFINE c == CopyBytes(b, n)
<1>1. PICK q \in Nat, r \in 0..(ByteBits - 1) :
        /\ q = GetAvailableBits(b) \div ByteBits /\ r = PadBits(b)
        /\ Len(b.val) = BitLen(q) + r /\ BitLen(q) \in Nat
  <2>1. IsReader(b)
    BY DEF IsAt
  <2> QED BY <2>1, HeldBytes
<1>2. b.next_in \in Nat /\ b.avail_in \in Nat /\ Len(b.val) \in Nat
  BY ReaderNumbers
<1>3. BitLen(v) \in Int /\ BitLen(p) \in Int /\ BitLen(p) = BitLen(v) + Len(b.val)
  BY BitLenType DEF IsAt
<1>4. Len(b.val) = BitLen(q)
  <2>1. BitLen(p - v) = BitLen(p) - BitLen(v)
    BY BitLenSum
  <2>2. BitLen(p - v) = Len(b.val) /\ p - v \in Int
    BY <1>2, <1>3, <2>1
  <2>3. BitLen(p - v) <= Len(b.val) /\ Len(b.val) < BitLen(p - v) + ByteBits
    BY <1>2, <2>2, BitLenFacts
  <2>4. Len(b.val) \div ByteBits = p - v
    BY <1>2, <2>2, <2>3, WholeBytesUnique
  <2>5. q = p - v
    BY <1>1, <2>4 DEF GetAvailableBits
  <2> QED BY <2>2, <2>5
<1> DEFINE held == Lesser(n, q)
           kept == DropBits(b, BitLen(held))
           m == n - held
<1>5. GetRemainingBytes(b) = b.avail_in + q
  BY <1>1 DEF GetRemainingBytes
<1>6. /\ n \in Nat /\ held \in Nat /\ held <= q /\ held <= n
      /\ m \in 0..b.avail_in /\ (m = 0 \/ held = q)
      /\ (n = b.avail_in + q => m = b.avail_in /\ held = q)
  <2>1. n \in Nat /\ n <= b.avail_in + q
    BY <1>2, <1>5
  <2>2. CASE n <= q
    <3>1. held = n
      BY <2>2 DEF Lesser
    <3> QED BY <1>2, <2>1, <2>2, <3>1
  <2>3. CASE ~(n <= q)
    <3>1. held = q
      BY <2>3 DEF Lesser
    <3> QED BY <1>2, <2>1, <2>3, <3>1
  <2> QED BY <2>2, <2>3
<1>7. c = [kept EXCEPT !.next_in = @ + m, !.avail_in = @ - m]
  BY <1>1 DEF CopyBytes, BitLen
<1>8. /\ BitLen(held) \in 0..Len(b.val)
      /\ BitLen(n) = BitLen(held) + BitLen(m)
      /\ BitLen(m) \in Int /\ BitLen(n) \in Int
  <2> HIDE DEF held, m
  <2>1. BitLen(held) <= BitLen(q) /\ m \in Int
    BY <1>6, BitLenOrder
  <2>2. BitLen(held) \in Nat
    <3>1. held * ByteBits \in Nat
      BY <1>6, BitReaderConstants
    <3> QED BY <3>1 DEF BitLen
  <2>3. n = held + m
    BY <1>6 DEF m
  <2>4. BitLen(n) = BitLen(held) + BitLen(m)
    BY <1>6, <2>1, <2>3, BitLenSum
  <2>5. BitLen(m) \in Int
    BY <2>1, BitLenType
  <2>6. BitLen(held) \in 0..Len(b.val)
    BY <1>1, <1>4, <2>1, <2>2
  <2>7. BitLen(n) \in Int
    BY <2>2, <2>4, <2>5
  <2> QED BY <2>4, <2>5, <2>6, <2>7
<1> HIDE DEF c, held, m
<1>9. /\ IsAt(kept, BitLen(v) + BitLen(held), p, input)
      /\ Moved(b, kept, 0, BitLen(held))
  BY <1>3, <1>8, DropBitsFacts
<1> HIDE DEF kept
<1>10. /\ kept.next_in = b.next_in /\ kept.avail_in = b.avail_in
       /\ Len(kept.val) = BitLen(q) - BitLen(held)
  <2>1. /\ kept.next_in = b.next_in + 0 /\ kept.avail_in = b.avail_in - 0
        /\ Len(kept.val) = Len(b.val) + BitLen(0) - BitLen(held)
    BY <1>9 DEF Moved
  <2>2. Len(b.val) + 0 - BitLen(held) = BitLen(q) - BitLen(held)
    BY <1>2, <1>4, <1>8
  <2> QED BY <1>2, <2>1, <2>2, BitLenFacts
<1>11. /\ c.val = kept.val /\ c.next_in = b.next_in + m
       /\ c.avail_in = b.avail_in - m /\ IsReader(c)
  <2>1. kept \in [val : Seq(Int), next_in : Nat, avail_in : Nat]
    BY <1>9 DEF IsAt, IsReader
  <2>2. /\ c.val = kept.val /\ c.next_in = kept.next_in + m
        /\ c.avail_in = kept.avail_in - m
        /\ c = [val |-> c.val, next_in |-> c.next_in, avail_in |-> c.avail_in]
    BY <1>7, <2>1
  <2>3. kept.next_in + m \in Nat /\ kept.avail_in - m \in Nat
    BY <1>2, <1>6, <1>10
  <2>4. c.val \in Seq(Int)
    BY <2>1, <2>2
  <2>5. IsReader(c)
    BY <2>2, <2>3, <2>4 DEF IsReader
  <2> QED BY <1>10, <2>2, <2>5
<1>12. Len(c.val) = Len(b.val) + BitLen(m) - BitLen(n)
  <2>1. Len(c.val) = BitLen(q) - BitLen(held)
    BY <1>10, <1>11
  <2>2. PICK z \in Int, h \in Int, i \in Int :
          z = BitLen(q) /\ h = BitLen(held) /\ i = BitLen(m)
    BY <1>1, <1>8
  <2>3. BitLen(n) = h + i /\ Len(b.val) = z /\ Len(c.val) = z - h
    BY <1>4, <1>8, <2>1, <2>2
  <2>4. z - h = z + i - (h + i)
    OBVIOUS
  <2> QED BY <2>2, <2>3, <2>4
<1>13. IsAt(c, BitLen(v) + BitLen(n), p + m, input)
  <2>1. m \in Nat /\ m \in Int
    BY <1>2, <1>6
  <2>2. CASE m = 0
    <3>1. BitLen(n) = BitLen(held)
      BY <1>8, <2>2, BitLenFacts
    <3>2. c = kept
      <4>1. kept \in [val : Seq(Int), next_in : Nat, avail_in : Nat]
        BY <1>9 DEF IsAt, IsReader
      <4>2. c.next_in = kept.next_in /\ c.avail_in = kept.avail_in
        BY <1>2, <1>10, <1>11, <2>2
      <4> QED BY <1>11, <4>1, <4>2 DEF IsReader
    <3>3. p + m = p
      BY <2>2
    <3> QED BY <1>9, <3>1, <3>2, <3>3
  <2>3. CASE held = q
    <3>1. Len(c.val) = 0
      BY <1>1, <1>10, <1>11, <2>3
    <3>2. \A k \in 1..Len(c.val) : c.val[k] = BitLen(v) + BitLen(n) + k - 1
      BY <3>1
    <3>3. BitLen(p + m) = BitLen(v) + BitLen(n) + Len(c.val)
      <4>1. BitLen(p + m) = BitLen(p) + BitLen(m)
        BY <2>1, BitLenSum
      <4>2. PICK i \in Int, j \in Int, w \in Int, z \in Int :
              i = BitLen(m) /\ j = BitLen(n) /\ w = BitLen(v) /\ z = BitLen(q)
        BY <1>1, <1>3, <1>8
      <4>3. j = z + i /\ BitLen(p) = w + z
        BY <1>3, <1>4, <1>8, <2>3, <4>2
      <4>4. BitLen(p) + i = w + j + 0
        BY <4>3
      <4> QED BY <3>1, <4>1, <4>2, <4>4
    <3>4. input \in Seq(Int) /\ c.next_in + c.avail_in <= Len(input)
      <4>1. /\ input \in Seq(Int) /\ Len(input) \in Nat
            /\ b.next_in + b.avail_in <= Len(input)
        BY LenProperties DEF IsAt
      <4> QED BY <1>2, <1>11, <2>1, <4>1
    <3>5. ASSUME NEW k \in 1..c.avail_in
          PROVE  input[c.next_in + k] = (p + m) + k - 1
      <4>1. m + k \in 1..b.avail_in
        BY <1>2, <1>6, <1>11
      <4>2. input[b.next_in + (m + k)] = p + (m + k) - 1
        BY <4>1 DEF IsAt
      <4>3. /\ c.next_in + k = b.next_in + (m + k)
            /\ (p + m) + k - 1 = p + (m + k) - 1
        BY <1>2, <1>11, <2>1
      <4> QED BY <4>2, <4>3
    <3> QED BY <1>11, <3>2, <3>3, <3>4, <3>5 DEF IsAt
  <2> QED BY <1>6, <2>2, <2>3
<1>14. Moved(b, c, m, BitLen(n))
  BY <1>11, <1>12 DEF Moved
<1>15. Fits(c)
  <2>1. Len(c.val) <= Len(b.val)
    BY <1>1, <1>2, <1>4, <1>8, <1>10, <1>11
  <2>2. Len(c.val) \in Nat
    BY <1>11, ReaderTypes
  <2>3. Len(b.val) <= 8 * ByteBits
    BY RegisterLen DEF Fits
  <2>4. Len(c.val) <= 8 * ByteBits
    BY <1>2, <2>1, <2>2, <2>3, BitLenFacts
  <2> QED BY <2>4, RegisterLen DEF Fits
<1>16. n = GetRemainingBytes(b) => c.avail_in = 0 /\ Len(c.val) = 0
  BY <1>1, <1>2, <1>5, <1>6, <1>10, <1>11
<1> QED BY <1>6, <1>13, <1>14, <1>15, <1>16 DEF ReadTo, c

\* The whole bytes of the accumulator go back to the input they came from.
LEMMA UnloadFacts ==
  ASSUME NEW b, IsReader(b), NEW u \in Int, NEW p \in Int,
         \A k \in 1..Len(b.val) : b.val[k] = u + k - 1,
         BitLen(p) = u + Len(b.val),
         Len(b.val) < BitLen(b.next_in) + ByteBits
  PROVE  /\ IsReader(Unload(b))
         /\ \A k \in 1..Len(Unload(b).val) : Unload(b).val[k] = u + k - 1
         /\ Len(Unload(b).val) < ByteBits
         /\ \E q \in Nat :
              /\ Unload(b).next_in = b.next_in - q
              /\ Unload(b).avail_in = b.avail_in + q
              /\ BitLen(p - q) = u + Len(Unload(b).val)
              /\ Len(b.val) = BitLen(q) + Len(Unload(b).val)
<1> DEFINE c == Unload(b)
<1>1. PICK q \in Nat, r \in 0..(ByteBits - 1) :
        /\ q = GetAvailableBits(b) \div ByteBits
        /\ Len(b.val) = BitLen(q) + r /\ BitLen(q) \in Nat
  BY HeldBytes
<1>2. /\ b.val \in Seq(Int) /\ b.next_in \in Nat /\ b.avail_in \in Nat
      /\ Len(b.val) \in Nat /\ ByteBits \in Nat /\ r \in Nat /\ r < ByteBits
  BY ReaderTypes, BitLenFacts
<1>3. c = [val |-> SubSeq(b.val, 1, Len(b.val) - BitLen(q)),
           next_in |-> b.next_in - q, avail_in |-> b.avail_in + q]
  BY <1>1 DEF Unload, BitLen
<1> HIDE DEF c
<1>4. Len(b.val) - BitLen(q) = r
  BY <1>1, <1>2
<1>5. /\ c.val \in Seq(Int) /\ Len(c.val) = r
      /\ \A k \in 1..r : c.val[k] = b.val[k]
  <2>1. c.val = SubSeq(b.val, 1, r)
    BY <1>3, <1>4
  <2>2. \A k \in 1..r : b.val[k] \in Int
    <3>1. \A k \in 1..Len(b.val) : b.val[k] \in Int
      BY <1>2, LenProperties
    <3>2. r <= Len(b.val)
      BY <1>1, <1>2
    <3> QED BY <1>2, <3>1, <3>2
  <2>3. /\ c.val \in Seq(Int)
        /\ Len(c.val) = IF 1 <= r THEN r - 1 + 1 ELSE 0
        /\ \A k \in 1..(r - 1 + 1) : c.val[k] = b.val[1 + k - 1]
    <3>1. 1 \in Int /\ r \in Int
      BY <1>2
    <3> QED BY <2>1, <2>2, <3>1, SubSeqProperties
  <2>4. Len(c.val) = r
    BY <1>2, <2>3
  <2>5. ASSUME NEW k \in 1..r PROVE c.val[k] = b.val[k]
    <3>1. k \in 1..(r - 1 + 1) /\ 1 + k - 1 = k
      BY <1>2
    <3> QED BY <2>3, <3>1
  <2> QED BY <2>3, <2>4, <2>5
<1>6. q <= b.next_in
  <2>1. ~(b.next_in < q)
    <3>1. b.next_in < q => BitLen(b.next_in) + ByteBits <= BitLen(q)
      BY <1>2, BitLenOrder
    <3>2. BitLen(b.next_in) \in Int
      <4>1. b.next_in \in Int
        BY <1>2
      <4> QED BY <4>1, BitLenType
    <3> QED BY <1>1, <1>2, <3>1, <3>2
  <2> QED BY <1>2, <2>1
<1>7. /\ c.next_in = b.next_in - q /\ c.avail_in = b.avail_in + q
      /\ c = [val |-> c.val, next_in |-> c.next_in, avail_in |-> c.avail_in]
  BY <1>3
<1>8. IsReader(c)
  <2>1. b.next_in - q \in Nat /\ b.avail_in + q \in Nat
    BY <1>2, <1>6
  <2> QED BY <1>5, <1>7, <2>1 DEF IsReader
<1>9. \A k \in 1..Len(c.val) : c.val[k] = u + k - 1
  BY <1>1, <1>2, <1>5
<1>10. BitLen(p - q) = u + Len(c.val)
  <2>1. q \in Int
    OBVIOUS
  <2>2. BitLen(p - q) = BitLen(p) - BitLen(q)
    BY <2>1, BitLenSum
  <2> QED BY <1>1, <1>2, <1>5, <2>2
<1>11. Len(b.val) = BitLen(q) + Len(c.val)
  BY <1>1, <1>5
<1> QED BY <1>2, <1>5, <1>7, <1>8, <1>9, <1>10, <1>11 DEF c

-----------------------------------------------------------------------------
(* The inductive invariant                                                 *)

Held == Len(br.val)

\* The number of the byte that is pulled next: of the piece, or, while bytes
\* of earlier pieces are in the internal buffer, the first one there.
NextByte ==
  IF call = "running" /\ source = "xinput" THEN base + br.next_in
  ELSE (base + input_offset) - (IF buffer_length = 0 THEN 0 ELSE br.avail_in)

Types ==
  /\ IsReader(br) /\ Fits(br)
  /\ source \in {"xinput", "saved_buffer"}
  /\ buffer \in [1..RegBytes -> Int] /\ saved_buffer \in [1..RegBytes -> Int]
  /\ buffer_length \in 0..RegBytes
  /\ available_in \in Nat /\ input_offset \in Nat
  /\ offered \in Nat /\ base \in Nat
  /\ input_offset + available_in = offered
  /\ call \in {"idle", "running"}
  /\ result \in {"NO_ERROR", "SUCCESS", "NEEDS_MORE_INPUT",
                 "NEEDS_MORE_OUTPUT", "ERROR"}
  /\ stage \in {"READ", "DONE"}
  /\ demand \in Demands \cup {<<>>}
  /\ copying \in Nat /\ used \in Nat

\* A copy starts at a byte boundary and behind the last meta-block nothing is
\* held; what is taken up again is a demand that failed.
Control ==
  /\ call = "running" => result \in {"SUCCESS", "NEEDS_MORE_INPUT"}
  /\ copying > 0 => demand = <<>> /\ stage = "READ" /\ used % ByteBits = 0
  /\ stage = "DONE" =>
       /\ demand = <<>> /\ copying = 0 /\ Held = 0
       /\ call = "running" /\ source = "xinput" => input_offset = br.next_in

\* The accumulator holds the bits from the first unconsumed one on, up to the
\* byte that is pulled next.
InOrder ==
  /\ \A k \in 1..Held : br.val[k] = used + k - 1
  /\ BitLen(NextByte) = used + Held

\* The bits held are bits of a demand that failed.
Owed == demand # <<>> /\ Held < Total(demand)

\* What is still to be read cannot be satisfied with n bytes more.
Short(n) == demand # <<>> /\ Held + BitLen(n) < Total(demand)

\* The first n bytes of b are those in front of input_offset.
Follows(b, n) ==
  \A k \in 1..n : b[k] = (base + input_offset) - buffer_length + k - 1

\* The internal buffer was read to its end.
Drained == br.avail_in = 0 /\ Held < ByteBits

\* The internal buffer holds the bytes of a transaction that starts over: its
\* first read succeeds, and n of the bytes are too few for all of it.
Waiting(n) ==
  /\ br.avail_in = buffer_length /\ Short(n)
  /\ demand[1].take <= Held + BitLen(buffer_length)

\* Inside a call, reading the piece.
FromPiece ==
  /\ buffer_length = 0
  /\ br.next_in + br.avail_in = offered
  /\ Held < BitLen(br.next_in) + ByteBits \/ Owed
  /\ OutOfInput =>
       IF copying > 0 THEN br.avail_in = 0 /\ Held = 0
       ELSE /\ Short(br.avail_in)
            /\ br.avail_in > 0 => demand[1].take <= Held + BitLen(br.avail_in)

\* Inside a call, reading the internal buffer.
FromBuffer ==
  /\ buffer_length > 0
  /\ Follows(buffer, buffer_length)
  /\ Follows(saved_buffer, Lesser(RegBytes, buffer_length + available_in))
  /\ br.next_in + br.avail_in <= RegBytes
  /\ \/ /\ Drained
        /\ Running => demand = <<>>
        /\ OutOfInput /\ copying > 0 => Held = 0
     \/ /\ Waiting(IF Running THEN buffer_length - 1 ELSE buffer_length)
        /\ br.next_in = 0

\* Between calls, with nothing in the internal buffer.
NoTail ==
  /\ Held < ByteBits \/ Owed
  /\ IF result = "NEEDS_MORE_INPUT"
     THEN available_in = 0 /\ IF copying > 0 THEN Held = 0 ELSE Owed
     ELSE demand = <<>>

\* Between calls, with a tail in the internal buffer.
SavedTail ==
  /\ Follows(buffer, buffer_length)
  /\ \/ /\ Waiting(buffer_length)
        /\ result = "NEEDS_MORE_INPUT" /\ available_in = 0
     \/ Drained /\ stage = "DONE" /\ result = "SUCCESS"

Place ==
  IF call = "running" THEN IF source = "xinput" THEN FromPiece ELSE FromBuffer
  ELSE IF buffer_length = 0 THEN NoTail ELSE SavedTail

Inv == Types /\ Control /\ (~Fatal => InOrder /\ Place)

-----------------------------------------------------------------------------
(* The reader inside a call                                                *)

\* The piece is a sequence of consecutive bytes.
LEMMA XInputFacts ==
  ASSUME Types
  PROVE  /\ XInput \in Seq(Int) /\ Len(XInput) = offered
         /\ \A k \in 1..offered : XInput[k] = base + k - 1
<1>1. offered \in Nat /\ base \in Nat
  BY DEF Types
<1>2. XInput \in [1..offered -> Int]
  BY <1>1 DEF XInput
<1>3. \A k \in 1..offered : XInput[k] = base + k - 1
  BY DEF XInput
<1> HIDE DEF XInput
<1> QED BY <1>1, <1>2, <1>3, FunctionIsSeq

LEMMA RunningReader ==
  ASSUME Inv, call = "running"
  PROVE  /\ IsAt(br, used, NextByte, LocalInput) /\ Fits(br)
         /\ NextByte \in Int /\ used \in Nat
<1>1. Types /\ InOrder /\ Place
  BY DEF Inv, Fatal
<1>2. /\ IsReader(br) /\ Fits(br) /\ buffer_length \in Nat
      /\ input_offset \in Nat /\ base \in Nat /\ offered \in Nat
      /\ available_in \in Nat /\ used \in Nat
      /\ source \in {"xinput", "saved_buffer"}
      /\ saved_buffer \in [1..RegBytes -> Int]
  BY <1>1 DEF Types
<1>3. br.next_in \in Nat /\ br.avail_in \in Nat /\ Len(br.val) \in Nat
  BY <1>2, ReaderTypes
<1>4. NextByte \in Int
  BY <1>2, <1>3 DEF NextByte
<1>5. /\ \A k \in 1..Len(br.val) : br.val[k] = used + k - 1
      /\ BitLen(NextByte) = used + Len(br.val)
  BY <1>1 DEF InOrder, Held
<1>6. CASE source = "xinput"
  <2>1. LocalInput = XInput /\ NextByte = base + br.next_in
    BY <1>6 DEF LocalInput, NextByte
  <2>2. br.next_in + br.avail_in = offered
    BY <1>1, <1>6 DEF Place, FromPiece
  <2>3. /\ XInput \in Seq(Int) /\ Len(XInput) = offered
        /\ \A k \in 1..offered : XInput[k] = base + k - 1
    BY <1>1, XInputFacts
  <2>4. ASSUME NEW k \in 1..br.avail_in
        PROVE  XInput[br.next_in + k] = (base + br.next_in) + k - 1
    <3>1. br.next_in + k \in 1..offered
      BY <1>2, <1>3, <2>2
    <3>2. XInput[br.next_in + k] = base + (br.next_in + k) - 1
      BY <2>3, <3>1
    <3> QED BY <1>2, <1>3, <3>2
  <2>5. br.next_in + br.avail_in <= Len(XInput)
    BY <1>2, <1>3, <2>2, <2>3
  <2> QED BY <1>2, <1>4, <1>5, <2>1, <2>3, <2>4, <2>5 DEF IsAt
<1>7. CASE source = "saved_buffer"
  <2>1. LocalInput = saved_buffer /\ FromBuffer
    BY <1>1, <1>7 DEF LocalInput, Place
  <2>2. RegBytes = 8
    BY BitReaderConstants
  <2>3. saved_buffer \in Seq(Int) /\ Len(saved_buffer) = RegBytes
    BY <1>2, <2>2, FunctionIsSeq
  <2>4. NextByte = (base + input_offset) - br.avail_in
    BY <1>7, <2>1 DEF NextByte, FromBuffer
  <2>5. ASSUME NEW k \in 1..br.avail_in
        PROVE  saved_buffer[br.next_in + k] = NextByte + k - 1
    <3>1. /\ br.avail_in = buffer_length /\ br.next_in = 0
          /\ buffer_length <= RegBytes
      <4>1. br.avail_in # 0
        BY <1>3
      <4>2. br.avail_in = buffer_length /\ br.next_in = 0
        BY <2>1, <4>1 DEF FromBuffer, Drained, Waiting
      <4>3. buffer_length <= RegBytes
        BY <1>1, <2>2 DEF Types
      <4> QED BY <4>2, <4>3
    <3>2. k \in 1..Lesser(RegBytes, buffer_length + available_in)
      BY <1>2, <2>2, <3>1 DEF Lesser
    <3>3. saved_buffer[k] = (base + input_offset) - buffer_length + k - 1
      BY <2>1, <3>2 DEF FromBuffer, Follows
    <3>4. br.next_in + k = k
      BY <3>1
    <3> QED BY <2>4, <3>1, <3>3, <3>4
  <2>6. br.next_in + br.avail_in <= Len(saved_buffer)
    BY <2>1, <2>3 DEF FromBuffer
  <2> QED BY <1>2, <1>5, <1>4, <2>1, <2>3, <2>5, <2>6 DEF IsAt
<1> QED BY <1>2, <1>4, <1>6, <1>7

\* A reader that reads nothing.
LEMMA ReadToSelf ==
  ASSUME NEW b, NEW u \in Int, NEW p \in Int, NEW input, IsAt(b, u, p, input),
         Fits(b)
  PROVE  ReadTo(b, b, u, p, 0, input)
<1>1. b.next_in \in Nat /\ b.avail_in \in Nat /\ Len(b.val) \in Nat
  BY ReaderNumbers
<1>2. u + 0 = u /\ p + 0 = p /\ 0 \in 0..b.avail_in
  BY <1>1
<1>3. Moved(b, b, 0, 0)
  BY <1>1, BitLenFacts DEF Moved
<1> QED BY <1>2, <1>3 DEF ReadTo

\* A step of a call that reads u bits keeps the stream in order.
LEMMA ReadStep ==
  ASSUME Inv, call = "running", call' = "running",
         UNCHANGED <<source, bufferVars, callerVars>>,
         NEW u \in Nat, used' = used + u,
         ReadTo(br, br', used, NextByte, u, LocalInput)
  PROVE  /\ InOrder' /\ IsReader(br)' /\ Fits(br)' /\ used' \in Nat
         /\ \E n \in Nat :
              /\ n <= br.avail_in
              /\ br'.next_in = br.next_in + n
              /\ br'.avail_in = br.avail_in - n
              /\ Held' = Held + BitLen(n) - u
<1>1. PICK n \in 0..br.avail_in :
        /\ IsAt(br', used + u, NextByte + n, LocalInput)
        /\ Moved(br, br', n, u) /\ Fits(br')
  BY DEF ReadTo
<1>2. /\ br.next_in \in Nat /\ br.avail_in \in Nat /\ used \in Nat
      /\ NextByte \in Int
  BY RunningReader, ReaderNumbers
<1>3. n \in Nat /\ n <= br.avail_in
  BY <1>2
<1>4. /\ br'.next_in = br.next_in + n /\ br'.avail_in = br.avail_in - n
      /\ Held' = Held + BitLen(n) - u
  BY <1>1 DEF Moved, Held
<1>5. NextByte' = NextByte + n
  <2>1. /\ base' = base /\ source' = source /\ input_offset' = input_offset
        /\ buffer_length' = buffer_length
    BY DEF callerVars, bufferVars
  <2>2. base \in Nat /\ input_offset \in Nat
    BY DEF Inv, Types
  <2>3. CASE source = "xinput"
    <3>1. NextByte = base + br.next_in /\ NextByte' = base + (br.next_in + n)
      BY <1>4, <2>1, <2>3 DEF NextByte
    <3> QED BY <1>2, <1>3, <2>2, <3>1
  <2>4. CASE source # "xinput"
    <3>1. buffer_length # 0
      <4>1. FromBuffer
        BY <2>4 DEF Inv, Fatal, Place
      <4> QED BY <4>1 DEF FromBuffer
    <3>2. /\ NextByte = (base + input_offset) - br.avail_in
          /\ NextByte' = (base + input_offset) - (br.avail_in - n)
      BY <1>4, <2>1, <2>4, <3>1 DEF NextByte
    <3> QED BY <1>2, <1>3, <2>2, <3>2
  <2> QED BY <2>3, <2>4
<1>6. /\ IsReader(br')
      /\ \A k \in 1..Len(br'.val) : br'.val[k] = (used + u) + k - 1
      /\ BitLen(NextByte + n) = (used + u) + Len(br'.val)
  BY <1>1 DEF IsAt
<1>7. InOrder'
  BY <1>5, <1>6 DEF InOrder, Held
<1> QED BY <1>1, <1>2, <1>3, <1>4, <1>6, <1>7

-----------------------------------------------------------------------------
(* The steps keep the invariant                                            *)

\* The numbers a step of a call computes with.
LEMMA RunningNumbers ==
  ASSUME Inv
  PROVE  /\ br.next_in \in Nat /\ br.avail_in \in Nat /\ Held \in Nat
         /\ buffer_length \in Nat /\ available_in \in Nat /\ offered \in Nat
         /\ input_offset \in Nat /\ base \in Nat /\ used \in Nat
         /\ copying \in Nat /\ ByteBits \in Nat /\ ByteBits > 0
         /\ RegBytes = 8 /\ buffer_length <= RegBytes
         /\ BitLen(br.next_in) \in Int /\ BitLen(br.avail_in) \in Int
         /\ BitLen(buffer_length) \in Int
<1>1. Types /\ RegBytes = 8
  BY BitReaderConstants DEF Inv
<1>2. /\ br.next_in \in Nat /\ br.avail_in \in Nat /\ Held \in Nat
  BY <1>1, ReaderTypes DEF Types, Held
<1>3. buffer_length \in Nat /\ buffer_length <= RegBytes
  <2>1. buffer_length \in 0..RegBytes
    BY <1>1 DEF Types
  <2> QED BY <1>1, <2>1
<1>4. br.next_in \in Int /\ br.avail_in \in Int /\ buffer_length \in Int
  BY <1>2, <1>3
<1>5. /\ BitLen(br.next_in) \in Int /\ BitLen(br.avail_in) \in Int
      /\ BitLen(buffer_length) \in Int
  BY <1>4, BitLenType
<1> QED BY <1>1, <1>2, <1>3, <1>5, BitLenFacts DEF Types

\* The types after a step that reads.
LEMMA ReadTypes ==
  ASSUME Inv, IsReader(br)', Fits(br)', used' \in Nat,
         UNCHANGED <<source, bufferVars, callerVars>>, call' = call,
         result' \in {"SUCCESS", "NEEDS_MORE_INPUT"},
         stage' \in {"READ", "DONE"}, demand' \in Demands \cup {<<>>},
         copying' \in Nat
  PROVE  Types'
<1>1. Types
  BY DEF Inv
<1>2. /\ source' = source /\ buffer' = buffer /\ saved_buffer' = saved_buffer
      /\ buffer_length' = buffer_length /\ available_in' = available_in
      /\ input_offset' = input_offset /\ offered' = offered /\ base' = base
  BY DEF bufferVars, callerVars
<1> QED BY <1>1, <1>2 DEF Types

\* What a step that reads keeps of the bytes in the buffer.
LEMMA ReadFollows ==
  ASSUME UNCHANGED <<source, bufferVars, callerVars>>
  PROVE  /\ Follows(buffer, buffer_length) => Follows(buffer, buffer_length)'
         /\ Follows(saved_buffer, Lesser(RegBytes, buffer_length + available_in))
              => Follows(saved_buffer,
                         Lesser(RegBytes, buffer_length + available_in))'
<1>1. /\ buffer' = buffer /\ saved_buffer' = saved_buffer
      /\ buffer_length' = buffer_length /\ available_in' = available_in
      /\ input_offset' = input_offset /\ base' = base
  BY DEF bufferVars, callerVars
<1> QED BY <1>1 DEF Follows

LEMMA InvInit ==
  ASSUME Init
  PROVE  Inv
<1>1. ByteBits \in Nat /\ ByteBits > 0 /\ RegBytes = 8
  BY BitReaderConstants, BitLenFacts
<1>2. Held = 0 /\ IsReader(br) /\ br.next_in = 0 /\ br.avail_in = 0
  <2>1. br.val = <<>> /\ br = [val |-> <<>>, next_in |-> 0, avail_in |-> 0]
    BY DEF Init, InitBitReader
  <2>2. <<>> \in Seq(Int) /\ Len(<<>>) = 0
    BY EmptySeq
  <2> QED BY <2>1, <2>2 DEF Held, IsReader
<1>3. Fits(br)
  BY <1>1, <1>2, RegisterLen DEF Fits, Held
<1>4. buffer \in [1..RegBytes -> Int] /\ saved_buffer = buffer
  BY DEF Init, NoByte
<1>5. /\ source = "xinput" /\ buffer_length = 0 /\ available_in = 0
      /\ input_offset = 0 /\ offered = 0 /\ base = 0 /\ call = "idle"
      /\ result = "NO_ERROR" /\ stage = "READ" /\ demand = <<>>
      /\ copying = 0 /\ used = 0
  BY DEF Init
<1>6. Types
  BY <1>1, <1>2, <1>3, <1>4, <1>5 DEF Types
<1>7. Control
  BY <1>5 DEF Control
<1>8. InOrder
  <2>1. NextByte = 0
    BY <1>5 DEF NextByte
  <2> QED BY <1>2, <1>5, <2>1, BitLenFacts DEF InOrder
<1>9. Place
  BY <1>1, <1>2, <1>5 DEF Place, NoTail
<1> QED BY <1>6, <1>7, <1>8, <1>9 DEF Inv

\* Reading the piece, the bits held are of bytes of the piece, of the last
\* byte before it, or of the demand that is tried again.
LEMMA SafeReadsInv ==
  ASSUME Inv, NEW d \in Demands, SafeReads(d)
  PROVE  Inv'
<1> DEFINE t == Transaction(d)
           u == IF t.ok THEN Total(d) ELSE 0
<1>1. /\ call = "running" /\ result = "SUCCESS" /\ stage = "READ"
      /\ copying = 0 /\ demand \in {<<>>, d}
      /\ UNCHANGED <<source, bufferVars, callerVars>>
      /\ call' = "running" /\ stage' = "READ" /\ copying' = 0
  BY DEF SafeReads, Wants, Running
<1>2. /\ br' = t.br
      /\ demand' = IF t.ok THEN <<>> ELSE d
      /\ used' = IF t.ok THEN used + Total(d) ELSE used
      /\ result' = IF t.ok THEN result ELSE "NEEDS_MORE_INPUT"
  BY DEF SafeReads
<1>3. /\ br.next_in \in Nat /\ br.avail_in \in Nat /\ Held \in Nat
      /\ ByteBits \in Nat /\ ByteBits > 0 /\ RegBytes = 8
      /\ BitLen(br.next_in) \in Int /\ BitLen(br.avail_in) \in Int
      /\ buffer_length \in Nat /\ BitLen(buffer_length) \in Int /\ used \in Nat
  BY RunningNumbers
<1>4. /\ IsAt(br, used, NextByte, LocalInput) /\ Fits(br)
      /\ NextByte \in Int /\ used \in Int
  BY <1>1, <1>3, RunningReader
<1>5. /\ t.ok \in BOOLEAN
      /\ t.ok => ReadTo(br, t.br, used, NextByte, Total(d), LocalInput)
      /\ ~t.ok =>
           /\ Held + BitLen(br.avail_in) < Total(d)
           /\ \/ /\ Held + BitLen(br.avail_in) < d[1].take
                 /\ ReadTo(br, t.br, used, NextByte, 0, LocalInput)
                 /\ t.br.avail_in = 0
              \/ /\ d[1].take <= Held + BitLen(br.avail_in)
                 /\ t.br = br
  BY <1>4, TransactionFacts DEF Held
<1>6. /\ Total(d) \in Nat /\ d # <<>> /\ Total(d) <= 8 * ByteBits
      /\ d[1].take \in Nat
  BY DemandFacts, RegisterLen
<1> HIDE DEF t
<1>7. /\ u \in Nat /\ used' = used + u
      /\ ReadTo(br, br', used, NextByte, u, LocalInput)
  <2>1. CASE t.ok
    BY <1>2, <1>5, <1>6, <2>1
  <2>2. CASE ~t.ok
    <3>1. ReadTo(br, t.br, used, NextByte, 0, LocalInput)
      BY <1>4, <1>5, <2>2, ReadToSelf
    <3> QED BY <1>2, <1>3, <2>2, <3>1
  <2> QED BY <2>1, <2>2
<1>8. /\ InOrder' /\ IsReader(br)' /\ Fits(br)' /\ used' \in Nat
      /\ \E n \in Nat : /\ n <= br.avail_in
                        /\ br'.next_in = br.next_in + n
                        /\ br'.avail_in = br.avail_in - n
                        /\ Held' = Held + BitLen(n) - u
  BY <1>1, <1>7, ReadStep
<1>9. PICK n \in Nat : /\ n <= br.avail_in
                       /\ br'.next_in = br.next_in + n
                       /\ br'.avail_in = br.avail_in - n
                       /\ Held' = Held + BitLen(n) - u
  BY <1>8
<1>10. /\ n \in Int /\ BitLen(n) \in Int /\ Held' \in Nat
       /\ BitLen(br'.next_in) = BitLen(br.next_in) + BitLen(n)
       /\ BitLen(br'.avail_in) = BitLen(br.avail_in) - BitLen(n)
  <2>1. n \in Int /\ br.next_in \in Int /\ br.avail_in \in Int
    BY <1>3
  <2>2. /\ BitLen(br.next_in + n) = BitLen(br.next_in) + BitLen(n)
        /\ BitLen(br.avail_in - n) = BitLen(br.avail_in) - BitLen(n)
    BY <2>1, BitLenSum
  <2>3. BitLen(n) \in Int
    BY <2>1, BitLenType
  <2>4. Held' \in Nat
    BY <1>8, ReaderTypes DEF Held
  <2> QED BY <1>9, <2>1, <2>2, <2>3, <2>4
<1>11. Types'
  <2>1. result' \in {"SUCCESS", "NEEDS_MORE_INPUT"} /\ copying' \in Nat
    BY <1>1, <1>2
  <2>2. demand' \in Demands \cup {<<>>} /\ stage' \in {"READ", "DONE"}
    BY <1>1, <1>2
  <2> QED BY <1>1, <1>8, <2>1, <2>2, ReadTypes
<1>12. Control'
  <2>1. result' \in {"SUCCESS", "NEEDS_MORE_INPUT"}
    BY <1>1, <1>2
  <2> QED BY <1>1, <2>1 DEF Control
<1>13. Place'
  <2>1. source' = source /\ offered' = offered /\ buffer_length' = buffer_length
    BY <1>1 DEF bufferVars, callerVars
  <2>2. /\ Running /\ ~OutOfInput
        /\ OutOfInput' <=> ~t.ok
        /\ Running' <=> t.ok
    BY <1>1, <1>2, <1>5 DEF Running, OutOfInput
  <2>3. /\ t.ok => demand' = <<>> /\ u = Total(d)
        /\ ~t.ok => demand' = d /\ u = 0
    BY <1>2
  <2>4. ~t.ok => Held' + BitLen(br'.avail_in) < Total(d)
    <3> HAVE ~t.ok
    <3>1. PICK i \in Int, a \in Int : i = BitLen(n) /\ a = BitLen(br.avail_in)
      BY <1>3, <1>10
    <3>2. Held' + BitLen(br'.avail_in) = (Held + i - 0) + (a - i)
      BY <1>9, <1>10, <2>3, <3>1
    <3> QED BY <1>3, <1>5, <3>1, <3>2
  <2> HIDE DEF u
  <2>5. CASE source = "xinput"
    <3>1. /\ buffer_length = 0 /\ br.next_in + br.avail_in = offered
          /\ Held < BitLen(br.next_in) + ByteBits \/ Owed
      BY <1>1, <2>5 DEF Inv, Fatal, Place, FromPiece
    <3>2. br'.next_in + br'.avail_in = offered
      BY <1>3, <1>9, <3>1
    <3>3. Held' < BitLen(br'.next_in) + ByteBits \/ Owed'
      <4>1. CASE t.ok
        <5>1. Held < BitLen(br.next_in) + ByteBits \/ Held < Total(d)
          BY <1>1, <3>1 DEF Owed
        <5>2. Held' = Held + BitLen(n) - Total(d)
          BY <1>9, <2>3, <4>1
        <5>3. BitLen(br.next_in) >= 0
          <6>1. BitLen(0) <= BitLen(br.next_in)
            BY <1>3, BitLenOrder
          <6> QED BY <1>3, <6>1, BitLenFacts
        <5> QED BY <1>3, <1>6, <1>10, <5>1, <5>2, <5>3
      <4>2. CASE ~t.ok
        <5>1. BitLen(br'.avail_in) >= 0
          <6>1. br'.avail_in \in Nat
            BY <1>3, <1>9
          <6>2. BitLen(0) <= BitLen(br'.avail_in) /\ BitLen(br'.avail_in) \in Int
            BY <6>1, BitLenOrder, BitLenType
          <6> QED BY <6>2, BitLenFacts
        <5>2. BitLen(br'.avail_in) \in Int
          BY <1>3, <1>10
        <5>3. Held' < Total(d)
          BY <1>6, <1>10, <2>4, <4>2, <5>1, <5>2
        <5> QED BY <1>6, <2>3, <4>2, <5>3 DEF Owed
      <4> QED BY <1>5, <4>1, <4>2
    <3>4. OutOfInput' => /\ Short(br.avail_in)'
                         /\ br'.avail_in > 0 =>
                              demand'[1].take <= Held' + BitLen(br'.avail_in)
      <4> HAVE OutOfInput'
      <4>1. ~t.ok /\ demand' = d
        BY <2>2, <2>3
      <4>2. Short(br.avail_in)'
        BY <1>6, <2>4, <4>1 DEF Short
      <4>3. ASSUME br'.avail_in > 0
            PROVE  d[1].take <= Held' + BitLen(br'.avail_in)
        <5>1. t.br = br /\ d[1].take <= Held + BitLen(br.avail_in)
          <6>1. br'.avail_in # 0
            BY <4>3
          <6> QED BY <1>2, <1>5, <4>1, <6>1
        <5>2. br' = br
          BY <1>2, <5>1
        <5> QED BY <5>1, <5>2 DEF Held
      <4> QED BY <4>1, <4>2, <4>3
    <3>5. FromPiece'
      BY <1>1, <2>1, <3>1, <3>2, <3>3, <3>4 DEF FromPiece
    <3> QED BY <1>1, <2>1, <2>5, <3>5 DEF Place
  <2>6. CASE source # "xinput"
    <3>1. FromBuffer
      BY <1>1, <2>6 DEF Inv, Fatal, Place
    <3>2. /\ buffer_length > 0
          /\ Follows(buffer, buffer_length)'
          /\ Follows(saved_buffer, Lesser(RegBytes, buffer_length + available_in))'
      BY <1>1, <3>1, ReadFollows DEF FromBuffer
    <3>3. br'.next_in + br'.avail_in <= RegBytes
      <4>1. br.next_in + br.avail_in <= RegBytes
        BY <3>1 DEF FromBuffer
      <4> QED BY <1>3, <1>9, <4>1
    <3>4. \/ Drained' /\ (Running' => demand' = <<>>)
          \/ Waiting(IF Running THEN buffer_length - 1 ELSE buffer_length)'
             /\ br'.next_in = 0
      <4>1. CASE Drained
        <5>1. n = 0
          BY <1>3, <1>9, <4>1 DEF Drained
        <5>2. u \in Nat
          BY <1>7
        <5>3. Held' = Held - u
          BY <1>3, <1>9, <5>1, <5>2, BitLenFacts
        <5>4. Held' < ByteBits
          BY <1>3, <4>1, <5>2, <5>3 DEF Drained
        <5>5. br'.avail_in = 0
          BY <1>3, <1>9, <4>1, <5>1 DEF Drained
        <5> QED BY <2>2, <2>3, <5>4, <5>5 DEF Drained
      <4>2. CASE ~Drained
        <5>1. /\ br.avail_in = buffer_length /\ br.next_in = 0
              /\ demand = d /\ Held + BitLen(buffer_length - 1) < Total(d)
              /\ d[1].take <= Held + BitLen(buffer_length)
          <6>1. Waiting(buffer_length - 1) /\ br.next_in = 0
            BY <2>2, <3>1, <4>2 DEF FromBuffer
          <6>2. demand # <<>>
            BY <6>1 DEF Waiting, Short
          <6>3. demand = d
            BY <1>1, <6>2
          <6> QED BY <6>1, <6>3 DEF Waiting, Short
        <5>2. CASE t.ok
          <6>1. BitLen(buffer_length - 1) = BitLen(buffer_length) - ByteBits
            <7>1. buffer_length \in Int
              BY <1>3
            <7>2. BitLen(buffer_length - 1) = BitLen(buffer_length) - BitLen(1)
              BY <7>1, BitLenSum
            <7> QED BY <7>2, BitLenFacts
          <6>2. Held' = Held + BitLen(n) - Total(d)
            BY <1>9, <2>3, <5>2
          <6>3. n = buffer_length
            <7>1. ~(n <= buffer_length - 1)
              <8>1. buffer_length - 1 \in Int
                BY <1>3
              <8>2. n <= buffer_length - 1 =>
                      BitLen(n) <= BitLen(buffer_length - 1)
                BY <1>10, <8>1, BitLenOrder
              <8>3. BitLen(buffer_length - 1) \in Int
                BY <8>1, BitLenType
              <8>4. PICK i \in Int, j \in Int :
                      i = BitLen(n) /\ j = BitLen(buffer_length - 1)
                BY <1>10, <8>3
              <8>5. Held + i >= Total(d) /\ Held + j < Total(d)
                <9>1. PICK h \in Nat : h = Held'
                  BY <1>10
                <9>2. h = Held + i - Total(d)
                  BY <6>2, <8>4, <9>1
                <9>3. Held + i >= Total(d)
                  BY <1>3, <1>6, <9>2
                <9> QED BY <5>1, <8>4, <9>3
              <8>6. ~(i <= j)
                BY <1>3, <1>6, <8>5
              <8> QED BY <8>2, <8>4, <8>6
            <7>2. n <= buffer_length
              BY <1>9, <5>1
            <7> QED BY <1>3, <7>1, <7>2
          <6>4. Held' < ByteBits
            BY <1>3, <1>6, <1>10, <5>1, <6>1, <6>2, <6>3
          <6>5. br'.avail_in = 0
            BY <1>3, <1>9, <5>1, <6>3
          <6> QED BY <2>3, <5>2, <6>4, <6>5 DEF Drained
        <5>3. CASE ~t.ok
          <6>1. t.br = br
            <7>1. ~(Held + BitLen(br.avail_in) < d[1].take)
              BY <1>3, <1>6, <5>1
            <7> QED BY <1>5, <5>3, <7>1
          <6>2. br' = br /\ Held' = Held
            BY <1>2, <6>1 DEF Held
          <6>3. Short(buffer_length)'
            BY <1>6, <2>1, <2>3, <2>4, <5>1, <5>3, <6>2 DEF Short
          <6>4. Waiting(buffer_length)' /\ br'.next_in = 0
            BY <2>1, <2>3, <5>1, <5>3, <6>2, <6>3 DEF Waiting
          <6> QED BY <2>2, <5>3, <6>4
        <5> QED BY <1>5, <5>2, <5>3
      <4> QED BY <4>1, <4>2
    <3>5. FromBuffer'
      BY <1>1, <2>1, <3>2, <3>3, <3>4 DEF FromBuffer
    <3> QED BY <1>1, <2>1, <2>6, <3>5 DEF Place
  <2> QED BY <2>5, <2>6
<1> QED BY <1>8, <1>11, <1>12, <1>13 DEF Inv

\* On the fast path the whole transaction is read from the piece.
LEMMA FastReadsInv ==
  ASSUME Inv, NEW d \in Demands, FastReads(d)
  PROVE  Inv'
<1>1. /\ call = "running" /\ result = "SUCCESS" /\ stage = "READ"
      /\ copying = 0 /\ demand \in {<<>>, d} /\ br.avail_in >= FastBytes
      /\ UNCHANGED <<source, bufferVars, callerVars>>
      /\ call' = "running" /\ stage' = "READ" /\ copying' = 0
      /\ result' = "SUCCESS" /\ demand' = <<>> /\ used' = used + Total(d)
  BY DEF FastReads, Wants, Running
<1>2. br' = NextFastRead(NextFastRead(
              NextFastRead(WarmupBitReader(br, LocalInput), d, 1), d, 2), d, 3)
  BY DEF FastReads
<1>3. /\ br.next_in \in Nat /\ br.avail_in \in Nat /\ Held \in Nat
      /\ ByteBits \in Nat /\ ByteBits > 0 /\ RegBytes = 8
      /\ BitLen(br.next_in) \in Int /\ buffer_length \in Nat /\ used \in Nat
  BY RunningNumbers
<1>4. /\ IsAt(br, used, NextByte, LocalInput) /\ Fits(br)
      /\ NextByte \in Int /\ used \in Int
  BY <1>1, <1>3, RunningReader
<1>5. Total(d) \in Nat
  BY DemandFacts
<1>6. ReadTo(br, br', used, NextByte, Total(d), LocalInput)
  BY <1>1, <1>2, <1>4, FastTransactionFacts
<1>7. /\ InOrder' /\ IsReader(br)' /\ Fits(br)' /\ used' \in Nat
      /\ \E n \in Nat : /\ n <= br.avail_in
                        /\ br'.next_in = br.next_in + n
                        /\ br'.avail_in = br.avail_in - n
                        /\ Held' = Held + BitLen(n) - Total(d)
  BY <1>1, <1>5, <1>6, ReadStep
<1>8. PICK n \in Nat : /\ n <= br.avail_in
                       /\ br'.next_in = br.next_in + n
                       /\ br'.avail_in = br.avail_in - n
                       /\ Held' = Held + BitLen(n) - Total(d)
  BY <1>7
<1>9. Types'
  BY <1>1, <1>7, ReadTypes
<1>10. Control'
  BY <1>1 DEF Control
<1>11. source = "xinput"
  <2> SUFFICES ASSUME source # "xinput" PROVE FALSE
    OBVIOUS
  <2>1. br.next_in + br.avail_in <= RegBytes
    BY <1>1 DEF Inv, Fatal, Place, FromBuffer
  <2>2. FastBytes \in Nat /\ FastBytes >= 16
    BY StreamInputConstants, BitReaderConstants
  <2> QED BY <1>1, <1>3, <2>1, <2>2
<1>12. Place'
  <2>1. source' = source /\ offered' = offered /\ buffer_length' = buffer_length
    BY <1>1 DEF bufferVars, callerVars
  <2>2. /\ buffer_length = 0 /\ br.next_in + br.avail_in = offered
        /\ Held < BitLen(br.next_in) + ByteBits \/ Held < Total(d)
    BY <1>1, <1>11 DEF Inv, Fatal, Place, FromPiece, Owed
  <2>3. br'.next_in + br'.avail_in = offered
    BY <1>3, <1>8, <2>2
  <2>4. Held' < BitLen(br'.next_in) + ByteBits
    <3>1. n \in Int /\ br.next_in \in Int
      BY <1>3
    <3>2. /\ BitLen(br.next_in + n) = BitLen(br.next_in) + BitLen(n)
          /\ BitLen(n) \in Int
      BY <3>1, BitLenSum, BitLenType
    <3>3. BitLen(br.next_in) >= 0
      <4>1. BitLen(0) <= BitLen(br.next_in)
        BY <1>3, BitLenOrder
      <4> QED BY <1>3, <4>1, BitLenFacts
    <3> QED BY <1>3, <1>5, <1>8, <2>2, <3>2, <3>3
  <2>5. ~OutOfInput'
    BY <1>1 DEF OutOfInput
  <2>6. FromPiece'
    BY <2>1, <2>2, <2>3, <2>4, <2>5 DEF FromPiece
  <2> QED BY <1>1, <1>11, <2>1, <2>6 DEF Place
<1> QED BY <1>7, <1>9, <1>10, <1>12 DEF Inv

\* A whole number of bytes has no bits left over.
LEMMA WholeBytesOf ==
  ASSUME NEW q \in Int, NEW x \in Nat, x = BitLen(q)
  PROVE  x % ByteBits = 0 /\ x \div ByteBits = q
<1>1. BitLen(q) <= x /\ x < BitLen(q) + ByteBits /\ x - BitLen(q) = 0
  BY BitLenFacts
<1> QED BY <1>1, WholeBytesUnique

\* The header of an uncompressed block ends at a byte boundary.
LEMMA StartCopyInv ==
  ASSUME Inv, NEW m \in CopyLengths, StartCopy(m)
  PROVE  Inv'
<1> DEFINE u == PadBits(br)
<1>1. /\ call = "running" /\ result = "SUCCESS" /\ stage = "READ"
      /\ demand = <<>> /\ UNCHANGED <<source, bufferVars, callerVars>>
      /\ call' = "running" /\ stage' = "READ" /\ copying' = m
      /\ result' = "SUCCESS" /\ demand' = <<>>
      /\ used' = used + u /\ br' = JumpToByteBoundary(br)
  BY DEF StartCopy, Running
<1>2. /\ br.next_in \in Nat /\ br.avail_in \in Nat /\ Held \in Nat
      /\ ByteBits \in Nat /\ ByteBits > 0
      /\ BitLen(br.next_in) \in Int /\ buffer_length \in Nat /\ used \in Nat
  BY RunningNumbers
<1>3. /\ IsAt(br, used, NextByte, LocalInput) /\ Fits(br)
      /\ NextByte \in Int /\ used \in Int
  BY <1>1, <1>2, RunningReader
<1>4. /\ u \in Nat /\ ReadTo(br, br', used, NextByte, u, LocalInput)
      /\ \E q \in Nat : /\ Held' = BitLen(q) /\ used' = BitLen(NextByte - q)
                        /\ BitLen(q) <= Held
  BY <1>1, <1>3, JumpFacts DEF Held
<1> HIDE DEF u
<1>5. /\ InOrder' /\ IsReader(br)' /\ Fits(br)' /\ used' \in Nat
      /\ \E n \in Nat : /\ n <= br.avail_in
                        /\ br'.next_in = br.next_in + n
                        /\ br'.avail_in = br.avail_in - n
                        /\ Held' = Held + BitLen(n) - u
  BY <1>1, <1>4, ReadStep
<1>6. PICK n \in Nat : /\ n <= br.avail_in
                       /\ br'.next_in = br.next_in + n
                       /\ br'.avail_in = br.avail_in - n
                       /\ Held' = Held + BitLen(n) - u
  BY <1>5
<1>7. PICK q \in Nat : /\ Held' = BitLen(q) /\ used' = BitLen(NextByte - q)
                       /\ BitLen(q) <= Held
  BY <1>4
<1>8. m \in Nat
  BY StreamInputConstants
<1>9. Types'
  BY <1>1, <1>5, <1>8, ReadTypes
<1>10. Control'
  <2>1. used' % ByteBits = 0
    <3>1. NextByte - q \in Int
      BY <1>3
    <3> QED BY <1>5, <1>7, <3>1, WholeBytesOf
  <2> QED BY <1>1, <2>1 DEF Control
<1>11. Place'
  <2>1. source' = source /\ offered' = offered /\ buffer_length' = buffer_length
    BY <1>1 DEF bufferVars, callerVars
  <2>2. ~OutOfInput' /\ Running /\ Running'
    BY <1>1 DEF OutOfInput, Running
  <2>3. Held' <= Held /\ Held' \in Nat
    BY <1>5, <1>7, ReaderTypes DEF Held
  <2>4. CASE source = "xinput"
    <3>1. /\ buffer_length = 0 /\ br.next_in + br.avail_in = offered
          /\ Held < BitLen(br.next_in) + ByteBits
      BY <1>1, <2>4 DEF Inv, Fatal, Place, FromPiece, Owed
    <3>2. br'.next_in + br'.avail_in = offered
      BY <1>2, <1>6, <3>1
    <3>3. Held' < BitLen(br'.next_in) + ByteBits
      <4>1. br.next_in \in Int /\ br.next_in + n \in Int
        BY <1>2
      <4>2. br.next_in <= br.next_in + n
        BY <1>2
      <4>3. /\ BitLen(br.next_in) <= BitLen(br.next_in + n)
            /\ BitLen(br.next_in + n) \in Int
        BY <4>1, <4>2, BitLenOrder, BitLenType
      <4> QED BY <1>2, <1>6, <2>3, <3>1, <4>3
    <3>4. FromPiece'
      BY <2>1, <2>2, <3>1, <3>2, <3>3 DEF FromPiece
    <3> QED BY <1>1, <2>1, <2>4, <3>4 DEF Place
  <2>5. CASE source # "xinput"
    <3>1. FromBuffer
      BY <1>1, <2>5 DEF Inv, Fatal, Place
    <3>2. /\ buffer_length > 0
          /\ Follows(buffer, buffer_length)'
          /\ Follows(saved_buffer, Lesser(RegBytes, buffer_length + available_in))'
      BY <1>1, <3>1, ReadFollows DEF FromBuffer
    <3>3. Drained /\ br.next_in + br.avail_in <= RegBytes
      BY <1>1, <3>1 DEF FromBuffer, Waiting, Short
    <3>4. n = 0
      BY <1>2, <1>6, <3>3 DEF Drained
    <3>5. br'.next_in = br.next_in /\ br'.avail_in = br.avail_in
      BY <1>2, <1>6, <3>4
    <3>6. Drained'
      BY <1>2, <2>3, <3>3, <3>5 DEF Drained
    <3>7. FromBuffer'
      BY <1>1, <2>1, <2>2, <3>2, <3>3, <3>5, <3>6 DEF FromBuffer
    <3> QED BY <1>1, <2>1, <2>5, <3>7 DEF Place
  <2> QED BY <2>4, <2>5
<1> QED BY <1>5, <1>9, <1>10, <1>11 DEF Inv

\* A raw copy goes on byte by byte, and ends with the input when it asks for
\* more.
LEMMA CopyRawInv ==
  ASSUME Inv, NEW m \in 0..copying, CopyRaw(m)
  PROVE  Inv'
<1> DEFINE all == Lesser(copying, GetRemainingBytes(br))
           u == BitLen(m)
<1>1. /\ call = "running" /\ result = "SUCCESS" /\ copying > 0 /\ m <= all
      /\ UNCHANGED <<source, bufferVars, callerVars>>
      /\ call' = "running" /\ stage' = stage /\ copying' = copying - m
      /\ result' = IF m = all /\ m < copying THEN "NEEDS_MORE_INPUT" ELSE result
      /\ demand' = demand /\ br' = CopyBytes(br, m)
  BY DEF CopyRaw, Running
<1>2. /\ br.next_in \in Nat /\ br.avail_in \in Nat /\ Held \in Nat
      /\ ByteBits \in Nat /\ ByteBits > 0 /\ copying \in Nat
      /\ BitLen(br.next_in) \in Int /\ buffer_length \in Nat /\ used \in Nat
  BY RunningNumbers
<1>3. m \in Nat /\ copying' \in Nat /\ m \in Int
  BY <1>1, <1>2
<1>4. used' = used + u
  BY DEF CopyRaw, BitLen
<1>5. demand = <<>> /\ stage = "READ" /\ used % ByteBits = 0
  BY <1>1 DEF Inv, Control
<1>6. PICK v \in Nat : used = BitLen(v)
  <2> DEFINE v == used \div ByteBits
  <2>1. used \in Nat
    BY <1>2
  <2>2. v \in Nat /\ used = BitLen(v) + (used % ByteBits)
    BY <2>1, WholeBytes
  <2> HIDE DEF v
  <2>3. BitLen(v) \in Int
    BY <2>2, BitLenType
  <2>4. used = BitLen(v) + 0
    BY <1>5, <2>2
  <2> QED BY <2>2, <2>3, <2>4
<1>7. u \in Nat
  <2>1. m * ByteBits \in Nat
    BY <1>2, <1>3
  <2> QED BY <2>1 DEF BitLen
<1>8. /\ IsAt(br, used, NextByte, LocalInput) /\ Fits(br) /\ NextByte \in Int
  BY <1>1, RunningReader
<1>9. GetRemainingBytes(br) \in Nat /\ m \in 0..GetRemainingBytes(br)
  <2>1. PICK q \in Nat : q = GetAvailableBits(br) \div ByteBits
    BY <1>8, HeldBytes DEF IsAt
  <2>2. GetRemainingBytes(br) \in Nat
    <3>1. GetRemainingBytes(br) = br.avail_in + q
      BY <2>1 DEF GetRemainingBytes
    <3> QED BY <1>2, <3>1
  <2>3. all <= GetRemainingBytes(br) /\ all \in Nat
    BY <1>2, <2>2 DEF Lesser
  <2> QED BY <1>1, <1>3, <2>2, <2>3
<1>10. /\ ReadTo(br, br', used, NextByte, u, LocalInput)
       /\ m = GetRemainingBytes(br) => br'.avail_in = 0 /\ Held' = 0
  BY <1>1, <1>3, <1>6, <1>8, <1>9, CopyBytesFacts DEF Held
<1>11. result' = "NEEDS_MORE_INPUT" => m = GetRemainingBytes(br)
  <2> HAVE result' = "NEEDS_MORE_INPUT"
  <2>1. m = all /\ m < copying
    BY <1>1
  <2> QED BY <1>2, <1>9, <2>1 DEF Lesser
<1> HIDE DEF u, all
<1>12. /\ InOrder' /\ IsReader(br)' /\ Fits(br)' /\ used' \in Nat
       /\ \E n \in Nat : /\ n <= br.avail_in
                         /\ br'.next_in = br.next_in + n
                         /\ br'.avail_in = br.avail_in - n
                         /\ Held' = Held + BitLen(n) - u
  BY <1>1, <1>4, <1>7, <1>10, ReadStep
<1>13. PICK n \in Nat : /\ n <= br.avail_in
                        /\ br'.next_in = br.next_in + n
                        /\ br'.avail_in = br.avail_in - n
                        /\ Held' = Held + BitLen(n) - u
  BY <1>12
<1>14. result' \in {"SUCCESS", "NEEDS_MORE_INPUT"}
  BY <1>1
<1>15. Types'
  <2>1. demand' \in Demands \cup {<<>>} /\ stage' \in {"READ", "DONE"}
    BY <1>1, <1>5
  <2> QED BY <1>1, <1>3, <1>12, <1>14, <2>1, ReadTypes
<1>16. Control'
  <2>1. used' = BitLen(v + m)
    <3>1. BitLen(v + m) = BitLen(v) + BitLen(m)
      BY <1>3, BitLenSum
    <3> QED BY <1>4, <1>6, <3>1 DEF u
  <2>2. used' % ByteBits = 0
    <3>1. v + m \in Int
      BY <1>3
    <3> QED BY <1>12, <2>1, <3>1, WholeBytesOf
  <2> QED BY <1>1, <1>5, <1>14, <2>2 DEF Control
<1>17. Place'
  <2>1. source' = source /\ offered' = offered /\ buffer_length' = buffer_length
    BY <1>1 DEF bufferVars, callerVars
  <2>2. OutOfInput' => br'.avail_in = 0 /\ Held' = 0 /\ copying' > 0
    <3> HAVE OutOfInput'
    <3>1. result' = "NEEDS_MORE_INPUT"
      BY DEF OutOfInput
    <3>2. m < copying
      BY <1>1, <3>1
    <3> QED BY <1>1, <1>2, <1>3, <1>10, <1>11, <3>1, <3>2
  <2>3. CASE source = "xinput"
    <3>1. /\ buffer_length = 0 /\ br.next_in + br.avail_in = offered
          /\ Held < BitLen(br.next_in) + ByteBits
      BY <1>1, <1>5, <2>3 DEF Inv, Fatal, Place, FromPiece, Owed
    <3>2. br'.next_in + br'.avail_in = offered
      BY <1>2, <1>13, <3>1
    <3>3. Held' < BitLen(br'.next_in) + ByteBits
      <4>1. n \in Int /\ br.next_in \in Int
        BY <1>2
      <4>2. /\ BitLen(br.next_in + n) = BitLen(br.next_in) + BitLen(n)
            /\ BitLen(n) \in Int
        BY <4>1, BitLenSum, BitLenType
      <4> QED BY <1>2, <1>7, <1>13, <3>1, <4>2
    <3>4. FromPiece'
      BY <2>1, <2>2, <3>1, <3>2, <3>3 DEF FromPiece
    <3> QED BY <1>1, <2>1, <2>3, <3>4 DEF Place
  <2>4. CASE source # "xinput"
    <3>1. FromBuffer
      BY <1>1, <2>4 DEF Inv, Fatal, Place
    <3>2. /\ buffer_length > 0
          /\ Follows(buffer, buffer_length)'
          /\ Follows(saved_buffer, Lesser(RegBytes, buffer_length + available_in))'
      BY <1>1, <3>1, ReadFollows DEF FromBuffer
    <3>3. Drained /\ br.next_in + br.avail_in <= RegBytes
      BY <1>1, <1>5, <3>1 DEF FromBuffer, Waiting, Short
    <3>4. n = 0
      BY <1>2, <1>13, <3>3 DEF Drained
    <3>5. br'.next_in = br.next_in /\ br'.avail_in = br.avail_in
      BY <1>2, <1>13, <3>4
    <3>6. Drained'
      <4>1. Held' = Held - u
        BY <1>2, <1>7, <1>13, <3>4, BitLenFacts
      <4> QED BY <1>2, <1>7, <3>3, <3>5, <4>1 DEF Drained
    <3>7. FromBuffer'
      BY <1>1, <1>5, <2>1, <2>2, <3>2, <3>3, <3>5, <3>6 DEF FromBuffer
    <3> QED BY <1>1, <2>1, <2>4, <3>7 DEF Place
  <2> QED BY <2>3, <2>4
<1> QED BY <1>12, <1>15, <1>16, <1>17 DEF Inv

\* Giving bytes back to the piece they came from.
LEMMA UnloadToPiece ==
  ASSUME NEW b, NEW u \in Int, NEW p \in Int, NEW input, IsAt(b, u, p, input),
         base \in Nat, p = base + b.next_in, b.next_in + b.avail_in = offered,
         Len(b.val) < BitLen(b.next_in) + ByteBits
  PROVE  /\ IsReader(Unload(b)) /\ Fits(Unload(b))
         /\ \A k \in 1..Len(Unload(b).val) : Unload(b).val[k] = u + k - 1
         /\ Len(Unload(b).val) < ByteBits
         /\ Unload(b).next_in + Unload(b).avail_in = offered
         /\ BitLen(base + Unload(b).next_in) = u + Len(Unload(b).val)
         /\ \A q \in Nat : Len(b.val) = BitLen(q) => Len(Unload(b).val) = 0
<1> DEFINE c == Unload(b)
<1>1. b.next_in \in Nat /\ b.avail_in \in Nat /\ Len(b.val) \in Nat
  BY ReaderNumbers
<1>2. /\ IsReader(b) /\ BitLen(p) = u + Len(b.val)
      /\ \A k \in 1..Len(b.val) : b.val[k] = u + k - 1
  BY DEF IsAt
<1>3. /\ IsReader(c)
      /\ \A k \in 1..Len(c.val) : c.val[k] = u + k - 1
      /\ Len(c.val) < ByteBits
      /\ \E q \in Nat : /\ c.next_in = b.next_in - q
                        /\ c.avail_in = b.avail_in + q
                        /\ BitLen(p - q) = u + Len(c.val)
                        /\ Len(b.val) = BitLen(q) + Len(c.val)
  BY <1>2, UnloadFacts
<1> HIDE DEF c
<1>4. PICK q \in Nat : /\ c.next_in = b.next_in - q
                       /\ c.avail_in = b.avail_in + q
                       /\ BitLen(p - q) = u + Len(c.val)
                       /\ Len(b.val) = BitLen(q) + Len(c.val)
  BY <1>3
<1>5. Len(c.val) \in Nat
  BY <1>3, ReaderTypes
<1>6. Fits(c)
  BY <1>3, <1>5, BitLenFacts, RegisterLen DEF Fits
<1>7. c.next_in + c.avail_in = offered
  BY <1>1, <1>4
<1>8. BitLen(base + c.next_in) = u + Len(c.val)
  <2>1. base + c.next_in = p - q
    BY <1>1, <1>4
  <2> QED BY <1>4, <2>1
<1>9. ASSUME NEW r \in Nat, Len(b.val) = BitLen(r) PROVE Len(c.val) = 0
  <2>1. BitLen(q) \in Int /\ q \in Int /\ r \in Int
    <3>1. q \in Int /\ r \in Int
      OBVIOUS
    <3> QED BY <3>1, BitLenType
  <2>2. BitLen(q) <= Len(b.val) /\ Len(b.val) < BitLen(q) + ByteBits
    <3>1. PICK m \in Int : m = BitLen(q)
      BY <2>1
    <3>2. PICK n \in Nat : n = Len(c.val)
      BY <1>5
    <3>3. Len(b.val) = m + n /\ n < ByteBits
      BY <1>3, <1>4, <3>1, <3>2
    <3>4. m <= m + n /\ m + n < m + ByteBits
      BY <3>3, BitLenFacts
    <3> QED BY <3>1, <3>3, <3>4
  <2>3. Len(b.val) % ByteBits = Len(b.val) - BitLen(q)
    BY <1>1, <2>1, <2>2, WholeBytesUnique
  <2>4. Len(b.val) % ByteBits = 0
    BY <1>1, <1>9, <2>1, WholeBytesOf
  <2>5. PICK m \in Int : m = BitLen(q)
    BY <2>1
  <2>6. PICK n \in Nat : n = Len(c.val)
    BY <1>5
  <2>7. Len(b.val) = m + n /\ Len(b.val) - m = 0
    BY <1>4, <2>3, <2>4, <2>5, <2>6
  <2>8. (m + n) - m = 0
    BY <2>7
  <2>9. n = 0
    BY <2>8
  <2> QED BY <2>6, <2>9
<1> QED BY <1>3, <1>6, <1>7, <1>8, <1>9 DEF c

\* Behind the last meta-block nothing is held: the padding is skipped and the
\* whole bytes went back to the piece, or the internal buffer was read empty.
LEMMA FinishInv ==
  ASSUME Inv, FinishLastMetablock
  PROVE  Inv'
<1> DEFINE u == PadBits(br)
           j == JumpToByteBoundary(br)
<1>1. /\ call = "running" /\ result = "SUCCESS" /\ stage = "READ"
      /\ demand = <<>> /\ copying = 0 /\ source' = source
      /\ buffer' = buffer /\ saved_buffer' = saved_buffer
      /\ buffer_length' = buffer_length /\ offered' = offered /\ base' = base
      /\ call' = "running" /\ stage' = "DONE" /\ copying' = 0
      /\ result' = "SUCCESS" /\ demand' = <<>> /\ used' = used + u
  BY DEF FinishLastMetablock, Running, bufferVars
<1>2. /\ br.next_in \in Nat /\ br.avail_in \in Nat /\ Held \in Nat
      /\ ByteBits \in Nat /\ ByteBits > 0 /\ base \in Nat
      /\ BitLen(br.next_in) \in Int /\ buffer_length \in Nat /\ used \in Nat
  BY RunningNumbers
<1>3. /\ IsAt(br, used, NextByte, LocalInput) /\ Fits(br)
      /\ NextByte \in Int /\ used \in Int
  BY <1>1, <1>2, RunningReader
<1>4. /\ u \in Nat /\ ReadTo(br, j, used, NextByte, u, LocalInput)
      /\ \E q \in Nat : /\ Len(j.val) = BitLen(q)
                        /\ used + u = BitLen(NextByte - q)
                        /\ BitLen(q) <= Held
  BY <1>3, JumpFacts DEF Held
<1>5. PICK q \in Nat : Len(j.val) = BitLen(q) /\ BitLen(q) <= Held
  BY <1>4
<1>6. PICK n \in 0..br.avail_in :
        /\ IsAt(j, used + u, NextByte + n, LocalInput) /\ Moved(br, j, n, u)
        /\ Fits(j)
  BY <1>4 DEF ReadTo
<1>7. /\ n \in Nat /\ j.next_in = br.next_in + n
      /\ j.avail_in = br.avail_in - n
  BY <1>2, <1>6 DEF Moved
<1>8. used + u \in Nat /\ NextByte + n \in Int /\ used' \in Nat
  BY <1>1, <1>2, <1>3, <1>4, <1>7
<1>9. BitLen(q) \in Int /\ Len(j.val) \in Nat
  <2>1. q \in Int
    OBVIOUS
  <2> QED BY <1>6, <2>1, BitLenType, ReaderNumbers
<1>10. Types
  BY DEF Inv
<1>11. CASE buffer_length = 0
  <2>1. /\ br' = Unload(j) /\ available_in' = br'.avail_in
        /\ input_offset' = br'.next_in
    BY <1>11 DEF FinishLastMetablock
  <2>2. source = "xinput"
    BY <1>1, <1>2, <1>11 DEF Inv, Fatal, Place, FromBuffer
  <2>3. /\ br.next_in + br.avail_in = offered
        /\ Held < BitLen(br.next_in) + ByteBits
        /\ NextByte = base + br.next_in
    BY <1>1, <2>2 DEF Inv, Fatal, Place, FromPiece, Owed, NextByte
  <2>4. NextByte + n = base + j.next_in /\ j.next_in + j.avail_in = offered
    BY <1>2, <1>7, <2>3
  <2>5. Len(j.val) < BitLen(j.next_in) + ByteBits
    <3>1. br.next_in \in Int /\ j.next_in \in Int /\ br.next_in <= j.next_in
      BY <1>2, <1>7
    <3>2. BitLen(br.next_in) <= BitLen(j.next_in) /\ BitLen(j.next_in) \in Int
      BY <3>1, BitLenOrder, BitLenType
    <3> QED BY <1>2, <1>5, <1>9, <2>3, <3>2
  <2> HIDE DEF j, u
  <2>6. /\ IsReader(br') /\ Fits(br')
        /\ \A k \in 1..Len(br'.val) : br'.val[k] = (used + u) + k - 1
        /\ br'.next_in + br'.avail_in = offered
        /\ BitLen(base + br'.next_in) = (used + u) + Len(br'.val)
        /\ Len(br'.val) = 0
    <3> DEFINE v == used + u
               p == NextByte + n
               c == Unload(j)
    <3>1. v \in Int /\ p \in Int /\ IsAt(j, v, p, LocalInput)
      BY <1>6, <1>8
    <3>2. p = base + j.next_in
      BY <2>4
    <3> HIDE DEF v, p
    <3>3. /\ IsReader(c) /\ Fits(c)
          /\ \A k \in 1..Len(c.val) : c.val[k] = v + k - 1
          /\ c.next_in + c.avail_in = offered
          /\ BitLen(base + c.next_in) = v + Len(c.val)
          /\ \A i \in Nat : Len(j.val) = BitLen(i) => Len(c.val) = 0
      BY <1>2, <2>4, <2>5, <3>1, <3>2, UnloadToPiece
    <3>4. Len(c.val) = 0
      BY <1>5, <3>3
    <3> HIDE DEF c
    <3>5. br' = c
      BY <2>1 DEF c
    <3> QED BY <3>3, <3>4, <3>5 DEF v
  <2>7. br'.next_in \in Nat /\ br'.avail_in \in Nat
    BY <2>6, ReaderTypes
  <2>8. Types'
    BY <1>1, <1>8, <1>10, <2>1, <2>6, <2>7 DEF Types
  <2>9. Control'
    BY <1>1, <2>1, <2>6 DEF Control, Held
  <2>10. InOrder'
    <3>1. NextByte' = base + br'.next_in
      BY <1>1, <2>2 DEF NextByte
    <3> QED BY <1>1, <2>6, <3>1 DEF InOrder, Held
  <2>11. Place'
    <3>1. 0 < BitLen(br'.next_in) + ByteBits
      <4>1. BitLen(0) <= BitLen(br'.next_in) /\ BitLen(br'.next_in) \in Int
        BY <2>7, BitLenOrder, BitLenType
      <4> QED BY <1>2, <4>1, BitLenFacts
    <3>2. FromPiece'
      BY <1>1, <1>11, <2>6, <3>1 DEF FromPiece, OutOfInput, Held
    <3> QED BY <1>1, <2>2, <3>2 DEF Place
  <2> QED BY <2>8, <2>9, <2>10, <2>11 DEF Inv
<1>12. CASE buffer_length # 0
  <2>1. br' = j /\ available_in' = available_in /\ input_offset' = input_offset
    BY <1>12 DEF FinishLastMetablock
  <2>2. source # "xinput" /\ FromBuffer
    BY <1>1, <1>12 DEF Inv, Fatal, Place, FromPiece
  <2>3. Drained /\ br.next_in + br.avail_in <= RegBytes
    BY <1>1, <2>2 DEF FromBuffer, Waiting, Short
  <2>4. n = 0
    BY <1>2, <1>7, <2>3, <1>6 DEF Drained
  <2>5. br'.next_in = br.next_in /\ br'.avail_in = 0
    BY <1>2, <1>7, <2>1, <2>3, <2>4 DEF Drained
  <2>6. Held' = 0
    <3>1. q = 0
      <4>1. ~(0 < q)
        <5>1. 0 < q => BitLen(0) + ByteBits <= BitLen(q)
          BY BitLenOrder
        <5> QED BY <1>2, <1>5, <1>9, <2>3, <5>1, BitLenFacts DEF Drained
      <4> QED BY <4>1
    <3> QED BY <1>5, <2>1, <3>1, BitLenFacts DEF Held
  <2>7. UNCHANGED <<source, bufferVars, callerVars>>
    BY <1>1, <2>1 DEF bufferVars, callerVars
  <2>8. /\ InOrder' /\ IsReader(br)' /\ Fits(br)' /\ used' \in Nat
    <3>1. ReadTo(br, br', used, NextByte, u, LocalInput)
      BY <1>4, <2>1
    <3> QED BY <1>1, <1>4, <2>7, <3>1, ReadStep
  <2> HIDE DEF j, u
  <2>9. Types'
    BY <1>1, <2>7, <2>8, ReadTypes
  <2>10. Control'
    BY <1>1, <2>2, <2>6 DEF Control
  <2>11. Place'
    <3>1. /\ buffer_length > 0
          /\ Follows(buffer, buffer_length)'
          /\ Follows(saved_buffer, Lesser(RegBytes, buffer_length + available_in))'
      BY <2>2, <2>7, ReadFollows DEF FromBuffer
    <3>2. Drained'
      BY <1>2, <2>5, <2>6 DEF Drained
    <3>3. br'.next_in + br'.avail_in <= RegBytes
      BY <2>3, <2>5 DEF Drained
    <3>4. FromBuffer'
      BY <1>1, <3>1, <3>2, <3>3 DEF FromBuffer, OutOfInput
    <3> QED BY <1>1, <2>2, <3>4 DEF Place
  <2> QED BY <2>8, <2>9, <2>10, <2>11 DEF Inv
<1> QED BY <1>11, <1>12

\* Success leaves the piece's rest to the caller, or the read-out buffer as it
\* is.
LEMMA ReturnSuccessInv ==
  ASSUME Inv, ReturnSuccess
  PROVE  Inv'
<1>1. /\ call = "running" /\ result = "SUCCESS" /\ stage = "DONE"
      /\ call' = "idle" /\ br' = br /\ source' = source /\ buffer' = buffer
      /\ saved_buffer' = saved_buffer /\ buffer_length' = buffer_length
      /\ available_in' = available_in /\ input_offset' = input_offset
      /\ offered' = offered /\ base' = base /\ result' = result
      /\ stage' = stage /\ demand' = demand /\ copying' = copying
      /\ used' = used
  BY DEF ReturnSuccess, Running, bufferVars, callerVars, wantVars
<1>2. /\ Types /\ Control /\ InOrder /\ Place
      /\ demand = <<>> /\ copying = 0 /\ Held = 0
  BY <1>1 DEF Inv, Fatal, Control
<1>3. ByteBits \in Nat /\ ByteBits > 0 /\ buffer_length \in Nat
  BY RunningNumbers
<1>4. Types'
  BY <1>1, <1>2 DEF Types
<1>5. Control'
  BY <1>1, <1>2 DEF Control, Held
<1>6. CASE source = "xinput"
  <2>1. buffer_length = 0 /\ input_offset = br.next_in
    BY <1>1, <1>2, <1>6 DEF Place, FromPiece, Control
  <2>2. NextByte' = NextByte
    <3>1. NextByte = base + br.next_in /\ NextByte' = (base + input_offset) - 0
      BY <1>1, <1>6, <2>1 DEF NextByte
    <3>2. base \in Nat /\ input_offset \in Nat
      BY RunningNumbers
    <3> QED BY <2>1, <3>1, <3>2
  <2>3. InOrder'
    BY <1>1, <1>2, <2>2 DEF InOrder, Held
  <2>4. Place'
    BY <1>1, <1>2, <1>3, <2>1 DEF Place, NoTail, Held
  <2> QED BY <1>4, <1>5, <2>3, <2>4 DEF Inv
<1>7. CASE source # "xinput"
  <2>1. FromBuffer /\ buffer_length > 0
    BY <1>1, <1>2, <1>7 DEF Place, FromBuffer
  <2>2. Drained /\ Follows(buffer, buffer_length)
    BY <1>2, <2>1 DEF FromBuffer, Waiting, Short
  <2>3. NextByte' = NextByte
    BY <1>1, <1>3, <1>7, <2>1 DEF NextByte
  <2>4. InOrder'
    BY <1>1, <1>2, <2>3 DEF InOrder, Held
  <2>5. SavedTail'
    BY <1>1, <2>2 DEF SavedTail, Follows, Drained, Held
  <2>6. Place'
    BY <1>1, <1>3, <2>1, <2>5 DEF Place
  <2> QED BY <1>4, <1>5, <2>4, <2>6 DEF Inv
<1> QED BY <1>6, <1>7

\* Stopping for output or for an error gives the unread bytes back, or drops
\* the internal buffer, of which nothing is left to read.
LEMMA StopInv ==
  ASSUME Inv, NEW r \in {"NEEDS_MORE_OUTPUT", "ERROR"}, Stop(r)
  PROVE  Inv'
<1>1. /\ call = "running" /\ result = "SUCCESS" /\ demand = <<>>
      /\ call' = "idle" /\ result' = r /\ source' = source
      /\ buffer' = buffer /\ saved_buffer' = saved_buffer
      /\ offered' = offered /\ base' = base /\ stage' = stage
      /\ demand' = demand /\ copying' = copying /\ used' = used
  BY DEF Stop, Running, wantVars
<1>2. Types /\ Control /\ InOrder /\ Place
  BY <1>1 DEF Inv, Fatal
<1>3. /\ br.next_in \in Nat /\ br.avail_in \in Nat /\ Held \in Nat
      /\ ByteBits \in Nat /\ ByteBits > 0 /\ base \in Nat /\ used \in Nat
      /\ input_offset \in Nat /\ buffer_length \in Nat
      /\ BitLen(br.next_in) \in Int /\ RegBytes = 8
  BY RunningNumbers
<1>4. CASE buffer_length # 0
  <2>1. /\ buffer_length' = 0 /\ br' = br /\ available_in' = available_in
        /\ input_offset' = input_offset
    BY <1>4 DEF Stop
  <2>2. source # "xinput" /\ FromBuffer
    BY <1>1, <1>2, <1>4 DEF Place, FromPiece
  <2>3. Drained
    BY <1>1, <2>2 DEF FromBuffer, Waiting, Short
  <2>4. Types'
    <3>1. buffer_length' \in 0..RegBytes
      BY <1>3, <2>1
    <3> QED BY <1>1, <1>2, <2>1, <3>1 DEF Types
  <2>5. Control'
    BY <1>1, <1>2, <2>1 DEF Control, Held
  <2>6. InOrder'
    <3>1. NextByte' = NextByte
      <4>1. NextByte = (base + input_offset) - br.avail_in
        BY <1>4, <2>2 DEF NextByte
      <4>2. NextByte' = (base + input_offset) - 0
        BY <1>1, <2>1 DEF NextByte
      <4> QED BY <2>3, <4>1, <4>2 DEF Drained
    <3> QED BY <1>1, <1>2, <2>1, <3>1 DEF InOrder, Held
  <2>7. Place'
    BY <1>1, <2>1, <2>3 DEF Place, NoTail, Drained, Held
  <2> QED BY <2>4, <2>5, <2>6, <2>7 DEF Inv
<1>5. CASE buffer_length = 0
  <2>1. /\ br' = Unload(br) /\ available_in' = br'.avail_in
        /\ input_offset' = br'.next_in /\ buffer_length' = 0
    BY <1>5 DEF Stop
  <2>2. source = "xinput" /\ FromPiece
    BY <1>1, <1>2, <1>3, <1>5 DEF Place, FromBuffer
  <2>3. /\ br.next_in + br.avail_in = offered
        /\ Held < BitLen(br.next_in) + ByteBits
        /\ NextByte = base + br.next_in
    BY <1>1, <2>2 DEF FromPiece, Owed, NextByte
  <2>4. /\ IsAt(br, used, NextByte, LocalInput)
        /\ NextByte \in Int /\ used \in Int
    BY <1>1, <1>3, RunningReader
  <2>5. /\ IsReader(br') /\ Fits(br')
        /\ \A k \in 1..Len(br'.val) : br'.val[k] = used + k - 1
        /\ Len(br'.val) < ByteBits
        /\ br'.next_in + br'.avail_in = offered
        /\ BitLen(base + br'.next_in) = used + Len(br'.val)
        /\ \A q \in Nat : Len(br.val) = BitLen(q) => Len(br'.val) = 0
    BY <1>3, <2>1, <2>3, <2>4, UnloadToPiece DEF Held
  <2>6. br'.next_in \in Nat /\ br'.avail_in \in Nat
    BY <2>5, ReaderTypes
  <2>7. Types'
    <3>1. buffer_length' \in 0..RegBytes
      BY <1>3, <2>1
    <3> QED BY <1>1, <1>2, <2>1, <2>5, <2>6, <3>1 DEF Types
  <2>8. Control'
    <3>1. stage = "DONE" => Len(br'.val) = 0
      <4> HAVE stage = "DONE"
      <4>1. Len(br.val) = 0
        BY <1>2 DEF Control, Held
      <4>2. Len(br.val) = BitLen(0) /\ 0 \in Nat
        BY <4>1, BitLenFacts
      <4> QED BY <2>5, <4>2
    <3> QED BY <1>1, <1>2, <3>1 DEF Control, Held
  <2>9. InOrder'
    <3>1. NextByte' = base + br'.next_in
      <4>1. NextByte' = (base + br'.next_in) - 0
        BY <1>1, <2>1 DEF NextByte
      <4> QED BY <1>3, <2>6, <4>1
    <3> QED BY <1>1, <2>5, <3>1 DEF InOrder, Held
  <2>10. Place'
    BY <1>1, <2>1, <2>5 DEF Place, NoTail, Held
  <2> QED BY <2>7, <2>8, <2>9, <2>10 DEF Inv
<1> QED BY <1>4, <1>5

\* After an error nothing but the types is promised.
LEMMA FailOutOfInputInv ==
  ASSUME Inv, FailOutOfInput
  PROVE  Inv'
<1>1. /\ call' = "idle" /\ result' = "ERROR" /\ br' = br /\ source' = source
      /\ buffer' = buffer /\ saved_buffer' = saved_buffer
      /\ buffer_length' = buffer_length
      /\ available_in' = available_in /\ input_offset' = input_offset
      /\ offered' = offered /\ base' = base
      /\ stage' = stage /\ demand' = demand /\ copying' = copying
      /\ used' = used
  BY DEF FailOutOfInput, bufferVars, callerVars, wantVars
<1>2. Types /\ Control
  BY DEF Inv
<1>3. Types'
  BY <1>1, <1>2 DEF Types
<1>4. Control'
  BY <1>1, <1>2 DEF Control, Held
<1>5. Fatal'
  BY <1>1 DEF Fatal
<1> QED BY <1>3, <1>4, <1>5 DEF Inv

\* The internal buffer was read to its end: on with the piece.
LEMMA SwitchToInputInv ==
  ASSUME Inv, SwitchToInput
  PROVE  Inv'
<1>1. /\ call = "running" /\ result = "NEEDS_MORE_INPUT"
      /\ buffer_length # 0 /\ br.avail_in = 0 /\ buffer_length' = 0
      /\ source' = "xinput" /\ result' = "SUCCESS"
      /\ br' = [br EXCEPT !.avail_in = available_in, !.next_in = input_offset]
      /\ buffer' = buffer /\ saved_buffer' = saved_buffer
      /\ available_in' = available_in /\ input_offset' = input_offset
      /\ offered' = offered /\ base' = base /\ call' = call
      /\ stage' = stage /\ demand' = demand /\ copying' = copying
      /\ used' = used
  BY DEF SwitchToInput, OutOfInput, callerVars, wantVars
<1>2. Types /\ Control /\ InOrder /\ Place
  BY <1>1 DEF Inv, Fatal
<1>3. /\ br.next_in \in Nat /\ br.avail_in \in Nat /\ Held \in Nat
      /\ ByteBits \in Nat /\ ByteBits > 0 /\ base \in Nat /\ used \in Nat
      /\ input_offset \in Nat /\ available_in \in Nat /\ buffer_length \in Nat
      /\ RegBytes = 8
  BY RunningNumbers
<1>4. /\ br'.val = br.val /\ br'.next_in = input_offset
      /\ br'.avail_in = available_in /\ IsReader(br')
  <2>1. br \in [val : Seq(Int), next_in : Nat, avail_in : Nat]
    BY <1>2 DEF Types, IsReader
  <2> QED BY <1>1, <1>3, <2>1 DEF IsReader
<1>5. Held' = Held /\ Fits(br')
  BY <1>2, <1>4 DEF Held, Types, Fits
<1>6. source # "xinput" /\ FromBuffer
  BY <1>1, <1>2 DEF Place, FromPiece
<1>7. Drained
  BY <1>1, <1>6 DEF FromBuffer, Waiting
<1>8. Types'
  <2>1. buffer_length' \in 0..RegBytes
    BY <1>1, <1>3
  <2> QED BY <1>1, <1>2, <1>4, <1>5, <2>1 DEF Types
<1>9. Control'
  BY <1>1, <1>2, <1>4, <1>5 DEF Control
<1>10. InOrder'
  <2>1. NextByte = (base + input_offset) - 0
    BY <1>1, <1>6 DEF NextByte
  <2>2. NextByte' = base + input_offset
    BY <1>1, <1>4 DEF NextByte
  <2>3. NextByte' = NextByte
    BY <1>3, <2>1, <2>2
  <2> QED BY <1>1, <1>2, <1>4, <1>5, <2>3 DEF InOrder
<1>11. Place'
  <2>1. Held' < BitLen(br'.next_in) + ByteBits
    <3>1. BitLen(0) <= BitLen(input_offset) /\ BitLen(input_offset) \in Int
      BY <1>3, BitLenOrder, BitLenType
    <3> QED BY <1>3, <1>4, <1>5, <1>7, <3>1, BitLenFacts DEF Drained
  <2>2. br'.next_in + br'.avail_in = offered'
    BY <1>1, <1>2, <1>4 DEF Types
  <2>3. FromPiece'
    BY <1>1, <2>1, <2>2 DEF FromPiece, OutOfInput
  <2> QED BY <1>1, <2>3 DEF Place
<1> QED BY <1>8, <1>9, <1>10, <1>11 DEF Inv

\* The bytes of the transaction that starts over are too few, so there is room
\* for one more, and that one is the byte that was copied ahead.
LEMMA RoomForByte ==
  ASSUME Types, Waiting(buffer_length)
  PROVE  buffer_length < RegBytes
<1>1. demand # <<>> /\ demand \in Demands
  BY DEF Types, Waiting, Short
<1>2. /\ Held \in Nat /\ Held + BitLen(buffer_length) < Total(demand)
      /\ Total(demand) <= 8 * ByteBits /\ Total(demand) \in Nat
  BY <1>1, DemandFacts, RegisterLen, ReaderTypes DEF Types, Waiting, Short, Held
<1>3. RegBytes = 8 /\ buffer_length \in 0..RegBytes
  BY BitReaderConstants DEF Types
<1>4. buffer_length \in Nat /\ buffer_length \in Int /\ buffer_length <= 8
  BY <1>3
<1>5. buffer_length # 8
  <2>1. buffer_length = 8 => BitLen(buffer_length) = 8 * ByteBits
    BY RegisterLen, BitReaderConstants
  <2>2. BitLen(buffer_length) \in Int /\ 8 * ByteBits \in Int
    BY <1>4, BitLenType, BitLenFacts
  <2> QED BY <1>2, <2>1, <2>2
<1> QED BY <1>3, <1>4, <1>5

LEMMA AddByteInv ==
  ASSUME Inv, AddByte
  PROVE  Inv'
<1>1. /\ call = "running" /\ result = "NEEDS_MORE_INPUT"
      /\ buffer_length # 0 /\ br.avail_in # 0 /\ available_in # 0
      /\ buffer' = [buffer EXCEPT ![buffer_length + 1] =
                      XInput[input_offset + 1]]
      /\ buffer_length' = buffer_length + 1
      /\ br' = [br EXCEPT !.avail_in = buffer_length + 1]
      /\ input_offset' = input_offset + 1
      /\ available_in' = available_in - 1 /\ result' = "SUCCESS"
      /\ source' = source /\ saved_buffer' = saved_buffer
      /\ offered' = offered /\ base' = base /\ call' = call
      /\ stage' = stage /\ demand' = demand /\ copying' = copying
      /\ used' = used
  BY DEF AddByte, OutOfInput, wantVars
<1>2. Types /\ Control /\ InOrder /\ Place
  BY <1>1 DEF Inv, Fatal
<1>3. /\ br.next_in \in Nat /\ br.avail_in \in Nat /\ Held \in Nat
      /\ ByteBits \in Nat /\ ByteBits > 0 /\ base \in Nat /\ used \in Nat
      /\ input_offset \in Nat /\ available_in \in Nat /\ buffer_length \in Nat
      /\ RegBytes = 8 /\ offered \in Nat /\ BitLen(buffer_length) \in Int
  BY RunningNumbers
<1>4. source # "xinput" /\ FromBuffer
  BY <1>1, <1>2 DEF Place, FromPiece
<1>5. Waiting(buffer_length) /\ br.next_in = 0
  BY <1>1, <1>4 DEF FromBuffer, Drained, Running
<1>6. buffer_length < RegBytes
  BY <1>2, <1>5, RoomForByte
<1>7. XInput[input_offset + 1] = base + input_offset
  <2>1. input_offset + available_in = offered
    BY <1>2 DEF Types
  <2>2. input_offset + 1 \in 1..offered
    BY <1>1, <1>3, <2>1
  <2>3. XInput[input_offset + 1] = base + (input_offset + 1) - 1
    BY <1>2, <2>2, XInputFacts
  <2> QED BY <1>3, <2>3
<1>8. /\ br'.val = br.val /\ br'.next_in = 0
      /\ br'.avail_in = buffer_length + 1 /\ IsReader(br')
  <2>1. br \in [val : Seq(Int), next_in : Nat, avail_in : Nat]
    BY <1>2 DEF Types, IsReader
  <2>2. buffer_length + 1 \in Nat
    BY <1>3
  <2>3. /\ br'.val = br.val /\ br'.next_in = br.next_in
        /\ br'.avail_in = buffer_length + 1
    BY <1>1, <2>1
  <2>4. br' \in [val : Seq(Int), next_in : Nat, avail_in : Nat]
    BY <1>1, <2>1, <2>2
  <2> QED BY <1>5, <2>3, <2>4 DEF IsReader
<1>9. Held' = Held /\ Fits(br')
  BY <1>2, <1>8 DEF Held, Types, Fits
<1>10. /\ buffer' \in [1..RegBytes -> Int]
       /\ buffer'[buffer_length + 1] = base + input_offset
       /\ \A k \in 1..buffer_length : buffer'[k] = buffer[k]
  <2>1. /\ buffer \in [1..RegBytes -> Int] /\ base + input_offset \in Int
        /\ buffer_length + 1 \in 1..RegBytes
    BY <1>2, <1>3, <1>6 DEF Types
  <2>2. buffer' = [buffer EXCEPT ![buffer_length + 1] = base + input_offset]
    BY <1>1, <1>7
  <2>3. \A k \in 1..buffer_length : k \in 1..RegBytes /\ k # buffer_length + 1
    BY <1>3, <1>6
  <2> QED BY <2>1, <2>2, <2>3
<1>11. Types'
  <2>1. /\ buffer_length' \in 0..RegBytes /\ available_in' \in Nat
        /\ input_offset' \in Nat /\ input_offset' + available_in' = offered
    <3>1. input_offset + available_in = offered
      BY <1>2 DEF Types
    <3>2. available_in' \in Nat /\ input_offset' \in Nat
      BY <1>1, <1>3
    <3>3. buffer_length' \in 0..RegBytes
      BY <1>1, <1>3, <1>6
    <3>4. input_offset' + available_in' = offered
      BY <1>1, <1>3, <3>1
    <3> QED BY <3>2, <3>3, <3>4
  <2> QED BY <1>1, <1>2, <1>8, <1>9, <1>10, <2>1 DEF Types
<1>12. demand # <<>>
  BY <1>5 DEF Waiting, Short
<1>13. Control'
  BY <1>1, <1>2, <1>12 DEF Control
<1>14. InOrder'
  <2>1. NextByte = (base + input_offset) - buffer_length
    BY <1>1, <1>4, <1>5 DEF NextByte, Waiting
  <2>2. NextByte' = (base + (input_offset + 1)) - (buffer_length + 1)
    <3>1. buffer_length' # 0 /\ source' # "xinput"
      BY <1>1, <1>3, <1>4
    <3> QED BY <1>1, <1>8, <3>1 DEF NextByte
  <2>3. NextByte' = NextByte
    BY <1>3, <2>1, <2>2
  <2> QED BY <1>1, <1>2, <1>8, <1>9, <2>3 DEF InOrder
<1>15. Place'
  <2>1. buffer_length' > 0 /\ br'.next_in + br'.avail_in <= RegBytes
    BY <1>1, <1>3, <1>6, <1>8
  <2>2. Follows(buffer, buffer_length)'
    <3> SUFFICES ASSUME NEW k \in 1..(buffer_length + 1)
                 PROVE  buffer'[k] = (base + (input_offset + 1))
                                       - (buffer_length + 1) + k - 1
      BY <1>1 DEF Follows
    <3>1. CASE k = buffer_length + 1
      BY <1>3, <1>10, <3>1
    <3>2. CASE k # buffer_length + 1
      <4>1. k \in 1..buffer_length
        BY <1>3, <3>2
      <4>2. buffer[k] = (base + input_offset) - buffer_length + k - 1
        BY <1>4, <4>1 DEF FromBuffer, Follows
      <4> QED BY <1>3, <1>10, <4>1, <4>2
    <3> QED BY <3>1, <3>2
  <2>3. Follows(saved_buffer, Lesser(RegBytes, buffer_length + available_in))'
    <3>1. buffer_length' + available_in' = buffer_length + available_in
      BY <1>1, <1>3
    <3>2. (base' + input_offset') - buffer_length'
            = (base + input_offset) - buffer_length
      BY <1>1, <1>3
    <3>3. \A k \in 1..Lesser(RegBytes, buffer_length + available_in) :
            saved_buffer[k] = (base + input_offset) - buffer_length + k - 1
      BY <1>4 DEF FromBuffer, Follows
    <3> QED BY <1>1, <3>1, <3>2, <3>3 DEF Follows
  <2>4. Running' /\ ~OutOfInput'
    BY <1>1 DEF Running, OutOfInput
  <2>5. Waiting(buffer_length - 1)'
    <3>1. buffer_length' - 1 = buffer_length /\ demand' = demand
      BY <1>1, <1>3
    <3>2. Short(buffer_length - 1)'
      BY <1>5, <1>9, <3>1 DEF Waiting, Short
    <3>3. demand[1].take <= Held' + BitLen(buffer_length')
      <4>1. BitLen(buffer_length + 1) = BitLen(buffer_length) + BitLen(1)
        BY <1>3, BitLenSum
      <4>2. demand[1].take <= Held + BitLen(buffer_length)
        BY <1>5 DEF Waiting
      <4>3. demand[1].take \in Nat
        <5>1. demand \in Demands
          BY <1>2, <1>12 DEF Types
        <5> QED BY <5>1, DemandFacts
      <4> QED BY <1>1, <1>3, <1>9, <4>1, <4>2, <4>3, BitLenFacts
    <3> QED BY <1>1, <1>8, <3>1, <3>2, <3>3 DEF Waiting
  <2>6. FromBuffer'
    BY <1>8, <2>1, <2>2, <2>3, <2>4, <2>5 DEF FromBuffer
  <2> QED BY <1>1, <1>4, <2>6 DEF Place
<1> QED BY <1>11, <1>13, <1>14, <1>15 DEF Inv

\* The piece is used up and the transaction still waits.
LEMMA ReturnWithTailInv ==
  ASSUME Inv, ReturnWithTail
  PROVE  Inv'
<1>1. /\ call = "running" /\ result = "NEEDS_MORE_INPUT"
      /\ buffer_length # 0 /\ br.avail_in # 0 /\ available_in = 0
      /\ call' = "idle" /\ br' = br /\ source' = source /\ buffer' = buffer
      /\ saved_buffer' = saved_buffer /\ buffer_length' = buffer_length
      /\ available_in' = available_in /\ input_offset' = input_offset
      /\ offered' = offered /\ base' = base /\ result' = result
      /\ stage' = stage /\ demand' = demand /\ copying' = copying
      /\ used' = used
  BY DEF ReturnWithTail, OutOfInput, bufferVars, callerVars, wantVars
<1>2. Types /\ Control /\ InOrder /\ Place
  BY <1>1 DEF Inv, Fatal
<1>3. source # "xinput" /\ FromBuffer
  BY <1>1, <1>2 DEF Place, FromPiece
<1>4. Waiting(buffer_length) /\ Follows(buffer, buffer_length)
  BY <1>1, <1>3 DEF FromBuffer, Drained, Running
<1>5. Types'
  BY <1>1, <1>2 DEF Types
<1>6. Control'
  BY <1>1, <1>2 DEF Control, Held
<1>7. InOrder'
  <2>1. NextByte' = NextByte
    BY <1>1, <1>3 DEF NextByte
  <2> QED BY <1>1, <1>2, <2>1 DEF InOrder, Held
<1>8. SavedTail'
  BY <1>1, <1>4 DEF SavedTail, Follows, Waiting, Short, Held
<1>9. Place'
  BY <1>1, <1>8 DEF Place
<1> QED BY <1>5, <1>6, <1>7, <1>9 DEF Inv

\* The bytes of the piece that were not read fit into the internal buffer, as
\* they are fewer than the transaction takes.
LEMMA SaveTailInv ==
  ASSUME Inv, SaveTail
  PROVE  Inv'
<1>1. /\ call = "running" /\ result = "NEEDS_MORE_INPUT" /\ buffer_length = 0
      /\ buffer' = [k \in 1..RegBytes |-> IF k <= br.avail_in
                                          THEN XInput[br.next_in + k]
                                          ELSE buffer[k]]
      /\ buffer_length' = br.avail_in
      /\ input_offset' = br.next_in + br.avail_in /\ available_in' = 0
      /\ call' = "idle" /\ br' = br /\ source' = source
      /\ saved_buffer' = saved_buffer
      /\ offered' = offered /\ base' = base /\ result' = result
      /\ stage' = stage /\ demand' = demand /\ copying' = copying
      /\ used' = used
  BY DEF SaveTail, OutOfInput, wantVars
<1>2. Types /\ Control /\ InOrder /\ Place
  BY <1>1 DEF Inv, Fatal
<1>3. /\ br.next_in \in Nat /\ br.avail_in \in Nat /\ Held \in Nat
      /\ ByteBits \in Nat /\ ByteBits > 0 /\ base \in Nat /\ used \in Nat
      /\ RegBytes = 8 /\ offered \in Nat /\ copying \in Nat
      /\ BitLen(br.avail_in) \in Int
  BY RunningNumbers
<1>4. source = "xinput" /\ FromPiece
  BY <1>1, <1>2, <1>3 DEF Place, FromBuffer
<1>5. OutOfInput /\ br.next_in + br.avail_in = offered
  BY <1>1, <1>4 DEF FromPiece, OutOfInput
<1>6. IF copying > 0 THEN br.avail_in = 0 /\ Held = 0
      ELSE /\ Short(br.avail_in)
           /\ br.avail_in > 0 => demand[1].take <= Held + BitLen(br.avail_in)
  BY <1>4, <1>5 DEF FromPiece
<1>7. br.avail_in < RegBytes
  <2>1. CASE copying > 0
    BY <1>3, <1>6, <2>1
  <2>2. CASE ~(copying > 0)
    <3>1. demand \in Demands
      BY <1>2, <1>6, <2>2 DEF Types, Short
    <3>2. Total(demand) \in Nat /\ Total(demand) <= BitLen(RegBytes)
      BY <3>1, DemandFacts
    <3>3. Held + BitLen(br.avail_in) < Total(demand)
      BY <1>6, <2>2 DEF Short
    <3>4. ~(RegBytes <= br.avail_in)
      <4>1. RegBytes \in Int /\ br.avail_in \in Int
        BY <1>3
      <4>2. RegBytes <= br.avail_in => BitLen(RegBytes) <= BitLen(br.avail_in)
        BY <4>1, BitLenOrder
      <4>3. BitLen(RegBytes) \in Int
        BY <4>1, BitLenType
      <4> QED BY <1>3, <3>2, <3>3, <4>2, <4>3
    <3> QED BY <1>3, <3>4
  <2> QED BY <2>1, <2>2
<1>8. \A k \in 1..br.avail_in : buffer'[k] = base + br.next_in + k - 1
  <2> SUFFICES ASSUME NEW k \in 1..br.avail_in
               PROVE  buffer'[k] = base + br.next_in + k - 1
    OBVIOUS
  <2>1. k \in 1..RegBytes /\ k <= br.avail_in /\ k \in Int
    BY <1>3, <1>7
  <2>2. buffer'[k] = XInput[br.next_in + k]
    BY <1>1, <2>1
  <2>3. br.next_in + k \in 1..offered
    BY <1>3, <1>5
  <2>4. XInput[br.next_in + k] = base + (br.next_in + k) - 1
    BY <1>2, <2>3, XInputFacts
  <2> QED BY <1>3, <2>1, <2>2, <2>4
<1>9. Types'
  <2>1. buffer' \in [1..RegBytes -> Int]
    <3>1. \A k \in 1..RegBytes : k <= br.avail_in => XInput[br.next_in + k] \in Int
      <4> SUFFICES ASSUME NEW k \in 1..RegBytes, k <= br.avail_in
                   PROVE  XInput[br.next_in + k] \in Int
        OBVIOUS
      <4>1. br.next_in + k \in 1..offered
        BY <1>3, <1>5
      <4>2. XInput[br.next_in + k] = base + (br.next_in + k) - 1
        BY <1>2, <4>1, XInputFacts
      <4> QED BY <1>3, <4>1, <4>2
    <3>2. buffer \in [1..RegBytes -> Int]
      BY <1>2 DEF Types
    <3> QED BY <1>1, <3>1, <3>2
  <2>2. /\ buffer_length' \in 0..RegBytes /\ available_in' \in Nat
        /\ input_offset' \in Nat /\ input_offset' + available_in' = offered
    BY <1>1, <1>3, <1>5, <1>7
  <2> QED BY <1>1, <1>2, <2>1, <2>2 DEF Types
<1>10. Control'
  BY <1>1, <1>2 DEF Control, Held
<1>11. InOrder'
  <2>1. NextByte = base + br.next_in
    BY <1>1, <1>4 DEF NextByte
  <2>2. NextByte' = (base + (br.next_in + br.avail_in))
                      - (IF br.avail_in = 0 THEN 0 ELSE br.avail_in)
    BY <1>1 DEF NextByte
  <2>3. NextByte' = NextByte
    BY <1>3, <2>1, <2>2
  <2> QED BY <1>1, <1>2, <2>3 DEF InOrder, Held
<1>12. Place'
  <2>1. CASE br.avail_in = 0
    <3>1. IF copying > 0 THEN Held = 0 ELSE Owed
      BY <1>3, <1>6, <2>1, BitLenFacts DEF Short, Owed
    <3>2. Held < ByteBits \/ Owed
      BY <1>3, <3>1
    <3>3. NoTail'
      BY <1>1, <3>1, <3>2 DEF NoTail, Owed, Held
    <3> QED BY <1>1, <2>1, <3>3 DEF Place
  <2>2. CASE br.avail_in # 0
    <3>1. Follows(buffer, buffer_length)'
      <4> SUFFICES ASSUME NEW k \in 1..br.avail_in
                   PROVE  buffer'[k] = (base + (br.next_in + br.avail_in))
                                         - br.avail_in + k - 1
        BY <1>1 DEF Follows
      <4> QED BY <1>3, <1>8
    <3>2. ~(copying > 0) /\ br.avail_in > 0
      BY <1>3, <1>6, <2>2
    <3>3. /\ Short(br.avail_in)
          /\ demand[1].take <= Held + BitLen(br.avail_in)
      BY <1>6, <3>2
    <3>4. Waiting(buffer_length)'
      BY <1>1, <3>3 DEF Waiting, Short, Held
    <3>5. SavedTail'
      BY <1>1, <3>1, <3>4 DEF SavedTail
    <3> QED BY <1>1, <2>2, <3>5 DEF Place
  <2> QED BY <2>1, <2>2
<1> QED BY <1>9, <1>10, <1>11, <1>12 DEF Inv

\* A new piece goes behind the tail that is kept of the earlier ones.
LEMMA StreamCallInv ==
  ASSUME Inv, NEW n \in Pieces, StreamCall(n)
  PROVE  Inv'
<1>1. /\ call = "idle" /\ ~Fatal /\ call' = "running"
      /\ base' = base + input_offset /\ offered' = n /\ input_offset' = 0
      /\ available_in' = n /\ buffer_length' = buffer_length
      /\ stage' = stage /\ demand' = demand /\ copying' = copying
      /\ used' = used
  BY DEF StreamCall, wantVars
<1>2. Types /\ Control /\ InOrder /\ Place
  BY <1>1 DEF Inv
<1>3. /\ br.next_in \in Nat /\ br.avail_in \in Nat /\ Held \in Nat
      /\ ByteBits \in Nat /\ ByteBits > 0 /\ base \in Nat /\ used \in Nat
      /\ RegBytes = 8 /\ input_offset \in Nat /\ copying \in Nat
      /\ buffer_length \in Nat /\ buffer_length <= RegBytes
  BY RunningNumbers
<1>4. n \in Nat
  BY StreamInputConstants
<1>5. br \in [val : Seq(Int), next_in : Nat, avail_in : Nat]
  BY <1>2 DEF Types, IsReader
<1>6. base' \in Nat /\ base' + 0 = base + input_offset
  BY <1>1, <1>3
<1>7. CASE buffer_length = 0
  <2>1. /\ source' = "xinput" /\ result' = "SUCCESS"
        /\ br' = [br EXCEPT !.avail_in = n, !.next_in = 0]
        /\ saved_buffer' = buffer /\ buffer' = buffer
    BY <1>7 DEF StreamCall
  <2>2. /\ br'.val = br.val /\ br'.next_in = 0 /\ br'.avail_in = n
        /\ IsReader(br')
    BY <1>4, <1>5, <2>1 DEF IsReader
  <2>3. Held' = Held /\ Fits(br')
    BY <1>2, <2>2 DEF Held, Types, Fits
  <2>4. NoTail
    BY <1>1, <1>2, <1>7 DEF Place
  <2>5. Types'
    <3>1. input_offset' + available_in' = offered'
      BY <1>1, <1>4
    <3>2. base' \in Nat /\ input_offset' \in Nat /\ available_in' \in Nat
          /\ offered' \in Nat
      BY <1>1, <1>4, <1>6
    <3> QED BY <1>1, <1>2, <2>1, <2>2, <2>3, <3>1, <3>2 DEF Types
  <2>6. Control'
    BY <1>1, <1>2, <2>1, <2>2, <2>3 DEF Control
  <2>7. InOrder'
    <3>1. NextByte = (base + input_offset) - 0
      BY <1>1, <1>7 DEF NextByte
    <3>2. NextByte' = (base + input_offset) + 0
      BY <1>1, <2>1, <2>2 DEF NextByte
    <3>3. NextByte' = NextByte
      BY <1>3, <3>1, <3>2
    <3> QED BY <1>1, <1>2, <2>2, <2>3, <3>3 DEF InOrder
  <2>8. Place'
    <3>1. Held' < BitLen(br'.next_in) + ByteBits \/ Owed'
      <4>1. Held < ByteBits \/ Owed
        BY <2>4 DEF NoTail
      <4>2. BitLen(br'.next_in) = 0
        BY <2>2, BitLenFacts
      <4>3. ByteBits = 0 + ByteBits
        BY <1>3
      <4> QED BY <1>1, <2>3, <4>1, <4>2, <4>3 DEF Owed
    <3>2. br'.next_in + br'.avail_in = offered'
      BY <1>1, <1>4, <2>2
    <3>3. ~OutOfInput'
      BY <2>1 DEF OutOfInput
    <3>4. FromPiece'
      BY <1>1, <1>7, <3>1, <3>2, <3>3 DEF FromPiece
    <3> QED BY <1>1, <2>1, <3>4 DEF Place
  <2> QED BY <2>5, <2>6, <2>7, <2>8 DEF Inv
<1>8. CASE buffer_length # 0
  <2>1. /\ source' = "saved_buffer" /\ result' = "NEEDS_MORE_INPUT"
        /\ br' = [br EXCEPT !.next_in = 0]
        /\ saved_buffer' = CopiedAhead(buffer, n)
        /\ buffer' = CopiedAhead(buffer, n)
    BY <1>8 DEF StreamCall
  <2>2. /\ br'.val = br.val /\ br'.next_in = 0 /\ br'.avail_in = br.avail_in
        /\ IsReader(br')
    BY <1>5, <2>1 DEF IsReader
  <2>3. Held' = Held /\ Fits(br')
    BY <1>2, <2>2 DEF Held, Types, Fits
  <2>4. SavedTail
    BY <1>1, <1>2, <1>8 DEF Place
  <2> DEFINE ahead == CopiedAhead(buffer, n)
  <2>5. ahead \in [1..RegBytes -> Int]
    <3>1. buffer \in [1..RegBytes -> Int]
      BY <1>2 DEF Types
    <3>2. \A k \in 1..RegBytes :
            base + input_offset + (k - buffer_length) - 1 \in Int
      BY <1>3
    <3> QED BY <3>1, <3>2 DEF CopiedAhead
  <2>6. \A k \in 1..Lesser(RegBytes, buffer_length + n) :
          ahead[k] = (base + input_offset) - buffer_length + k - 1
    <3> SUFFICES ASSUME NEW k \in 1..Lesser(RegBytes, buffer_length + n)
                 PROVE  ahead[k] = (base + input_offset) - buffer_length + k - 1
      OBVIOUS
    <3>1. k \in Int /\ 1 <= k /\ k <= RegBytes /\ k <= buffer_length + n
      BY <1>3, <1>4 DEF Lesser
    <3>2. ahead[k] = IF k > buffer_length /\ k - buffer_length <= n
                     THEN base + input_offset + (k - buffer_length) - 1
                     ELSE buffer[k]
      BY <1>3, <3>1 DEF CopiedAhead
    <3>3. CASE k > buffer_length
      <4>1. k - buffer_length <= n
        BY <1>3, <1>4, <3>1
      <4>2. ahead[k] = base + input_offset + (k - buffer_length) - 1
        BY <3>2, <3>3, <4>1
      <4> QED BY <1>3, <3>1, <4>2
    <3>4. CASE ~(k > buffer_length)
      <4>1. k \in 1..buffer_length
        BY <1>3, <3>1, <3>4
      <4>2. ahead[k] = buffer[k]
        BY <3>2, <3>4
      <4>3. buffer[k] = (base + input_offset) - buffer_length + k - 1
        BY <2>4, <4>1 DEF SavedTail, Follows
      <4> QED BY <4>2, <4>3
    <3> QED BY <3>3, <3>4
  <2> HIDE DEF ahead
  <2>7. Types'
    <3>1. input_offset' + available_in' = offered'
      BY <1>1, <1>4
    <3>2. base' \in Nat /\ input_offset' \in Nat /\ available_in' \in Nat
          /\ offered' \in Nat
      BY <1>1, <1>4, <1>6
    <3>3. buffer' \in [1..RegBytes -> Int] /\ saved_buffer' \in [1..RegBytes -> Int]
      BY <2>1, <2>5 DEF ahead
    <3> QED BY <1>1, <1>2, <2>1, <2>2, <2>3, <3>1, <3>2, <3>3 DEF Types
  <2>8. Control'
    BY <1>1, <1>2, <2>1, <2>2, <2>3 DEF Control
  <2>9. InOrder'
    <3>1. NextByte = (base + input_offset) - br.avail_in
      BY <1>1, <1>8 DEF NextByte
    <3>2. NextByte' = ((base + input_offset) + 0) - br.avail_in
      BY <1>1, <1>8, <2>1, <2>2 DEF NextByte
    <3>3. NextByte' = NextByte
      BY <1>3, <3>1, <3>2
    <3> QED BY <1>1, <1>2, <2>2, <2>3, <3>3 DEF InOrder
  <2>10. Place'
    <3>1. (base' + input_offset') - buffer_length'
            = (base + input_offset) - buffer_length
      BY <1>1, <1>3
    <3>2. \A k \in 1..Lesser(RegBytes, buffer_length + n) :
            ahead[k] = (base' + input_offset') - buffer_length' + k - 1
      BY <2>6, <3>1
    <3>3. Follows(saved_buffer, Lesser(RegBytes, buffer_length + available_in))'
      BY <1>1, <2>1, <3>2 DEF Follows, ahead
    <3>4. Follows(buffer, buffer_length)'
      <4>1. \A k \in 1..buffer_length :
              k \in 1..Lesser(RegBytes, buffer_length + n)
        BY <1>3, <1>4 DEF Lesser
      <4> QED BY <1>1, <2>1, <3>2, <4>1 DEF Follows, ahead
    <3>5. br'.next_in + br'.avail_in <= RegBytes
      <4>1. br.avail_in = 0 \/ br.avail_in = buffer_length
        BY <2>4 DEF SavedTail, Drained, Waiting
      <4> QED BY <1>3, <2>2, <4>1
    <3>6. ~Running'
      BY <2>1 DEF Running
    <3>7. CASE Waiting(buffer_length)
      <4>1. Waiting(buffer_length)'
        BY <1>1, <2>2, <2>3, <3>7 DEF Waiting, Short
      <4>2. FromBuffer'
        BY <1>1, <1>3, <1>8, <2>2, <3>3, <3>4, <3>5, <3>6, <4>1 DEF FromBuffer
      <4> QED BY <1>1, <2>1, <4>2 DEF Place
    <3>8. CASE ~Waiting(buffer_length)
      <4>1. Drained /\ stage = "DONE"
        BY <2>4, <3>8 DEF SavedTail
      <4>2. Drained' /\ copying' = 0
        BY <1>1, <1>2, <2>2, <2>3, <4>1 DEF Drained, Control
      <4>3. FromBuffer'
        BY <1>1, <1>3, <1>8, <2>2, <3>3, <3>4, <3>5, <3>6, <4>2 DEF FromBuffer
      <4> QED BY <1>1, <2>1, <4>3 DEF Place
    <3> QED BY <3>7, <3>8
  <2> QED BY <2>7, <2>8, <2>9, <2>10 DEF Inv
<1> QED BY <1>7, <1>8

LEMMA InvStutter ==
  ASSUME Inv, UNCHANGED vars
  PROVE  Inv'
<1>1. /\ br' = br /\ source' = source /\ buffer' = buffer
      /\ saved_buffer' = saved_buffer /\ buffer_length' = buffer_length
      /\ available_in' = available_in /\ input_offset' = input_offset
      /\ offered' = offered /\ base' = base /\ call' = call /\ result' = result
      /\ stage' = stage /\ demand' = demand /\ copying' = copying
      /\ used' = used
  BY DEF vars, bufferVars, callerVars, wantVars
<1>2. Types' <=> Types
  BY <1>1 DEF Types
<1>3. Control' <=> Control
  BY <1>1 DEF Control, Held
<1>4. InOrder' <=> InOrder
  BY <1>1 DEF InOrder, NextByte, Held
<1>5. Place' <=> Place
  BY <1>1 DEF Place, FromPiece, FromBuffer, NoTail, SavedTail, Waiting, Drained,
              Short, Owed, Follows, Held, OutOfInput, Running
<1>6. Fatal' <=> Fatal
  BY <1>1 DEF Fatal
<1> QED BY <1>2, <1>3, <1>4, <1>5, <1>6 DEF Inv

LEMMA InvNext ==
  ASSUME Inv, [Next]_vars
  PROVE  Inv'
<1>1. ASSUME NEW d \in Demands, SafeReads(d) PROVE Inv'
  BY <1>1, SafeReadsInv
<1>2. ASSUME NEW d \in Demands, FastReads(d) PROVE Inv'
  BY <1>2, FastReadsInv
<1>3. ASSUME NEW n \in 0..copying, CopyRaw(n) PROVE Inv'
  BY <1>3, CopyRawInv
<1>4. ASSUME NEW n \in CopyLengths, StartCopy(n) PROVE Inv'
  BY <1>4, StartCopyInv
<1>5. CASE FinishLastMetablock
  BY <1>5, FinishInv
<1>6. CASE OuterLoop
  BY <1>6, ReturnSuccessInv, SwitchToInputInv, AddByteInv, ReturnWithTailInv,
     SaveTailInv DEF OuterLoop
<1>7. CASE FailOutOfInput
  BY <1>7, FailOutOfInputInv
<1>8. ASSUME NEW r \in {"NEEDS_MORE_OUTPUT", "ERROR"}, Stop(r) PROVE Inv'
  BY <1>8, StopInv
<1>9. ASSUME NEW n \in Pieces, StreamCall(n) PROVE Inv'
  BY <1>9, StreamCallInv
<1>10. CASE StreamCallAfterError \/ UNCHANGED vars
  BY <1>10, InvStutter DEF StreamCallAfterError
<1> QED BY <1>1, <1>2, <1>3, <1>4, <1>5, <1>6, <1>7, <1>8, <1>9, <1>10
        DEF Next, Reads

\* The invariant that the properties below rest on: whichever way the stream is
\* cut into pieces and whatever transactions fail, the accumulator, the window
\* and the internal buffer hold consecutive parts of the stream, and a tail is
\* kept only for a transaction that needs more than it.
THEOREM InvHolds == Spec => []Inv
<1>1. Init => Inv
  BY InvInit
<1>2. Inv /\ [Next]_vars => Inv'
  BY InvNext
<1> QED BY <1>1, <1>2, PTL DEF Spec

-----------------------------------------------------------------------------
(* What the invariant gives                                                *)

\* In every call, the room in the internal buffer and the window in the input.
THEOREM BufferAlwaysHasRoom == Spec => []BufferHasRoom
<1>1. Inv => BufferHasRoom
  <2> SUFFICES ASSUME Inv PROVE BufferHasRoom
    OBVIOUS
  <2>1. /\ br.next_in \in Nat /\ br.avail_in \in Nat
        /\ buffer_length \in Nat /\ buffer_length <= RegBytes
        /\ input_offset \in Nat /\ available_in \in Nat /\ offered \in Nat
        /\ base \in Nat /\ RegBytes = 8
    BY RunningNumbers
  <2>2. br.next_in >= 0 /\ br.avail_in >= 0
    BY <2>1
  <2>3. Len(br.val) <= RegBytes * ByteBits
    BY DEF Inv, Types, Fits, BitLen
  <2>4. call = "running" => br.next_in + br.avail_in <= Len(LocalInput)
    BY RunningReader DEF IsAt
  <2>5. ASSUME OutOfInput, buffer_length # 0, br.avail_in # 0, available_in # 0
        PROVE  /\ buffer_length < RegBytes
               /\ saved_buffer[buffer_length + 1] = XInput[input_offset + 1]
    <3>1. call = "running" /\ result = "NEEDS_MORE_INPUT"
      BY <2>5 DEF OutOfInput
    <3>2. FromBuffer /\ Types
      BY <2>5, <3>1 DEF Inv, Fatal, Place, FromPiece
    <3>3. Waiting(buffer_length)
      BY <2>5, <3>1, <3>2 DEF FromBuffer, Drained, Running
    <3>4. buffer_length < RegBytes
      BY <3>2, <3>3, RoomForByte
    <3>5. saved_buffer[buffer_length + 1] = base + input_offset
      <4>1. buffer_length + 1 \in 1..Lesser(RegBytes, buffer_length + available_in)
        BY <2>1, <2>5, <3>4 DEF Lesser
      <4>2. saved_buffer[buffer_length + 1]
              = (base + input_offset) - buffer_length + (buffer_length + 1) - 1
        BY <3>2, <4>1 DEF FromBuffer, Follows
      <4> QED BY <2>1, <4>2
    <3>6. XInput[input_offset + 1] = base + input_offset
      <4>1. input_offset + available_in = offered
        BY <3>2 DEF Types
      <4>2. input_offset + 1 \in 1..offered
        BY <2>1, <2>5, <4>1
      <4>3. XInput[input_offset + 1] = base + (input_offset + 1) - 1
        BY <3>2, <4>2, XInputFacts
      <4> QED BY <2>1, <4>3
    <3> QED BY <3>4, <3>5, <3>6
  <2> QED BY <2>1, <2>2, <2>3, <2>4, <2>5 DEF BufferHasRoom
<1> QED BY <1>1, InvHolds, PTL

\* More input is only asked for when all that was given does not suffice.
THEOREM AlwaysAsksOnlyWhenShort == Spec => []AsksOnlyWhenShort
<1>1. Inv => AsksOnlyWhenShort
  <2> SUFFICES ASSUME Inv, call = "idle", result = "NEEDS_MORE_INPUT"
               PROVE  /\ available_in = 0
                      /\ IF copying > 0
                         THEN Len(br.val) + buffer_length * ByteBits < ByteBits
                         ELSE Len(br.val) + buffer_length * ByteBits
                                < Total(demand)
    BY DEF AsksOnlyWhenShort
  <2>1. Control /\ Place
    BY DEF Inv, Fatal
  <2>2. Held \in Nat /\ ByteBits \in Nat /\ ByteBits > 0
    BY RunningNumbers
  <2>3. CASE buffer_length = 0
    <3>1. available_in = 0 /\ IF copying > 0 THEN Held = 0 ELSE Owed
      BY <2>1, <2>3 DEF Place, NoTail
    <3>2. Len(br.val) + buffer_length * ByteBits = Held
      <4>1. 0 * ByteBits = 0
        BY <2>2
      <4>2. buffer_length * ByteBits = 0
        BY <2>3, <4>1
      <4> QED BY <2>2, <4>2 DEF Held
    <3> QED BY <2>2, <3>1, <3>2 DEF Owed
  <2>4. CASE buffer_length # 0
    <3>1. Waiting(buffer_length) /\ available_in = 0
      BY <2>1, <2>4 DEF Place, SavedTail
    <3>2. ~(copying > 0)
      BY <2>1, <3>1 DEF Control, Waiting, Short
    <3> QED BY <3>1, <3>2 DEF Waiting, Short, BitLen, Held
  <2> QED BY <2>3, <2>4
<1> QED BY <1>1, InvHolds, PTL

\* s holds consecutive bytes, the first of them p.
Consecutive(s, p) ==
  s \in Seq(Int) /\ \A j \in 1..Len(s) : s[j] = p + j - 1

LEMMA ConsecutivePart ==
  ASSUME NEW input \in Seq(Int), NEW i \in Nat, NEW n \in Nat, NEW p \in Int,
         i + n <= Len(input), \A k \in 1..n : input[i + k] = p + k - 1
  PROVE  /\ Consecutive(SubSeq(input, i + 1, i + n), p)
         /\ Len(SubSeq(input, i + 1, i + n)) = n
<1> DEFINE from == i + 1
           to == i + n
           s == SubSeq(input, from, to)
<1>1. from \in Int /\ to \in Int /\ Len(input) \in Nat
  BY LenProperties
<1>2. \A j \in from..to : input[j] \in Int
  <2> SUFFICES ASSUME NEW j \in from..to PROVE input[j] \in Int
    OBVIOUS
  <2>1. j \in 1..Len(input)
    BY <1>1
  <2> QED BY <2>1, ElementOfSeq
<1>3. s = SubSeq(input, from, to)
  OBVIOUS
<1> HIDE DEF from, to, s
<1>4. /\ s \in Seq(Int)
      /\ Len(s) = IF from <= to THEN to - from + 1 ELSE 0
      /\ \A j \in 1..(to - from + 1) : s[j] = input[from + j - 1]
  BY <1>1, <1>2, <1>3, SubSeqProperties
<1>5. to - from + 1 = n /\ Len(s) = n
  <2>1. to - from + 1 = n /\ (from <= to <=> n > 0)
    BY DEF from, to
  <2> QED BY <1>4, <2>1
<1>6. ASSUME NEW j \in 1..Len(s) PROVE s[j] = p + j - 1
  <2>1. j \in 1..n
    BY <1>5
  <2>2. s[j] = input[from + j - 1]
    BY <1>4, <1>5, <2>1
  <2>3. from + j - 1 = i + j
    BY DEF from
  <2> QED BY <2>1, <2>2, <2>3
<1> QED BY <1>4, <1>5, <1>6 DEF Consecutive, s, from, to

LEMMA ConsecutiveParts ==
  ASSUME NEW s, NEW t, NEW p \in Int, Consecutive(s, p),
         Consecutive(t, p + Len(s))
  PROVE  Consecutive(s \o t, p)
<1>1. s \in Seq(Int) /\ t \in Seq(Int)
  BY DEF Consecutive
<1> DEFINE all == s \o t
<1>2. /\ all \in Seq(Int) /\ Len(all) = Len(s) + Len(t)
      /\ \A k \in 1..(Len(s) + Len(t)) :
           all[k] = IF k <= Len(s) THEN s[k] ELSE t[k - Len(s)]
  BY <1>1, ConcatProperties
<1> HIDE DEF all
<1>3. PICK m \in Nat, n \in Nat : m = Len(s) /\ n = Len(t)
  BY <1>1, LenProperties
<1>4. ASSUME NEW k \in 1..Len(all) PROVE all[k] = p + k - 1
  <2>1. k \in 1..(m + n)
    BY <1>2, <1>3
  <2>2. all[k] = IF k <= m THEN s[k] ELSE t[k - m]
    BY <1>2, <1>3, <2>1
  <2>3. CASE k <= m
    BY <1>3, <2>1, <2>2, <2>3 DEF Consecutive
  <2>4. CASE ~(k <= m)
    <3>1. k - m \in 1..n
      BY <2>1, <2>4
    <3>2. t[k - m] = (p + m) + (k - m) - 1
      BY <1>3, <3>1 DEF Consecutive
    <3> QED BY <2>1, <2>2, <2>4, <3>2
  <2> QED BY <2>3, <2>4
<1> QED BY <1>2, <1>4 DEF Consecutive, all

LEMMA ConsecutiveBits ==
  ASSUME NEW val \in Seq(Int), NEW u \in Int, NEW p \in Int, NEW bytes,
         \A k \in 1..Len(val) : val[k] = u + k - 1,
         BitLen(p) = u + Len(val), Consecutive(bytes, p)
  PROVE  Consecutive(val \o BitsOf(bytes), u)
<1> DEFINE bits == BitsOf(bytes)
<1>1. /\ bits \in Seq(Int) /\ Len(bits) = BitLen(Len(bytes))
      /\ \A k \in 1..BitLen(Len(bytes)) : bits[k] = BitLen(p) + k - 1
  BY BitsOfFollow DEF Consecutive
<1> HIDE DEF bits
<1>2. Consecutive(val, u)
  BY DEF Consecutive
<1>3. Consecutive(bits, u + Len(val))
  BY <1>1 DEF Consecutive
<1>4. Consecutive(val \o bits, u)
  BY <1>2, <1>3, ConsecutiveParts
<1> QED BY <1>4 DEF bits

\* The bytes that the decoder will see next, in the input it reads and behind
\* the internal buffer.
InInput ==
  IF call = "running"
  THEN SubSeq(LocalInput, br.next_in + 1, br.next_in + br.avail_in)
  ELSE SubSeq(buffer, 1, IF buffer_length = 0 THEN 0 ELSE br.avail_in)
Behind ==
  IF call = "running" /\ source = "xinput" THEN <<>>
  ELSE SubSeq(XInput, input_offset + 1, input_offset + available_in)

LEMMA BytesInOrder ==
  ASSUME Inv, ~Fatal
  PROVE  Consecutive(InInput \o Behind, NextByte)
<1>1. Types /\ InOrder /\ Place
  BY DEF Inv
<1>2. /\ br.next_in \in Nat /\ br.avail_in \in Nat
      /\ input_offset \in Nat /\ available_in \in Nat /\ offered \in Nat
      /\ base \in Nat /\ RegBytes = 8 /\ buffer_length \in Nat
      /\ buffer_length <= RegBytes
  BY RunningNumbers
<1>3. NextByte \in Int
  BY <1>2 DEF NextByte
<1>4. /\ Consecutive(SubSeq(XInput, input_offset + 1,
                            input_offset + available_in), base + input_offset)
  <2>1. /\ XInput \in Seq(Int) /\ Len(XInput) = offered
        /\ \A k \in 1..offered : XInput[k] = base + k - 1
    BY <1>1, XInputFacts
  <2>2. input_offset + available_in = offered
    BY <1>1 DEF Types
  <2>3. \A k \in 1..available_in :
          XInput[input_offset + k] = (base + input_offset) + k - 1
    <3> SUFFICES ASSUME NEW k \in 1..available_in
                 PROVE  XInput[input_offset + k] = (base + input_offset) + k - 1
      OBVIOUS
    <3>1. input_offset + k \in 1..offered
      BY <1>2, <2>2
    <3>2. XInput[input_offset + k] = base + (input_offset + k) - 1
      BY <2>1, <3>1
    <3> QED BY <1>2, <3>2
  <2>4. base + input_offset \in Int /\ input_offset + available_in <= Len(XInput)
    BY <1>2, <2>1, <2>2
  <2> QED BY <1>2, <2>1, <2>3, <2>4, ConsecutivePart
<1>5. CASE call = "running"
  <2>1. IsAt(br, used, NextByte, LocalInput)
    BY <1>5, RunningReader
  <2>2. /\ LocalInput \in Seq(Int)
        /\ br.next_in + br.avail_in <= Len(LocalInput)
        /\ \A k \in 1..br.avail_in :
             LocalInput[br.next_in + k] = NextByte + k - 1
    BY <2>1 DEF IsAt
  <2>3. Consecutive(InInput, NextByte) /\ Len(InInput) = br.avail_in
    BY <1>2, <1>3, <1>5, <2>2, ConsecutivePart DEF InInput
  <2>4. Consecutive(Behind, NextByte + Len(InInput))
    <3>1. CASE source = "xinput"
      <4>1. Behind = <<>> /\ Behind \in Seq(Int) /\ Len(Behind) = 0
        BY <1>5, <3>1, EmptySeq DEF Behind
      <4>2. \A j \in 1..0 : Behind[j] = NextByte + Len(InInput) + j - 1
        OBVIOUS
      <4> QED BY <4>1, <4>2 DEF Consecutive
    <3>2. CASE source # "xinput"
      <4>1. buffer_length # 0
        BY <1>1, <1>5, <3>2 DEF Place, FromBuffer
      <4>2. NextByte = (base + input_offset) - br.avail_in
        BY <3>2, <4>1 DEF NextByte
      <4>3. NextByte + Len(InInput) = base + input_offset
        BY <1>2, <2>3, <4>2
      <4> QED BY <1>4, <3>2, <4>3 DEF Behind
    <3> QED BY <3>1, <3>2
  <2> QED BY <1>3, <2>3, <2>4, ConsecutiveParts
<1>6. CASE call # "running"
  <2>1. Behind = SubSeq(XInput, input_offset + 1, input_offset + available_in)
    BY <1>6 DEF Behind
  <2> DEFINE n == IF buffer_length = 0 THEN 0 ELSE br.avail_in
  <2>2. NextByte = (base + input_offset) - n /\ n \in Nat
    BY <1>2, <1>6 DEF NextByte
  <2>3. buffer \in Seq(Int) /\ Len(buffer) = RegBytes
    <3>1. buffer \in [1..RegBytes -> Int]
      BY <1>1 DEF Types
    <3> QED BY <1>2, <3>1, FunctionIsSeq
  <2>4. n <= RegBytes /\ \A k \in 1..n : buffer[0 + k] = NextByte + k - 1
    <3>1. CASE n = 0
      BY <1>2, <3>1
    <3>2. CASE n # 0
      <4>1. buffer_length # 0 /\ br.avail_in # 0 /\ SavedTail
        BY <1>1, <1>6, <3>2 DEF Place
      <4>2. n = buffer_length
        BY <4>1 DEF SavedTail, Waiting, Drained
      <4>3. ASSUME NEW k \in 1..n PROVE buffer[0 + k] = NextByte + k - 1
        <5>1. buffer[k] = (base + input_offset) - buffer_length + k - 1
          BY <4>1, <4>2 DEF SavedTail, Follows
        <5>2. 0 + k = k
          BY <2>2
        <5> QED BY <2>2, <4>2, <5>1, <5>2
      <4> QED BY <1>2, <4>2, <4>3
    <3> QED BY <3>1, <3>2
  <2>5. InInput = SubSeq(buffer, 0 + 1, 0 + n)
    <3>1. 0 + 1 = 1 /\ 0 + n = n
      BY <2>2
    <3> QED BY <1>6, <3>1 DEF InInput
  <2> HIDE DEF n
  <2>6. Consecutive(InInput, NextByte) /\ Len(InInput) = n
    <3>1. 0 + n <= Len(buffer) /\ 0 \in Nat
      BY <2>2, <2>3, <2>4
    <3> QED BY <1>3, <2>2, <2>3, <2>4, <2>5, <3>1, ConsecutivePart
  <2>7. NextByte + Len(InInput) = base + input_offset
    BY <1>2, <2>2, <2>6
  <2> QED BY <1>3, <1>4, <2>1, <2>6, <2>7, ConsecutiveParts
<1> QED BY <1>5, <1>6

\* A peek at a byte boundary sees the byte that will be read there.
LEMMA PeekInOrder ==
  ASSUME Inv
  PROVE  PeekSeesStream
<1> SUFFICES ASSUME Running, PadBits(br) = 0,
                    NEW offset \in 0..(GetRemainingBytes(br) - 1)
             PROVE  PeekByte(br, offset, LocalInput) = used \div ByteBits + offset
  BY DEF PeekSeesStream
<1>1. IsAt(br, used, NextByte, LocalInput) /\ NextByte \in Int /\ used \in Nat
  BY RunningReader DEF Running
<1>2. PICK q \in Nat, r \in 0..(ByteBits - 1) :
        /\ q = GetAvailableBits(br) \div ByteBits /\ r = PadBits(br)
        /\ Len(br.val) = BitLen(q) + r /\ BitLen(q) \in Nat
  BY <1>1, HeldBytes DEF IsAt
<1>3. Len(br.val) = BitLen(q)
  BY <1>2
<1>4. br.next_in \in Nat /\ br.avail_in \in Nat
  BY <1>1, ReaderNumbers
<1>5. used = BitLen(NextByte - q)
  <2>1. BitLen(NextByte - q) = BitLen(NextByte) - BitLen(q)
    <3>1. q \in Int
      OBVIOUS
    <3> QED BY <1>1, <3>1, BitLenSum
  <2>2. BitLen(NextByte) = used + BitLen(q)
    BY <1>1, <1>3 DEF IsAt
  <2> QED BY <1>1, <1>2, <2>1, <2>2
<1>6. used \div ByteBits = NextByte - q
  <2>1. NextByte - q \in Int
    BY <1>1
  <2> QED BY <1>1, <1>5, <2>1, WholeBytesOf
<1>7. GetRemainingBytes(br) = br.avail_in + q
  BY <1>2 DEF GetRemainingBytes
<1>8. offset \in Nat /\ offset < br.avail_in + q
  BY <1>4, <1>7
<1>9. CASE offset < q
  <2>1. PeekByte(br, offset, LocalInput)
          = br.val[offset * ByteBits + 1] \div ByteBits
    BY <1>2, <1>9 DEF PeekByte
  <2>2. /\ BitLen(offset) \in Nat
        /\ BitLen(offset) + ByteBits <= BitLen(q)
    <3>1. offset * ByteBits \in Nat
      BY <1>8, BitLenFacts
    <3>2. offset \in Int /\ q \in Int
      BY <1>8
    <3>3. BitLen(offset) + ByteBits <= BitLen(q)
      BY <1>9, <3>2, BitLenOrder
    <3> QED BY <3>1, <3>3 DEF BitLen
  <2>3. BitLen(offset) + 1 \in 1..Len(br.val)
    BY <1>2, <1>3, <2>2, BitLenFacts
  <2>4. br.val[BitLen(offset) + 1] = used + (BitLen(offset) + 1) - 1
    BY <1>1, <2>3 DEF IsAt
  <2>5. br.val[offset * ByteBits + 1] = used + BitLen(offset)
    BY <1>1, <2>2, <2>4 DEF BitLen
  <2>6. used + BitLen(offset) = BitLen((NextByte - q) + offset)
    <3>1. NextByte - q \in Int /\ offset \in Int
      BY <1>1, <1>8
    <3> QED BY <1>5, <3>1, BitLenSum
  <2>7. (used + BitLen(offset)) \div ByteBits = (NextByte - q) + offset
    <3>1. (NextByte - q) + offset \in Int /\ used + BitLen(offset) \in Nat
      BY <1>1, <1>8, <2>2
    <3> QED BY <2>6, <3>1, WholeBytesOf
  <2> QED BY <1>6, <2>1, <2>5, <2>7
<1>10. CASE ~(offset < q)
  <2>1. offset - q < br.avail_in /\ (offset - q) + 1 \in 1..br.avail_in
    BY <1>4, <1>8, <1>10
  <2>2. PeekByte(br, offset, LocalInput)
          = LocalInput[br.next_in + (offset - q) + 1]
    BY <1>2, <1>10, <2>1 DEF PeekByte
  <2>3. br.next_in + (offset - q) + 1 = br.next_in + ((offset - q) + 1)
    BY <1>4, <1>8
  <2>4. LocalInput[br.next_in + ((offset - q) + 1)]
          = NextByte + ((offset - q) + 1) - 1
    BY <1>1, <2>1 DEF IsAt
  <2> QED BY <1>1, <1>6, <1>8, <2>2, <2>3, <2>4
<1> QED BY <1>9, <1>10

\* However the stream was cut into pieces, the decoder sees its bits in order,
\* none lost and none twice.
THEOREM AlwaysBitsInOrder == Spec => []BitsInOrder
<1>1. Inv => BitsInOrder
  <2> SUFFICES ASSUME Inv PROVE BitsInOrder
    OBVIOUS
  <2>1. ASSUME ~Fatal
        PROVE  \A k \in DOMAIN Upcoming : Upcoming[k] = used + k - 1
    <3>1. Upcoming = br.val \o BitsOf(InInput \o Behind)
      BY DEF Upcoming, InInput, Behind
    <3>2. Consecutive(InInput \o Behind, NextByte)
      BY <2>1, BytesInOrder
    <3>3. /\ br.val \in Seq(Int) /\ used \in Int
          /\ \A k \in 1..Len(br.val) : br.val[k] = used + k - 1
          /\ BitLen(NextByte) = used + Len(br.val)
      BY <2>1 DEF Inv, Types, InOrder, Held, IsReader
    <3>4. NextByte \in Int
      BY RunningNumbers DEF NextByte
    <3> DEFINE bytes == InInput \o Behind
               val == br.val
               p == NextByte
    <3>5. Consecutive(bytes, p) /\ Upcoming = val \o BitsOf(bytes)
      BY <3>1, <3>2
    <3>6. /\ val \in Seq(Int) /\ p \in Int /\ BitLen(p) = used + Len(val)
          /\ \A k \in 1..Len(val) : val[k] = used + k - 1
      BY <3>3, <3>4
    <3> HIDE DEF bytes, val, p
    <3>7. used \in Int
      BY <3>3
    <3>8. Consecutive(val \o BitsOf(bytes), used)
      BY <3>5, <3>6, <3>7, ConsecutiveBits
    <3>9. Consecutive(Upcoming, used)
      BY <3>5, <3>8
    <3> HIDE DEF Upcoming
    <3> QED BY <3>9, LenProperties DEF Consecutive
  <2>2. PeekSeesStream
    BY PeekInOrder
  <2> QED BY <2>1, <2>2 DEF BitsInOrder
<1> QED BY <1>1, InvHolds, PTL

-----------------------------------------------------------------------------
(* The input side implements the abstract stream                           *)

\* The bytes a caller gave hold the bits that were decoded.
UsedWithin == used \in Nat /\ used <= ByteBits * (base + offered)

LEMMA UsedAlwaysWithin == Inv /\ call = "running" => UsedWithin
<1> SUFFICES ASSUME Inv, call = "running" PROVE UsedWithin
  OBVIOUS
<1>1. /\ br.next_in \in Nat /\ br.avail_in \in Nat /\ Held \in Nat
      /\ base \in Nat /\ offered \in Nat /\ input_offset \in Nat
      /\ available_in \in Nat /\ used \in Nat /\ ByteBits \in Nat
  BY RunningNumbers
<1>2. /\ BitLen(NextByte) = used + Held
      /\ input_offset + available_in = offered
  BY DEF Inv, Fatal, InOrder, Types
<1>3. NextByte \in Int /\ NextByte <= base + offered
  <2>1. CASE source = "xinput"
    <3>1. br.next_in + br.avail_in = offered
      BY <2>1 DEF Inv, Fatal, Place, FromPiece
    <3>2. NextByte = base + br.next_in
      BY <2>1 DEF NextByte
    <3> QED BY <1>1, <3>1, <3>2
  <2>2. CASE source # "xinput"
    <3>1. \/ NextByte = (base + input_offset) - 0
          \/ NextByte = (base + input_offset) - br.avail_in
      BY <2>2 DEF NextByte
    <3>2. input_offset <= offered
      BY <1>1, <1>2
    <3> QED BY <1>1, <3>1, <3>2
  <2> QED BY <2>1, <2>2
<1>4. BitLen(NextByte) <= BitLen(base + offered)
  <2>1. base + offered \in Int
    BY <1>1
  <2> QED BY <1>3, <2>1, BitLenOrder
<1>5. BitLen(base + offered) = ByteBits * (base + offered)
  BY <1>1 DEF BitLen
<1>6. PICK i \in Int, j \in Int : i = BitLen(NextByte) /\ j = BitLen(base + offered)
  <2>1. base + offered \in Int
    BY <1>1
  <2> QED BY <1>3, <2>1, BitLenType
<1>7. used <= j
  BY <1>1, <1>2, <1>4, <1>6
<1> QED BY <1>1, <1>5, <1>6, <1>7 DEF UsedWithin

\* The bytes that hold the bits up to one of the last byte.
LEMMA BytesForFacts ==
  ASSUME NEW x \in Int, NEW h \in Nat, h < ByteBits, NEW n \in Nat,
         BitLen(x) = n + h
  PROVE  Source!BytesFor(n) = x
<1> DEFINE y == n + ByteBits - 1
<1>1. ByteBits \in Nat /\ ByteBits > 0
  BY BitLenFacts
<1>2. y \in Nat /\ n + ByteBits - 1 = y
  BY <1>1
<1>3. BitLen(x) <= y /\ y < BitLen(x) + ByteBits
  BY <1>1
<1> HIDE DEF y
<1>4. y \div ByteBits = x
  BY <1>2, <1>3, WholeBytesUnique
<1> QED BY <1>2, <1>4 DEF Source!BytesFor

\* What a step of a call does to the abstract stream: it decodes bits.
LEMMA RunningIsDecode ==
  ASSUME Inv, Inv', call = "running", call' = "running", base' = base,
         offered' = offered, used' >= used
  PROVE  Source!Decode
<1>1. UsedWithin'
  <2>1. (Inv /\ call = "running" => UsedWithin)'
    BY UsedAlwaysWithin, PTL
  <2> QED BY <2>1
<1>2. used' \in Nat /\ used' <= ByteBits * (base + offered)
  BY <1>1 DEF UsedWithin
<1> QED BY <1>2 DEF Source!Decode

\* A call that stops having decoded every bit of the bytes it took.
LEMMA StopIsReturn ==
  ASSUME Inv, Inv', call = "running", call' = "idle", base' = base,
         offered' = offered, used' = used,
         result' \in {"SUCCESS", "NEEDS_MORE_OUTPUT"},
         buffer_length' = 0 \/ br'.avail_in = 0, Held' < ByteBits
  PROVE  Source!ReturnExact
<1>1. /\ Types' /\ InOrder'
  BY DEF Inv, Fatal
<1>2. /\ base \in Nat /\ input_offset' \in Nat /\ used \in Nat /\ Held' \in Nat
  BY <1>1, ReaderTypes DEF Types, Held
<1>3. NextByte' = base + input_offset'
  <2>1. NextByte' = (base + input_offset') - 0
    BY DEF NextByte
  <2> QED BY <1>2, <2>1
<1>4. BitLen(base + input_offset') = used + Held'
  BY <1>1, <1>3 DEF InOrder
<1>5. Source!BytesFor(used) = base + input_offset'
  <2>1. base + input_offset' \in Int
    BY <1>2
  <2> QED BY <1>2, <1>4, <2>1, BytesForFacts
<1>6. base + input_offset' >= base
  <2>1. PICK i \in Nat : i = input_offset'
    BY <1>2
  <2>2. base + i >= base
    BY <1>2
  <2> QED BY <2>1, <2>2
<1> QED BY <1>5, <1>6 DEF Source!ReturnExact

\* A call that fails has taken no more than the piece.
LEMMA FailIsFail ==
  ASSUME Inv', call = "running", call' = "idle", base' = base,
         offered' = offered, used' = used, result' = "ERROR"
  PROVE  Source!Fail
<1>1. /\ base \in Nat /\ input_offset' \in Nat /\ available_in' \in Nat
      /\ offered \in Nat /\ input_offset' + available_in' = offered
  BY DEF Inv, Types
<1>2. base + input_offset' \in base..(base + offered)
  <2>1. PICK i \in Nat, j \in Nat : i = input_offset' /\ j = available_in'
    BY <1>1
  <2>2. i + j = offered
    BY <1>1, <2>1
  <2>3. base + i \in base..(base + offered)
    BY <1>1, <2>2
  <2> QED BY <2>1, <2>3
<1> QED BY <1>2 DEF Source!Fail

\* A call that asks for more has taken the whole piece.
LEMMA TailIsReturn ==
  ASSUME Inv', call = "running", call' = "idle", base' = base,
         offered' = offered, used' = used, result' = "NEEDS_MORE_INPUT",
         available_in' = 0
  PROVE  Source!ReturnForInput
<1>1. /\ base \in Nat /\ input_offset' \in Nat /\ offered \in Nat
      /\ input_offset' + available_in' = offered
  BY DEF Inv, Types
<1>2. base + input_offset' = base + offered
  <2>1. PICK i \in Nat : i = input_offset'
    BY <1>1
  <2>2. i + 0 = offered
    BY <1>1, <2>1
  <2>3. base + i = base + offered
    BY <1>1, <2>2
  <2> QED BY <2>1, <2>3
<1> QED BY <1>2 DEF Source!ReturnForInput

\* A step inside a call decodes bits, or none.
LEMMA ReadIsDecode ==
  ASSUME Inv, Inv', Reads \/ FinishLastMetablock
                    \/ \E n \in CopyLengths : StartCopy(n)
  PROVE  Source!Decode
<1>1. used \in Nat
  BY DEF Inv, Types
<1>2. ASSUME NEW d \in Demands, SafeReads(d) PROVE Source!Decode
  <2>1. /\ call = "running" /\ call' = "running" /\ base' = base
        /\ offered' = offered
        /\ used' = used + Total(d) \/ used' = used
    BY <1>2 DEF SafeReads, Wants, Running, callerVars
  <2>2. used' >= used
    <3>1. Total(d) \in Nat
      BY DemandFacts
    <3> QED BY <1>1, <2>1, <3>1
  <2> QED BY <2>1, <2>2, RunningIsDecode
<1>3. ASSUME NEW d \in Demands, FastReads(d) PROVE Source!Decode
  <2>1. /\ call = "running" /\ call' = "running" /\ base' = base
        /\ offered' = offered /\ used' = used + Total(d)
    BY <1>3 DEF FastReads, Wants, Running, callerVars
  <2>2. used' >= used
    <3>1. Total(d) \in Nat
      BY DemandFacts
    <3> QED BY <1>1, <2>1, <3>1
  <2> QED BY <2>1, <2>2, RunningIsDecode
<1>4. ASSUME NEW n \in 0..copying, CopyRaw(n) PROVE Source!Decode
  <2>1. /\ call = "running" /\ call' = "running" /\ base' = base
        /\ offered' = offered /\ used' = used + n * ByteBits
    BY <1>4 DEF CopyRaw, Running, callerVars
  <2>2. used' >= used
    <3>1. n * ByteBits \in Nat
      <4>1. n \in Nat /\ ByteBits \in Nat
        BY RunningNumbers
      <4> QED BY <4>1
    <3> QED BY <1>1, <2>1, <3>1
  <2> QED BY <2>1, <2>2, RunningIsDecode
<1>5. ASSUME call = "running" PROVE PadBits(br) \in Nat
  BY <1>1, <1>5, RunningReader, JumpFacts
<1>6. ASSUME NEW n \in CopyLengths, StartCopy(n) PROVE Source!Decode
  <2>1. /\ call = "running" /\ call' = "running" /\ base' = base
        /\ offered' = offered /\ used' = used + PadBits(br)
    BY <1>6 DEF StartCopy, Running, callerVars
  <2>2. used' >= used
    BY <1>1, <1>5, <2>1
  <2> QED BY <2>1, <2>2, RunningIsDecode
<1>7. ASSUME FinishLastMetablock PROVE Source!Decode
  <2>1. /\ call = "running" /\ call' = "running" /\ base' = base
        /\ offered' = offered /\ used' = used + PadBits(br)
    BY <1>7 DEF FinishLastMetablock, Running
  <2>2. used' >= used
    BY <1>1, <1>5, <2>1
  <2> QED BY <2>1, <2>2, RunningIsDecode
<1> QED BY <1>2, <1>3, <1>4, <1>6, <1>7 DEF Reads

LEMMA StepIsStep == Inv /\ Inv' /\ [Next]_vars => [Source!Next]_(Source!vars)
<1> SUFFICES ASSUME Inv, Inv', [Next]_vars PROVE [Source!Next]_(Source!vars)
  OBVIOUS
<1>1. CASE Reads \/ FinishLastMetablock
           \/ \E n \in CopyLengths : StartCopy(n)
  BY <1>1, ReadIsDecode DEF Source!Next
<1>2. CASE ReturnSuccess
  <2>1. /\ call = "running" /\ result = "SUCCESS" /\ stage = "DONE"
        /\ call' = "idle" /\ result' = result /\ base' = base /\ br' = br
        /\ offered' = offered /\ used' = used /\ buffer_length' = buffer_length
    BY <1>2 DEF ReturnSuccess, Running, bufferVars, callerVars, wantVars
  <2>2. demand = <<>> /\ Held = 0 /\ Held' = 0 /\ Place
    BY <2>1 DEF Inv, Control, Fatal, Held
  <2>3. buffer_length' = 0 \/ br'.avail_in = 0
    BY <2>1, <2>2 DEF Place, FromPiece, FromBuffer, Waiting, Short, Drained
  <2>4. Held' < ByteBits
    BY <2>2, BitLenFacts
  <2>5. Source!ReturnExact
    BY <2>1, <2>3, <2>4, StopIsReturn
  <2> QED BY <2>5 DEF Source!Next
<1>3. ASSUME NEW r \in {"NEEDS_MORE_OUTPUT", "ERROR"}, Stop(r)
      PROVE  Source!Next
  <2>1. /\ call = "running" /\ result' = r /\ call' = "idle"
        /\ offered' = offered /\ base' = base /\ used' = used
        /\ buffer_length' = 0 /\ demand' = <<>>
    BY <1>3 DEF Stop, Running, wantVars
  <2>2. CASE r = "ERROR"
    BY <2>1, <2>2, FailIsFail DEF Source!Next
  <2>3. CASE r = "NEEDS_MORE_OUTPUT"
    <3>1. NoTail'
      BY <2>1, <2>3 DEF Inv, Fatal, Place
    <3>2. Held' < ByteBits
      BY <2>1, <3>1 DEF NoTail, Owed
    <3>3. Source!ReturnExact
      BY <2>1, <2>3, <3>2, StopIsReturn
    <3> QED BY <3>3 DEF Source!Next
  <2> QED BY <2>2, <2>3
<1>4. CASE FailOutOfInput
  <2>1. /\ call = "running" /\ call' = "idle" /\ result' = "ERROR"
        /\ base' = base /\ offered' = offered /\ used' = used
    BY <1>4 DEF FailOutOfInput, OutOfInput, callerVars, wantVars
  <2> QED BY <2>1, FailIsFail DEF Source!Next
<1>5. CASE ReturnWithTail \/ SaveTail
  <2>1. /\ call = "running" /\ call' = "idle" /\ result' = "NEEDS_MORE_INPUT"
        /\ base' = base /\ offered' = offered /\ used' = used
        /\ available_in' = 0
    BY <1>5 DEF ReturnWithTail, SaveTail, OutOfInput, callerVars, wantVars
  <2> QED BY <2>1, TailIsReturn DEF Source!Next
<1>6. CASE SwitchToInput \/ AddByte
  <2>1. /\ call = "running" /\ call' = "running" /\ base' = base
        /\ offered' = offered /\ used' = used
    BY <1>6 DEF SwitchToInput, AddByte, OutOfInput, callerVars, wantVars
  <2> QED BY <2>1 DEF Source!vars
<1>7. ASSUME NEW n \in Pieces, StreamCall(n) PROVE Source!Next
  <2>1. /\ call = "idle" /\ ~Fatal /\ call' = "running" /\ offered' = n
        /\ base' = base + input_offset /\ used' = used
    BY <1>7 DEF StreamCall, wantVars
  <2>2. result \notin {"RUNNING", "ERROR"} /\ n \in Nat
    BY <2>1, StreamInputConstants DEF Fatal, Inv, Types
  <2>3. Source!Call
    BY <2>1, <2>2 DEF Source!Call
  <2> QED BY <2>3 DEF Source!Next
<1>8. CASE StreamCallAfterError \/ UNCHANGED vars
  <2>1. /\ call' = call /\ base' = base /\ input_offset' = input_offset
        /\ offered' = offered /\ used' = used /\ result' = result
    BY <1>8 DEF StreamCallAfterError, vars, callerVars, wantVars
  <2> QED BY <2>1 DEF Source!vars
<1> QED BY <1>1, <1>2, <1>3, <1>4, <1>5, <1>6, <1>7, <1>8 DEF Next, OuterLoop

LEMMA InitIsInit == Init => Source!Init
<1> SUFFICES ASSUME Init PROVE Source!Init
  OBVIOUS
<1>1. /\ used = 0 /\ base = 0 /\ input_offset = 0 /\ offered = 0
      /\ call = "idle" /\ result = "NO_ERROR"
  BY DEF Init
<1>2. base + input_offset = 0
  BY <1>1
<1> QED BY <1>1, <1>2 DEF Source!Init

\* The input side implements the stream a caller may cut anywhere: a call that
\* asks for more took the whole piece, one that succeeds or wants room took
\* the bytes it decoded bits of and no other.
THEOREM StreamInputImplementsInputStream == Spec => ImplementsInputStream
<1>1. Init => Source!Init
  BY InitIsInit
<1>2. Inv /\ Inv' /\ [Next]_vars => [Source!Next]_(Source!vars)
  BY StepIsStep
<1> QED BY <1>1, <1>2, InvHolds, PTL DEF Spec, ImplementsInputStream, Source!Spec

=============================================================================
