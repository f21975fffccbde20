----------------------------- MODULE BitReader -----------------------------
(***************************************************************************)
(* The bit reader (src/src/bit_reader/mod.rs) as operators on its state, a *)
(* record of the accumulator and of the window [next_in, next_in+avail_in) *)
(* of the input it reads from.                                             *)
(*                                                                         *)
(* A byte of the compressed stream is its number in the stream, a bit is   *)
(* byte * ByteBits + (its place in the byte).  The accumulator `val` is    *)
(* the sequence of unread bits, next bit first: val_ >> bit_pos_ with its  *)
(* 64 - bit_pos_ valid bits.  An input is a sequence of byte numbers.      *)
(***************************************************************************)
EXTENDS Integers, Sequences

CONSTANTS
  ByteBits,   (* 8                                                          *)
  RegBytes    (* size_of::<reg_t>(), 8                                      *)

ASSUME BitReaderConstants == ByteBits \in Nat \ {0} /\ RegBytes = 8

Lesser(a, b) == IF a <= b THEN a ELSE b

BitsOf(bytes) ==
  [k \in 1..(Len(bytes) * ByteBits) |->
     bytes[(k - 1) \div ByteBits + 1] * ByteBits + ((k - 1) % ByteBits)]

InitBitReader == [val |-> <<>>, next_in |-> 0, avail_in |-> 0]

GetAvailableBits(br) == Len(br.val)
GetRemainingBytes(br) == br.avail_in + GetAvailableBits(br) \div ByteBits

\* BrotliPullByte n times; the fills of the fast path pull several at once.
PullBytes(br, n, input) ==
  [val      |-> br.val \o BitsOf(SubSeq(input, br.next_in + 1, br.next_in + n)),
   next_in  |-> br.next_in + n,
   avail_in |-> br.avail_in - n]

DropBits(br, n) == [br EXCEPT !.val = SubSeq(br.val, n + 1, Len(br.val))]

\* BrotliFillBitWindow; the input holds enough bytes.
FillBitWindow(br, n_bits, input) ==
  LET a == GetAvailableBits(br)
  IN  IF n_bits <= ByteBits /\ a <= ByteBits THEN PullBytes(br, 7, input)
      ELSE IF n_bits <= 2 * ByteBits /\ a <= 2 * ByteBits
      THEN PullBytes(br, 6, input)
      ELSE IF a <= 4 * ByteBits THEN PullBytes(br, 4, input)
      ELSE br

\* BrotliSafeGetBits: pulls byte by byte, as many as there are.
SafeGetBits(br, n_bits, input) ==
  LET missing == n_bits - GetAvailableBits(br)
      bytes == (missing + ByteBits - 1) \div ByteBits
  IN  IF missing <= 0 THEN br
      ELSE PullBytes(br, Lesser(bytes, br.avail_in), input)

\* A read of a symbol or of plain bits: `peek` bits are looked at where the
\* input has them, and the first `take` of them are consumed.  The pulled
\* bytes stay pulled when they are too few.  (Mutant: a symbol near the end of
\* the input is only decoded when the whole peek succeeds.)
MutantSymbolNeedsPeek(br, read, input) ==
  LET got == SafeGetBits(br, read.peek, input)
      ok == GetAvailableBits(got) >= read.peek
  IN  [ok |-> ok, br |-> IF ok THEN DropBits(got, read.take) ELSE got]
SafeRead(br, read, input) ==
  LET got == SafeGetBits(br, read.peek, input)
      ok == GetAvailableBits(got) >= read.take
  IN  [ok |-> ok, br |-> IF ok THEN DropBits(got, read.take) ELSE got]

\* The same on the fast path, where the input is known to suffice.
FastRead(br, read, input) ==
  DropBits(FillBitWindow(br, read.peek, input), read.take)

\* BrotliWarmupBitReader, the input not empty.
WarmupBitReader(br, input) ==
  IF br.val = <<>> THEN PullBytes(br, 1, input) ELSE br

\* BrotliBitReaderUnload: whole unread bytes go back to the input.
Unload(br) ==
  LET unused == GetAvailableBits(br) \div ByteBits
  IN  [val |-> SubSeq(br.val, 1, Len(br.val) - unused * ByteBits),
       next_in |-> br.next_in - unused, avail_in |-> br.avail_in + unused]

PadBits(br) == GetAvailableBits(br) % ByteBits
JumpToByteBoundary(br) == DropBits(br, PadBits(br))

\* BrotliCopyBytes: whole bytes of the accumulator first, then of the input.
CopyBytes(br, n) ==
  LET held == Lesser(n, GetAvailableBits(br) \div ByteBits)
      kept == DropBits(br, held * ByteBits)
  IN  [kept EXCEPT !.next_in = @ + (n - held), !.avail_in = @ - (n - held)]

\* BrotliPeekByte at a byte boundary: the byte `offset` places ahead.
PeekByte(br, offset, input) ==
  LET held == GetAvailableBits(br) \div ByteBits
  IN  IF offset < held THEN br.val[offset * ByteBits + 1] \div ByteBits
      ELSE IF offset - held < br.avail_in
      THEN input[br.next_in + (offset - held) + 1]
      ELSE -1
=============================================================================
