--------------------------- MODULE HuffmanTables ---------------------------
(***************************************************************************)
(* The lookup tables of prefix codes: how they are built                   *)
(* (src/src/huffman/mod.rs) and how a symbol is looked up in them          *)
(* (src/src/decode.rs, DecodeSymbol and its variants).                     *)
(*                                                                         *)
(* A table maps indices to entries.  The first 2^RootBits are indexed by   *)
(* the next bits of the stream, the first of them the lowest; the entry of *)
(* a longer code leads to a second table behind them.                      *)
(*                                                                         *)
(* No operator here has a state; what a table should say is CanonicalCode. *)
(***************************************************************************)
EXTENDS Integers, Sequences, FiniteSets

CONSTANTS
  MaxCodeLength,              (* 15                                         *)
  RootBits,                   (* HUFFMAN_TABLE_BITS: 8                      *)
  ReverseBits,                (* BROTLI_REVERSE_BITS_MAX: 8                 *)
  MaxCodeLengthCodeLength     (* 5                                          *)

\* The assertions of BrotliBuildHuffmanTable and of its neighbours; a simple code
\* of four symbols fills eight entries of the root table.
ASSUME HuffmanConstants ==
  /\ {MaxCodeLength, RootBits, ReverseBits, MaxCodeLengthCodeLength} \subseteq Nat
  /\ RootBits \in 3..ReverseBits
  /\ MaxCodeLength - RootBits \in 1..ReverseBits
  /\ MaxCodeLengthCodeLength \in 1..ReverseBits

Entry(bits, value) == [bits |-> bits, value |-> value]

\* f[1] + ... + f[n]
SumTo(f, n) == LET sum[k \in 0..n] == IF k = 0 THEN 0 ELSE sum[k - 1] + f[k] IN sum[n]

-----------------------------------------------------------------------------
(* The meaning of a code                                                   *)

\* The symbols of a code in their order: the shorter first, the lower first.
Precedes(len, a, b) == len[a] < len[b] \/ (len[a] = len[b] /\ a < b)

\* The bits of a stream as the number their order in the stream gives.
InOrder(bits, w) ==
  LET value[k \in 0..w] == IF k = 0 THEN 0 ELSE 2 * value[k - 1] + ((bits \div 2^(k - 1)) % 2)
  IN value[w]

\* What each word of MaxCodeLength bits begins with, in a code that gives its
\* symbols these lengths.
CanonicalCode(len) ==
  LET share(s) == 2^(MaxCodeLength - len[s])
      start[S \in SUBSET DOMAIN len] ==
        IF S = {} THEN 0 ELSE LET s == CHOOSE s \in S : TRUE IN share(s) + start[S \ {s}]
      first == [s \in DOMAIN len |-> start[{r \in DOMAIN len : Precedes(len, r, s)}]]
  IN [bits \in 0..(2^MaxCodeLength - 1) |->
        LET word == InOrder(bits, MaxCodeLength)
            s == CHOOSE s \in DOMAIN len : first[s] <= word /\ word < first[s] + share(s)
        IN Entry(len[s], s)]

-----------------------------------------------------------------------------
(* Building                                                                *)

\* kReverseBits
Reverse(num) == InOrder(num, ReverseBits)

\* The keys of codes with these lengths, one after the other: the k-th is the sum
\* of the steps before it.
Key(lens, k) == SumTo([j \in 1..(k - 1) |-> 2^(ReverseBits - lens[j])], k - 1)

\* The entries of codes, replicated over a table of 2^w entries.
Filled(codes, w) ==
  LET lens == [k \in DOMAIN codes |-> codes[k].bits] IN
  [i \in 0..(2^w - 1) |->
     LET at == {k \in DOMAIN codes : Reverse(Key(lens, k)) = i % 2^codes[k].bits}
     IN IF at = {} THEN Entry(0, 0) ELSE codes[CHOOSE k \in at : TRUE]]

\* The lengths that a histogram of lengths 1..n counts, in ascending order.
Counted(histo, n) ==
  LET up[k \in 0..n] ==
        IF k = 0 THEN <<>> ELSE up[k - 1] \o [j \in 1..histo[k] |-> k]
  IN up[n]

\* BrotliBuildCodeLengthsHuffmanTable.  A symbol is placed by the counts, from the
\* last one of its length down; no place is told apart from place 0.
CodeLengthsTable(code_lengths, histo) ==
  LET symbols == DOMAIN code_lengths
      place(s) == SumTo(histo, code_lengths[s])
                    - Cardinality({r \in symbols : r > s /\ code_lengths[r] = code_lengths[s]})
      at(k) == {s \in symbols : code_lengths[s] # 0 /\ place(s) = k}
      sorted(k) == IF at(k) = {} THEN 0 ELSE CHOOSE s \in at(k) : TRUE
      lens == Counted(histo, MaxCodeLengthCodeLength)
  IN IF Cardinality({s \in symbols : code_lengths[s] # 0}) = 1
     THEN [i \in 0..(2^MaxCodeLengthCodeLength - 1) |-> Entry(0, sorted(1))]
     ELSE Filled([k \in DOMAIN lens |-> Entry(lens[k], sorted(k))], MaxCodeLengthCodeLength)

\* NextTableBitSize, with the counts of the codes that are left.
NextTableBitSize(histo, len) ==
  LET left[l \in len..MaxCodeLength] ==
        IF l = len THEN 2^(len - RootBits) ELSE 2 * (left[l - 1] - histo[l - 1])
      enough == {l \in len..MaxCodeLength : l = MaxCodeLength \/ left[l] - histo[l] <= 0}
  IN (CHOOSE l \in enough : \A k \in enough : l <= k) - RootBits

\* The symbols of one length: the chain that starts at its head.
Chain(lists, len, n) ==
  LET symbol[k \in 0..n] ==
        IF k = 0 THEN len - (MaxCodeLength + 1) ELSE lists[symbol[k - 1]]
  IN [k \in 1..n |-> symbol[k]]

\* The codes of lengths m..n in ascending order, from the chains.
Listed(lists, histo, m, n) ==
  LET up[l \in 0..n] ==
        IF l < m THEN <<>>
        ELSE LET chain == Chain(lists, l, histo[l])
             IN up[l - 1] \o [k \in DOMAIN chain |-> Entry(l, chain[k])]
  IN up[n]

\* One code of a second table is placed: `b` has the table so far, where the
\* current second table starts, its bits, the keys of the root and of the second
\* table, and the counts left.
PlaceCode(b, code) ==
  LET new == b.sub_key = 2^ReverseBits
      width == IF new THEN NextTableBitSize(b.count, code.bits) ELSE b.width
      start == IF new THEN b.start + 2^b.width ELSE b.start
      root == Reverse(b.key)
      sub_key == IF new THEN 0 ELSE b.sub_key
      bits == code.bits - RootBits
      linked == IF new THEN [b.table EXCEPT ![root] = Entry(width + RootBits, start - root)]
                       ELSE b.table
      place == {start + i : i \in {i \in 0..(2^width - 1) : i % 2^bits = Reverse(sub_key)}}
  IN [table |-> [i \in DOMAIN linked \cup place |->
                   IF i \in place THEN Entry(bits, code.value) ELSE linked[i]],
      start |-> start, width |-> width,
      key |-> IF new THEN b.key + 2^(ReverseBits - RootBits) ELSE b.key,
      sub_key |-> sub_key + 2^(ReverseBits - bits),
      count |-> [b.count EXCEPT ![code.bits] = @ - 1],
      size |-> IF new THEN b.size + 2^width ELSE b.size]

\* BrotliBuildHuffmanTable: the entries, and the size it returns.
HuffmanTable(lists, histo) ==
  LET used == {l \in 1..MaxCodeLength : lists[l - (MaxCodeLength + 1)] # 65535}
      max_length == CHOOSE l \in used : \A k \in used : k <= l
      table_bits == IF max_length < RootBits THEN max_length ELSE RootBits
      short == Listed(lists, histo, 1, table_bits)
      long == Listed(lists, histo, RootBits + 1, max_length)
      small == Filled(short, table_bits)
      root == [i \in 0..(2^RootBits - 1) |-> small[i % 2^table_bits]]
      key == SumTo([k \in DOMAIN short |-> 2^(ReverseBits - short[k].bits)], Len(short))
      placed[k \in 0..Len(long)] ==
        IF k = 0 THEN [table |-> root, start |-> 0, width |-> RootBits, key |-> key,
                       sub_key |-> 2^ReverseBits, count |-> histo, size |-> 2^RootBits]
        ELSE PlaceCode(placed[k - 1], long[k])
      last == placed[IF max_length > RootBits THEN Len(long) ELSE 0]
  IN [table |-> last.table, size |-> last.size]

Lower(a, b) == IF b > a THEN a ELSE b
Higher(a, b) == IF b > a THEN b ELSE a

\* The values in ascending order: BrotliBuildSimpleHuffmanTable sorts at most four.
Ascending(v) ==
  LET before(i, j) == v[j] < v[i] \/ (v[j] = v[i] /\ j < i)
  IN [k \in DOMAIN v |->
        v[CHOOSE i \in DOMAIN v : Cardinality({j \in DOMAIN v : before(i, j)}) = k - 1]]

\* BrotliBuildSimpleHuffmanTable; `n` is 4 for the second code of four symbols.
SimpleTable(val, n) ==
  LET sorted == Ascending(val)
      low == Lower(val[Len(val) - 1], val[Len(val)])
      high == Higher(val[Len(val) - 1], val[Len(val)])
      entries ==
        CASE n = 0 -> <<Entry(0, val[1])>>
          [] n = 1 -> <<Entry(1, low), Entry(1, high)>>
          [] n = 2 -> <<Entry(1, val[1]), Entry(2, low), Entry(1, val[1]), Entry(2, high)>>
          [] n = 3 -> <<Entry(2, sorted[1]), Entry(2, sorted[3]),
                        Entry(2, sorted[2]), Entry(2, sorted[4])>>
          [] n = 4 -> <<Entry(1, val[1]), Entry(2, val[2]), Entry(1, val[1]), Entry(3, low),
                        Entry(1, val[1]), Entry(2, val[2]), Entry(1, val[1]), Entry(3, high)>>
  IN [table |-> [i \in 0..(2^RootBits - 1) |-> entries[(i % Len(entries)) + 1]],
      size |-> 2^RootBits]

-----------------------------------------------------------------------------
(* Looking up.  The result of each is the symbol and the bits dropped.     *)

Decoded(bits, value) == Entry(bits, value)
Missing == Entry(-1, 0)

\* DecodeSymbol: at least MaxCodeLength bits are there.
DecodeSymbol(table, bits) ==
  LET root == table[bits % 2^RootBits] IN
  IF root.bits > RootBits
  THEN LET sub == table[(bits % 2^RootBits) + root.value
                          + ((bits \div 2^RootBits) % 2^(root.bits - RootBits))]
       IN Decoded(RootBits + sub.bits, sub.value)
  ELSE Decoded(root.bits, root.value)

\* PreloadSymbol and ReadPreloadedSymbol: the root entry was looked up before.
ReadPreloadedSymbol(table, preloaded, bits) ==
  IF preloaded.bits > RootBits
  THEN LET sub == table[(bits % 2^RootBits) + preloaded.value
                          + ((bits \div 2^RootBits) % 2^(preloaded.bits - RootBits))]
       IN Decoded(RootBits + sub.bits, sub.value)
  ELSE Decoded(preloaded.bits, preloaded.value)

\* SafeDecodeSymbol: only the lowest `available` bits of val are there, and the
\* others are zero.  (Mutant: the table that follows is consulted unasked.)
MutantNoSecondCheck(table, val, available) ==
  LET i == val % 2^RootBits
      root == table[i]
      rest == (val % 2^root.bits) \div 2^RootBits
      sub == table[i + root.value + rest]
  IN IF root.bits <= RootBits
     THEN IF root.bits <= available THEN Decoded(root.bits, root.value) ELSE Missing
     ELSE IF available <= RootBits THEN Missing
     ELSE Decoded(RootBits + sub.bits, sub.value)
SafeDecodeSymbol(table, val, available) ==
  LET i == val % 2^RootBits
      root == table[i]
      rest == (val % 2^root.bits) \div 2^RootBits
      sub == table[i + root.value + rest]
  IN IF available = 0
     THEN IF table[0].bits = 0 THEN Decoded(0, table[0].value) ELSE Missing
     ELSE IF root.bits <= RootBits
     THEN IF root.bits <= available THEN Decoded(root.bits, root.value) ELSE Missing
     ELSE IF available <= RootBits \/ available - RootBits < sub.bits THEN Missing
     ELSE Decoded(RootBits + sub.bits, sub.value)
=============================================================================
