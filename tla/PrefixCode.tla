----------------------------- MODULE PrefixCode -----------------------------
(***************************************************************************)
(* Reading the description of one prefix code (src/src/decode.rs,          *)
(* ReadHuffmanCode): its kind; the symbols of a simple code; or the code   *)
(* for the code lengths, and in that code the lengths of the symbols.      *)
(*                                                                         *)
(* The input may end in front of every field.  The loops run on local      *)
(* copies of fields of the state, which are saved, or are not, on the way  *)
(* out; the loop over the code lengths has a fast variant, on copies, and  *)
(* a safe one, on the state, and may change from one to the other in the   *)
(* middle of a code.  The callers are in MetablockTables.                  *)
(***************************************************************************)
EXTENDS HuffmanTables

CONSTANTS
  kCodeLengthCodeOrder,       (* a permutation of CodeLengthCodes           *)
  kDefaultCodeLength,         (* 8                                          *)
  RepeatBits, ZeroBits,       (* extra bits of the repeats: 2, and 3        *)
  MaxAlphabet,                (* 704                                        *)
  SpaceModulus                (* 2^32, the width of `space`                 *)

Lengths == 0..MaxCodeLength
CodeLengthCodes == 0..(MaxCodeLength + 2)
kCodeLengthRepeatCode == MaxCodeLength + 1
Heads == MaxCodeLength + 1

ASSUME PrefixCodeConstants ==
  /\ Len(kCodeLengthCodeOrder) = MaxCodeLength + 3
  /\ {kCodeLengthCodeOrder[k] : k \in 1..(MaxCodeLength + 3)} = CodeLengthCodes
  /\ kDefaultCodeLength \in 1..MaxCodeLength
  /\ {RepeatBits, ZeroBits, MaxAlphabet} \subseteq Nat \ {0}
  /\ SpaceModulus \in Nat /\ SpaceModulus > 1048575

VARIABLES
  running,                    (* a call is in the state machine             *)
  error,                      (* the error it ended with, or "none"         *)
  substate_huffman,
  loop,                       (* the loop the call is in, or "none"         *)
  saved,                      (* the fields of the state the loops copy     *)
  local,                      (* the copies of the loop                     *)
  symbols_lists,              (* symbols_lists_array; index 0 is the first  *)
  next_symbol,                (*   one behind the heads                     *)
  code_length_histo,
  code_length_code_lengths,
  table,                      (* of the code for code lengths               *)
  said_codes, said            (* history: the fields of this code           *)

listVars == <<symbols_lists, next_symbol, code_length_histo>>
codeVars == <<substate_huffman, loop, saved, local, listVars,
              code_length_code_lengths, table, said_codes, said>>
callVars == <<running, error>>

NoCopies == [sub_loop_counter |-> 0, symbol |-> 0, repeat |-> 0, space |-> 0,
             prev_code_len |-> 0, repeat_code_len |-> 0]
NoCounts == [l \in Lengths |-> 0]

CodeInit ==
  /\ substate_huffman = "NONE" /\ loop = "none"
  /\ saved = NoCopies /\ local = NoCopies
  /\ symbols_lists = [k \in (-Heads)..(MaxAlphabet - 1) |-> 0]
  /\ next_symbol = NoCounts
  /\ code_length_histo = NoCounts
  /\ code_length_code_lengths = [c \in CodeLengthCodes |-> 0]
  /\ table = [i \in 0..(2^MaxCodeLengthCodeLength - 1) |-> Entry(0, 0)]
  /\ said_codes = <<>> /\ said = <<>>

-----------------------------------------------------------------------------
(* Interruptions                                                           *)

At(s) == running /\ error = "none" /\ substate_huffman = s

Fail(e) == error' = e /\ running' = FALSE
Goes == UNCHANGED callVars

\* A call enters a loop with copies of the state.
Enter(s, l) ==
  /\ At(s) /\ loop = "none" /\ loop' = l /\ Goes
  /\ local' = IF l = "safe" THEN NoCopies ELSE saved
  /\ UNCHANGED <<substate_huffman, saved, listVars, code_length_code_lengths, table,
                 said_codes, said>>

\* Without the bytes to warm up with, the fast loop is not entered.
EnterLoop ==
  \/ Enter("SIMPLE_READ", "simple")
  \/ Enter("COMPLEX", "codes")
  \/ \E l \in {"fast", "safe"} : Enter("LENGTH_SYMBOLS", l)

\* A call that finds a field missing returns, and saves some of its copies.  The
\* safe loop has none; outside of the loops there is nothing to save.
SavesCounter == [saved EXCEPT !.sub_loop_counter = local.sub_loop_counter]
SavesCodes == [SavesCounter EXCEPT !.repeat = local.repeat, !.space = local.space]
\* (Mutant: what the last repeat repeated is not saved.)
MutantForgetsRepeat == [local EXCEPT !.repeat_code_len = saved.repeat_code_len]
SavesLengths == [local EXCEPT !.sub_loop_counter = saved.sub_loop_counter]

Leave(with) ==
  /\ saved' = with /\ local' = NoCopies
  /\ UNCHANGED <<substate_huffman, listVars, code_length_code_lengths, table,
                 said_codes, said>>

CodesEnd(r) ==
  \/ r.sub_loop_counter = Len(kCodeLengthCodeOrder)
  \/ (r.space - 1) % SpaceModulus >= 2^MaxCodeLengthCodeLength
LengthsEnd(r, max) == r.symbol >= max \/ r.space = 0

\* A code for code lengths with a single symbol takes no bits.
LengthNeedsBits ==
  \E i \in DOMAIN table : table[i].bits > 0 \/ table[i].value >= kCodeLengthRepeatCode

MissCodeField(max) ==
  /\ running /\ error = "none" /\ running' = FALSE /\ UNCHANGED error /\ loop' = "none"
  /\ \/ substate_huffman \in {"NONE", "SIMPLE_SIZE"} /\ Leave(saved)
     \/ substate_huffman = "SIMPLE_BUILD" /\ saved.symbol = 3 /\ Leave(saved)
     \/ loop = "simple" /\ local.sub_loop_counter <= saved.symbol /\ Leave(SavesCounter)
     \/ loop = "codes" /\ ~CodesEnd(local) /\ Leave(SavesCodes)
     \/ loop = "safe" /\ ~LengthsEnd(saved, max) /\ LengthNeedsBits /\ Leave(saved)

\* The fast loop is left for the safe one when few bytes are left.
RunsShort(max) ==
  /\ loop = "fast" /\ ~LengthsEnd(local, max) /\ running /\ error = "none"
  /\ loop' = "safe" /\ Goes /\ Leave(SavesLengths)

-----------------------------------------------------------------------------
(* Simple codes                                                            *)

\* The kind: 1 is a simple code; any other one is the number of code lengths that
\* are skipped.
ReadKind(k) ==
  /\ At("NONE") /\ Goes
  /\ IF k = 1
     THEN /\ substate_huffman' = "SIMPLE_SIZE"
          /\ saved' = [saved EXCEPT !.sub_loop_counter = k]
          /\ UNCHANGED <<code_length_histo, code_length_code_lengths, said_codes>>
     ELSE /\ substate_huffman' = "COMPLEX"
          /\ saved' = [saved EXCEPT !.sub_loop_counter = k, !.repeat = 0,
                                    !.space = 2^MaxCodeLengthCodeLength]
          /\ code_length_histo' = [l \in Lengths |->
               IF l <= MaxCodeLengthCodeLength THEN 0 ELSE code_length_histo[l]]
          /\ code_length_code_lengths' = [c \in CodeLengthCodes |-> 0]
          /\ said_codes' = <<k>>
  /\ UNCHANGED <<loop, local, symbols_lists, next_symbol, table, said>>

ReadSimpleSize(n) ==
  /\ At("SIMPLE_SIZE") /\ substate_huffman' = "SIMPLE_READ" /\ Goes
  /\ saved' = [saved EXCEPT !.symbol = n, !.sub_loop_counter = 0]
  /\ UNCHANGED <<loop, local, listVars, code_length_code_lengths, table, said_codes, said>>

Log2Floor(x) == CHOOSE n \in 0..x : x < 2^n /\ (n = 0 \/ 2^(n - 1) <= x)

\* A symbol of a simple code: the list is written from its first index, which is
\* that of the first head.
ReadSimpleSymbol(v, max) ==
  /\ At("SIMPLE_READ") /\ loop = "simple" /\ local.sub_loop_counter <= saved.symbol
  /\ said' = Append(said, v)
  /\ IF v >= max
     THEN /\ Fail("SIMPLE_HUFFMAN_ALPHABET")
          /\ UNCHANGED <<local, symbols_lists>>
     ELSE /\ symbols_lists' = [symbols_lists EXCEPT ![local.sub_loop_counter - Heads] = v]
          /\ local' = [local EXCEPT !.sub_loop_counter = @ + 1]
          /\ Goes
  /\ UNCHANGED <<substate_huffman, loop, saved, next_symbol, code_length_histo,
                 code_length_code_lengths, table, said_codes>>

Simple(n) == [k \in 1..n |-> symbols_lists[k - 1 - Heads]]

SimpleSymbolsRead ==
  /\ At("SIMPLE_READ") /\ loop = "simple" /\ local.sub_loop_counter > saved.symbol
  /\ IF \E j, k \in 1..(saved.symbol + 1) :
          j < k /\ Simple(saved.symbol + 1)[j] = Simple(saved.symbol + 1)[k]
     THEN /\ Fail("SIMPLE_HUFFMAN_SAME")
          /\ UNCHANGED <<substate_huffman, loop, local>>
     ELSE substate_huffman' = "SIMPLE_BUILD" /\ loop' = "none" /\ local' = NoCopies /\ Goes
  /\ UNCHANGED <<saved, listVars, code_length_code_lengths, table, said_codes, said>>

\* The second code of four symbols has a bit of its own.
SimpleBits == IF saved.symbol = 3 THEN 0..1 ELSE {0}
BuildSimple(b) ==
  /\ At("SIMPLE_BUILD") /\ substate_huffman' = "NONE" /\ Goes
  /\ saved' = [saved EXCEPT !.symbol = @ + b]
  /\ said_codes' = <<>> /\ said' = <<>>
  /\ UNCHANGED <<loop, local, listVars, code_length_code_lengths, table>>
BuiltSimple(b) == SimpleTable(Simple(saved.symbol + 1), saved.symbol + b)

-----------------------------------------------------------------------------
(* The code for the code lengths                                           *)

ReadCodeLengthCodeLength(v) ==
  /\ At("COMPLEX") /\ loop = "codes" /\ ~CodesEnd(local)
  /\ code_length_code_lengths' = [code_length_code_lengths EXCEPT
       ![kCodeLengthCodeOrder[local.sub_loop_counter + 1]] = v]
  /\ code_length_histo' = IF v = 0 THEN code_length_histo
                          ELSE [code_length_histo EXCEPT ![v] = @ + 1]
  /\ local' = [local EXCEPT
       !.sub_loop_counter = @ + 1,
       !.repeat = IF v = 0 THEN @ ELSE @ + 1,
       !.space = IF v = 0 THEN @ ELSE (@ - 2^(MaxCodeLengthCodeLength - v)) % SpaceModulus]
  /\ said_codes' = Append(said_codes, v)
  /\ Goes
  /\ UNCHANGED <<substate_huffman, loop, saved, symbols_lists, next_symbol, table, said>>

CodeLengthsRefused ==
  /\ At("COMPLEX") /\ loop = "codes" /\ CodesEnd(local)
  /\ local.repeat # 1 /\ local.space # 0
  /\ Fail("CL_SPACE")
  /\ UNCHANGED codeVars

\* The state for the lengths of the symbols starts afresh.
FreshLists == [k \in DOMAIN symbols_lists |-> IF k < 0 THEN 65535 ELSE symbols_lists[k]]
CodeLengthsRead ==
  /\ At("COMPLEX") /\ loop = "codes" /\ CodesEnd(local)
  /\ local.repeat = 1 \/ local.space = 0
  /\ table' = CodeLengthsTable(code_length_code_lengths, code_length_histo)
  /\ code_length_histo' = NoCounts
  /\ next_symbol' = [l \in Lengths |-> l - Heads]
  /\ symbols_lists' = FreshLists
  /\ saved' = [saved EXCEPT !.symbol = 0, !.prev_code_len = kDefaultCodeLength,
                            !.repeat = 0, !.repeat_code_len = 0,
                            !.space = 2^MaxCodeLength]
  /\ substate_huffman' = "LENGTH_SYMBOLS" /\ loop' = "none" /\ local' = NoCopies
  /\ Goes
  /\ UNCHANGED <<code_length_code_lengths, said_codes, said>>

-----------------------------------------------------------------------------
(* The lengths of the symbols                                              *)

\* ProcessSingleCodeLength on the copies or on the state.
Single(r, len) ==
  IF len = 0 THEN [r EXCEPT !.repeat = 0, !.symbol = @ + 1]
  ELSE [r EXCEPT !.repeat = 0, !.symbol = @ + 1, !.prev_code_len = len,
                 !.space = (@ - 2^(MaxCodeLength - len)) % SpaceModulus]

\* ProcessRepeatedCodeLength: a repeat of the same length extends the one before.
RepeatedLength(r, code) == IF code = kCodeLengthRepeatCode THEN r.prev_code_len ELSE 0
ExtraBits(code) == IF code = kCodeLengthRepeatCode THEN RepeatBits ELSE ZeroBits
OldRepeat(r, code) == IF r.repeat_code_len = RepeatedLength(r, code) THEN r.repeat ELSE 0
NewRepeat(r, code, delta) ==
  LET old == OldRepeat(r, code)
  IN (IF old > 0 THEN (old - 2) * 2^ExtraBits(code) ELSE 0) + delta + 3
Repeats(r, code, delta) == NewRepeat(r, code, delta) - OldRepeat(r, code)
Repeated(r, code, delta, max) ==
  LET len == RepeatedLength(r, code)
      n == Repeats(r, code, delta)
      q == [r EXCEPT !.repeat = NewRepeat(r, code, delta), !.repeat_code_len = len]
  IN IF r.symbol + n > max THEN [q EXCEPT !.symbol = max, !.space = 1048575]
     ELSE IF len = 0 THEN [q EXCEPT !.symbol = @ + n]
     ELSE [q EXCEPT !.symbol = @ + n,
                    !.space = (@ - n * 2^(MaxCodeLength - len)) % SpaceModulus]

\* n symbols from `from` on join the chain of a length.
Chained(len, from, n) ==
  IF len = 0 \/ n = 0 THEN UNCHANGED listVars
  ELSE /\ symbols_lists' = [k \in DOMAIN symbols_lists |->
            IF k = next_symbol[len] THEN from
            ELSE IF k \in from..(from + n - 2) THEN k + 1 ELSE symbols_lists[k]]
       /\ next_symbol' = [next_symbol EXCEPT ![len] = from + n - 1]
       /\ code_length_histo' = [code_length_histo EXCEPT ![len] = @ + n]

\* What the two loops do with a symbol of the code for code lengths.
Processed(r, code, delta, max) ==
  IF code < kCodeLengthRepeatCode THEN Single(r, code) ELSE Repeated(r, code, delta, max)
Joins(r, code, delta, max) ==
  IF code < kCodeLengthRepeatCode THEN Chained(code, r.symbol, 1)
  ELSE LET n == Repeats(r, code, delta)
       IN Chained(RepeatedLength(r, code), r.symbol, IF r.symbol + n > max THEN 0 ELSE n)

LengthCodes == {table[i].value : i \in DOMAIN table}
Deltas(code) == IF code < kCodeLengthRepeatCode THEN {0} ELSE 0..(2^ExtraBits(code) - 1)

ReadLengthFast(code, delta, max) ==
  /\ At("LENGTH_SYMBOLS") /\ loop = "fast" /\ ~LengthsEnd(local, max) /\ Goes
  /\ local' = Processed(local, code, delta, max)
  /\ Joins(local, code, delta, max)
  /\ said' = Append(said, <<code, delta>>)
  /\ UNCHANGED <<substate_huffman, loop, saved, code_length_code_lengths, table, said_codes>>

ReadLengthSafe(code, delta, max) ==
  /\ At("LENGTH_SYMBOLS") /\ loop = "safe" /\ ~LengthsEnd(saved, max) /\ Goes
  /\ saved' = Processed(saved, code, delta, max)
  /\ Joins(saved, code, delta, max)
  /\ said' = Append(said, <<code, delta>>)
  /\ UNCHANGED <<substate_huffman, loop, local, code_length_code_lengths, table, said_codes>>

\* At its end the fast loop saves only the space.
Ended(max) ==
  \/ loop = "fast" /\ LengthsEnd(local, max)
  \/ loop = "safe" /\ LengthsEnd(saved, max)
SpaceLeft == IF loop = "fast" THEN local.space ELSE saved.space

LengthsRefused(max) ==
  /\ At("LENGTH_SYMBOLS") /\ Ended(max) /\ SpaceLeft # 0
  /\ Fail("HUFFMAN_SPACE")
  /\ UNCHANGED codeVars

\* The histogram is used up for the codes of the second tables.
LengthsRead(max) ==
  /\ At("LENGTH_SYMBOLS") /\ Ended(max) /\ SpaceLeft = 0
  /\ saved' = [saved EXCEPT !.space = 0]
  /\ code_length_histo' = [l \in Lengths |-> IF l > RootBits THEN 0 ELSE code_length_histo[l]]
  /\ substate_huffman' = "NONE" /\ loop' = "none" /\ local' = NoCopies
  /\ said_codes' = <<>> /\ said' = <<>>
  /\ Goes
  /\ UNCHANGED <<symbols_lists, next_symbol, code_length_code_lengths, table>>
BuiltComplex == HuffmanTable(symbols_lists, code_length_histo)

\* The steps of ReadHuffmanCode, for an alphabet and the symbols allowed in it, but
\* for the two that end it with a table.
CodeStep(alphabet, max) ==
  \/ EnterLoop
  \/ \E k \in 0..3 : ReadKind(k) \/ ReadSimpleSize(k)
  \/ \E v \in 0..(2^Log2Floor(alphabet - 1) - 1) : ReadSimpleSymbol(v, max)
  \/ SimpleSymbolsRead
  \/ \E v \in 0..MaxCodeLengthCodeLength : ReadCodeLengthCodeLength(v)
  \/ CodeLengthsRefused
  \/ CodeLengthsRead
  \/ RunsShort(max)
  \/ \E code \in LengthCodes : \E delta \in Deltas(code) :
       ReadLengthFast(code, delta, max) \/ ReadLengthSafe(code, delta, max)
  \/ LengthsRefused(max)
  \/ MissCodeField(max)

-----------------------------------------------------------------------------
(* What the fields say, taken at once                                      *)

\* The first of the repeats of one kind that the k-th field ends.
RunStart(k) ==
  CHOOSE j \in 1..k :
    /\ \A m \in j..k : said[m][1] = said[k][1]
    /\ j = 1 \/ said[j - 1][1] # said[k][1]

\* What a run of repeats is worth: each one widens what is before it.
RunWorth(j, k) ==
  LET worth[m \in j..k] ==
        said[m][2] + 3 + IF m = j THEN 0 ELSE (worth[m - 1] - 2) * 2^ExtraBits(said[m][1])
  IN worth[k]

\* The last length but 0 that is given in front of field j.
LastGiven(j) ==
  LET given == {m \in 1..(j - 1) : said[m][1] \in 1..MaxCodeLength}
  IN IF given = {} THEN kDefaultCodeLength
     ELSE said[CHOOSE m \in given : \A n \in given : n <= m][1]

\* The lengths that the fields read so far give to the first symbols.
SaidLengths ==
  LET upto[k \in 0..Len(said)] ==
        IF k = 0 THEN <<>>
        ELSE IF said[k][1] < kCodeLengthRepeatCode THEN Append(upto[k - 1], said[k][1])
        ELSE LET j == RunStart(k)
                 len == IF said[k][1] = kCodeLengthRepeatCode THEN LastGiven(j) ELSE 0
             IN upto[j - 1] \o [n \in 1..RunWorth(j, k) |-> len]
  IN upto[Len(said)]

\* What lengths leave of the space of words.
Left(lens) ==
  2^MaxCodeLength
    - SumTo([s \in DOMAIN lens |-> IF lens[s] = 0 THEN 0 ELSE 2^(MaxCodeLength - lens[s])],
            Len(lens))
With(lens, l) == {s \in DOMAIN lens : lens[s] = l}

\* The code of these lengths: symbols count from 0.
CodeOf(lens) == [s \in {s - 1 : s \in DOMAIN lens \ With(lens, 0)} |-> lens[s + 1]]

\* The code that n symbols of a simple code stand for.
SimpleLengths(n, b) ==
  CASE n = 1 -> <<0>>
    [] n = 2 -> <<1, 1>>
    [] n = 3 -> <<1, 2, 2>>
    [] n = 4 /\ b = 0 -> <<2, 2, 2, 2>>
    [] n = 4 /\ b = 1 -> <<1, 2, 3, 3>>
SimpleCodeOf(b) ==
  [v \in {said[k] : k \in DOMAIN said} |->
     SimpleLengths(Len(said), b)[CHOOSE k \in DOMAIN said : said[k] = v]]

-----------------------------------------------------------------------------
(* Properties                                                              *)

Copies == IF loop \in {"fast", "codes", "simple"} THEN local ELSE saved

\* In the code for code lengths, each length is that of the symbol the order and the
\* skip give it to, and the number of codes and the space are those of the lengths.
CodesAsSaid ==
  substate_huffman = "COMPLEX" =>
    LET given == Tail(said_codes)
        used == {k \in DOMAIN given : given[k] # 0}
        at(c) == {k \in DOMAIN given : kCodeLengthCodeOrder[said_codes[1] + k] = c}
    IN /\ Copies.sub_loop_counter = said_codes[1] + Len(given)
       /\ Copies.repeat = Cardinality(used)
       /\ Copies.space = (2^MaxCodeLengthCodeLength
            - SumTo([k \in DOMAIN given |->
                       IF given[k] = 0 THEN 0 ELSE 2^(MaxCodeLengthCodeLength - given[k])],
                    Len(given))) % SpaceModulus
       /\ \A c \in CodeLengthCodes :
            code_length_code_lengths[c] = IF at(c) = {} THEN 0
                                          ELSE given[CHOOSE k \in at(c) : TRUE]

\* The symbols, the space, the chains and the counts are those of the lengths that
\* the fields describe, however the call or the loop was interrupted.
LengthsAsSaidFor(max) ==
  substate_huffman = "LENGTH_SYMBOLS" =>
    LET lens == SaidLengths IN
    IF Len(lens) > max THEN Copies.symbol = max /\ Copies.space = 1048575
    ELSE /\ Copies.symbol = Len(lens)
         /\ Copies.space = Left(lens) % SpaceModulus
         /\ \A l \in 1..MaxCodeLength :
              LET chain == Chain(symbols_lists, l, code_length_histo[l]) IN
              /\ code_length_histo[l] = Cardinality(With(lens, l))
              /\ {chain[k] : k \in DOMAIN chain} = {s - 1 : s \in With(lens, l)}
              /\ \A j, k \in DOMAIN chain : j < k => chain[j] < chain[k]
=============================================================================
