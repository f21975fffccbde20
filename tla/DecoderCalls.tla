---------------------------- MODULE DecoderCalls ----------------------------
(***************************************************************************)
(* One call of BrotliDecompressStream as its callers in reader.rs,         *)
(* writer.rs and lib.rs see it: what RingBuffer and StreamInput do, in the *)
(* terms of OutputStream and InputStream only.                             *)
(*                                                                         *)
(* A compressed stream s is [yields, bad]: its first k bytes decode to     *)
(* s.yields[k] bytes; a bad stream turns out to be invalid at its end.     *)
(* Compressed and decoded bytes are numbered 0, 1, 2 ...                   *)
(***************************************************************************)
EXTENDS Integers, Sequences

Results ==
  {"NeedsMoreInput", "NeedsMoreOutput", "ResultSuccess", "ResultFailure"}

Size(s) == Len(s.yields)
Decodable(s, k) == IF k = 0 THEN 0 ELSE s.yields[k]
Total(s) == Decodable(s, Size(s))

IsStream(s) ==
  /\ s.yields \in Seq(Nat) /\ s.yields # <<>>
  /\ \A j, k \in DOMAIN s.yields : j <= k => s.yields[j] <= s.yields[k]
  /\ s.bad \in BOOLEAN

\* A decoder that was fed so many bytes and gave so many.
Fresh == [fed |-> 0, given |-> 0, failed |-> FALSE]

Complete(s, d) == ~s.bad /\ d.fed = Size(s) /\ d.given = Total(s)

\* What is known of a decoder between two calls: it took no more of the stream
\* than there is, and can give what it has not given yet.
IsDecoder(s, d) ==
  /\ d \in [fed : Nat, given : Nat, failed : BOOLEAN]
  /\ d.fed <= Size(s)
  /\ d.given <= Decodable(s, d.fed)

\* How a call on n bytes of input with room for r bytes of output may end.
Answers(s, d, n, r) ==
  IF d.failed
  THEN {[took |-> 0, wrote |-> 0, result |-> "ResultFailure"]}
  ELSE {a \in [took : 0..n, wrote : 0..r, result : Results] :
          LET fed == d.fed + a.took
              ready == Decodable(s, fed) - d.given
          IN  /\ fed <= Size(s)
              /\ a.wrote <= ready
              /\ CASE a.result = "NeedsMoreInput" ->
                        a.took = n /\ fed < Size(s) /\ a.wrote \in {ready, r}
                   [] a.result = "NeedsMoreOutput" ->
                        a.wrote = r /\ a.wrote < ready
                   [] a.result = "ResultSuccess" ->
                        ~s.bad /\ fed = Size(s) /\ a.wrote = ready
                   [] a.result = "ResultFailure" ->
                        s.bad /\ fed = Size(s)}

After(d, a) == [fed |-> d.fed + a.took,
                given |-> d.given + a.wrote,
                failed |-> a.result = "ResultFailure"]

\* The bytes the call puts into the output.
Output(d, a) == [k \in 1..a.wrote |-> d.given + k - 1]

\* The first n decoded bytes.
Decoded(n) == [k \in 1..n |-> k - 1]

NoneYet == [kind |-> "none", n |-> 0]
Ok(n) == [kind |-> "ok", n |-> n]
Err(what) == [kind |-> what, n |-> 0]
=============================================================================
