---------------------------- MODULE InputStream ----------------------------
(***************************************************************************)
(* What the input side promises to the callers of BrotliDecompressStream   *)
(* (src/c/brotli/decode.h): the compressed stream may be cut into pieces   *)
(* anywhere, and the caller always knows how much of a piece was taken.    *)
(* No bit reader, no internal buffer.                                      *)
(***************************************************************************)
EXTENDS Integers

CONSTANT ByteBits

VARIABLES
  used,      (* number of bits of the stream decoded so far                 *)
  taken,     (* number of bytes taken from the caller, as of the last return*)
  offered,   (* number of bytes in the piece of the current or last call    *)
  outcome    (* what the last call returned, "RUNNING" inside a call        *)

vars == <<used, taken, offered, outcome>>

Init == used = 0 /\ taken = 0 /\ offered = 0 /\ outcome = "NO_ERROR"

Call ==
  /\ outcome \notin {"RUNNING", "ERROR"}
  /\ outcome' = "RUNNING"
  /\ offered' \in Nat
  /\ UNCHANGED <<used, taken>>

\* Only bits of bytes the caller gave are decoded.
Decode ==
  /\ outcome = "RUNNING"
  /\ used' \in Nat /\ used' >= used
  /\ used' <= ByteBits * (taken + offered)
  /\ UNCHANGED <<taken, offered, outcome>>

\* The smallest number of bytes that hold n bits.
BytesFor(n) == (n + ByteBits - 1) \div ByteBits

\* A call that wants more input took the whole piece; one that succeeded or
\* wants more room took exactly the bytes it decoded bits of.
ReturnForInput ==
  /\ outcome = "RUNNING"
  /\ outcome' = "NEEDS_MORE_INPUT"
  /\ taken' = taken + offered
  /\ UNCHANGED <<used, offered>>

ReturnExact ==
  /\ outcome = "RUNNING"
  /\ outcome' \in {"SUCCESS", "NEEDS_MORE_OUTPUT"}
  /\ BytesFor(used) >= taken
  /\ taken' = BytesFor(used)
  /\ UNCHANGED <<used, offered>>

Fail ==
  /\ outcome = "RUNNING"
  /\ outcome' = "ERROR"
  /\ taken' \in taken..(taken + offered)
  /\ UNCHANGED <<used, offered>>

Next == Call \/ Decode \/ ReturnForInput \/ ReturnExact \/ Fail

Spec == Init /\ [][Next]_vars
=============================================================================
