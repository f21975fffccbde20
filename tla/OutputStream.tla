---------------------------- MODULE OutputStream ----------------------------
(***************************************************************************)
(* What the output side promises to the callers of BrotliDecompressStream  *)
(* and BrotliDecoderTakeOutput (src/c/brotli/decode.h): a queue of decoded *)
(* bytes, numbered 0, 1, 2 ..., handed out in order.  No ring, no window.  *)
(***************************************************************************)
EXTENDS Integers, Sequences

VARIABLES
  decoded,     (* number of bytes decoded so far                            *)
  delivered,   (* the bytes the caller has, in the order it got them        *)
  room,        (* what is left of the caller's output buffer                *)
  outcome      (* what the last call returned, "RUNNING" inside a call      *)

vars == <<decoded, delivered, room, outcome>>

Pending == decoded - Len(delivered)
Next_(n) == [k \in 1..n |-> Len(delivered) + k - 1]

Init ==
  /\ decoded = 0
  /\ delivered = <<>>
  /\ room = 0
  /\ outcome = "NO_ERROR"

\* A stream call brings a new output buffer; a failed stream stays failed.
Call ==
  /\ outcome \notin {"RUNNING", "ERROR"}
  /\ outcome' = "RUNNING"
  /\ room' \in Nat
  /\ UNCHANGED <<decoded, delivered>>

Decode ==
  /\ outcome = "RUNNING"
  /\ decoded' \in Nat /\ decoded' >= decoded
  /\ UNCHANGED <<delivered, room, outcome>>

\* The next n bytes go to the caller, and the call goes on or returns:
\*  - out of output space only with bytes pending and no room for them;
\*  - out of input only when no byte is withheld that there is room for;
\*  - with success only when everything was delivered.
Write(n) ==
  /\ outcome = "RUNNING"
  /\ n <= Pending /\ n <= room
  /\ delivered' = delivered \o Next_(n)
  /\ room' = room - n
  /\ \/ outcome' = "RUNNING"
     \/ outcome' = "NEEDS_MORE_OUTPUT" /\ n < Pending /\ n = room
     \/ outcome' = "NEEDS_MORE_INPUT" /\ (n = Pending \/ n = room)
     \/ outcome' = "SUCCESS" /\ n = Pending
  /\ UNCHANGED decoded

Fail ==
  /\ outcome = "RUNNING"
  /\ outcome' = "ERROR"
  /\ UNCHANGED <<decoded, delivered, room>>

\* Between calls the caller may take pending bytes instead.
Take(n) ==
  /\ outcome \notin {"RUNNING", "ERROR"}
  /\ n <= Pending
  /\ delivered' = delivered \o Next_(n)
  /\ UNCHANGED <<decoded, room, outcome>>

Next ==
  \/ Call
  \/ Decode
  \/ \E n \in 0..Pending : Write(n)
  \/ Fail
  \/ \E n \in 0..Pending : Take(n)

Spec == Init /\ [][Next]_vars
=============================================================================
