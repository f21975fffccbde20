-------------------------- MODULE DistanceHistory --------------------------
(***************************************************************************)
(* What a distance symbol of a stream means (RFC 7932, section 4): one of  *)
(* the last four distances of back-references, one near to the last or the *)
(* second-to-last of them, or a distance of its own.  References into the  *)
(* static dictionary, and repeats of the last distance, are not recorded.  *)
(***************************************************************************)
EXTENDS Integers, Sequences

CONSTANTS
  Symbols   (* the distance symbols of streams                              *)

VARIABLES
  last,     (* the last four distances, the last one first                  *)
  symbol    (* the symbol of the last reference, 0 when it was implicit     *)

vars == <<last, symbol>>

Near(sym) == IF sym < 10 THEN last[1] ELSE last[2]
Off(sym) == (IF sym < 10 THEN sym - 4 ELSE sym - 10) \div 2 + 1

Meant(sym) ==
  CASE sym < 4 -> last[sym + 1]
    [] sym \in 4..15 /\ sym % 2 = 0 -> Near(sym) - Off(sym)
    [] sym \in 4..15 /\ sym % 2 = 1 -> Near(sym) + Off(sym)
    [] sym >= 16 -> sym - 15

Init ==
  /\ last = <<4, 11, 15, 16>>
  /\ symbol = 0

BackReference(sym) ==
  /\ symbol' = sym
  /\ Meant(sym) > 0
  /\ last' = IF sym = 0 THEN last ELSE <<Meant(sym), last[1], last[2], last[3]>>

DictionaryReference(sym) ==
  /\ symbol' = sym
  /\ Meant(sym) > 0
  /\ UNCHANGED last

Next == \E sym \in Symbols : BackReference(sym) \/ DictionaryReference(sym)

Spec == Init /\ [][Next]_vars
=============================================================================
