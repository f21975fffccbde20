--------------------------- MODULE MCStreamInput ---------------------------
(* Small instances of StreamInput for TLC: a byte has 2 bits, a symbol is   *)
(* looked up in 4 bits, the longest transaction takes 15 of the 16 bits of  *)
(* the accumulator, as 15 + 24 + 24 bits do of 64.                          *)
EXTENDS StreamInput

Bits(n) == [peek |-> n, take |-> n]
Symbol(n) == [peek |-> 4, take |-> n]

MCDemands == {<<Bits(1)>>, <<Bits(6)>>, <<Symbol(1)>>, <<Symbol(4)>>,
              <<Symbol(3), Bits(6)>>,
              <<Symbol(3), Bits(6), Bits(6)>>,
              <<Symbol(2), Symbol(4), Bits(5)>>}
=============================================================================
