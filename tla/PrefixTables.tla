---------------------------- MODULE PrefixTables ----------------------------
(***************************************************************************)
(* The tables of src/src/prefix.rs: what the symbols of a block-length     *)
(* code and of an insert-and-copy code stand for.  A symbol names an       *)
(* offset and how many extra bits behind it are added to the offset.       *)
(*                                                                         *)
(* kCmdLut has 704 rows, 64 for each of 11 cells.  In a cell eight insert  *)
(* codes meet eight copy codes, the copy codes running fastest; the cells  *)
(* are named below by the first codes of each and by whether the distance  *)
(* of the command is the last one.  Every row of the table was compared    *)
(* with Cmd below.                                                         *)
(***************************************************************************)
EXTENDS Integers, Sequences

kBlockLengthPrefixCode ==
  [offset |-> <<1, 5, 9, 13, 17, 25, 33, 41, 49, 65, 81, 97, 113, 145, 177, 209,
                241, 305, 369, 497, 753, 1265, 2289, 4337, 8433, 16625>>,
   nbits |-> <<2, 2, 2, 2, 3, 3, 3, 3, 4, 4, 4, 4, 5, 5, 5, 5,
               6, 6, 7, 8, 9, 10, 11, 12, 13, 24>>]

Insert ==
  [offset |-> <<0, 1, 2, 3, 4, 5, 6, 8, 10, 14, 18, 26, 34, 50, 66, 98,
                130, 194, 322, 578, 1090, 2114, 6210, 22594>>,
   nbits |-> <<0, 0, 0, 0, 0, 0, 1, 1, 2, 2, 3, 3, 4, 4, 5, 5,
               6, 7, 8, 9, 10, 12, 14, 24>>]

Copy ==
  [offset |-> <<2, 3, 4, 5, 6, 7, 8, 9, 10, 12, 14, 18, 22, 30, 38, 54,
                70, 102, 134, 198, 326, 582, 1094, 2118>>,
   nbits |-> <<0, 0, 0, 0, 0, 0, 0, 0, 1, 1, 2, 2, 3, 3, 4, 4,
               5, 5, 6, 7, 8, 9, 10, 24>>]

\* What a symbol stands for, and the symbol after it, leave no length out and
\* give none to both.
Adjoin(code) ==
  \A i \in 1..(Len(code.offset) - 1) :
    code.offset[i] + 2 ^ code.nbits[i] = code.offset[i + 1]

ASSUME LengthsAdjoin ==
  Adjoin(kBlockLengthPrefixCode) /\ Adjoin(Insert) /\ Adjoin(Copy)

\* The cells of kCmdLut.
ShortShortLast == [insert |-> 0, copy |-> 0, last |-> TRUE]
ShortMiddleLast == [insert |-> 0, copy |-> 8, last |-> TRUE]
ShortShort == [insert |-> 0, copy |-> 0, last |-> FALSE]
ShortMiddle == [insert |-> 0, copy |-> 8, last |-> FALSE]
MiddleShort == [insert |-> 8, copy |-> 0, last |-> FALSE]
MiddleMiddle == [insert |-> 8, copy |-> 8, last |-> FALSE]
ShortLong == [insert |-> 0, copy |-> 16, last |-> FALSE]
LongShort == [insert |-> 16, copy |-> 0, last |-> FALSE]
MiddleLong == [insert |-> 8, copy |-> 16, last |-> FALSE]
LongMiddle == [insert |-> 16, copy |-> 8, last |-> FALSE]
LongLong == [insert |-> 16, copy |-> 16, last |-> FALSE]

Cells == <<ShortShortLast, ShortMiddleLast, ShortShort, ShortMiddle, MiddleShort,
           MiddleMiddle, ShortLong, LongShort, MiddleLong, LongMiddle, LongLong>>

\* The row of a symbol: the distance code 0 is the last distance, -1 is none.
Cmd(symbol) ==
  LET cell == Cells[symbol \div 64 + 1]
      ins == cell.insert + (symbol % 64) \div 8 + 1
      cop == cell.copy + (symbol % 8) + 1
  IN  [insert_len_extra_bits |-> Insert.nbits[ins],
       insert_len_offset     |-> Insert.offset[ins],
       copy_len_extra_bits   |-> Copy.nbits[cop],
       copy_len_offset       |-> Copy.offset[cop],
       distance_code         |-> IF cell.last THEN 0 ELSE -1]

kCmdLut == [symbol \in 0..703 |-> Cmd(symbol)]
=============================================================================
