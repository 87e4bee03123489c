--------------------------- MODULE MCReassembly ---------------------------
(* Two messages of three sentences and one of two share a key; the second *)
(* sentence of one of them has fill bits, which only the server reads.    *)
(* The channel of a fourth is written differently: the transmitter joins  *)
(* its sentences to the others'.                                          *)
EXTENDS Reassembly

SomeMessages == {"a", "b", "c", "e"}
Keys == [m \in SomeMessages |-> IF m = "e" THEN "! 1 1" ELSE "! 1 A"]
PadKeys == [m \in SomeMessages |-> IF m = "e" THEN "1 1" ELSE "1 A"]
ModKeys == [m \in SomeMessages |-> "1 A"]
Totals == [m \in SomeMessages |-> IF m = "c" THEN 2 ELSE 3]
FillBits == {<<"b", 2>>}
TooLong == {<<<<"e", 1>>, <<"e", 2>>>>}
===========================================================================
