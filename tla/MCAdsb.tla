------------------------------- MODULE MCAdsb -------------------------------
(* Three zones and two on a circle of 18 places; the flight begins where   *)
(* zones of both kinds and the scale have their seam, near one of the two  *)
(* bands.                                                                  *)
EXTENDS Adsb

Bands == [p \in Places |-> IF p \in 2..9 THEN 1 ELSE 2]
TwoOutputs == <<"tcp", "udp">>
OneReference == {{2}}
=============================================================================
