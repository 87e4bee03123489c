--------------------------- MODULE MCIQTransmit ---------------------------
(* IQTransmit on a small instance; the cfgs choose the bounds. *)
EXTENDS IQTransmit

CONSTANTS c1, c2, s1, s2

OneClient == {c1}
TwoClients == {c1, c2}
OneSource == {s1}
TwoSources == {s1, s2}
=============================================================================
