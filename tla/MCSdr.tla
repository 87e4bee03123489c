------------------------------- MODULE MCSdr -------------------------------
(* Sdr on a small instance: one destination at first, another one, or none, *)
(* after a save; live settings and settings that play a file.               *)
EXTENDS Sdr

CONSTANTS o1, o2, r1, r2, live, file

TwoOuts == {o1, o2}
TwoRequests == {r1, r2}
TwoConfigs == {live, file}
FileConfig == {file}

InitOneOutput == Init /\ outputs = {o1} /\ saved = live
SpecOneOutput == InitOneOutput /\ [][Next]_vars
=============================================================================
