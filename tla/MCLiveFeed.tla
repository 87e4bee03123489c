---------------------------- MODULE MCLiveFeed ----------------------------
(* LiveFeed on a small instance; the cfgs choose the bounds. *)
EXTENDS LiveFeed, TLC

CONSTANTS w1, w2, f1, f2

OneWriter == {w1}
TwoWriters == {w1, w2}
OneRequest == {f1}
TwoRequests == {f1, f2}

Symmetric == Permutations(TwoWriters) \cup Permutations(TwoRequests)
=============================================================================
