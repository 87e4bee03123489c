---------------------------- MODULE MCRuntime ----------------------------
(* Runtime on a small instance; the cfgs choose the bounds. *)
EXTENDS Runtime, TLC

CONSTANTS d1, d2, p1, j1, j2

TwoDeletes == {d1, d2}
OneDelete == {d1}
OnePurger == {p1}
OneJob == {j1}
TwoJobs == {j1, j2}
Totals == {2}

Symmetric == Permutations(TwoDeletes) \cup Permutations(TwoJobs)
=============================================================================
