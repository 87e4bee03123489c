--------------------------- MODULE MCWatchAlerts ---------------------------
(* The consumer and one import; batches of one and two rows. *)
EXTENDS WatchAlerts, TLC

SomeBatches ==
    {<<"name">>, <<"position", "static">>}
Either == Permutations(Adders)
=============================================================================
