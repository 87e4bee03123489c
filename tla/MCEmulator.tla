----------------------------- MODULE MCEmulator -----------------------------
(* A route of two coincident waypoints and a loop of two far ones.  *)
EXTENDS Emulator

SomeRoutes ==
    {NoRoute, [waypoints |-> <<0, 0>>, loop |-> FALSE], [waypoints |-> <<0, 2>>, loop |-> TRUE]}
=============================================================================
