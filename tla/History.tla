------------------------------ MODULE History ------------------------------
(***************************************************************************)
(* What DELETE /api/data promises, without its mechanism: the user          *)
(* confirmed a number of rows, and the rows deleted are exactly that many.  *)
(* From the moment the number has been compared (a pledge) until the        *)
(* deletion, nothing is stored and nothing expires.                         *)
(* Runtime.tla implements this module.                                      *)
(***************************************************************************)
EXTENDS Naturals

VARIABLES
    rows,  \* rows of the history
    pledge \* {n} once n rows are confirmed for deletion, else {}

Init == rows = 0 /\ pledge = {}

Record ==
    /\ pledge = {}
    /\ rows' \in {n \in Nat : n > rows}
    /\ UNCHANGED pledge

Expire ==
    /\ pledge = {}
    /\ rows' \in 0..rows
    /\ UNCHANGED pledge

Pledge ==
    /\ pledge = {}
    /\ pledge' = {rows}
    /\ UNCHANGED rows

Withdraw ==
    /\ pledge' = {}
    /\ UNCHANGED rows

Clear ==
    /\ pledge = {rows}
    /\ rows' = 0
    /\ pledge' = {}

Next == Record \/ Expire \/ Pledge \/ Withdraw \/ Clear

vars == <<rows, pledge>>

Spec == Init /\ [][Next]_vars
=============================================================================
