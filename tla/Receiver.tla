------------------------------ MODULE Receiver ------------------------------
(***************************************************************************)
(* What the management API of the SDR receiver promises about the process  *)
(* that receives, without threads, locks or HTTP: one receiver at most,    *)
(* armed and started only by a start and with the saved settings, and      *)
(* settings that change only while nothing receives or can begin to.  Once *)
(* a call was given up, only "one at most" is left.                        *)
(* Sdr.tla implements this module.                                         *)
(***************************************************************************)
CONSTANT Configs

VARIABLES
    running,  \* the settings of the receiver that runs, {} if none does
    armed,    \* a receiver may be started
    settings, \* the saved settings
    call,     \* what the user asked for: "start", "stop", "save", or "idle"
    lapsed    \* a call was given up

Init ==
    /\ running = {} /\ armed = FALSE /\ settings \in Configs
    /\ call = "idle" /\ lapsed = FALSE

Ask(op) ==
    /\ call = "idle" /\ call' = op
    /\ UNCHANGED <<running, armed, settings, lapsed>>

Arm ==
    /\ running = {} /\ (call = "start" \/ lapsed)
    /\ armed' = TRUE
    /\ UNCHANGED <<running, settings, call, lapsed>>

Disarm ==
    /\ running = {} /\ armed' = FALSE
    /\ UNCHANGED <<running, settings, call, lapsed>>

Start(config) ==
    /\ running = {} /\ armed /\ (config = settings \/ lapsed)
    /\ running' = {config}
    /\ UNCHANGED <<armed, settings, call, lapsed>>

End ==
    /\ running' = {}
    /\ UNCHANGED <<armed, settings, call, lapsed>>

Answer ==
    /\ call' = "idle"
    /\ UNCHANGED <<running, armed, settings, lapsed>>

Save(config) ==
    /\ call = "save" /\ ((running = {} /\ ~armed) \/ lapsed)
    /\ settings' = config /\ call' = "idle"
    /\ UNCHANGED <<running, armed, lapsed>>

GiveUp ==
    /\ call' = "idle" /\ lapsed' = TRUE
    /\ UNCHANGED <<running, armed, settings>>

Next ==
    \/ \E op \in {"start", "stop", "save"} : Ask(op)
    \/ \E config \in Configs : Start(config) \/ Save(config)
    \/ Arm \/ Disarm \/ End \/ Answer \/ GiveUp

vars == <<running, armed, settings, call, lapsed>>

Spec == Init /\ [][Next]_vars
=============================================================================
