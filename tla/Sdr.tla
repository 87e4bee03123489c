-------------------------------- MODULE Sdr --------------------------------
(***************************************************************************)
(* The SDR receiver as one system: the router container with its           *)
(* management API (src/sdr/service.py, role router) in front of the        *)
(* receiver container.  control_lock lets one POST act at a time; a call   *)
(* to the receiver that takes more than 15 s is given up while the         *)
(* receiver goes on with it.  The process sends what it hears as UDP       *)
(* datagrams to the router.                                                *)
(***************************************************************************)
EXTENDS Destination, Engine

CONSTANT MaxPosts \* bound: POST requests

ASSUME SdrAssumption == MaxPosts \in Nat

VARIABLES
    saved,   \* input settings in Router.config
    control, \* the POST that holds control_lock and the call it waits for
    posts,   \* POST requests so far
    lapsed,  \* history: a call was given up
    wire     \* a datagram is on its way to port 10112

serviceVars == <<saved, control, posts, lapsed>>
vars == <<destinationVars, engineVars, serviceVars, wire>>

ControlIdle == [op |-> "idle", on |-> Nobody, config |-> NoConfig]

TypeOK ==
    /\ DestinationTypeOK /\ EngineTypeOK
    /\ saved \in Configs /\ posts \in 0..MaxPosts /\ lapsed \in BOOLEAN /\ wire \in BOOLEAN
    /\ control \in [op : {"idle", "save", "start", "stop", "configure"},
                    on : Requests \cup {Nobody}, config : Settings]

Init ==
    /\ DestinationInit /\ EngineInit
    /\ saved \in Configs /\ control = ControlIdle /\ posts = 0 /\ lapsed = FALSE /\ wire = FALSE

-----------------------------------------------------------------------------
\* POST /api/config (stop, then configure), /api/start and /api/reconnect, /api/stop.
Post(op, config, r) ==
    /\ control = ControlIdle /\ posts < MaxPosts
    /\ posts' = posts + 1
    /\ Arrives(r, op = "start", IF op = "start" THEN saved ELSE NoConfig)
    /\ control' = [op |-> op, on |-> r, config |-> IF op = "save" THEN config ELSE NoConfig]
    /\ UNCHANGED <<destinationVars, saved, lapsed, wire>>

Waits(r) == control.on = r /\ control.op \in {"save", "start", "stop"}
Finished(r) == [request EXCEPT ![r] = NoRequest]

\* The receiver answers; an error, or the end of a start or stop, ends the POST.
Answered(r) ==
    /\ Waits(r)
    /\ request[r].at = "failed" \/ (request[r].at = "done" /\ control.op # "save")
    /\ request' = Finished(r) /\ control' = ControlIdle
    /\ UNCHANGED <<destinationVars, state, stopEvent, worker, process, holder, saved, posts, lapsed, wire>>

\* The receiver has stopped, router.configure() begins; it may have to wait for the lock.
SaveAnswered(r) ==
    /\ Waits(r) /\ control.op = "save" /\ request[r].at = "done"
    /\ request' = Finished(r)
    /\ control' = [control EXCEPT !.op = "configure", !.on = Nobody]
    /\ Configure
    /\ UNCHANGED <<state, stopEvent, worker, process, holder, saved, posts, lapsed, wire>>

TimedOut(r) ==
    /\ Waits(r) /\ request[r].at \in {"wait", "stop"} /\ holder # Nobody
    /\ control' = ControlIdle /\ lapsed' = TRUE
    /\ UNCHANGED <<destinationVars, engineVars, saved, posts, wire>>

\* A request nobody waits for any more.
Abandoned(r) ==
    /\ ~Waits(r) /\ request[r].at \in {"done", "failed"}
    /\ request' = Finished(r)
    /\ UNCHANGED <<destinationVars, state, stopEvent, worker, process, holder, serviceVars, wire>>

\* The end of router.configure(): outputs and settings change together.
Reconfigured(new) ==
    /\ Replace(new)
    /\ saved' = control.config /\ control' = ControlIdle
    /\ UNCHANGED <<engineVars, posts, lapsed, wire>>

\* AIS-catcher hears a message.
Emit ==
    /\ process.alive /\ ~wire
    /\ wire' = TRUE
    /\ UNCHANGED <<destinationVars, engineVars, serviceVars>>

Receive ==
    /\ wire /\ wire' = FALSE
    /\ \E raw \in Raw : Ingest(raw)
    /\ UNCHANGED <<engineVars, serviceVars>>

Reply(r) == Answered(r) \/ SaveAnswered(r) \/ TimedOut(r) \/ Abandoned(r)

Next ==
    \/ /\ Run \/ ProcessEnds \/ \E r \in Requests : Handle(r)
       /\ UNCHANGED <<destinationVars, serviceVars, wire>>
    \/ /\ Age \/ IngestDone \/ \E o \in Outs : Step(o) \/ Offer(o) \/ Close(o) \/ Joined(o)
       /\ UNCHANGED <<engineVars, serviceVars, wire>>
    \/ Emit \/ Receive
    \/ \E r \in Requests :
        \/ Reply(r)
        \/ \E op \in {"save", "start", "stop"}, config \in Configs : Post(op, config, r)
    \/ \E new \in SUBSET Outs : Reconfigured(new)

Spec == Init /\ [][Next]_vars

-----------------------------------------------------------------------------
\* What receives was started with the settings that are saved: saving stops
\* the receiver before it changes them, and a start uses the saved ones
\* (service.py:95-104).  Only if the router gave up waiting for the receiver
\* can a start that it no longer knows of take effect after a save.
RunsWhatWasSaved == process.alive /\ ~lapsed => process.config = saved

\* Seen from the management API the threads, the lock and the calls between
\* the containers are one receiver: it is armed and started only by a start
\* and with the settings of that moment, and a save finds it gone
\* (service.py:95-104, engine.py:44-95).
R == INSTANCE Receiver WITH
    running <- IF process.alive THEN {process.config} ELSE {},
    armed <- WorkerAlive,
    settings <- saved,
    call <- IF control.op = "configure" THEN "save" ELSE control.op

ActsAsOneReceiver == R!Spec
=============================================================================
