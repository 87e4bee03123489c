------------------------------- MODULE Engine -------------------------------
(***************************************************************************)
(* The owner of the AIS-catcher subprocess (src/sdr/engine.py) and the     *)
(* HTTP requests that reach it (src/sdr/service.py, role receiver).  Each  *)
(* /start and /stop is a thread that holds engine.lock to its end; the     *)
(* worker thread starts the process, reads it to its end and tries again;  *)
(* the process ends when it wants to, or some time after it was told to.   *)
(*                                                                         *)
(* The reader of the process's diagnostics is left out, and so is the      *)
(* length of waits: stop() gives up after 60 rounds of waiting, here at any *)
(* moment while the worker lives.                                          *)
(***************************************************************************)
EXTENDS Naturals, FiniteSets

CONSTANTS
    Requests, \* threads of the receiver's HTTP server
    Configs,  \* settings it can be started with
    Replays   \* those of them that play a file once

Nobody == "nobody"
NoConfig == "unset"

ASSUME EngineAssumption == Replays \subseteq Configs /\ NoConfig \notin Configs /\ Nobody \notin Requests

VARIABLES
    state,     \* Engine.state
    stopEvent, \* Engine.stop_event
    worker,    \* where the worker thread is, and the settings it was given
    process,   \* the last subprocess
    request,   \* the /start and /stop requests being handled
    holder     \* who holds engine.lock

engineVars == <<state, stopEvent, worker, process, request, holder>>

NoRequest == [at |-> "idle", start |-> FALSE, config |-> NoConfig]
NoWorker == [at |-> "none", config |-> NoConfig]
NoProcess == [alive |-> FALSE, told |-> FALSE, config |-> NoConfig]

Settings == Configs \cup {NoConfig}
States == {"stopped", "starting", "running", "finished", "error", "retrying"}
WorkerAlive == worker.at # "none"

EngineTypeOK ==
    /\ state \in States /\ stopEvent \in BOOLEAN
    /\ worker \in [at : {"none", "top", "spawn", "read", "check", "retry"}, config : Settings]
    /\ process \in [alive : BOOLEAN, told : BOOLEAN, config : Settings]
    /\ request \in [Requests -> [at : {"idle", "wait", "stop", "done", "failed"}, start : BOOLEAN, config : Settings]]
    /\ holder \in Requests \cup {Nobody}

EngineInit ==
    /\ state = "stopped" /\ stopEvent = FALSE
    /\ worker = NoWorker /\ process = NoProcess
    /\ request = [r \in Requests |-> NoRequest] /\ holder = Nobody

-----------------------------------------------------------------------------
\* start() and stop(): a start is a stop followed by a new worker.

Arrives(r, start, config) ==
    /\ request[r].at = "idle"
    /\ request' = [request EXCEPT ![r] = [at |-> "wait", start |-> start, config |-> config]]
    /\ UNCHANGED <<state, stopEvent, worker, process, holder>>

Acquire(r) ==
    /\ request[r].at = "wait" /\ holder = Nobody
    /\ holder' = r
    /\ stopEvent' = TRUE
    /\ request' = [request EXCEPT ![r].at = "stop"]
    /\ UNCHANGED <<state, worker, process>>

\* One round: a live process is told to end, then the worker is joined for .1 s.
StopRound(r) ==
    /\ request[r].at = "stop" /\ process.alive /\ ~process.told
    /\ process' = [process EXCEPT !.told = TRUE]
    /\ UNCHANGED <<state, stopEvent, worker, request, holder>>

StopFails(r) ==
    /\ request[r].at = "stop" /\ WorkerAlive
    /\ holder' = Nobody
    /\ request' = [request EXCEPT ![r].at = "failed"]
    /\ UNCHANGED <<state, stopEvent, worker, process>>

\* (Changed form: a stop answers before the worker has ended.)
StopAtOnce(r) ==
    /\ request[r].at = "stop" /\ ~request[r].start /\ ~process.alive
    /\ state' = "stopped" /\ holder' = Nobody
    /\ request' = [request EXCEPT ![r].at = "done"]
    /\ UNCHANGED <<stopEvent, worker, process>>

StopDone(r) ==
    /\ request[r].at = "stop" /\ ~request[r].start /\ ~WorkerAlive
    /\ state' = "stopped" /\ holder' = Nobody
    /\ request' = [request EXCEPT ![r].at = "done"]
    /\ UNCHANGED <<stopEvent, worker, process>>

\* (Changed form: the old worker is not waited for.)
StartAtOnce(r) ==
    /\ request[r].at = "stop" /\ request[r].start
    /\ stopEvent' = FALSE /\ state' = "starting"
    /\ worker' = [at |-> "top", config |-> request[r].config]
    /\ holder' = Nobody
    /\ request' = [request EXCEPT ![r].at = "done"]
    /\ UNCHANGED process

StartDone(r) ==
    /\ request[r].at = "stop" /\ request[r].start /\ ~WorkerAlive
    /\ stopEvent' = FALSE /\ state' = "starting"
    /\ worker' = [at |-> "top", config |-> request[r].config]
    /\ holder' = Nobody
    /\ request' = [request EXCEPT ![r].at = "done"]
    /\ UNCHANGED process

-----------------------------------------------------------------------------
\* Engine.run

At(place) == worker' = [worker EXCEPT !.at = place]

Top ==
    /\ worker.at = "top"
    /\ IF stopEvent THEN worker' = NoWorker ELSE At("spawn")
    /\ UNCHANGED <<state, stopEvent, process, request, holder>>

Spawn ==
    /\ worker.at = "spawn"
    /\ process' = [alive |-> TRUE, told |-> FALSE, config |-> worker.config]
    /\ state' = "running"
    /\ At("read")
    /\ UNCHANGED <<stopEvent, request, holder>>

SpawnFails ==
    /\ worker.at = "spawn"
    /\ At("check")
    /\ UNCHANGED <<state, stopEvent, process, request, holder>>

\* External: the process ends, by itself or because it was told to.
ProcessEnds ==
    /\ process.alive
    /\ process' = NoProcess
    /\ UNCHANGED <<state, stopEvent, worker, request, holder>>

\* End of its output and wait().
Reap ==
    /\ worker.at = "read" /\ ~process.alive
    /\ IF worker.config \in Replays
       THEN state' \in {"finished", "error"} /\ worker' = NoWorker
       ELSE At("check") /\ UNCHANGED state
    /\ UNCHANGED <<stopEvent, process, request, holder>>

Check ==
    /\ worker.at = "check"
    /\ IF stopEvent
       THEN worker' = NoWorker /\ UNCHANGED state
       ELSE At("retry") /\ state' = "retrying"
    /\ UNCHANGED <<stopEvent, process, request, holder>>

\* stop_event.wait(3)
Retry ==
    /\ worker.at = "retry"
    /\ IF stopEvent THEN worker' = NoWorker ELSE At("top")
    /\ UNCHANGED <<state, stopEvent, process, request, holder>>

Handle(r) == Acquire(r) \/ StopRound(r) \/ StopFails(r) \/ StopDone(r) \/ StartDone(r)
Run == Top \/ Spawn \/ SpawnFails \/ Reap \/ Check \/ Retry

-----------------------------------------------------------------------------
\* There is one receiver at most: a process lives only while the worker reads
\* it, so a new worker never starts a second one beside it, and when stop()
\* reported "stopped" both are gone - also if stop() came while the worker
\* was in Popen or paused before a retry (engine.py:44-95).
OneReceiver ==
    /\ process.alive => worker.at = "read"
    /\ state = "stopped" => ~WorkerAlive /\ ~process.alive
=============================================================================
