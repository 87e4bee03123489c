------------------------------ MODULE Emulator ------------------------------
(***************************************************************************)
(* The NMEA emulator (src/emulator/server.py): one asyncio event loop with *)
(* two senders, the simulated vessel ("sim", class Simulator) and the ring *)
(* of AIS test markers ("ring", class RingMotion), and the requests that   *)
(* start, stop and redirect them under one lock (RingMotion.lock).         *)
(*                                                                         *)
(* Closing a TCP connection waits until the peer has taken what was        *)
(* written to it (StreamWriter.wait_closed), so a peer that does not read  *)
(* can hold up whoever closes.  The event loop closes and flushes a        *)
(* connection that nobody waits for any more by itself.                    *)
(***************************************************************************)
EXTENDS Route

CONSTANTS
    Outputs, \* destinations an operator may set
    Default  \* the destination of the environment variables

Senders == {"sim", "ring"}
Owners == Senders \cup {"send"}
Unset == "unset"
NoConnection == "closed"

ASSUME EmulatorAssumption ==
    /\ Default \notin Outputs /\ Unset \notin Outputs
    /\ NoConnection \notin Outputs \cup {Default}

VARIABLES
    task,      \* where the task of a sender is, "none": no task
    cancelled, \* senders whose task has a cancellation to be delivered
    conn,      \* the destination an open connection leads to
    unsent,    \* connections with data the peer has not taken
    holder,    \* the request that holds the lock: [op, todo, at, output]
    stuck,     \* the simulator's wait for its connection was cancelled for good
    flushing,  \* where connections lead that were let go with unsent data
    override,  \* output_override
    file,      \* OUTPUT_FILE
    quiet      \* history: everything was stopped and nothing started since

dropped == <<stuck, flushing>>
controlVars == <<holder, override, file, quiet>>
vars == <<routeVars, task, cancelled, conn, unsent, dropped, controlVars>>

\* (Changed form: a stop forgets the ring.)
PlanKeepsRing ==
    [start |-> <<"sim", "run_sim">>, stop |-> <<"sim">>, send |-> <<"send">>,
     motion_start |-> <<"ring", "send", "run_ring">>, motion_stop |-> <<"ring">>,
     output |-> <<"save", "ring", "sim", "assign">>]

\* The stages of a request under the lock.
Plan == [start |-> <<"sim", "run_sim">>, stop |-> <<"ring", "sim">>, send |-> <<"send">>,
         motion_start |-> <<"ring", "send", "run_ring">>, motion_stop |-> <<"ring">>,
         output |-> <<"save", "ring", "sim", "assign">>]
RunStage == [sim |-> "run_sim", ring |-> "run_ring"]
Free == [op |-> "none", todo |-> <<>>, at |-> "done", output |-> Unset]

TypeOK ==
    /\ RouteTypeOK
    /\ task \in [Senders -> {"none", "new", "open", "sleep", "drain", "pause",
                             "closing", "leaving", "ended"}]
    /\ cancelled \subseteq {s \in Senders : task[s] \notin {"none", "leaving", "ended"}}
    /\ conn \in [Owners -> Outputs \cup {Default, NoConnection}]
    /\ unsent \subseteq {o \in Owners : conn[o] # NoConnection}
    /\ stuck \in BOOLEAN /\ flushing \subseteq Outputs \cup {Default}
    /\ holder.op \in DOMAIN Plan \cup {"none"} /\ holder.output \in Outputs \cup {Unset}
    /\ holder.at \in {"go", "await", "open", "drain", "close", "done"}
    /\ override \in Outputs \cup {Unset} /\ file \in Outputs \cup {Unset} /\ quiet \in BOOLEAN

NoTask == [s \in Senders |-> "none"]
Unconnected == [o \in Owners |-> NoConnection]

Init ==
    /\ RouteInit /\ task = NoTask /\ cancelled = {} /\ conn = Unconnected /\ unsent = {}
    /\ stuck = FALSE /\ flushing = {}
    /\ holder = Free /\ quiet = TRUE /\ override = Unset /\ file = Unset

output_config == IF override = Unset THEN Default ELSE override

\* Between two awaits of a request nothing else runs on the event loop.
Awaits == holder.at # "go"

Connect(o) == conn' = [conn EXCEPT ![o] = output_config]
Closed(o) == conn' = [conn EXCEPT ![o] = NoConnection] /\ unsent' = unsent \ {o}
Write(o) == unsent' \in {unsent, unsent \cup {o}}
Enter(s, at) == task' = [task EXCEPT ![s] = at]

-----------------------------------------------------------------------------
\* The loops of Simulator.run and RingMotion.run.  A stop sets active to FALSE
\* and cancels the task at once, so it is the cancellation that ends a loop.
Live(s, at) == Awaits /\ task[s] = at /\ s \notin cancelled

Begin(s) == Live(s, "new") /\ Enter(s, "open") /\ UNCHANGED <<routeVars, cancelled, conn, unsent>>

\* generate(), whose first act is advance(), and the write of its frames.
Frames(s) ==
    /\ Enter(s, "drain") /\ Write(s)
    /\ IF s = "sim" THEN Advance ELSE UNCHANGED routeVars

\* The simulator sends at once, the ring after a first sleep.
Opened(s) ==
    /\ Live(s, "open") /\ Connect(s) /\ UNCHANGED cancelled
    /\ IF s = "sim" THEN Frames(s) ELSE Enter(s, "sleep") /\ UNCHANGED <<routeVars, unsent>>

Woken(s) == Live(s, "sleep") /\ Frames(s) /\ UNCHANGED <<cancelled, conn>>

Drained(s) ==
    Live(s, "drain") /\ Enter(s, "sleep") /\ UNCHANGED <<routeVars, cancelled, conn, unsent>>

\* OSError or TimeoutError: the connection is kept through the pause of 2 s.
Fails(s) ==
    /\ Live(s, "open") \/ Live(s, "drain")
    /\ Enter(s, "pause") /\ UNCHANGED <<routeVars, cancelled, conn, unsent>>

Paused(s) ==
    /\ Live(s, "pause") /\ Enter(s, IF conn[s] = NoConnection THEN "open" ELSE "closing")
    /\ UNCHANGED <<routeVars, cancelled, conn, unsent>>

WaitClosed(s) ==
    /\ Live(s, "closing") \/ Live(s, "leaving")
    /\ s \notin unsent /\ Closed(s)
    /\ Enter(s, IF task[s] = "closing" THEN "open" ELSE "ended")
    /\ UNCHANGED <<routeVars, cancelled>>

\* (Changed form: the cancellation is taken for a failed connection.)
CaughtAsFailure(s) ==
    /\ Awaits /\ s \in cancelled /\ cancelled' = cancelled \ {s}
    /\ Enter(s, IF task[s] \in {"new", "open", "closing"} THEN "ended" ELSE "pause")
    /\ UNCHANGED <<routeVars, conn, unsent, dropped>>

\* What the connection of o has not sent yet is sent by the event loop.
Abandon(o) ==
    /\ Closed(o)
    /\ flushing' = flushing \cup {d \in {conn[o]} : o \in unsent}

\* A closing that is cancelled (server.py:225, 523): the connection goes on by
\* itself.  The simulator keeps its writer, and a wait that was still going on
\* is cancelled with the task: every later disconnect of that writer raises
\* CancelledError.  A wait that was over leaves the writer for stop() to close.
CutShort(s) ==
    \/ Abandon(s) /\ stuck' = (stuck \/ s = "sim")
    \/ s = "sim" /\ s \notin unsent /\ UNCHANGED <<conn, unsent, dropped>>

\* CancelledError is raised where the task waits; the way out closes the
\* connection.
Cancelled(s) ==
    /\ Awaits /\ s \in cancelled /\ cancelled' = cancelled \ {s}
    /\ \/ /\ task[s] # "closing" /\ UNCHANGED <<conn, unsent, dropped>>
          /\ Enter(s, IF conn[s] = NoConnection THEN "ended" ELSE "leaving")
       \/ task[s] = "closing" /\ Enter(s, "ended") /\ CutShort(s)
    /\ UNCHANGED routeVars

\* How the task of a sender lets go of its connection.
Ends(s) ==
    /\ Cancelled(s) \/ (WaitClosed(s) /\ UNCHANGED dropped)
    /\ UNCHANGED controlVars

Sender(s) ==
    \/ /\ Begin(s) \/ Opened(s) \/ Woken(s) \/ Drained(s) \/ Fails(s) \/ Paused(s)
       /\ UNCHANGED <<dropped, controlVars>>
    \/ Ends(s)

-----------------------------------------------------------------------------
\* Requests.  A request that finds the lock taken has had no effect yet.
Post(op, output) ==
    /\ holder = Free
    /\ holder' = [op |-> op, todo |-> Plan[op], at |-> "go", output |-> output]
    /\ UNCHANGED <<routeVars, task, cancelled, conn, unsent, dropped, override, file, quiet>>

At(stage) == holder.todo # <<>> /\ Head(holder.todo) = stage
Wait(at) == holder' = [holder EXCEPT !.at = at]
Done == holder' = [holder EXCEPT !.todo = Tail(@), !.at = "go"]
Raise == holder' = Free

\* stop() closes the simulator's connection when there is no task, too, which
\* raises when the wait for it was cancelled.
Unclosable(s) == s = "sim" /\ stuck

\* (Changed form: a cancelled wait for the connection counts as its end.)
StopAnyway(s) ==
    /\ At(s) /\ holder.at = "go"
    /\ IF task[s] = "none" THEN Done /\ UNCHANGED cancelled
       ELSE Wait("await") /\ cancelled' = cancelled \cup {s}
    /\ UNCHANGED <<routeVars, task, conn, unsent, override, file, quiet>>

\* Simulator.stop and RingMotion.stop.
Stop(s) ==
    /\ At(s) /\ holder.at = "go"
    /\ \/ task[s] = "none" /\ Unclosable(s) /\ Raise /\ UNCHANGED cancelled
       \/ task[s] = "none" /\ ~Unclosable(s) /\ Done /\ UNCHANGED cancelled
       \/ task[s] # "none" /\ Wait("await") /\ cancelled' = cancelled \cup {s}
    /\ UNCHANGED <<routeVars, task, conn, unsent, override, file, quiet>>

\* (Changed form: a stop does not close what the ended task has left open.)
AwaitedOnly(s) ==
    /\ At(s) /\ holder.at = "await" /\ task[s] = "ended"
    /\ Enter(s, "none") /\ Done
    /\ UNCHANGED <<routeVars, cancelled, conn, unsent, override, file, quiet>>

\* The task has ended; only the simulator may have left its connection, and
\* its disconnect raises at once when the wait for it was cancelled.
Awaited(s) ==
    /\ At(s) /\ holder.at = "await" /\ task[s] = "ended"
    /\ Enter(s, "none")
    /\ IF Unclosable(s) THEN Raise
       ELSE IF conn[s] = NoConnection THEN Done ELSE Wait("close")
    /\ UNCHANGED <<routeVars, cancelled, conn, unsent, override, file, quiet>>

\* The end of wait_closed, in Simulator.disconnect and _send_ais_scenarios.
Disconnected(o) ==
    /\ At(o) /\ holder.at = "close" /\ o \notin unsent
    /\ Closed(o) /\ Done
    /\ UNCHANGED <<routeVars, task, cancelled, override, file, quiet>>

SendOpens ==
    /\ At("send") /\ holder.at = "go" /\ Wait("open")
    /\ UNCHANGED <<routeVars, task, cancelled, conn, unsent, override, file, quiet>>

SendOpened ==
    /\ At("send") /\ holder.at = "open"
    /\ Connect("send") /\ Write("send") /\ Wait("drain")
    /\ UNCHANGED <<routeVars, task, cancelled, override, file, quiet>>

\* drain() returns or fails; a failed send ends the request once it has closed.
SendDrained ==
    /\ At("send") /\ holder.at = "drain"
    /\ Wait("close") \/ holder' = [holder EXCEPT !.at = "close", !.todo = <<"send">>]
    /\ UNCHANGED <<routeVars, task, cancelled, conn, unsent, override, file, quiet>>

SendFails ==
    /\ At("send") /\ holder.at = "open" /\ Raise
    /\ UNCHANGED <<routeVars, task, cancelled, conn, unsent, override, file, quiet>>

\* The rest of start and motion_start: the new task, for the simulator with its setup.
Runs(s) ==
    /\ At(RunStage[s]) /\ holder.at = "go"
    /\ Enter(s, "new") /\ Done /\ quiet' = FALSE
    /\ IF s = "sim" THEN \E p \in Placed, c \in Courses, r \in Routes : SetOff(p, c, r)
       ELSE UNCHANGED routeVars
    /\ UNCHANGED <<cancelled, conn, unsent, override, file>>

\* (Changed form: a request goes on although its destination could not be saved.)
SaveRegardless ==
    /\ At("save") /\ holder.at = "go"
    /\ file' \in {file, holder.output} /\ Done
    /\ UNCHANGED <<routeVars, task, cancelled, conn, unsent, override, quiet>>

\* write_text and replace; nothing else is done when one of them fails.
Save ==
    /\ At("save") /\ holder.at = "go"
    /\ \/ file' = holder.output /\ Done
       \/ UNCHANGED file /\ Raise
    /\ UNCHANGED <<routeVars, task, cancelled, conn, unsent, override, quiet>>

Assign ==
    /\ At("assign") /\ holder.at = "go" /\ override' = holder.output /\ Done
    /\ UNCHANGED <<routeVars, task, cancelled, conn, unsent, file, quiet>>

Respond ==
    /\ holder.todo = <<>> /\ holder.at = "go" /\ Raise
    /\ quiet' = (quiet \/ holder.op \in {"stop", "output"})
    /\ UNCHANGED <<routeVars, task, cancelled, conn, unsent, override, file>>

Request ==
    /\ \/ Save \/ Assign \/ Respond \/ SendOpens \/ SendOpened \/ SendDrained \/ SendFails
       \/ \E s \in Senders : Stop(s) \/ Awaited(s) \/ Runs(s)
       \/ \E o \in {"sim", "send"} : Disconnected(o)
    /\ UNCHANGED dropped

\* Map edits take no lock.
Edit ==
    /\ Awaits
    /\ \/ \E p \in Placed : SetPosition(p)
       \/ \E r \in Routes : SetRoute(r)
       \/ \E c \in Courses : SetCourse(c)
    /\ UNCHANGED <<task, cancelled, conn, unsent, dropped, controlVars>>

\* The event loop gets rid of what was written: the peer takes it, or the
\* connection is lost.
PeerTakes(o) ==
    /\ Awaits /\ o \in unsent /\ unsent' = unsent \ {o}
    /\ UNCHANGED <<routeVars, task, cancelled, conn, dropped, controlVars>>

\* The last connection that was let go and leads to d has sent its data.
Flushed(d) ==
    /\ Awaits /\ d \in flushing /\ flushing' = flushing \ {d}
    /\ UNCHANGED <<routeVars, task, cancelled, conn, unsent, stuck, controlVars>>

\* The container is restarted and reads OUTPUT_FILE.
Restart ==
    /\ override' = file /\ UNCHANGED file
    /\ SetOff(0, 1, NoRoute)
    /\ task' = NoTask /\ cancelled' = {} /\ conn' = Unconnected /\ unsent' = {}
    /\ stuck' = FALSE /\ flushing' = {}
    /\ holder' = Free /\ quiet' = TRUE

Next ==
    \/ Request \/ Edit \/ Restart
    \/ \E op \in DOMAIN Plan \ {"output"} : Post(op, Unset)
    \/ \E output \in Outputs : Post("output", output)
    \/ \E s \in Senders : Sender(s)
    \/ \E o \in Owners : PeerTakes(o)
    \/ \E d \in Outputs \cup {Default} : Flushed(d)

\* The sender a request has told to stop and waits for.
Expected(s) == At(s) /\ holder.at = "await"

\* The steps that bring the request under the lock to its end.
ForHolder == Request \/ \E s \in Senders : Expected(s) /\ Ends(s)

\* The event loop runs every step that is ready; only these are needed.
Fairness == WF_vars(ForHolder)
Spec == Init /\ [][Next]_vars /\ Fairness

-----------------------------------------------------------------------------
\* What is written goes to the destination the operator sees: no connection
\* that somebody still writes to outlives a change of the destination
\* (server.py:560-570).
ConnectionsMatchTarget == \A o \in Owners : conn[o] \in {NoConnection, output_config}

\* The connections of three owners, which requests and failures open, close and
\* cut short at their own pace, are those of one transmission whose destination
\* changes only between connections and only to the saved one.  Data of a
\* connection that was let go may still follow to where it led
\* (server.py:46-52, 523, 560-570).
Tx == INSTANCE Transmission WITH
    NoLink <- NoConnection,
    Destinations <- Outputs \cup {Default},
    target <- output_config,
    saved <- IF file = Unset THEN Default ELSE file,
    links <- conn,
    trailing <- flushing

SendsToOneTarget == Tx!Spec

\* Whenever no request is at work, the destination in use is the one a restart
\* would read, whatever failed - except after a stop that cut short the closing
\* of the simulator's connection (server.py:225, 560-570).
PersistedUnlessStuck == holder = Free /\ ~stuck => override = file

\* After that, nothing but a restart gets the emulator on: the simulator does
\* not start, the destination in use does not change, whatever is saved, and
\* no stop is answered (server.py:219, 225, 307, 568-570).
StuckUntilRestart ==
    [][stuck /\ ~Restart =>
        /\ stuck' /\ override' = override /\ (quiet' => quiet)
        /\ task["sim"] = "none" => task'["sim"] = "none"]_vars

\* Once a stop, or a change of the destination, was answered, no sender runs or
\* has a connection until something is started again, and what goes on by
\* itself only gets less (README.md:11, 25).
StoppedIsSilent ==
    /\ [](quiet /\ holder = Free => \A s \in Senders : task[s] = "none" /\ conn[s] = NoConnection)
    /\ [][quiet /\ holder = Free => flushing' \subseteq flushing]_vars

\* The clock takes the waypoints in order while the operator edits the route.
InOrder == [][task["sim"] # "drain" /\ task'["sim"] = "drain" => TakenInOrder]_vars

\* A request leaves the lock to the next one: again and again nobody holds it,
\* unless a peer has not taken the data of a connection (server.py:225, 413).
RequestEnds == []<>(holder = Free \/ unsent # {})

\* What a request under the lock can do next, or a sender for it.
CanGoOn ==
    \/ holder.at = "go"
    \/ holder.at \in {"open", "drain"} /\ At("send")
    \/ \E s \in Senders : Expected(s) /\ (task[s] = "ended" \/ s \in cancelled)

\* A connection that is closed for it.
Closing(o) ==
    \/ o \in {"sim", "send"} /\ At(o) /\ holder.at = "close"
    \/ o \in Senders /\ Expected(o) /\ task[o] = "leaving"

\* An upper bound of the steps a request still needs.
EndRank(s) == IF s \in cancelled THEN 6 ELSE IF task[s] = "leaving" THEN 5 ELSE 4
PointRank == [go |-> 7, open |-> 6, drain |-> 5, close |-> 3, done |-> 0]
StepsLeft ==
    8 * Len(holder.todo)
    + IF holder.at = "await" THEN EndRank(Head(holder.todo)) ELSE PointRank[holder.at]

\* The lock is never held in vain: its holder can go on or closes a connection
\* (which only a peer that does not read can hold up), every step for it brings
\* it nearer to its end, and nothing takes it back - however the cancellation
\* of a sender meets its connects, its failures and its pauses (server.py:213-247).
RequestsAdvance ==
    /\ [](holder # Free => CanGoOn \/ \E o \in Owners : Closing(o))
    /\ [][/\ ForHolder => StepsLeft' < StepsLeft
          /\ holder # Free => StepsLeft' <= StepsLeft]_vars
=============================================================================
