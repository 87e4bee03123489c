--------------------------- MODULE EmulatorProofs ---------------------------
(***************************************************************************)
(* The destination of the emulator, its stops, and the route of the vessel *)
(* it simulates, for any destinations, routes and steps.                   *)
(***************************************************************************)
EXTENDS Emulator, WellFoundedInduction, TLAPS

\* What is left to do of each request.
Doing(op, todo) ==
    \/ op = "none" /\ todo = <<>>
    \/ op = "start" /\ todo \in {<<"sim", "run_sim">>, <<"run_sim">>, <<>>}
    \/ op = "stop" /\ todo \in {<<"ring", "sim">>, <<"sim">>, <<>>}
    \/ op = "send" /\ todo \in {<<"send">>, <<>>}
    \/ op = "motion_start" /\ todo \in {<<"ring", "send", "run_ring">>, <<"send", "run_ring">>,
                                        <<"send">>, <<"run_ring">>, <<>>}
    \/ op = "motion_stop" /\ todo \in {<<"ring">>, <<>>}
    \/ op = "output" /\ todo \in {<<"save", "ring", "sim", "assign">>, <<"ring", "sim", "assign">>,
                                  <<"sim", "assign">>, <<"assign">>, <<>>}

\* The heads and tails of stages.
LEMMA Tuples ==
    /\ \A a : Tail(<<a>>) = <<>> /\ Head(<<a>>) = a /\ <<a>> # <<>>
    /\ \A a, b : Tail(<<a, b>>) = <<b>> /\ Head(<<a, b>>) = a /\ <<a, b>> # <<>>
    /\ \A a, b, c : Tail(<<a, b, c>>) = <<b, c>> /\ Head(<<a, b, c>>) = a /\ <<a, b, c>> # <<>>
    /\ \A a, b, c, d : /\ Tail(<<a, b, c, d>>) = <<b, c, d>> /\ Head(<<a, b, c, d>>) = a
                       /\ <<a, b, c, d>> # <<>>
OBVIOUS

\* The stages of a request come one after the other.
LEMMA Stages ==
    ASSUME NEW op, NEW todo, Doing(op, todo), todo # <<>>
    PROVE  /\ Doing(op, Tail(todo))
           /\ Head(todo) = "assign" => op = "output" /\ todo = <<"assign">>
           /\ Head(todo) = "save" => op = "output" /\ todo = <<"save", "ring", "sim", "assign">>
           /\ Head(todo) = "send" => Doing(op, <<"send">>) /\ op \in {"send", "motion_start"}
           /\ Head(todo) \in {"run_sim", "run_ring"} => op \in {"start", "motion_start"}
<1>1. CASE op = "start" /\ todo = <<"sim", "run_sim">>
  <2>1. Head(todo) = "sim" /\ Tail(todo) = <<"run_sim">>
    BY <1>1, Tuples
  <2> QED
    BY <1>1, <2>1 DEF Doing
<1>2. CASE op = "start" /\ todo = <<"run_sim">>
  BY <1>2, Tuples DEF Doing
<1>3. CASE op = "stop" /\ todo = <<"ring", "sim">>
  BY <1>3, Tuples DEF Doing
<1>4. CASE op = "stop" /\ todo = <<"sim">>
  BY <1>4, Tuples DEF Doing
<1>5. CASE op = "send" /\ todo = <<"send">>
  BY <1>5, Tuples DEF Doing
<1>6. CASE op = "motion_start" /\ todo = <<"ring", "send", "run_ring">>
  <2>1. Head(todo) = "ring" /\ Tail(todo) = <<"send", "run_ring">>
    BY <1>6, Tuples
  <2> QED
    BY <1>6, <2>1 DEF Doing
<1>7. CASE op = "motion_start" /\ todo = <<"send", "run_ring">>
  <2>1. Head(todo) = "send" /\ Tail(todo) = <<"run_ring">>
    BY <1>7, Tuples
  <2> QED
    BY <1>7, <2>1 DEF Doing
<1>8. CASE op = "motion_start" /\ todo \in {<<"send">>, <<"run_ring">>}
  BY <1>8, Tuples DEF Doing
<1>9. CASE op = "motion_stop" /\ todo = <<"ring">>
  BY <1>9, Tuples DEF Doing
<1>10. CASE op = "output" /\ todo = <<"save", "ring", "sim", "assign">>
  <2>1. Head(todo) = "save" /\ Tail(todo) = <<"ring", "sim", "assign">>
    BY <1>10, Tuples
  <2> QED
    BY <1>10, <2>1 DEF Doing
<1>11. CASE op = "output" /\ todo = <<"ring", "sim", "assign">>
  <2>1. Head(todo) = "ring" /\ Tail(todo) = <<"sim", "assign">>
    BY <1>11, Tuples
  <2> QED
    BY <1>11, <2>1 DEF Doing
<1>12. CASE op = "output" /\ todo = <<"sim", "assign">>
  <2>1. Head(todo) = "sim" /\ Tail(todo) = <<"assign">>
    BY <1>12, Tuples
  <2> QED
    BY <1>12, <2>1 DEF Doing
<1>13. CASE op = "output" /\ todo = <<"assign">>
  BY <1>13, Tuples DEF Doing
<1> QED
  BY <1>1, <1>2, <1>3, <1>4, <1>5, <1>6, <1>7, <1>8, <1>9, <1>10, <1>11, <1>12, <1>13 DEF Doing

-----------------------------------------------------------------------------
Types ==
    /\ task = [s \in Senders |-> task[s]] /\ conn \in [Owners -> Outputs \cup {Default, NoConnection}]
    /\ \A s \in cancelled : s \in Senders /\ task[s] \notin {"none", "leaving", "ended"}
    /\ holder = [op |-> holder.op, todo |-> holder.todo, at |-> holder.at, output |-> holder.output]
    /\ Doing(holder.op, holder.todo) /\ override \in Outputs \cup {Unset} /\ file \in Outputs \cup {Unset}
    /\ holder.output \in Outputs \cup {Unset} /\ quiet \in BOOLEAN /\ stuck \in BOOLEAN

\* Only a task whose end is awaited is cancelled or on its way out.
Ending ==
    \A s \in Senders :
        s \in cancelled \/ task[s] \in {"leaving", "ended"} => At(s) /\ holder.at = "await"

Silent(s) == task[s] = "none" /\ conn[s] = NoConnection

\* A sender that ended has left no connection, except that the simulator may
\* leave its own to the request that stops it; a sequence that is sent has its
\* connection only while it is sent.
Left ==
    /\ task["ring"] \in {"none", "ended"} => conn["ring"] = NoConnection
    /\ task["sim"] = "none" /\ conn["sim"] # NoConnection => At("sim") /\ holder.at = "close"
    /\ At("sim") /\ holder.at = "close" => task["sim"] = "none"
    /\ conn["send"] # NoConnection => At("send") /\ holder.at \in {"drain", "close"}

\* What a stop and a change of the destination have stopped so far.
RingStopped ==
    \/ holder.op = "stop" /\ holder.todo \in {<<"sim">>, <<>>}
    \/ holder.op = "output" /\ holder.todo \in {<<"sim", "assign">>, <<"assign">>, <<>>}
SimStopped ==
    \/ holder.op = "stop" /\ holder.todo = <<>>
    \/ holder.op = "output" /\ holder.todo \in {<<"assign">>, <<>>}
Stopped ==
    /\ RingStopped \/ quiet => Silent("ring")
    /\ SimStopped \/ quiet => Silent("sim")

\* The new destination is in the file from its save to its use.
Unused == holder.op = "output"
          /\ holder.todo \in {<<"ring", "sim", "assign">>, <<"sim", "assign">>, <<"assign">>}
Saved == IF Unused THEN file = holder.output ELSE override = file \/ stuck

\* A simulator that cannot be closed does not run, and no request gets past its stop.
Stranded ==
    stuck => /\ task["sim"] \in {"none", "ended"} /\ conn["sim"] = NoConnection
             /\ ~(holder.op = "start" /\ holder.todo = <<"run_sim">>) /\ ~SimStopped
             /\ ~(At("sim") /\ holder.at = "close")

EInv == Types /\ Ending /\ Left /\ Stopped /\ Saved /\ Stranded /\ ConnectionsMatchTarget

\* The initial state satisfies the invariant.
LEMMA InitEInv == Init => EInv
<1> SUFFICES ASSUME Init PROVE EInv
  OBVIOUS
<1>1. task = [s \in Senders |-> task[s]]
  BY DEF Init, NoTask
<1>6. conn \in [Owners -> Outputs \cup {Default, NoConnection}]
  BY DEF Init, Unconnected
<1>5. Types
  BY <1>1, <1>6 DEF Init, Types, Free, Doing
<1>2. Ending /\ Left /\ Stopped
  BY DEF Init, Ending, Left, At, Stopped, Silent, NoTask, Unconnected, Senders, Owners, Free
<1>3. Saved /\ Stranded
  BY DEF Init, Saved, Stranded, Unused, Free
<1>4. ConnectionsMatchTarget
  BY DEF Init, ConnectionsMatchTarget, Unconnected
<1> QED
  BY <1>2, <1>3, <1>4, <1>5 DEF EInv

\* Only the simulator's end leaves it stuck.
LEMMA RingIsNotStuck ==
    ASSUME EInv, NEW s \in Senders, s # "sim", Sender(s) PROVE stuck' = stuck
<1>1. stuck' = stuck \/ stuck' = (stuck \/ s = "sim")
  BY Zenon DEF Sender, Ends, Cancelled, CutShort, dropped
<1>2. stuck \in BOOLEAN
  BY DEF EInv, Types
<1>3. CASE stuck = TRUE
  BY <1>1, <1>3
<1>4. CASE stuck = FALSE
  BY <1>1, <1>4
<1> QED
  BY <1>2, <1>3, <1>4

\* A step of a sender: it runs, and may connect to the destination in use or
\* close, or end when it has closed or is the simulator.
LEMMA SenderKeeps ==
    ASSUME EInv, NEW s \in Senders, Sender(s) PROVE EInv'
<1>1. UNCHANGED controlVars /\ override' = override /\ file' = file /\ holder' = holder /\ quiet' = quiet
  BY DEF Sender, Ends, controlVars
<1>b. stuck' \in BOOLEAN /\ (stuck => stuck')
  <2>1. stuck \in BOOLEAN
    BY DEF EInv, Types
  <2>2. CASE Cancelled(s)
    <3>1. stuck' = stuck \/ stuck' = (stuck \/ s = "sim")
      BY <2>2, Zenon DEF Cancelled, CutShort, dropped
    <3>2. stuck = TRUE \/ stuck = FALSE
      BY <2>1
    <3>3. (stuck \/ s = "sim") \in BOOLEAN /\ (stuck => (stuck \/ s = "sim"))
      BY <3>2
    <3> QED
      BY <2>1, <3>1, <3>3, Zenon
  <2>3. CASE UNCHANGED dropped
    BY <2>1, <2>3 DEF dropped
  <2> QED
    BY <2>2, <2>3 DEF Sender, Ends
<1>2. /\ task[s] # "none" /\ cancelled' \subseteq cancelled
      /\ \E at \in {"open", "sleep", "drain", "pause", "closing", "leaving", "ended"} :
             /\ task' = [task EXCEPT ![s] = at]
             /\ at \in {"leaving", "ended"} => s \notin cancelled' /\ (s \in cancelled \/ task[s] = "leaving")
             /\ \E c \in {conn[s], output_config, NoConnection} :
                    /\ conn' = [conn EXCEPT ![s] = c]
                    /\ s = "ring" /\ at = "ended" => c = NoConnection
  <2>0. conn = [conn EXCEPT ![s] = conn[s]] /\ (s \in cancelled => task[s] # "none")
    BY DEF EInv, Types, Owners
  <2>1. CASE Begin(s) \/ Woken(s) \/ Drained(s)
    BY <2>0, <2>1 DEF Begin, Woken, Drained, Live, Enter, Frames
  <2>2. CASE Opened(s)
    BY <2>2 DEF Opened, Live, Enter, Frames, Connect
  <2>3. CASE Fails(s) \/ Paused(s)
    BY <2>0, <2>3 DEF Fails, Paused, Live, Enter
  <2>4. CASE WaitClosed(s)
    BY <2>4 DEF WaitClosed, Live, Enter, Closed
  <2>5. CASE Cancelled(s)
    <3>1. s \in cancelled /\ cancelled' = cancelled \ {s}
      BY <2>5 DEF Cancelled
    <3>2. CASE task[s] # "closing"
      <4>1. UNCHANGED conn /\ Enter(s, IF conn[s] = NoConnection THEN "ended" ELSE "leaving")
        BY <2>5, <3>2 DEF Cancelled
      <4> QED
        BY <2>0, <3>1, <4>1 DEF Enter
    <3>3. CASE task[s] = "closing"
      <4>1. Enter(s, "ended") /\ CutShort(s)
        BY <2>5, <3>3 DEF Cancelled
      <4> QED
        BY <2>0, <3>1, <4>1 DEF Enter, CutShort, Abandon, Closed
    <3> QED
      BY <3>2, <3>3
  <2> QED
    BY <2>1, <2>2, <2>3, <2>4, <2>5 DEF Sender, Ends
<1>a. PICK at \in {"open", "sleep", "drain", "pause", "closing", "leaving", "ended"},
           c \in {conn[s], output_config, NoConnection} :
         /\ task' = [task EXCEPT ![s] = at] /\ conn' = [conn EXCEPT ![s] = c]
         /\ at \in {"leaving", "ended"} => s \notin cancelled' /\ (s \in cancelled \/ task[s] = "leaving")
         /\ s = "ring" /\ at = "ended" => c = NoConnection
  BY <1>2
<1>3. /\ task' = [task EXCEPT ![s] = at] /\ conn' = [conn EXCEPT ![s] = c]
      /\ at # "none"
      /\ at \in {"leaving", "ended"} => s \notin cancelled' /\ (s \in cancelled \/ task[s] = "leaving")
      /\ c \in {conn[s], output_config, NoConnection}
      /\ s = "ring" /\ at = "ended" => c = NoConnection
  BY <1>a
<1>4. output_config \in Outputs \cup {Default, NoConnection} /\ output_config' = output_config
  BY <1>1 DEF output_config, EInv, Types
<1>5. Types'
  BY <1>1, <1>2, <1>3, <1>4, <1>b DEF EInv, Types, Owners
<1>e. Ending'
  BY <1>1, <1>2, <1>3 DEF EInv, Types, Ending, At
<1>6. Left'
  BY <1>1, <1>2, <1>3 DEF EInv, Types, Left, At, Owners, Senders
<1>7. Stopped'
  BY <1>1, <1>2, <1>3 DEF EInv, Types, Stopped, Silent, RingStopped, SimStopped, Owners, Senders
<1>8. Saved'
  BY <1>1, <1>b DEF EInv, Saved, Unused
<1>9. ConnectionsMatchTarget'
  <2> SUFFICES ASSUME NEW o \in Owners PROVE conn'[o] \in {NoConnection, output_config}
    BY <1>4 DEF ConnectionsMatchTarget
  <2>0. conn' = [conn EXCEPT ![s] = c]
    BY <1>3, Zenon
  <2>1. conn \in [Owners -> Outputs \cup {Default, NoConnection}]
    BY DEF EInv, Types
  <2>2. conn[o] \in {NoConnection, output_config} /\ conn[s] \in {NoConnection, output_config}
    BY DEF EInv, ConnectionsMatchTarget, Owners
  <2>3. CASE o = s
    BY <1>3, <2>0, <2>1, <2>2, <2>3
  <2>4. CASE o # s
    BY <2>0, <2>1, <2>2, <2>4
  <2> QED
    BY <2>3, <2>4
<1>10. Stranded'
  <2>1. CASE s = "sim" /\ stuck
    <3>1. task[s] \in {"none", "ended"}
      BY <2>1 DEF EInv, Stranded
    <3>2. s \notin cancelled
      BY <3>1 DEF EInv, Types
    <3> QED
      BY <1>2, <3>1, <3>2 DEF Sender, Ends, Begin, Opened, Woken, Drained, Fails, Paused, WaitClosed,
          Cancelled, Live
  <2>2. CASE s # "sim"
    <3>1. stuck' = stuck
      BY <2>2, RingIsNotStuck
    <3>2. task'["sim"] = task["sim"] /\ conn'["sim"] = conn["sim"]
      BY <1>3, <2>2 DEF EInv, Types, Owners, Senders
    <3> QED
      BY <1>1, <3>1, <3>2 DEF EInv, Stranded, SimStopped, At
  <2>3. CASE s = "sim" /\ ~stuck /\ stuck'
    <3>1. s \in cancelled /\ Enter(s, "ended") /\ Closed(s)
      BY <2>3 DEF Sender, Ends, Cancelled, CutShort, Abandon, dropped
    <3>2. task'[s] = "ended" /\ conn'[s] = NoConnection
      BY <3>1 DEF Enter, Closed, EInv, Types, Owners
    <3>3. At("sim") /\ holder.at = "await"
      BY <2>3, <3>1 DEF EInv, Ending
    <3>4. holder.todo # <<>> /\ holder.todo # <<"assign">> /\ holder.todo # <<"run_sim">>
      BY <3>3, Tuples DEF At
    <3> QED
      BY <1>1, <2>3, <3>2, <3>3, <3>4 DEF Stranded, SimStopped, At
  <2>4. CASE ~stuck'
    BY <2>4 DEF Stranded
  <2> QED
    BY <2>1, <2>2, <2>3, <2>4
<1> QED
  BY <1>5, <1>e, <1>6, <1>7, <1>8, <1>9, <1>10 DEF EInv

-----------------------------------------------------------------------------
\* A stage of a request that is done, when nothing else has changed but what
\* the stage has stopped, saved or assigned.
LEMMA StageDone ==
    ASSUME EInv, holder.todo # <<>>, Done PROVE
      /\ Doing(holder'.op, holder'.todo) /\ holder'.at = "go"
      /\ holder' = [op |-> holder'.op, todo |-> holder'.todo, at |-> holder'.at, output |-> holder'.output]
      /\ holder'.op = holder.op /\ holder'.todo = Tail(holder.todo) /\ holder'.output = holder.output
<1>1. holder' = [holder EXCEPT !.todo = Tail(@), !.at = "go"]
  BY DEF Done
<1>2. Doing(holder.op, Tail(holder.todo))
  BY Stages DEF EInv, Types
<1> QED
  BY <1>1, <1>2 DEF EInv, Types

\* Which stages take a stop further.
LEMMA Progress ==
    ASSUME NEW op, NEW todo, Doing(op, todo), todo # <<>>, op \in {"stop", "output"}
    PROVE  \/ op = "stop" /\ todo = <<"ring", "sim">> /\ Head(todo) = "ring" /\ Tail(todo) = <<"sim">>
           \/ op = "stop" /\ todo = <<"sim">> /\ Head(todo) = "sim" /\ Tail(todo) = <<>>
           \/ /\ op = "output" /\ todo = <<"save", "ring", "sim", "assign">>
              /\ Head(todo) = "save" /\ Tail(todo) = <<"ring", "sim", "assign">>
           \/ /\ op = "output" /\ todo = <<"ring", "sim", "assign">>
              /\ Head(todo) = "ring" /\ Tail(todo) = <<"sim", "assign">>
           \/ /\ op = "output" /\ todo = <<"sim", "assign">>
              /\ Head(todo) = "sim" /\ Tail(todo) = <<"assign">>
           \/ op = "output" /\ todo = <<"assign">> /\ Head(todo) = "assign" /\ Tail(todo) = <<>>
<1>1. CASE todo = <<>>
  BY <1>1
<1>2. CASE todo = <<"ring", "sim">>
  <2>1. Head(todo) = "ring" /\ Tail(todo) = <<"sim">>
    BY <1>2, Tuples
  <2> QED
    BY <1>2, <2>1 DEF Doing
<1>3. CASE todo = <<"sim">>
  <2>1. Head(todo) = "sim" /\ Tail(todo) = <<>>
    BY <1>3, Tuples
  <2> QED
    BY <1>3, <2>1 DEF Doing
<1>4. CASE todo = <<"save", "ring", "sim", "assign">>
  <2>1. Head(todo) = "save" /\ Tail(todo) = <<"ring", "sim", "assign">>
    BY <1>4, Tuples
  <2> QED
    BY <1>4, <2>1 DEF Doing
<1>5. CASE todo = <<"ring", "sim", "assign">>
  <2>1. Head(todo) = "ring" /\ Tail(todo) = <<"sim", "assign">>
    BY <1>5, Tuples
  <2> QED
    BY <1>5, <2>1 DEF Doing
<1>6. CASE todo = <<"sim", "assign">>
  <2>1. Head(todo) = "sim" /\ Tail(todo) = <<"assign">>
    BY <1>6, Tuples
  <2> QED
    BY <1>6, <2>1 DEF Doing
<1>7. CASE todo = <<"assign">>
  <2>1. Head(todo) = "assign" /\ Tail(todo) = <<>>
    BY <1>7, Tuples
  <2> QED
    BY <1>7, <2>1 DEF Doing
<1> QED
  BY <1>1, <1>2, <1>3, <1>4, <1>5, <1>6, <1>7 DEF Doing

-----------------------------------------------------------------------------
\* What a request leaves alone when its stage is neither save nor assign.
Undisturbed == UNCHANGED <<override, file, quiet, stuck>>

\* Which stages precede the start of a sender.
LEMMA BeforeRun ==
    ASSUME NEW op, NEW todo, Doing(op, todo), todo # <<>>
    PROVE  /\ op = "start" /\ Tail(todo) = <<"run_sim">> => Head(todo) = "sim"
           /\ op = "motion_start" /\ Tail(todo) = <<"send", "run_ring">> => Head(todo) = "ring"
           /\ op = "motion_start" /\ Tail(todo) = <<"run_ring">> => todo = <<"send", "run_ring">>
           /\ op = "start" /\ Head(todo) = "run_sim" => todo = <<"run_sim">>
           /\ op = "motion_start" /\ Head(todo) = "run_ring" => todo = <<"run_ring">>
           /\ Head(todo) = "run_sim" => op = "start"
           /\ Head(todo) = "run_ring" => op = "motion_start"
<1>1. \A x : <<>> # <<x>> /\ \A y : <<>> # <<x, y>> /\ <<x>> # <<x, y>> /\ \A z : <<z>> # <<x, y>>
  OBVIOUS
<1>2. CASE op = "start"
  <2>1. CASE todo = <<"sim", "run_sim">>
    <3>1. Head(todo) = "sim" /\ Tail(todo) = <<"run_sim">>
      BY <2>1, Tuples
    <3> QED
      BY <1>1, <1>2, <3>1
  <2>2. CASE todo = <<"run_sim">>
    <3>1. Head(todo) = "run_sim" /\ Tail(todo) = <<>>
      BY <2>2, Tuples
    <3> QED
      BY <1>1, <1>2, <2>2, <3>1
  <2> QED
    BY <1>2, <2>1, <2>2 DEF Doing
<1>3. CASE op = "motion_start"
  <2>1. CASE todo = <<"ring", "send", "run_ring">>
    <3>1. Head(todo) = "ring" /\ Tail(todo) = <<"send", "run_ring">>
      BY <2>1, Tuples
    <3> QED
      BY <1>1, <1>3, <3>1
  <2>2. CASE todo = <<"send", "run_ring">>
    <3>1. Head(todo) = "send" /\ Tail(todo) = <<"run_ring">>
      BY <2>2, Tuples
    <3> QED
      BY <1>1, <1>3, <2>2, <3>1
  <2>3. CASE todo = <<"send">>
    <3>1. Head(todo) = "send" /\ Tail(todo) = <<>>
      BY <2>3, Tuples
    <3> QED
      BY <1>1, <1>3, <3>1
  <2>4. CASE todo = <<"run_ring">>
    <3>1. Head(todo) = "run_ring" /\ Tail(todo) = <<>>
      BY <2>4, Tuples
    <3> QED
      BY <1>1, <1>3, <2>4, <3>1
  <2> QED
    BY <1>3, <2>1, <2>2, <2>3, <2>4 DEF Doing
<1>4. CASE op \notin {"start", "motion_start"}
  <2>1. Head(todo) \notin {"run_sim", "run_ring"}
    BY <1>4, Stages
  <2> QED
    BY <1>4, <2>1
<1> QED
  BY <1>2, <1>3, <1>4

\* The lock is free again and nothing else has changed, from a stage that
\* leaves no connection behind.
LEMMA FreeKeeps ==
    ASSUME EInv, holder' = Free, holder.at = "go", override = file \/ stuck,
           UNCHANGED <<task, cancelled, conn, override, file, stuck>>,
           quiet' = quiet \/ (RingStopped /\ SimStopped /\ quiet' = TRUE)
    PROVE  EInv'
<1>1. holder'.op = "none" /\ holder'.todo = <<>> /\ holder'.at = "done" /\ holder'.output = Unset
  BY DEF Free
<1>2. holder' = [op |-> holder'.op, todo |-> holder'.todo, at |-> holder'.at, output |-> holder'.output]
  BY DEF Free
<1>3. Types'
  <2>1. quiet' \in BOOLEAN
    <3>1. CASE quiet' = quiet
      BY <3>1 DEF EInv, Types
    <3>2. CASE quiet' = TRUE
      BY <3>2
    <3> QED
      BY <3>1, <3>2
  <2> QED
    BY <1>1, <1>2, <2>1 DEF EInv, Types, Doing
<1>4. Ending' /\ Left'
  BY <1>1 DEF EInv, Ending, Left, At
<1>5. ~RingStopped' /\ ~SimStopped' /\ ~Unused'
  BY <1>1 DEF RingStopped, SimStopped, Unused
<1>6. Stopped' /\ Saved'
  <2>1. CASE quiet' = quiet
    BY <1>5, <2>1 DEF EInv, Stopped, Silent, Saved
  <2>2. CASE RingStopped /\ SimStopped
    BY <1>5, <2>2 DEF EInv, Stopped, Silent, Saved
  <2> QED
    BY <2>1, <2>2
<1>7. ConnectionsMatchTarget'
  BY DEF EInv, ConnectionsMatchTarget, output_config
<1>8. Stranded'
  BY <1>1, <1>5 DEF EInv, Stranded, At
<1> QED
  BY <1>3, <1>4, <1>6, <1>7, <1>8 DEF EInv

\* A stage that is over is not the stop of a simulator that cannot be closed.
LEMMA StrandedDone ==
    ASSUME EInv, holder.todo # <<>>, Done, UNCHANGED stuck,
           stuck => Head(holder.todo) # "sim" /\ UNCHANGED conn["sim"] /\ UNCHANGED task["sim"]
    PROVE  Stranded'
<1>1. /\ holder'.op = holder.op /\ holder'.todo = Tail(holder.todo) /\ holder'.at = "go"
      /\ Doing(holder.op, holder.todo)
  BY StageDone DEF EInv, Types
<1>2. ASSUME stuck PROVE ~(holder'.op = "start" /\ holder'.todo = <<"run_sim">>)
  BY <1>1, <1>2, BeforeRun
<1>3. ASSUME stuck PROVE ~SimStopped'
  <2>1. CASE holder.op \in {"stop", "output"}
    <3>1. ~SimStopped /\ Head(holder.todo) # "sim"
      BY <1>3 DEF EInv, Stranded
    <3>2. holder.todo # <<"assign">> \/ holder.op # "output"
      BY <3>1 DEF SimStopped
    <3>3. \/ Tail(holder.todo) \in {<<"sim">>, <<"sim", "assign">>, <<"ring", "sim", "assign">>}
      BY <1>1, <2>1, <3>1, <3>2, Progress
    <3>4. /\ <<"sim">> # <<>> /\ <<"sim">> # <<"assign">> /\ <<"sim", "assign">> # <<>>
          /\ <<"sim", "assign">> # <<"assign">>
          /\ <<"ring", "sim", "assign">> # <<>> /\ <<"ring", "sim", "assign">> # <<"assign">>
      OBVIOUS
    <3> QED
      BY <1>1, <3>3, <3>4, Zenon DEF SimStopped
  <2>2. CASE holder.op \notin {"stop", "output"}
    BY <1>1, <2>2 DEF SimStopped
  <2> QED
    BY <2>1, <2>2
<1> QED
  BY <1>1, <1>2, <1>3 DEF EInv, Stranded

\* A request takes the lock.
LEMMA PostKeeps ==
    ASSUME EInv, NEW op \in DOMAIN Plan, NEW output \in Outputs \cup {Unset}, Post(op, output)
    PROVE  EInv'
<1>1. /\ holder' = [op |-> op, todo |-> Plan[op], at |-> "go", output |-> output]
      /\ UNCHANGED <<task, cancelled, conn, override, file, quiet, stuck>>
      /\ holder.op = "none" /\ holder.todo = <<>> /\ holder.at = "done"
  BY DEF Post, Free, dropped
<1>2. Doing(op, Plan[op]) /\ Plan[op] # <<>>
  BY DEF Plan, Doing
<1>3. holder'.op = op /\ holder'.todo = Plan[op] /\ holder'.at = "go" /\ holder'.output = output
  BY <1>1
<1>4. Types'
  BY <1>1, <1>2, <1>3 DEF EInv, Types
<1>5. Ending' /\ Left'
  BY <1>1 DEF EInv, Ending, Left, At
<1>6. ~RingStopped' /\ ~SimStopped' /\ ~Unused'
  <2>1. op = "stop" => Plan[op] = <<"ring", "sim">>
    BY DEF Plan
  <2>2. op = "output" => Plan[op] = <<"save", "ring", "sim", "assign">>
    BY DEF Plan
  <2> QED
    BY <1>3, <2>1, <2>2 DEF RingStopped, SimStopped, Unused
<1>7. Stopped'
  BY <1>1, <1>6 DEF EInv, Stopped, Silent
<1>8. Saved'
  BY <1>1, <1>6 DEF EInv, Saved, Unused
<1>9. ConnectionsMatchTarget'
  BY <1>1 DEF EInv, ConnectionsMatchTarget, output_config
<1>10. Stranded'
  <2>1. op = "start" => Plan[op] # <<"run_sim">>
    BY Tuples DEF Plan
  <2> QED
    BY <1>1, <1>3, <1>6, <2>1 DEF EInv, Stranded
<1> QED
  BY <1>4, <1>5, <1>7, <1>8, <1>9, <1>10 DEF EInv

\* A stage of a stop is over when its sender is silent.
LEMMA StopDone ==
    ASSUME EInv, NEW s \in Senders, At(s), Done, Undisturbed,
           \A r \in Senders : Silent(r) => Silent(r)',
           Silent(s)'
    PROVE  Stopped' /\ Saved'
<1>1. /\ holder.todo # <<>> /\ Head(holder.todo) = s /\ Doing(holder.op, holder.todo)
      /\ s \in {"sim", "ring"}
  BY DEF At, EInv, Types, Senders
<1>2. /\ holder'.op = holder.op /\ holder'.todo = Tail(holder.todo)
      /\ holder'.output = holder.output
  BY <1>1, StageDone
<1>3. Senders = {"sim", "ring"}
  BY DEF Senders
<1>4. CASE holder.op \notin {"stop", "output"}
  <2>1. ~RingStopped' /\ ~SimStopped' /\ ~Unused' /\ ~Unused
    BY <1>2, <1>4 DEF RingStopped, SimStopped, Unused
  <2> QED
    BY <1>3, <2>1 DEF EInv, Stopped, Saved, Undisturbed
<1>5. CASE holder.op \in {"stop", "output"}
  <2>1. RingStopped' => RingStopped \/ s = "ring"
    BY <1>1, <1>2, <1>5, Progress DEF RingStopped
  <2>2. SimStopped' => s = "sim"
    <3>1. holder.todo # <<>> /\ holder.op \in {"stop", "output"} /\ Head(holder.todo) \in {"sim", "ring"}
      BY <1>1, <1>5
    <3>2. \/ Head(holder.todo) = "ring" /\ Tail(holder.todo) \in {<<"sim">>, <<"sim", "assign">>}
          \/ Head(holder.todo) = "sim"
      BY <1>1, <3>1, Progress
    <3>3. <<"sim">> # <<>> /\ <<"sim">> # <<"assign">> /\ <<"sim", "assign">> # <<>>
          /\ <<"sim", "assign">> # <<"assign">>
      OBVIOUS
    <3> QED
      BY <1>1, <1>2, <3>2, <3>3, Zenon DEF SimStopped
  <2>3. Unused' <=> Unused
    BY <1>1, <1>2, <1>5, Progress DEF Unused
  <2>4. Stopped'
    BY <1>3, <2>1, <2>2 DEF EInv, Stopped, Undisturbed
  <2>5. Saved'
    BY <1>2, <2>3 DEF EInv, Saved, Undisturbed
  <2> QED
    BY <2>4, <2>5
<1> QED
  BY <1>4, <1>5

\* A stop begins: there is no task, or its cancellation is sent.
LEMMA StopKeeps == ASSUME EInv, NEW s \in Senders, Stop(s), UNCHANGED dropped PROVE EInv'
<1>1. /\ At(s) /\ holder.at = "go" /\ UNCHANGED <<task, conn>> /\ Undisturbed
      /\ override' = override
  BY DEF Stop, Undisturbed, dropped
<1>2. ConnectionsMatchTarget'
  BY <1>1 DEF EInv, ConnectionsMatchTarget, output_config
<1>3. CASE task[s] = "none" /\ ~Unclosable(s) /\ Done /\ UNCHANGED cancelled
  <2>0. Stranded'
    BY <1>1, <1>3, StrandedDone DEF At, Unclosable, Undisturbed
  <2>1. Types'
    BY <1>1, <1>3, StageDone DEF EInv, Types, Undisturbed, At
  <2>2. holder'.at = "go"
    BY <1>1, <1>3, StageDone DEF At
  <2>3. Ending' /\ Left'
    BY <1>1, <1>3, <2>2 DEF EInv, Ending, Left
  <2>4. Silent(s) /\ \A r \in Senders : Silent(r)' <=> Silent(r)
    BY <1>1, <1>3 DEF EInv, Left, Silent, Senders
  <2> QED
    BY <1>1, <1>2, <1>3, <2>0, <2>1, <2>3, <2>4, StopDone DEF EInv
<1>4. CASE task[s] # "none" /\ Wait("await") /\ cancelled' = cancelled \cup {s}
  <2>1. /\ holder' = [holder EXCEPT !.at = "await"] /\ holder'.op = holder.op /\ holder'.at = "await"
        /\ holder'.todo = holder.todo /\ holder'.output = holder.output
    BY <1>4 DEF Wait, EInv, Types
  <2>2. Types'
    BY <1>1, <1>4, <2>1 DEF EInv, Types, Ending, Undisturbed
  <2>3. Ending' /\ Left'
    BY <1>1, <1>4, <2>1 DEF EInv, Ending, Left, At
  <2>4. Stopped' /\ Saved'
    BY <1>1, <2>1 DEF EInv, Stopped, Silent, RingStopped, SimStopped, Saved, Unused, Undisturbed
  <2>5. Stranded'
    BY <1>1, <2>1 DEF EInv, Stranded, SimStopped, At, Undisturbed
  <2> QED
    BY <1>2, <2>2, <2>3, <2>4, <2>5 DEF EInv
<1>5. CASE task[s] = "none" /\ Unclosable(s) /\ Raise /\ UNCHANGED cancelled
  <2>1. stuck /\ holder' = Free
    BY <1>5 DEF Unclosable, Raise
  <2> QED
    BY <1>1, <1>5, <2>1, FreeKeeps DEF Undisturbed
<1> QED
  BY <1>3, <1>4, <1>5 DEF Stop

\* The end of a task was awaited.
LEMMA AwaitedKeeps == ASSUME EInv, NEW s \in Senders, Awaited(s), UNCHANGED dropped PROVE EInv'
<1>1. /\ At(s) /\ holder.at = "await" /\ task[s] = "ended" /\ task' = [task EXCEPT ![s] = "none"]
      /\ UNCHANGED <<conn, cancelled>> /\ Undisturbed /\ override' = override
  BY DEF Awaited, Undisturbed, Enter, dropped
<1>2. ConnectionsMatchTarget'
  BY <1>1 DEF EInv, ConnectionsMatchTarget, output_config
<1>3. task'[s] = "none" /\ \A r \in Senders : r # s => task'[r] = task[r]
  BY <1>1 DEF EInv, Types
<1>4. \A r \in Senders : r # s => r \notin cancelled /\ task[r] \notin {"leaving", "ended"}
  BY <1>1 DEF EInv, Ending, At
<1>5. task' = [r \in Senders |-> task'[r]]
  BY <1>1 DEF EInv, Types
<1>6. s \notin cancelled
  BY <1>1 DEF EInv, Types, Left, Ending
<1>7. CASE ~Unclosable(s) /\ conn[s] = NoConnection /\ Done
  <2>0. Stranded'
    BY <1>1, <1>3, <1>7, StrandedDone DEF At, Unclosable, Undisturbed, Senders
  <2>1. Types'
    BY <1>1, <1>3, <1>5, <1>6, <1>7, StageDone DEF EInv, Types, Undisturbed, At
  <2>2. holder'.at = "go"
    BY <1>7, <1>1, StageDone DEF At
  <2>3. Ending'
    BY <1>1, <1>3, <1>4, <1>6, <1>7 DEF Ending
  <2>4. Left'
    BY <1>1, <1>3, <1>7, <2>2 DEF EInv, Left, Senders
  <2>5. Silent(s)' /\ \A r \in Senders : Silent(r) => Silent(r)'
    BY <1>1, <1>3, <1>7 DEF Silent
  <2> QED
    BY <1>1, <1>2, <1>7, <2>0, <2>1, <2>3, <2>4, <2>5, StopDone DEF EInv
<1>8. CASE ~Unclosable(s) /\ conn[s] # NoConnection /\ Wait("close")
  <2>1. /\ holder' = [holder EXCEPT !.at = "close"] /\ holder'.op = holder.op /\ holder'.at = "close"
        /\ holder'.todo = holder.todo /\ holder'.output = holder.output
    BY <1>8 DEF Wait, EInv, Types
  <2>2. s = "sim"
    BY <1>1, <1>8 DEF EInv, Left, Senders
  <2>3. Types'
    BY <1>1, <1>3, <1>5, <1>6, <2>1 DEF EInv, Types, Undisturbed
  <2>4. Ending'
    BY <1>1, <1>3, <1>4, <1>6 DEF Ending
  <2>5. Left'
    BY <1>1, <1>3, <2>1, <2>2 DEF EInv, Left, At, Senders
  <2>6. ~Silent(s) /\ (Silent("ring") => Silent("ring")')
    BY <1>1, <1>3, <2>2 DEF Silent, Senders
  <2>7. Stopped'
    BY <1>1, <2>1, <2>2, <2>6 DEF EInv, Stopped, RingStopped, SimStopped, Undisturbed
  <2>8. Saved'
    BY <1>1, <2>1 DEF EInv, Saved, Unused, Undisturbed
  <2>9. Stranded'
    BY <1>1, <1>8, <2>2 DEF Stranded, Unclosable, Undisturbed
  <2> QED
    BY <1>2, <2>3, <2>4, <2>5, <2>7, <2>8, <2>9 DEF EInv
<1>9. CASE Unclosable(s) /\ Raise
  <2>1. stuck /\ s = "sim" /\ conn["sim"] = NoConnection /\ stuck' = stuck
    BY <1>1, <1>9 DEF EInv, Stranded, Unclosable, Undisturbed
  <2>2. /\ holder'.op = "none" /\ holder'.todo = <<>> /\ holder'.at = "done" /\ holder'.output = Unset
        /\ holder' = [op |-> holder'.op, todo |-> holder'.todo, at |-> holder'.at, output |-> holder'.output]
    BY <1>9 DEF Raise, Free
  <2>3. Types'
    BY <1>1, <1>3, <1>5, <1>6, <2>2 DEF EInv, Types, Doing, Undisturbed
  <2>4. Ending'
    BY <1>1, <1>3, <1>4, <1>6 DEF Ending
  <2>5. Left'
    <3>1. conn["send"] = NoConnection
      BY <1>1 DEF EInv, Left
    <3> QED
      BY <1>1, <1>3, <2>1, <2>2, <3>1 DEF EInv, Left, At, Senders
  <2>6. ~RingStopped' /\ ~SimStopped' /\ ~Unused'
    BY <2>2 DEF RingStopped, SimStopped, Unused
  <2>7. Stopped'
    BY <1>1, <1>3, <2>1, <2>6 DEF EInv, Stopped, Silent, Undisturbed, Senders
  <2>8. Saved' /\ Stranded'
    BY <1>1, <1>3, <2>1, <2>2, <2>6 DEF Saved, Stranded, At
  <2> QED
    BY <1>2, <2>3, <2>4, <2>5, <2>7, <2>8 DEF EInv
<1> QED
  BY <1>7, <1>8, <1>9 DEF Awaited

\* A connection is closed for good.
LEMMA DisconnectedKeeps ==
    ASSUME EInv, NEW o \in {"sim", "send"}, Disconnected(o), UNCHANGED dropped PROVE EInv'
<1>1. /\ At(o) /\ holder.at = "close" /\ conn' = [conn EXCEPT ![o] = NoConnection] /\ Done
      /\ UNCHANGED <<task, cancelled>> /\ Undisturbed /\ override' = override
  BY DEF Disconnected, Undisturbed, Closed, dropped
<1>2. conn'[o] = NoConnection /\ \A r \in Owners : r # o => conn'[r] = conn[r]
  BY <1>1 DEF EInv, Types, Owners, Senders
<1>3. ConnectionsMatchTarget'
  BY <1>1, <1>2 DEF EInv, ConnectionsMatchTarget, output_config
<1>4. Types'
  BY <1>1, StageDone DEF EInv, Types, Undisturbed, At
<1>5. holder'.at = "go" /\ holder'.op = holder.op
  BY <1>1, StageDone DEF At
<1>6. Ending'
  BY <1>1 DEF EInv, Ending
<1>7. Left'
  BY <1>1, <1>2, <1>5 DEF EInv, Left, At, Owners, Senders
<1>8. \A r \in Senders : Silent(r) => Silent(r)'
  BY <1>1, <1>2 DEF Silent, Owners
<1>s. Stranded'
  <2>1. stuck => o = "send"
    BY <1>1 DEF EInv, Stranded
  <2> QED
    BY <1>1, <1>2, <2>1, StrandedDone DEF At, Undisturbed, Owners, Senders
<1>9. CASE o = "sim"
  <2>1. Silent("sim")'
    BY <1>1, <1>2, <1>9 DEF EInv, Left, Silent
  <2> QED
    BY <1>1, <1>3, <1>4, <1>6, <1>7, <1>8, <1>9, <1>s, <2>1, StopDone DEF EInv, Senders
<1>10. CASE o = "send"
  <2>1. holder.op \in {"send", "motion_start"}
    BY <1>1, <1>10, Stages DEF EInv, Types, At
  <2>2. ~RingStopped' /\ ~SimStopped' /\ ~Unused' /\ ~Unused
    BY <1>5, <2>1 DEF RingStopped, SimStopped, Unused
  <2>3. Stopped' /\ Saved'
    BY <1>1, <1>8, <2>2 DEF EInv, Stopped, Saved, Undisturbed, Senders
  <2> QED
    BY <1>3, <1>4, <1>6, <1>7, <1>s, <2>3 DEF EInv
<1> QED
  BY <1>9, <1>10

-----------------------------------------------------------------------------
\* A sequence is sent: connection, data, end.
LEMMA SendKeeps ==
    ASSUME EInv, SendOpens \/ SendOpened \/ SendDrained \/ SendFails, UNCHANGED dropped PROVE EInv'
<1>1. At("send") /\ UNCHANGED <<task, cancelled>> /\ Undisturbed /\ override' = override
  BY DEF SendOpens, SendOpened, SendDrained, SendFails, Undisturbed, dropped
<1>2. /\ holder.op \in {"send", "motion_start"} /\ Doing(holder.op, <<"send">>)
      /\ Head(holder.todo) = "send"
  BY <1>1, Stages DEF EInv, Types, At
<1>3. <<"send">> # <<>> /\ Head(<<"send">>) = "send"
  BY Tuples
<1>4. holder.at # "await"
  BY DEF SendOpens, SendOpened, SendDrained, SendFails
<1>5. \/ /\ holder' = Free /\ conn' = conn /\ conn["send"] = NoConnection
      \/ /\ holder' = [holder EXCEPT !.at = holder'.at, !.todo = holder'.todo]
         /\ holder'.todo \in {holder.todo, <<"send">>}
         /\ \/ conn' = conn /\ conn["send"] = NoConnection /\ holder'.at = "open"
            \/ conn' = conn /\ holder'.at = "close"
            \/ conn' = [conn EXCEPT !["send"] = output_config] /\ holder'.at = "drain"
  <2>1. CASE SendOpens
    BY <2>1 DEF SendOpens, Wait, EInv, Types, Left
  <2>2. CASE SendOpened
    BY <2>2 DEF SendOpened, Connect, Wait, EInv, Types
  <2>3. CASE SendDrained
    BY <2>3 DEF SendDrained, Wait, EInv, Types
  <2>4. CASE SendFails
    BY <2>4 DEF SendFails, Raise, EInv, Left
  <2> QED
    BY <2>1, <2>2, <2>3, <2>4
<1>6. /\ holder' = [op |-> holder'.op, todo |-> holder'.todo, at |-> holder'.at, output |-> holder'.output]
      /\ Doing(holder'.op, holder'.todo) /\ holder'.op \in {"none", "send", "motion_start"}
      /\ holder'.output \in Outputs \cup {Unset}
  <2>1. CASE holder' = Free
    BY <2>1 DEF Free, Doing
  <2>2. CASE holder' = [holder EXCEPT !.at = holder'.at, !.todo = holder'.todo]
        /\ holder'.todo \in {holder.todo, <<"send">>}
    BY <1>2, <2>2 DEF EInv, Types
  <2> QED
    BY <1>5, <2>1, <2>2
<1>7. /\ conn'["send"] \in {conn["send"], output_config} /\ conn'["sim"] = conn["sim"]
      /\ conn'["ring"] = conn["ring"] /\ conn' \in [Owners -> Outputs \cup {Default, NoConnection}]
  <2>1. conn \in [Owners -> Outputs \cup {Default, NoConnection}]
        /\ output_config \in Outputs \cup {Default, NoConnection}
    BY DEF EInv, Types, output_config
  <2> QED
    BY <1>5, <2>1 DEF Owners, Senders
<1>8. Types'
  BY <1>1, <1>6, <1>7 DEF EInv, Types, Undisturbed
<1>9. \A s \in Senders : s \notin cancelled /\ task[s] \notin {"leaving", "ended"}
  BY <1>4 DEF EInv, Ending
<1>10. Ending'
  BY <1>1, <1>9 DEF Ending
<1>11. Head(holder'.todo) # "sim" \/ holder'.todo = <<>>
  BY <1>2, <1>3, <1>5 DEF Free
<1>12. task["sim"] = "none" => conn["sim"] = NoConnection
  BY <1>2 DEF EInv, Left, At
<1>13. conn'["send"] # NoConnection => At("send")' /\ holder'.at \in {"drain", "close"}
  BY <1>1, <1>2, <1>3, <1>5 DEF At, Free
<1>14. Left'
  BY <1>1, <1>7, <1>11, <1>12, <1>13 DEF EInv, Left, At
<1>15. ~RingStopped' /\ ~SimStopped' /\ ~Unused' /\ ~Unused
  BY <1>2, <1>6 DEF RingStopped, SimStopped, Unused
<1>16. Stopped' /\ Saved'
  BY <1>1, <1>7, <1>15 DEF EInv, Stopped, Silent, Saved, Undisturbed
<1>17. ConnectionsMatchTarget'
  BY <1>1, <1>7 DEF EInv, ConnectionsMatchTarget, output_config, Owners, Senders
<1>18. Stranded'
  BY <1>1, <1>6, <1>7, <1>11, <1>15 DEF EInv, Stranded, At, Undisturbed
<1> QED
  BY <1>8, <1>10, <1>14, <1>16, <1>17, <1>18 DEF EInv

\* A sender starts.
LEMMA RunsKeeps == ASSUME EInv, NEW s \in Senders, Runs(s), UNCHANGED dropped PROVE EInv'
<1>1. /\ At(RunStage[s]) /\ holder.at = "go" /\ task' = [task EXCEPT ![s] = "new"] /\ Done
      /\ quiet' = FALSE /\ UNCHANGED <<cancelled, conn, override, file, stuck>>
  BY DEF Runs, Enter, dropped
<1>2. RunStage[s] \in {"run_sim", "run_ring"}
  BY DEF RunStage, Senders
<1>3. holder.op \in {"start", "motion_start"}
  BY <1>1, <1>2, Stages DEF EInv, Types, At
<1>4. holder'.op = holder.op /\ holder'.at = "go"
  BY <1>1, StageDone DEF At
<1>5. Types'
  BY <1>1, StageDone DEF EInv, Types, At, Ending
<1>6. Ending' /\ Left'
  BY <1>1, <1>2, <1>4 DEF EInv, Types, Ending, Left, At, Senders
<1>7. ~RingStopped' /\ ~SimStopped' /\ ~Unused' /\ ~Unused
  BY <1>3, <1>4 DEF RingStopped, SimStopped, Unused
<1>8. Stopped' /\ Saved'
  BY <1>1, <1>7 DEF EInv, Stopped, Saved
<1>9. ConnectionsMatchTarget'
  BY <1>1 DEF EInv, ConnectionsMatchTarget, output_config
<1>10. Stranded'
  <2>1. s = "sim" => ~stuck
    <3>1. s = "sim" => holder.todo = <<"run_sim">> /\ holder.op = "start"
      BY <1>1, BeforeRun DEF At, EInv, Types, RunStage
    <3> QED
      BY <3>1 DEF EInv, Stranded
  <2>2. stuck => UNCHANGED task["sim"]
    BY <1>1, <2>1 DEF EInv, Types, Senders
  <2> QED
    BY <1>1, <1>2, <2>2, StrandedDone DEF At
<1> QED
  BY <1>5, <1>6, <1>8, <1>9, <1>10 DEF EInv

-----------------------------------------------------------------------------
\* The answer to a request.
LEMMA RespondKeeps == ASSUME EInv, Respond, UNCHANGED dropped PROVE EInv'
<1>1. /\ holder.todo = <<>> /\ holder.at = "go" /\ holder' = Free
      /\ quiet' = (quiet \/ holder.op \in {"stop", "output"})
      /\ UNCHANGED <<task, cancelled, conn, override, file, stuck>>
  BY DEF Respond, Raise, dropped
<1>2. holder.op \in {"stop", "output"} => RingStopped /\ SimStopped
  BY <1>1 DEF RingStopped, SimStopped
<1>3. override = file \/ stuck
  BY <1>1 DEF EInv, Saved, Unused
<1>4. UNCHANGED <<task, cancelled, conn, override, file, stuck>>
  BY <1>1
<1>5. CASE holder.op \in {"stop", "output"}
  <2>1. quiet' = TRUE
    BY <1>1, <1>5
  <2> QED
    BY <1>1, <1>2, <1>3, <1>4, <1>5, <2>1, FreeKeeps, Zenon
<1>6. CASE holder.op \notin {"stop", "output"}
  <2>1. quiet' = quiet
    BY <1>1, <1>6 DEF EInv, Types
  <2> QED
    BY <1>1, <1>3, <1>4, <2>1, FreeKeeps, Zenon
<1> QED
  BY <1>5, <1>6

\* The destination is saved, or the request ends.
LEMMA SaveKeeps == ASSUME EInv, Save, UNCHANGED dropped PROVE EInv'
<1>1. /\ At("save") /\ holder.at = "go" /\ UNCHANGED <<task, cancelled, conn, override, quiet, stuck>>
      /\ (file' = holder.output /\ Done) \/ (file' = file /\ holder' = Free)
  BY DEF Save, Raise, dropped
<1>2. holder.op = "output" /\ holder.todo = <<"save", "ring", "sim", "assign">>
  BY <1>1, Stages DEF EInv, Types, At
<1>3. override = file \/ stuck
  BY <1>2 DEF EInv, Saved, Unused
<1>4. CASE file' = file /\ holder' = Free
  <2>1. UNCHANGED <<task, cancelled, conn, override, file, stuck>>
    BY <1>1, <1>4
  <2>2. quiet' = quiet
    BY <1>1
  <2> QED
    BY <1>1, <1>3, <1>4, <2>1, <2>2, FreeKeeps, Zenon
<1>5. CASE file' = holder.output /\ Done
  <2>1. /\ holder'.op = "output" /\ holder'.todo = <<"ring", "sim", "assign">>
        /\ holder'.output = holder.output /\ holder'.at = "go"
    BY <1>1, <1>2, <1>5, StageDone, Tuples DEF At
  <2>2. Types'
    BY <1>1, <1>5, StageDone DEF EInv, Types, At
  <2>3. Ending' /\ Left'
    BY <1>1, <2>1 DEF EInv, Ending, Left
  <2>4. ~RingStopped' /\ ~SimStopped' /\ Unused'
    BY <2>1 DEF RingStopped, SimStopped, Unused
  <2>5. Stopped' /\ Saved'
    BY <1>1, <1>5, <2>1, <2>4 DEF EInv, Stopped, Silent, Saved
  <2>6. ConnectionsMatchTarget'
    BY <1>1 DEF EInv, ConnectionsMatchTarget, output_config
  <2>7. Stranded'
    BY <1>1, <1>5, StrandedDone DEF At
  <2> QED
    BY <2>2, <2>3, <2>5, <2>6, <2>7 DEF EInv
<1> QED
  BY <1>1, <1>4, <1>5

\* The destination changes when every connection is closed.
LEMMA AssignKeeps == ASSUME EInv, Assign, UNCHANGED dropped PROVE EInv'
<1>1. /\ At("assign") /\ holder.at = "go" /\ UNCHANGED <<task, cancelled, conn, file, quiet, stuck>>
      /\ override' = holder.output /\ Done
  BY DEF Assign, dropped
<1>2. holder.op = "output" /\ holder.todo = <<"assign">>
  BY <1>1, Stages DEF EInv, Types, At
<1>3. Silent("ring") /\ Silent("sim") /\ conn["send"] = NoConnection /\ file = holder.output
  BY <1>1, <1>2 DEF EInv, Left, Stopped, RingStopped, SimStopped, Saved, Unused
<1>4. holder'.op = "output" /\ holder'.todo = <<>> /\ holder'.at = "go"
  BY <1>1, <1>2, StageDone, Tuples DEF At
<1>5. Types'
  BY <1>1, StageDone DEF EInv, Types, At
<1>6. Ending' /\ Left'
  BY <1>1, <1>4 DEF EInv, Ending, Left
<1>7. Stopped'
  BY <1>1, <1>3 DEF EInv, Stopped, Silent
<1>8. Saved'
  BY <1>1, <1>3, <1>4 DEF Saved, Unused
<1>9. ConnectionsMatchTarget'
  BY <1>1, <1>3 DEF ConnectionsMatchTarget, Silent, Owners, Senders
<1>10. Stranded'
  BY <1>1, StrandedDone DEF At
<1> QED
  BY <1>5, <1>6, <1>7, <1>8, <1>9, <1>10 DEF EInv

-----------------------------------------------------------------------------
\* Map edits, and data that the peer takes, concern none of this.
LEMMA OthersKeep ==
    ASSUME EInv, UNCHANGED <<task, cancelled, conn, stuck, controlVars>> PROVE EInv'
<1>1. UNCHANGED <<task, cancelled, conn, stuck, holder, override, file, quiet>>
  BY DEF controlVars
<1> QED
  BY <1>1 DEF EInv, Types, Ending, Left, At, Stopped, Silent, RingStopped, SimStopped, Saved,
      Stranded, Unused, ConnectionsMatchTarget, output_config

\* After a restart the destination is the one in the file.
LEMMA RestartKeeps == ASSUME EInv, Restart PROVE EInv'
<1>1. /\ override' = file /\ file' = file /\ task' = NoTask /\ cancelled' = {}
      /\ conn' = Unconnected /\ holder' = Free /\ quiet' = TRUE /\ stuck' = FALSE
  BY DEF Restart
<1>2. task' = [s \in Senders |-> task'[s]]
  BY <1>1 DEF NoTask
<1>3. conn' \in [Owners -> Outputs \cup {Default, NoConnection}]
  BY <1>1 DEF Unconnected
<1>4. Types'
  BY <1>1, <1>2, <1>3 DEF EInv, Types, Free, Doing
<1>5. Ending' /\ Left' /\ Stopped'
  BY <1>1 DEF Ending, Left, At, Stopped, Silent, NoTask, Unconnected, Senders, Owners, Free
<1>6. Saved' /\ Stranded' /\ ConnectionsMatchTarget'
  BY <1>1 DEF Saved, Stranded, Unused, Free, ConnectionsMatchTarget, Unconnected
<1> QED
  BY <1>4, <1>5, <1>6 DEF EInv

\* Every step keeps the invariant.
LEMMA NextEInv == ASSUME EInv, [Next]_vars PROVE EInv'
<1>1. CASE UNCHANGED vars
  BY <1>1, OthersKeep DEF vars, dropped
<1>2. CASE Request
  <2>1. UNCHANGED dropped
    BY <1>2 DEF Request
  <2>2. CASE Save \/ Assign \/ Respond \/ SendOpens \/ SendOpened \/ SendDrained \/ SendFails
    BY <2>1, <2>2, SaveKeeps, AssignKeeps, RespondKeeps, SendKeeps
  <2>3. CASE \E s \in Senders : Stop(s) \/ Awaited(s) \/ Runs(s)
    BY <2>1, <2>3, StopKeeps, AwaitedKeeps, RunsKeeps
  <2>4. CASE \E o \in {"sim", "send"} : Disconnected(o)
    BY <2>1, <2>4, DisconnectedKeeps
  <2> QED
    BY <1>2, <2>2, <2>3, <2>4 DEF Request
<1>3. CASE Edit
  BY <1>3, OthersKeep DEF Edit, dropped
<1>4. CASE Restart
  BY <1>4, RestartKeeps
<1>5. CASE \E op \in DOMAIN Plan \ {"output"} : Post(op, Unset)
  BY <1>5, PostKeeps
<1>6. CASE \E output \in Outputs : Post("output", output)
  <2>1. "output" \in DOMAIN Plan
    BY DEF Plan
  <2> QED
    BY <1>6, <2>1, PostKeeps
<1>7. CASE \E s \in Senders : Sender(s)
  BY <1>7, SenderKeeps
<1>8. CASE (\E o \in Owners : PeerTakes(o)) \/ (\E d \in Outputs \cup {Default} : Flushed(d))
  BY <1>8, OthersKeep DEF PeerTakes, Flushed, dropped
<1> QED
  BY <1>1, <1>2, <1>3, <1>4, <1>5, <1>6, <1>7, <1>8 DEF Next

-----------------------------------------------------------------------------
\* The invariant holds in every state.
LEMMA Invariant == Spec => []EInv
BY InitEInv, NextEInv, PTL DEF Spec

\* What is sent goes to the destination in use, whatever the destinations and
\* however their changes meet the senders (server.py:560-570).
THEOREM TargetAlwaysMatches == Spec => []ConnectionsMatchTarget
<1>1. EInv => ConnectionsMatchTarget
  BY DEF EInv
<1> QED
  BY Invariant, <1>1, PTL

\* Whatever failed, the destination in use is the saved one whenever no
\* request is at work, unless the closing of the simulator's connection was
\* cut short (server.py:225, 560).
THEOREM TargetIsPersisted == Spec => []PersistedUnlessStuck
<1>1. EInv => PersistedUnlessStuck
  BY DEF EInv, Saved, Unused, PersistedUnlessStuck, Free
<1> QED
  BY Invariant, <1>1, PTL

\* An answered stop is followed by silence: no sender runs or has a connection,
\* and what goes on by itself only gets less (README.md:11, 25).
THEOREM StopsSilence == Spec => StoppedIsSilent
<1>1. EInv => (quiet /\ holder = Free => \A s \in Senders : task[s] = "none" /\ conn[s] = NoConnection)
  BY DEF EInv, Stopped, Silent, Senders
<1>2. EInv /\ [Next]_vars => [quiet /\ holder = Free => flushing' \subseteq flushing]_vars
  <2> SUFFICES ASSUME EInv, Next, quiet, holder = Free PROVE flushing' \subseteq flushing
    OBVIOUS
  <2>1. \A s \in Senders : task[s] = "none" /\ s \notin cancelled
    BY DEF EInv, Types, Stopped, Silent, Senders
  <2>2. ASSUME NEW s \in Senders, Sender(s) PROVE FALSE
    BY <2>1, <2>2 DEF Sender, Ends, Begin, Opened, Woken, Drained, Fails, Paused, WaitClosed, Cancelled, Live
  <2>3. ASSUME NEW d \in Outputs \cup {Default}, Flushed(d) PROVE flushing' \subseteq flushing
    BY <2>3 DEF Flushed
  <2>4. CASE Restart
    BY <2>4 DEF Restart
  <2>5. CASE Request \/ Edit \/ \E o \in Owners : PeerTakes(o)
    BY <2>5 DEF Request, Edit, PeerTakes, dropped
  <2>6. CASE (\E op \in DOMAIN Plan \ {"output"} : Post(op, Unset)) \/ \E output \in Outputs : Post("output", output)
    BY <2>6 DEF Post, dropped
  <2> QED
    BY <2>2, <2>3, <2>4, <2>5, <2>6 DEF Next
<1> QED
  BY Invariant, <1>1, <1>2, PTL DEF Spec, StoppedIsSilent

\* Whatever the destinations: once the closing of the simulator's connection was
\* cut short, the simulator does not start, the destination in use does not
\* change and no stop is answered until a restart (server.py:225, 307, 568-570).
THEOREM OnlyARestartHelps == Spec => StuckUntilRestart
<1>1. ASSUME EInv, Next, stuck, ~Restart
      PROVE  /\ stuck' /\ override' = override /\ (quiet' => quiet)
             /\ task["sim"] = "none" => task'["sim"] = "none"
  <2>0. /\ task["sim"] \in {"none", "ended"} /\ "sim" \notin cancelled /\ ~SimStopped
        /\ ~(holder.op = "start" /\ holder.todo = <<"run_sim">>)
        /\ "sim" \in Senders /\ task = [s \in Senders |-> task[s]] /\ Doing(holder.op, holder.todo)
    BY <1>1 DEF EInv, Types, Stranded, Senders
  <2>1. ASSUME NEW s \in Senders, Sender(s)
        PROVE  /\ stuck' /\ override' = override /\ (quiet' => quiet)
               /\ task["sim"] = "none" => task'["sim"] = "none"
    <3>1. s # "sim"
      BY <2>0, <2>1 DEF Sender, Ends, Begin, Opened, Woken, Drained, Fails, Paused, WaitClosed, Cancelled, Live
    <3>2. stuck' = stuck /\ UNCHANGED controlVars
      BY <1>1, <2>1, <3>1, RingIsNotStuck DEF Sender, Ends
    <3>3. \E at : task' = [task EXCEPT ![s] = at]
      BY <2>1 DEF Sender, Ends, Begin, Opened, Woken, Drained, Fails, Paused, WaitClosed, Cancelled, Enter, Frames
    <3>4. task'["sim"] = task["sim"]
      BY <2>0, <3>1, <3>3
    <3> QED
      BY <1>1, <3>2, <3>4 DEF controlVars
  <2>2. CASE Edit \/ (\E o \in Owners : PeerTakes(o)) \/ \E d \in Outputs \cup {Default} : Flushed(d)
    <3>1. stuck' = stuck /\ override' = override /\ quiet' = quiet /\ task' = task
      BY <2>2, Zenon DEF Edit, PeerTakes, Flushed, dropped, controlVars
    <3> QED
      BY <1>1, <3>1, Zenon
  <2>3. CASE (\E op \in DOMAIN Plan \ {"output"} : Post(op, Unset)) \/ \E output \in Outputs : Post("output", output)
    <3>1. stuck' = stuck /\ override' = override /\ quiet' = quiet /\ task' = task
      BY <2>3, Zenon DEF Post, dropped
    <3> QED
      BY <1>1, <3>1, Zenon
  <2>4. CASE Request
    <3>1. stuck'
      BY <1>1, <2>4 DEF Request, dropped
    <3>2. CASE Save \/ SendOpens \/ SendOpened \/ SendDrained \/ SendFails
      BY <3>1, <3>2 DEF Save, SendOpens, SendOpened, SendDrained, SendFails
    <3>3. CASE Assign
      <4>1. holder.op = "output" /\ holder.todo = <<"assign">>
        BY <2>0, <3>3, Stages DEF Assign, At
      <4> QED
        BY <2>0, <4>1 DEF SimStopped
    <3>4. CASE Respond
      <4>1. holder.op \notin {"stop", "output"}
        BY <2>0, <3>4 DEF Respond, SimStopped
      <4> QED
        BY <3>1, <3>4, <4>1 DEF Respond, EInv, Types
    <3>5. CASE \E s \in Senders : Stop(s)
      BY <3>1, <3>5 DEF Stop
    <3>6. CASE \E s \in Senders : Awaited(s)
      BY <2>0, <3>1, <3>6 DEF Awaited, Enter
    <3>7. CASE \E s \in Senders : Runs(s)
      <4>1. PICK s \in Senders : Runs(s)
        BY <3>7
      <4>2. s # "sim"
        <5>1. s = "sim" => holder.todo = <<"run_sim">> /\ holder.op = "start"
          BY <2>0, <4>1, BeforeRun DEF Runs, At, RunStage
        <5> QED
          BY <2>0, <5>1
      <4> QED
        BY <2>0, <3>1, <4>1, <4>2 DEF Runs, Enter
    <3>8. CASE \E o \in {"sim", "send"} : Disconnected(o)
      BY <3>1, <3>8 DEF Disconnected
    <3> QED
      BY <2>4, <3>2, <3>3, <3>4, <3>5, <3>6, <3>7, <3>8 DEF Request
  <2> QED
    BY <1>1, <2>1, <2>2, <2>3, <2>4 DEF Next
<1>2. EInv /\ [Next]_vars =>
        [stuck /\ ~Restart => /\ stuck' /\ override' = override /\ (quiet' => quiet)
                              /\ task["sim"] = "none" => task'["sim"] = "none"]_vars
  BY <1>1
<1> QED
  BY Invariant, <1>2, PTL DEF Spec, StuckUntilRestart

-----------------------------------------------------------------------------
(* The route.                                                              *)
\* A set of numbers has a least one.
LEMMA Least ==
    ASSUME NEW T \in SUBSET Nat, T # {}
    PROVE  \E x \in T : \A y \in T : x <= y
<1> DEFINE R == {ss \in Nat \X Nat : ss[1] < ss[2]}
<1>1. IsWellFoundedOn(R, Nat)
  BY NatLessThanWellFounded DEF OpToRel
<1> HIDE DEF R
<1>2. PICK x \in T : \A y \in T : ~ (<<y, x>> \in R)
  BY <1>1, WFMin
<1>3. \A y, z \in Nat : <<z, y>> \in R <=> z < y
  BY DEF R
<1>4. \A y \in T : x \in Nat /\ y \in Nat /\ ~(y < x)
  BY <1>2, <1>3
<1>5. \A y \in T : x <= y
  BY <1>4
<1> QED
  BY <1>5

\* A number that goes round n places at most once more.
LEMMA Wraps ==
    ASSUME NEW n \in Nat \ {0}, NEW a \in 0..(n - 1), NEW d \in 0..n
    PROVE  (a + d) % n = IF a + d < n THEN a + d ELSE a + d - n
<1>1. CASE a + d < n
  BY <1>1
<1>2. CASE a + d >= n
  <2>1. a + d - n \in 0..(n - 1) /\ a + d = n * 1 + (a + d - n)
    BY <1>2
  <2> QED
    BY <1>2, <2>1
<1> QED
  BY <1>1, <1>2

\* What a well typed route is.
LEMMA RouteIs ==
    ASSUME RouteTypeOK, Waypoints # <<>>
    PROVE  /\ Len(Waypoints) \in Nat \ {0} /\ Last = Len(Waypoints) - 1
           /\ index \in 0..(Len(Waypoints) - 1) /\ Loop \in BOOLEAN
           /\ \A i \in 0..Last : Waypoint(i) \in Positions
<1>1. route \in [waypoints : Seq(Positions), loop : BOOLEAN]
  BY RouteAssumption DEF RouteAssumption, RouteTypeOK
<1>2. Waypoints \in Seq(Positions) /\ Loop \in BOOLEAN
  BY <1>1 DEF Waypoints, Loop
<1>3. Len(Waypoints) \in Nat \ {0}
  BY <1>2
<1> QED
  BY <1>2, <1>3 DEF RouteTypeOK, Last, Waypoint

\* The waypoints ahead begin with the first one where the vessel is not.
LEMMA AheadIs ==
    ASSUME RouteTypeOK, Waypoints # <<>>
    PROVE  /\ Ahead = {} => \A k \in 0..Last : Loop \/ index + k <= Last =>
                              Waypoint((index + k) % Len(Waypoints)) = position
           /\ Ahead # {} =>
                /\ Min(Ahead) \in 0..Last /\ (Loop \/ index + Min(Ahead) <= Last)
                /\ \A k \in 0..(Min(Ahead) - 1) : Waypoint((index + k) % Len(Waypoints)) = position
<1>1. /\ Len(Waypoints) \in Nat \ {0} /\ Last = Len(Waypoints) - 1 /\ index \in 0..(Len(Waypoints) - 1)
  BY RouteIs
<1>2. Ahead = {} => \A k \in 0..Last : Loop \/ index + k <= Last =>
                      Waypoint((index + k) % Len(Waypoints)) = position
  BY DEF Ahead
<1>3. ASSUME Ahead # {}
      PROVE  /\ Min(Ahead) \in 0..Last /\ (Loop \/ index + Min(Ahead) <= Last)
             /\ \A k \in 0..(Min(Ahead) - 1) : Waypoint((index + k) % Len(Waypoints)) = position
  <2>1. Ahead \in SUBSET Nat
    BY DEF Ahead
  <2>2. Min(Ahead) \in Ahead /\ \A k \in Ahead : Min(Ahead) <= k
    BY <1>3, <2>1, Least DEF Min
  <2> DEFINE m == Min(Ahead)
  <2> HIDE DEF m
  <2>3. m \in Ahead /\ \A k \in Ahead : m <= k
    BY <2>2 DEF m
  <2>4. m \in 0..Last /\ (Loop \/ index + m <= Last)
    BY <2>3 DEF Ahead
  <2>5. \A k \in 0..(m - 1) : k \in 0..Last /\ k \notin Ahead /\ (Loop \/ index + k <= Last)
    BY <1>1, <2>3, <2>4
  <2>6. \A k \in 0..(m - 1) : Waypoint((index + k) % Len(Waypoints)) = position
    BY <2>5 DEF Ahead
  <2> QED
    BY <2>4, <2>6 DEF m
<1> QED
  BY <1>2, <1>3

\* A vessel that goes on by d waypoints turns away from these.
LEMMA PassedAre ==
    ASSUME RouteTypeOK, Waypoints # <<>>, NEW d \in 0..Len(Waypoints),
           index' = (index + d) % Len(Waypoints), Loop \/ index + d <= Last
    PROVE  /\ index' \in 0..Last /\ (index' < index => Loop)
           /\ \A i \in Passed : \E k \in 0..(d - 1) : i = (index + k) % Len(Waypoints)
<1> DEFINE n == Len(Waypoints)
<1>1. n \in Nat \ {0} /\ Last = n - 1 /\ index \in 0..(n - 1)
  BY RouteIs
<1> HIDE DEF n
<1>2. index' = IF index + d < n THEN index + d ELSE index + d - n
  BY <1>1, Wraps DEF n
<1>3. \A k \in 0..n : (index + k) % n = IF index + k < n THEN index + k ELSE index + k - n
  BY <1>1, Wraps
<1>4. d \in 0..n
  BY DEF n
<1>5. index' \in 0..Last /\ (index' < index => Loop)
  BY <1>1, <1>2, <1>4
<1>6. ASSUME NEW i \in Passed PROVE \E k \in 0..(d - 1) : i = (index + k) % n
  <2>1. CASE index <= index'
    <3>1. i \in index..(index' - 1)
      BY <1>6, <2>1 DEF Passed
    <3>2. i - index \in 0..(d - 1) /\ i - index \in 0..n /\ index + (i - index) = i /\ i < n
      BY <1>1, <1>2, <1>4, <3>1
    <3>3. (index + (i - index)) % n = i
      BY <1>3, <3>2
    <3> QED
      BY <3>2, <3>3
  <2>2. CASE index' < index
    <3>1. i \in 0..Last /\ (i >= index \/ i < index')
      BY <1>1, <1>5, <1>6, <2>2 DEF Passed
    <3>2. CASE i >= index
      <4>1. i - index \in 0..(d - 1) /\ i - index \in 0..n /\ index + (i - index) = i /\ i < n
        BY <1>1, <1>2, <1>4, <2>2, <3>1, <3>2
      <4>2. (index + (i - index)) % n = i
        BY <1>3, <4>1
      <4> QED
        BY <4>1, <4>2
    <3>3. CASE i < index'
      <4> DEFINE k == i + n - index
      <4>1. k \in 0..(d - 1) /\ k \in 0..n /\ ~(index + k < n) /\ index + k - n = i
        BY <1>1, <1>2, <1>4, <2>2, <3>1, <3>3
      <4>2. (index + k) % n = i
        BY <1>3, <4>1
      <4> QED
        BY <4>1, <4>2
    <3> QED
      BY <3>1, <3>2, <3>3
  <2> QED
    BY <1>1, <1>5, <2>1, <2>2
<1> QED
  BY <1>5, <1>6 DEF n

\* What the clock relies on: a route that has ended was a route, and left the
\* vessel at its last waypoint.
RInv == RouteTypeOK /\ (done => Waypoints # <<>> /\ position = Waypoint(Last))

\* The waypoint after the one that is reached.
LEMMA FollowingIs ==
    ASSUME RouteTypeOK, Waypoints # <<>>, NEW m \in 0..Last
    PROVE  Following((index + m) % Len(Waypoints)) = (index + (m + 1)) % Len(Waypoints)
<1> DEFINE n == Len(Waypoints)
<1>1. n \in Nat \ {0} /\ Last = n - 1 /\ index \in 0..(n - 1)
  BY RouteIs
<1> HIDE DEF n
<1>2. m \in 0..n /\ m + 1 \in 0..n /\ 1 \in 0..n
  BY <1>1
<1>3. (index + m) % n = IF index + m < n THEN index + m ELSE index + m - n
  BY <1>1, <1>2, Wraps
<1>4. (index + (m + 1)) % n = IF index + (m + 1) < n THEN index + (m + 1) ELSE index + (m + 1) - n
  BY <1>1, <1>2, Wraps
<1>5. (index + m) % n \in 0..(n - 1)
  BY <1>1, <1>3, <1>2
<1>6. (((index + m) % n) + 1) % n =
        IF ((index + m) % n) + 1 < n THEN ((index + m) % n) + 1 ELSE ((index + m) % n) + 1 - n
  BY <1>1, <1>2, <1>5, Wraps
<1>7. (((index + m) % n) + 1) % n = (index + (m + 1)) % n
  BY <1>1, <1>2, <1>3, <1>4, <1>6
<1> QED
  BY <1>7 DEF Following, n

\* A step along the circle stays on it.
LEMMA SailedIs ==
    ASSUME NEW p \in Positions, NEW c \in Courses
    PROVE  Destination(p, c) \in Positions
<1>1. Around \in Nat \ {0} /\ Step \in Nat
  BY RouteAssumption DEF RouteAssumption
<1>2. p + c * Step \in Int
  BY <1>1 DEF Positions, Courses
<1> QED
  BY <1>1, <1>2 DEF Destination, Positions

\* A vessel at rest.
LEMMA AtRestInOrder ==
    ASSUME RInv, Waypoints # <<>>, ~done, AtRest, UNCHANGED route
    PROVE  TakenInOrder /\ RInv'
<1> DEFINE n == Len(Waypoints)
<1>1. n \in Nat \ {0} /\ Last = n - 1 /\ index \in 0..(n - 1) /\ Loop \in BOOLEAN
  BY RouteIs DEF RInv
<1> HIDE DEF n
<1>2. /\ Ahead = {} /\ position' = position /\ course' = course /\ speed' = FALSE
      /\ IF Loop THEN index' = Following(index) /\ done' = done ELSE index' = Last /\ done' = TRUE
  BY DEF AtRest
<1>3. \A k \in 0..Last : Loop \/ index + k <= Last => Waypoint((index + k) % n) = position
  BY <1>2, AheadIs DEF RInv, n
<1>4. \E d \in 0..n : index' = (index + d) % n /\ (Loop \/ index + d <= Last)
  <2>1. CASE Loop
    <3>1. index' = (index + 1) % n
      BY <1>2, <2>1 DEF Following, n
    <3> QED
      BY <1>1, <2>1, <3>1
  <2>2. CASE ~Loop
    <3>1. Last - index \in 0..n /\ index + (Last - index) = Last /\ Last % n = Last
      BY <1>1
    <3> QED
      BY <1>1, <1>2, <2>2, <3>1
  <2> QED
    BY <2>1, <2>2
<1>5. PICK d \in 0..n : index' = (index + d) % n /\ (Loop \/ index + d <= Last)
  BY <1>4
<1>6. /\ index' \in 0..Last /\ (index' < index => Loop)
      /\ \A i \in Passed : \E k \in 0..(d - 1) : i = (index + k) % n
  BY <1>5, PassedAre DEF RInv, n
<1>7. \A i \in Passed : Waypoint(i) = position
  <2>1. \A k \in 0..(d - 1) : k \in 0..Last /\ (Loop \/ index + k <= Last)
    BY <1>1, <1>5
  <2> QED
    BY <1>3, <1>6, <2>1
<1>8. ~Loop => position = Waypoint(Last)
  <2> DEFINE k == Last - index
  <2>1. k \in 0..Last /\ index + k = Last /\ index + k <= Last /\ (index + k) % n = Last
    BY <1>1
  <2> HIDE DEF k
  <2>2. ~Loop => Waypoint((index + k) % n) = position
    BY <1>3, <2>1
  <2> QED
    BY <2>1, <2>2
<1>9. TakenInOrder
  BY <1>2, <1>6, <1>7, <1>8 DEF TakenInOrder
<1>10. RouteTypeOK'
  <2>1. Waypoints' = Waypoints /\ speed' \in BOOLEAN /\ done' \in BOOLEAN
    BY <1>2 DEF Waypoints, RInv, RouteTypeOK
  <2>2. index' \in Nat /\ index' < n
    BY <1>1, <1>6
  <2>3. index' < Len(Waypoints)
    BY <2>2 DEF n
  <2> QED
    BY <1>2, <2>1, <2>2, <2>3 DEF RInv, RouteTypeOK
<1> QED
  BY <1>2, <1>8, <1>9, <1>10 DEF RInv, Waypoints, Waypoint, Last

\* A vessel under way.
LEMMA FollowInOrder ==
    ASSUME RInv, Waypoints # <<>>, ~done, Follow, UNCHANGED route
    PROVE  TakenInOrder /\ RInv'
<1> DEFINE n == Len(Waypoints)
           m == Min(Ahead)
           at == (index + m) % n
<1>1. n \in Nat \ {0} /\ Last = n - 1 /\ index \in 0..(n - 1) /\ Loop \in BOOLEAN
      /\ \A i \in 0..Last : Waypoint(i) \in Positions
  BY RouteIs DEF RInv
<1>2. /\ m \in 0..Last /\ (Loop \/ index + m <= Last)
      /\ \A k \in 0..(m - 1) : Waypoint((index + k) % n) = position
  BY AheadIs DEF RInv, Follow
<1>3. /\ course' = Bearing(position, Waypoint(at)) /\ speed' = TRUE
      /\ Arrive(at) \/ Approach(at)
  BY DEF Follow, Target
<1>4. Following(at) = (index + (m + 1)) % n
  BY <1>2, FollowingIs DEF RInv
<1>5. at = IF index + m < n THEN index + m ELSE index + m - n
  <2> HIDE DEF n, m
  <2>1. m \in 0..n
    BY <1>1, <1>2
  <2> QED
    BY <1>1, <2>1, Wraps
<1> HIDE DEF n, m, at
<1>6. at \in 0..Last
  BY <1>1, <1>2, <1>5
<1>7. \E d \in 0..n : /\ index' = (index + d) % n /\ (Loop \/ index + d <= Last)
                      /\ d = m \/ (d = m + 1 /\ position' = Waypoint(at))
  <2>1. CASE index' = at
    BY <1>1, <1>2, <2>1 DEF at
  <2>2. CASE index' = Following(at) /\ position' = Waypoint(at) /\ (Loop \/ at < Last)
    <3>1. m + 1 \in 0..n /\ (Loop \/ index + (m + 1) <= Last)
      BY <1>1, <1>2, <1>5, <2>2
    <3> QED
      BY <1>4, <2>2, <3>1
  <2> QED
    BY <1>3, <2>1, <2>2 DEF Arrive, Approach
<1>8. PICK d \in 0..n : /\ index' = (index + d) % n /\ (Loop \/ index + d <= Last)
                        /\ d = m \/ (d = m + 1 /\ position' = Waypoint(at))
  BY <1>7
<1>9. /\ index' \in 0..Last /\ (index' < index => Loop)
      /\ \A i \in Passed : \E k \in 0..(d - 1) : i = (index + k) % n
  <2>1. d \in 0..Len(Waypoints) /\ index' = (index + d) % Len(Waypoints) /\ (Loop \/ index + d <= Last)
    <3>1. d \in 0..Len(Waypoints)
      BY DEF n
    <3>2. index' = (index + d) % n /\ (Loop \/ index + d <= Last)
      BY <1>8
    <3>3. index' = (index + d) % Len(Waypoints)
      BY <3>2 DEF n
    <3> QED
      BY <3>1, <3>2, <3>3
  <2>2. RouteTypeOK
    BY DEF RInv
  <2> QED
    BY <2>1, <2>2, PassedAre DEF n
<1>10. \A k \in 0..(d - 1) : Waypoint((index + k) % n) \in {position, position'}
  <2> SUFFICES ASSUME NEW k \in 0..(d - 1) PROVE Waypoint((index + k) % n) \in {position, position'}
    OBVIOUS
  <2>1. k \in 0..(m - 1) \/ (k = m /\ position' = Waypoint(at))
    BY <1>1, <1>2, <1>8
  <2>2. k = m => (index + k) % n = at
    BY DEF at
  <2> QED
    BY <1>2, <2>1, <2>2
<1>11. done' => position' = Waypoint(Last)
  <2>1. CASE done' = done
    BY <2>1
  <2>2. CASE position' = Waypoint(at) /\ ~(Loop \/ at < Last)
    <3>1. at = Last
      BY <1>1, <1>6, <2>2
    <3> QED
      BY <2>2, <3>1
  <2> QED
    BY <1>3, <2>1, <2>2 DEF Arrive, Approach
<1>12. TakenInOrder
  BY <1>9, <1>10, <1>11 DEF TakenInOrder
<1>13. position' \in Positions /\ course' \in Courses /\ done' \in BOOLEAN
  <2>1. Arrive(at) => position' \in Positions
    BY <1>1, <1>6 DEF Arrive
  <2>2. Bearing(position, Waypoint(at)) \in Courses
    BY DEF Bearing, Courses
  <2>3. Approach(at) => position' \in Positions
    BY <2>2, SailedIs DEF Approach, RInv, RouteTypeOK
  <2>4. done' \in BOOLEAN
    BY <1>3 DEF Arrive, Approach, RInv, RouteTypeOK
  <2> QED
    BY <1>3, <2>1, <2>2, <2>3, <2>4
<1>14. RouteTypeOK'
  <2>1. Waypoints' = Waypoints
    BY DEF Waypoints
  <2>2. index' \in Nat /\ index' < n
    BY <1>1, <1>9
  <2>3. index' < Len(Waypoints)
    BY <2>2 DEF n
  <2> QED
    BY <1>3, <1>13, <2>1, <2>2, <2>3 DEF RInv, RouteTypeOK
<1> QED
  BY <1>11, <1>12, <1>14 DEF RInv, Waypoints, Waypoint, Last

\* The clock takes the waypoints in order.
LEMMA AdvanceInOrder ==
    ASSUME RInv, Advance
    PROVE  TakenInOrder /\ RInv'
<1>1. CASE Waypoints # <<>> /\ ~done /\ (AtRest \/ Follow)
  BY <1>1, AtRestInOrder, FollowInOrder DEF Advance
<1>2. CASE Waypoints # <<>> /\ done /\ speed' = FALSE /\ UNCHANGED <<position, course, index, done>>
  <2>1. index \in 0..Last /\ UNCHANGED route
    BY <1>2, RouteIs DEF RInv, Advance
  <2>2. Passed = {}
    BY <1>2, <2>1, RouteIs DEF Passed, RInv
  <2>3. TakenInOrder
    BY <1>2, <2>1, <2>2, RouteIs DEF TakenInOrder, RInv
  <2> QED
    BY <1>2, <2>1, <2>3 DEF RInv, RouteTypeOK, Waypoints, Waypoint, Last
<1>3. CASE /\ Waypoints = <<>>
           /\ position' = Destination(position, course) /\ speed' = TRUE
           /\ UNCHANGED <<course, index, done>>
  <2>1. ~done /\ index \in Nat /\ UNCHANGED route
    BY <1>3 DEF RInv, RouteTypeOK, Advance
  <2>2. Passed = {}
    BY <1>3, <2>1 DEF Passed
  <2>3. TakenInOrder
    BY <1>3, <2>1, <2>2 DEF TakenInOrder
  <2>4. position' \in Positions
    BY <1>3, SailedIs DEF RInv, RouteTypeOK
  <2> QED
    BY <1>3, <2>1, <2>3, <2>4 DEF RInv, RouteTypeOK, Waypoints
<1> QED
  BY <1>1, <1>2, <1>3 DEF Advance

\* What the operator does leaves a route that has not ended.
LEMMA EditKeepsRoute ==
    ASSUME RInv,
           \/ \E p \in Positions : SetPosition(p)
           \/ \E r \in Routes : SetRoute(r)
           \/ \E c \in Courses : SetCourse(c)
           \/ \E p \in Positions, c \in Courses, r \in Routes : SetOff(p, c, r)
           \/ UNCHANGED routeVars
    PROVE  RInv'
<1>1. ASSUME NEW r \in Routes PROVE r.waypoints = <<>> \/ 0 < Len(r.waypoints)
  <2>1. r.waypoints \in Seq(Positions)
    BY RouteAssumption DEF RouteAssumption
  <2> QED
    BY <2>1
<1>2. CASE \E p \in Positions : SetPosition(p)
  <2>1. /\ position' \in Positions /\ index' = 0 /\ done' = FALSE
        /\ course' = course /\ speed' = speed /\ route' = route /\ route \in Routes
    BY <1>2 DEF SetPosition, RInv, RouteTypeOK
  <2>2. route.waypoints = <<>> \/ 0 < Len(route.waypoints)
    BY <1>1, <2>1
  <2> QED
    BY <2>1, <2>2 DEF RInv, RouteTypeOK, Waypoints
<1>3. CASE \E r \in Routes : SetRoute(r)
  <2>1. /\ route' \in Routes /\ index' = 0 /\ done' = FALSE
        /\ course' = course /\ speed' = speed /\ position' = position
    BY <1>3 DEF SetRoute
  <2>2. route'.waypoints = <<>> \/ 0 < Len(route'.waypoints)
    BY <1>1, <2>1
  <2> QED
    BY <2>1, <2>2 DEF RInv, RouteTypeOK, Waypoints
<1>4. CASE \E c \in Courses : SetCourse(c)
  BY <1>4 DEF SetCourse, RInv, RouteTypeOK, Waypoints, Waypoint, Last
<1>5. CASE \E p \in Positions, c \in Courses, r \in Routes : SetOff(p, c, r)
  <2>1. /\ route' \in Routes /\ index' = 0 /\ done' = FALSE
        /\ course' \in Courses /\ speed' = FALSE /\ position' \in Positions
    BY <1>5 DEF SetOff
  <2>2. route'.waypoints = <<>> \/ 0 < Len(route'.waypoints)
    BY <1>1, <2>1
  <2> QED
    BY <2>1, <2>2 DEF RInv, RouteTypeOK, Waypoints
<1>6. CASE UNCHANGED routeVars
  BY <1>6 DEF routeVars, RInv, RouteTypeOK, Waypoints, Waypoint, Last
<1> QED
  BY <1>2, <1>3, <1>4, <1>5, <1>6

\* The steps that are not the clock's.
ByOperator ==
    /\ \/ \E p \in Positions : SetPosition(p)
       \/ \E r \in Routes : SetRoute(r)
       \/ \E c \in Courses : SetCourse(c)
       \/ \E p \in Positions, c \in Courses, r \in Routes : SetOff(p, c, r)
       \/ UNCHANGED routeVars
    /\ task'["sim"] = "drain" => task["sim"] = "drain"

\* A sender that comes to the end of a sending has made its frames.
LEMMA SenderSteps ==
    ASSUME EInv, NEW s \in Senders, Sender(s)
    PROVE  Advance \/ ByOperator
<1>1. task = [t \in Senders |-> task[t]] /\ "sim" \in Senders
  BY DEF EInv, Types, Senders
<1>2. ASSUME NEW at, at # "drain", Enter(s, at) PROVE task'["sim"] = "drain" => task["sim"] = "drain"
  BY <1>1, <1>2 DEF Enter
<1>3. CASE s = "sim" /\ Frames(s)
  BY <1>3 DEF Frames
<1>4. CASE s # "sim" /\ Frames(s)
  BY <1>1, <1>4 DEF Frames, Enter, ByOperator
<1>5. CASE Opened(s) /\ s # "sim"
  BY <1>2, <1>5 DEF Opened, ByOperator
<1>6. CASE Begin(s) \/ Drained(s) \/ Fails(s)
  BY <1>2, <1>6 DEF Begin, Drained, Fails, ByOperator
<1>7. CASE Paused(s)
  <2>1. Enter(s, IF conn[s] = NoConnection THEN "open" ELSE "closing") /\ UNCHANGED routeVars
    BY <1>7 DEF Paused
  <2> QED
    BY <1>2, <2>1 DEF ByOperator
<1>8. CASE WaitClosed(s)
  <2>1. Enter(s, IF task[s] = "closing" THEN "open" ELSE "ended") /\ UNCHANGED routeVars
    BY <1>8 DEF WaitClosed
  <2> QED
    BY <1>2, <2>1 DEF ByOperator
<1>9. CASE Cancelled(s)
  <2>1. UNCHANGED routeVars /\ (Enter(s, "leaving") \/ Enter(s, "ended"))
    BY <1>9 DEF Cancelled
  <2> QED
    BY <1>2, <2>1 DEF ByOperator
<1> QED
  BY <1>3, <1>4, <1>5, <1>6, <1>7, <1>8, <1>9 DEF Sender, Ends, Opened, Woken

\* Every step is the clock's or leaves its task alone.
LEMMA RouteSteps ==
    ASSUME EInv, [Next]_vars
    PROVE  Advance \/ ByOperator
<1>p. Placed \subseteq Positions
  BY RouteAssumption DEF RouteAssumption
<1>1. task = [t \in Senders |-> task[t]] /\ "sim" \in Senders
  BY DEF EInv, Types, Senders
<1>2. ASSUME UNCHANGED routeVars, UNCHANGED task PROVE ByOperator
  BY <1>2 DEF ByOperator
<1>3. CASE UNCHANGED vars
  BY <1>2, <1>3 DEF vars
<1>4. CASE Save \/ Assign \/ Respond \/ SendOpens \/ SendOpened \/ SendDrained \/ SendFails
  BY <1>2, <1>4 DEF Save, Assign, Respond, SendOpens, SendOpened, SendDrained, SendFails
<1>5. CASE \E s \in Senders : Stop(s) \/ Awaited(s)
  <2>1. PICK s \in Senders : Stop(s) \/ Awaited(s)
    BY <1>5
  <2> QED
    BY <1>1, <1>2, <2>1 DEF Stop, Awaited, Enter, ByOperator
<1>6. CASE \E s \in Senders : Runs(s)
  <2>1. PICK s \in Senders : Runs(s)
    BY <1>6
  <2>2. Enter(s, "new")
    BY <2>1 DEF Runs
  <2>3. task'["sim"] = "drain" => task["sim"] = "drain"
    BY <1>1, <2>2 DEF Enter
  <2>4. \/ \E p \in Positions, c \in Courses, r \in Routes : SetOff(p, c, r)
        \/ UNCHANGED routeVars
    BY <1>p, <2>1 DEF Runs
  <2> QED
    BY <2>3, <2>4 DEF ByOperator
<1>7. CASE \E o \in {"sim", "send"} : Disconnected(o)
  BY <1>2, <1>7 DEF Disconnected
<1>8. CASE Edit
  BY <1>p, <1>8 DEF Edit, ByOperator
<1>9. CASE Restart
  <2>1. task'["sim"] # "drain"
    BY <1>1, <1>9 DEF Restart, NoTask
  <2>2. 0 \in Positions /\ 1 \in Courses /\ NoRoute \in Routes
    BY RouteAssumption DEF RouteAssumption, Positions, Courses
  <2>3. SetOff(0, 1, NoRoute)
    BY <1>9 DEF Restart
  <2> QED
    BY <2>1, <2>2, <2>3 DEF ByOperator
<1>10. CASE \/ \E op \in DOMAIN Plan \ {"output"} : Post(op, Unset)
            \/ \E output \in Outputs : Post("output", output)
  BY <1>2, <1>10 DEF Post
<1>11. CASE \E s \in Senders : Sender(s)
  BY <1>11, SenderSteps
<1>12. CASE (\E o \in Owners : PeerTakes(o)) \/ \E d \in Outputs \cup {Default} : Flushed(d)
  BY <1>2, <1>12 DEF PeerTakes, Flushed
<1> QED
  BY <1>3, <1>4, <1>5, <1>6, <1>7, <1>8, <1>9, <1>10, <1>11, <1>12 DEF Next, Request

\* The route is well typed in every state, and ends only at its last waypoint.
LEMMA RouteInvariant == Spec => []RInv
<1>1. Init => RInv
  <2> SUFFICES ASSUME Init PROVE RInv
    OBVIOUS
  <2>1. NoRoute \in Routes /\ 0 \in Positions /\ 1 \in Courses
    BY RouteAssumption DEF RouteAssumption, Positions, Courses
  <2>2. Waypoints = <<>>
    BY DEF Init, RouteInit, Waypoints, NoRoute
  <2>3. RouteTypeOK /\ ~done
    BY <2>1, <2>2 DEF Init, RouteInit, RouteTypeOK
  <2> QED
    BY <2>3 DEF RInv
<1>2. EInv /\ RInv /\ [Next]_vars => RInv'
  BY RouteSteps, AdvanceInOrder, EditKeepsRoute DEF ByOperator
<1> QED
  BY <1>1, <1>2, Invariant, PTL DEF Spec

\* For any circle, step and routes, however the operator edits them: the clock
\* turns only from waypoints it is at, in their order, goes back only on a
\* loop, and a route that has ended leaves the vessel at its last waypoint
\* (server.py:183).
THEOREM WaypointsInOrder == Spec => InOrder
<1>1. EInv /\ RInv /\ [Next]_vars =>
        [task["sim"] # "drain" /\ task'["sim"] = "drain" => TakenInOrder]_vars
  BY RouteSteps, AdvanceInOrder DEF ByOperator
<1> QED
  BY <1>1, Invariant, RouteInvariant, PTL DEF Spec, InOrder

-----------------------------------------------------------------------------
(* Types.                                                                  *)
Places == {"none", "new", "open", "sleep", "drain", "pause", "closing", "leaving", "ended"}
Points == {"go", "await", "open", "drain", "close", "done"}

\* A sender that sleeps or drains has a connection, and only a connection has
\* data the peer has not taken.
Shape ==
    /\ task \in [Senders -> Places] /\ holder.at \in Points
    /\ \A o \in unsent : o \in Owners /\ conn[o] # NoConnection
    /\ flushing \subseteq Outputs \cup {Default}
    /\ \A s \in Senders : task[s] \in {"sleep", "drain"} => conn[s] # NoConnection

\* What a sender does to its task and its connection.
LEMMA SenderShape ==
    ASSUME EInv, Shape, NEW s \in Senders, Sender(s)
    PROVE  Shape'
<1>1. /\ task \in [Senders -> Places] /\ conn \in [Owners -> Outputs \cup {Default, NoConnection}]
      /\ s \in Owners /\ Senders \subseteq Owners /\ output_config # NoConnection
  BY EmulatorAssumption DEF EInv, Types, Shape, Owners, output_config, EmulatorAssumption, Unset
<1>2. holder' = holder
  BY DEF Sender, Ends, controlVars
<1>f. flushing' \subseteq Outputs \cup {Default}
  <2>1. CASE Cancelled(s)
    <3>1. flushing' = flushing \/ flushing' = flushing \cup {d \in {conn[s]} : s \in unsent}
      BY <2>1 DEF Cancelled, CutShort, Abandon, dropped
    <3>2. \A d \in {e \in {conn[s]} : s \in unsent} : d \in Outputs \cup {Default}
      BY <1>1 DEF Shape
    <3> QED
      BY <3>1, <3>2 DEF Shape
  <2>2. CASE UNCHANGED dropped
    BY <2>2 DEF dropped, Shape
  <2> QED
    BY <2>1, <2>2 DEF Sender, Ends
<1>3. CASE Begin(s) \/ Drained(s) \/ Fails(s) \/ Paused(s)
  <2>1. /\ conn' = conn /\ unsent' = unsent
        /\ \E at \in {"open", "sleep", "pause", "closing"} :
             Enter(s, at) /\ (at = "sleep" => task[s] = "drain")
    BY <1>3 DEF Begin, Drained, Fails, Paused, Live
  <2> QED
    BY <1>1, <1>2, <1>f, <2>1 DEF Enter, Shape, Places
<1>4. CASE Opened(s)
  <2>1. /\ conn' = [conn EXCEPT ![s] = output_config] /\ unsent' \in {unsent, unsent \cup {s}}
        /\ Enter(s, "drain") \/ Enter(s, "sleep")
    BY <1>4 DEF Opened, Connect, Frames, Write
  <2> QED
    BY <1>1, <1>2, <1>f, <2>1 DEF Enter, Shape, Places
<1>5. CASE Woken(s)
  <2>1. /\ conn' = conn /\ unsent' \in {unsent, unsent \cup {s}} /\ Enter(s, "drain") /\ task[s] = "sleep"
    BY <1>5 DEF Woken, Live, Frames, Write
  <2> QED
    BY <1>1, <1>2, <1>f, <2>1 DEF Enter, Shape, Places
<1>6. CASE WaitClosed(s)
  <2>1. /\ conn' = [conn EXCEPT ![s] = NoConnection] /\ unsent' = unsent \ {s}
        /\ Enter(s, "open") \/ Enter(s, "ended")
    BY <1>6 DEF WaitClosed, Closed
  <2> QED
    BY <1>1, <1>2, <1>f, <2>1 DEF Enter, Shape, Places
<1>7. CASE Cancelled(s)
  <2>1. /\ Enter(s, "leaving") \/ Enter(s, "ended")
        /\ \/ conn' = conn /\ unsent' = unsent
           \/ conn' = [conn EXCEPT ![s] = NoConnection] /\ unsent' = unsent \ {s}
    BY <1>7 DEF Cancelled, CutShort, Abandon, Closed
  <2> QED
    BY <1>1, <1>2, <1>f, <2>1 DEF Enter, Shape, Places
<1> QED
  BY <1>3, <1>4, <1>5, <1>6, <1>7 DEF Sender, Ends

\* What a request does to where it is.
LEMMA PointsAre ==
    ASSUME EInv, Shape,
           \/ Done \/ Raise
           \/ \E at \in Points : Wait(at)
           \/ holder' = [holder EXCEPT !.at = "close", !.todo = <<"send">>]
    PROVE  holder'.at \in Points
<1>1. /\ holder = [op |-> holder.op, todo |-> holder.todo, at |-> holder.at, output |-> holder.output]
      /\ "go" \in Points /\ "done" \in Points /\ "close" \in Points
  BY DEF EInv, Types, Points
<1>2. CASE Done
  BY <1>1, <1>2 DEF Done
<1>3. CASE Raise
  BY <1>1, <1>3 DEF Raise, Free
<1>4. CASE \E at \in Points : Wait(at)
  BY <1>1, <1>4 DEF Wait
<1>5. CASE holder' = [holder EXCEPT !.at = "close", !.todo = <<"send">>]
  BY <1>1, <1>5
<1> QED
  BY <1>2, <1>3, <1>4, <1>5

LEMMA RequestShape ==
    ASSUME EInv, Shape, Request
    PROVE  Shape'
<1>1. /\ task \in [Senders -> Places] /\ conn \in [Owners -> Outputs \cup {Default, NoConnection}]
      /\ Senders \subseteq Owners /\ "send" \in Owners /\ "send" \notin Senders
      /\ output_config # NoConnection
  BY EmulatorAssumption DEF EInv, Types, Shape, Owners, Senders, output_config, EmulatorAssumption, Unset
<1>f. flushing' \subseteq Outputs \cup {Default}
  BY DEF Request, dropped, Shape
<1>2. CASE Save \/ Assign \/ Respond \/ SendOpens \/ SendDrained \/ SendFails
  <2>1. task' = task /\ conn' = conn /\ unsent' = unsent
    BY <1>2 DEF Save, Assign, Respond, SendOpens, SendDrained, SendFails
  <2>2. holder'.at \in Points
    <3>1. CASE Save \/ Assign \/ Respond \/ SendFails
      BY <3>1, PointsAre DEF Save, Assign, Respond, SendFails
    <3>2. CASE SendOpens \/ SendDrained
      BY <3>2, PointsAre DEF SendOpens, SendDrained, Points
    <3> QED
      BY <1>2, <3>1, <3>2
  <2> QED
    BY <1>f, <2>1, <2>2 DEF Shape
<1>3. CASE SendOpened
  <2>1. /\ conn' = [conn EXCEPT !["send"] = output_config] /\ unsent' \in {unsent, unsent \cup {"send"}}
        /\ task' = task
    BY <1>3 DEF SendOpened, Connect, Write
  <2>2. holder'.at \in Points
    BY <1>3, PointsAre DEF SendOpened, Points
  <2> QED
    BY <1>f, <1>1, <2>1, <2>2 DEF Shape
<1>4. CASE \E s \in Senders : Stop(s)
  <2>1. PICK s \in Senders : Stop(s)
    BY <1>4
  <2>2. task' = task /\ conn' = conn /\ unsent' = unsent
    BY <2>1 DEF Stop
  <2>3. holder'.at \in Points
    BY <2>1, PointsAre DEF Stop, Points
  <2> QED
    BY <1>f, <2>2, <2>3 DEF Shape
<1>5. CASE \E s \in Senders : Awaited(s) \/ Runs(s)
  <2>1. PICK s \in Senders : Awaited(s) \/ Runs(s)
    BY <1>5
  <2>2. conn' = conn /\ unsent' = unsent /\ (Enter(s, "none") \/ Enter(s, "new"))
    BY <2>1 DEF Awaited, Runs
  <2>3. holder'.at \in Points
    BY <2>1, PointsAre DEF Awaited, Runs, Points
  <2> QED
    BY <1>f, <1>1, <2>2, <2>3 DEF Enter, Shape, Places
<1>6. CASE \E o \in {"sim", "send"} : Disconnected(o)
  <2>1. PICK o \in {"sim", "send"} : Disconnected(o)
    BY <1>6
  <2>2. conn' = [conn EXCEPT ![o] = NoConnection] /\ unsent' = unsent \ {o} /\ task' = task
    BY <2>1 DEF Disconnected, Closed
  <2>3. o = "sim" => task["sim"] = "none"
    BY <2>1 DEF Disconnected, EInv, Left
  <2>4. holder'.at \in Points
    BY <2>1, PointsAre DEF Disconnected
  <2> QED
    BY <1>f, <1>1, <2>2, <2>3, <2>4 DEF Shape, Senders
<1> QED
  BY <1>2, <1>3, <1>4, <1>5, <1>6 DEF Request

\* The shape of the state holds in every state.
LEMMA ShapeHolds == Spec => []Shape
<1>1. Init => Shape
  <2> SUFFICES ASSUME Init PROVE Shape
    OBVIOUS
  <2>1. task = NoTask /\ unsent = {} /\ flushing = {} /\ holder = Free
    BY DEF Init
  <2> QED
    BY <2>1 DEF Shape, NoTask, Free, Places, Points
<1>2. EInv /\ Shape /\ [Next]_vars => Shape'
  <2> SUFFICES ASSUME EInv, Shape, [Next]_vars PROVE Shape'
    OBVIOUS
  <2>1. CASE UNCHANGED vars
    BY <2>1 DEF vars, dropped, controlVars, Shape
  <2>2. CASE Edit
    BY <2>2 DEF Edit, dropped, controlVars, Shape
  <2>3. CASE Restart
    BY <2>3 DEF Restart, Shape, NoTask, Free, Places, Points
  <2>4. CASE \/ \E op \in DOMAIN Plan \ {"output"} : Post(op, Unset)
             \/ \E output \in Outputs : Post("output", output)
    BY <2>4 DEF Post, dropped, Shape, Points
  <2>5. CASE \E o \in Owners : PeerTakes(o)
    BY <2>5 DEF PeerTakes, dropped, controlVars, Shape
  <2>6. CASE \E d \in Outputs \cup {Default} : Flushed(d)
    BY <2>6 DEF Flushed, controlVars, Shape
  <2> QED
    BY <2>1, <2>2, <2>3, <2>4, <2>5, <2>6, RequestShape, SenderShape DEF Next
<1> QED
  BY <1>1, <1>2, Invariant, PTL DEF Spec

\* Every reachable state is well typed, for any destinations and routes: only a
\* connection has data the peer has not taken, and a route in use has a waypoint
\* to go to (server.py:183, :225).
THEOREM TypeCorrect == Spec => []TypeOK
<1>1. EInv /\ RInv /\ Shape => TypeOK
  <2> SUFFICES ASSUME EInv, RInv, Shape PROVE TypeOK
    OBVIOUS
  <2>1. holder.op \in DOMAIN Plan \cup {"none"}
    BY DEF EInv, Types, Doing, Plan
  <2>2. /\ cancelled \subseteq {s \in Senders : task[s] \notin {"none", "leaving", "ended"}}
        /\ conn \in [Owners -> Outputs \cup {Default, NoConnection}]
        /\ holder.output \in Outputs \cup {Unset} /\ override \in Outputs \cup {Unset}
        /\ file \in Outputs \cup {Unset} /\ quiet \in BOOLEAN /\ stuck \in BOOLEAN
    BY DEF EInv, Types
  <2>3. task \in [Senders -> Places] /\ holder.at \in Points
        /\ unsent \subseteq {o \in Owners : conn[o] # NoConnection}
        /\ flushing \subseteq Outputs \cup {Default}
    BY DEF Shape
  <2> QED
    BY <2>1, <2>2, <2>3 DEF TypeOK, RInv, Places, Points
<1> QED
  BY <1>1, Invariant, RouteInvariant, ShapeHolds, PTL

-----------------------------------------------------------------------------
(* One transmission (Transmission.tla).                                    *)

\* A sender that is started anew had been stopped.
Restarting ==
    /\ holder.op = "start" /\ holder.todo = <<"run_sim">> => task["sim"] = "none"
    /\ holder.op = "motion_start" /\ holder.todo \in {<<"send", "run_ring">>, <<"run_ring">>}
       => task["ring"] = "none"

\* A task that is going to connect has no connection.
Unopened == \A s \in Senders : task[s] \in {"new", "open"} => conn[s] = NoConnection

\* What a sender does to its task and its connection, and when.
LEMMA SenderMoves ==
    ASSUME EInv, Unopened, NEW s \in Senders, Sender(s)
    PROVE  /\ holder' = holder /\ output_config' = output_config /\ file' = file
           /\ task[s] # "none" /\ \A r \in Senders \ {s} : task'[r] = task[r]
           /\ \/ /\ conn' = conn /\ flushing' = flushing
                 /\ task'[s] \in {"new", "open"} => conn[s] = NoConnection
              \/ /\ conn' = [conn EXCEPT ![s] = NoConnection]
                 /\ flushing' = flushing \/ flushing' = flushing \cup {d \in {conn[s]} : s \in unsent}
              \/ /\ conn' = [conn EXCEPT ![s] = output_config] /\ conn[s] = NoConnection
                 /\ task'[s] \notin {"new", "open"} /\ flushing' = flushing
<1>1. UNCHANGED controlVars /\ override' = override /\ file' = file /\ holder' = holder
  BY DEF Sender, Ends, controlVars
<1>2. task = [r \in Senders |-> task[r]] /\ (s \in cancelled => task[s] # "none")
  BY DEF EInv, Types
<1>f. ~Cancelled(s) => flushing' = flushing
  BY DEF Sender, Ends, dropped
<1>g. Cancelled(s) => s \in cancelled
  BY DEF Cancelled
<1>c. s \in cancelled => ~(Begin(s) \/ Woken(s) \/ Drained(s) \/ Fails(s) \/ Paused(s) \/ Opened(s) \/ WaitClosed(s))
  BY DEF Begin, Woken, Drained, Fails, Paused, Opened, WaitClosed, Live
<1>h. Begin(s) \/ Woken(s) \/ Drained(s) \/ Fails(s) \/ Paused(s) \/ Opened(s) \/ WaitClosed(s) => flushing' = flushing
  BY <1>c, <1>f, <1>g
<1>3. CASE Begin(s)
  BY <1>1, <1>2, <1>h, <1>3 DEF Begin, Live, Enter, Unopened, output_config
<1>4. CASE Woken(s) \/ Drained(s) \/ Fails(s)
  BY <1>1, <1>2, <1>h, <1>4 DEF Woken, Drained, Fails, Live, Enter, Frames, output_config
<1>5. CASE Paused(s)
  BY <1>1, <1>2, <1>h, <1>5 DEF Paused, Live, Enter, output_config
<1>6. CASE Opened(s)
  BY <1>1, <1>2, <1>h, <1>6 DEF Opened, Live, Enter, Frames, Connect, Unopened, output_config
<1>7. CASE WaitClosed(s)
  BY <1>1, <1>2, <1>h, <1>7 DEF WaitClosed, Live, Enter, Closed, output_config
<1>8. CASE Cancelled(s)
  <2>1. output_config' = output_config /\ s \in cancelled
    BY <1>1, <1>8 DEF output_config, Cancelled
  <2>2. CASE task[s] # "closing"
    <3>1. /\ UNCHANGED <<conn, flushing>>
          /\ Enter(s, "ended") \/ Enter(s, "leaving")
      BY <1>8, <2>2 DEF Cancelled, dropped
    <3> QED
      BY <1>1, <1>2, <2>1, <3>1 DEF Enter
  <2>3. CASE task[s] = "closing"
    <3>1. /\ Enter(s, "ended")
          /\ \/ UNCHANGED <<conn, flushing>>
             \/ /\ conn' = [conn EXCEPT ![s] = NoConnection]
                /\ flushing' = flushing \cup {d \in {conn[s]} : s \in unsent}
      BY <1>8, <2>3 DEF Cancelled, CutShort, Abandon, Closed, dropped
    <3> QED
      BY <1>1, <1>2, <2>1, <3>1 DEF Enter
  <2> QED
    BY <2>2, <2>3
<1> QED
  BY <1>3, <1>4, <1>5, <1>6, <1>7, <1>8 DEF Sender, Ends

\* A sender is started only after its stop.
LEMMA RunsFromNothing ==
    ASSUME EInv, Restarting, NEW s \in Senders, Runs(s)
    PROVE  task[s] = "none" /\ conn[s] = NoConnection
<1>1. holder.todo # <<>> /\ Head(holder.todo) = RunStage[s] /\ Doing(holder.op, holder.todo) /\ holder.at = "go"
  BY DEF Runs, At, EInv, Types
<1>2. s \in {"sim", "ring"} /\ (s = "sim" => RunStage[s] = "run_sim") /\ (s = "ring" => RunStage[s] = "run_ring")
  BY DEF Senders, RunStage
<1>3. task[s] = "none"
  BY <1>1, <1>2, BeforeRun DEF Restarting
<1> QED
  BY <1>1, <1>2, <1>3 DEF EInv, Left

\* A stage that is over leaves the sender it stopped without a task.
LEMMA DoneRestarts ==
    ASSUME EInv, Restarting, holder.todo # <<>>, Done,
           \A s \in Senders : task'[s] = task[s] \/ task'[s] = "none",
           \A s \in Senders : Head(holder.todo) = s => task'[s] = "none"
    PROVE  Restarting'
<1>1. /\ holder'.op = holder.op /\ holder'.todo = Tail(holder.todo) /\ Doing(holder.op, holder.todo)
      /\ "sim" \in Senders /\ "ring" \in Senders
  BY StageDone DEF EInv, Types, Senders
<1> QED
  BY <1>1, BeforeRun DEF Restarting

\* Both hold at first and after every step.
LEMMA NextRestarting ==
    ASSUME EInv, Restarting, Unopened, [Next]_vars PROVE Restarting' /\ Unopened'
<1>0. /\ task = [r \in Senders |-> task[r]] /\ "sim" \in Senders /\ "ring" \in Senders
      /\ Senders \subseteq Owners /\ conn \in [Owners -> Outputs \cup {Default, NoConnection}]
      /\ holder = [op |-> holder.op, todo |-> holder.todo, at |-> holder.at, output |-> holder.output]
      /\ "send" \notin Senders
  BY DEF EInv, Types, Senders, Owners
<1>1. ASSUME UNCHANGED <<task, conn>> PROVE Unopened'
  BY <1>1 DEF Unopened
<1>2. ASSUME UNCHANGED <<task, holder>> PROVE Restarting'
  BY <1>2 DEF Restarting
<1>3. CASE \/ UNCHANGED vars \/ Edit \/ \E o \in Owners : PeerTakes(o)
           \/ \E d \in Outputs \cup {Default} : Flushed(d)
  BY <1>1, <1>2, <1>3 DEF vars, controlVars, Edit, PeerTakes, Flushed
<1>4. CASE Restart
  BY <1>0, <1>4 DEF Restart, Restarting, Unopened, NoTask, Unconnected, Free, Owners
<1>5. ASSUME NEW op \in DOMAIN Plan, NEW output, Post(op, output) PROVE Restarting' /\ Unopened'
  <2>1. UNCHANGED <<task, conn>> /\ holder'.op = op /\ holder'.todo = Plan[op]
    BY <1>5 DEF Post
  <2>2. /\ op = "start" => Plan[op] = <<"sim", "run_sim">>
        /\ op = "motion_start" => Plan[op] = <<"ring", "send", "run_ring">>
    BY DEF Plan
  <2>3. <<"sim", "run_sim">> # <<"run_sim">> /\ <<"ring", "send", "run_ring">> \notin {<<"send", "run_ring">>, <<"run_ring">>}
    OBVIOUS
  <2> QED
    BY <1>1, <2>1, <2>2, <2>3 DEF Restarting
<1>6. ASSUME NEW s \in Senders, Sender(s) PROVE Restarting' /\ Unopened'
  <2>1. Restarting'
    BY <1>0, <1>6, SenderMoves DEF Restarting
  <2>2. Unopened'
    <3> SUFFICES ASSUME NEW r \in Senders, task'[r] \in {"new", "open"} PROVE conn'[r] = NoConnection
      BY DEF Unopened
    <3>1. CASE r = s
      BY <1>0, <1>6, <3>1, SenderMoves
    <3>2. CASE r # s
      BY <1>0, <1>6, <3>2, SenderMoves DEF Unopened
    <3> QED
      BY <3>1, <3>2
  <2> QED
    BY <2>1, <2>2
<1>7. CASE Save \/ Assign
  <2>1. UNCHANGED <<task, conn>> /\ (Done \/ Raise) /\ holder.todo # <<>> /\ Head(holder.todo) \notin Senders
    BY <1>7 DEF Save, Assign, At, Senders
  <2>2. CASE Done
    BY <1>0, <1>1, <2>1, <2>2, DoneRestarts
  <2>3. CASE Raise
    BY <1>1, <2>1, <2>3 DEF Raise, Free, Restarting
  <2> QED
    BY <2>1, <2>2, <2>3
<1>8. CASE Respond \/ SendFails
  BY <1>1, <1>8 DEF Respond, SendFails, Raise, Free, Restarting
<1>9. CASE SendOpens \/ SendOpened
  <2>1. UNCHANGED task /\ holder'.op = holder.op /\ holder'.todo = holder.todo
    BY <1>0, <1>9 DEF SendOpens, SendOpened, Wait
  <2>2. conn' = conn \/ conn' = [conn EXCEPT !["send"] = output_config]
    BY <1>9 DEF SendOpens, SendOpened, Connect
  <2> QED
    BY <1>0, <2>1, <2>2 DEF Restarting, Unopened
<1>10. CASE SendDrained
  <2>1. UNCHANGED <<task, conn>> /\ holder'.op = holder.op /\ holder'.todo \in {holder.todo, <<"send">>}
    BY <1>0, <1>10 DEF SendDrained, Wait
  <2>2. <<"send">> \notin {<<"run_sim">>, <<"send", "run_ring">>, <<"run_ring">>}
    OBVIOUS
  <2> QED
    BY <1>1, <2>1, <2>2 DEF Restarting
<1>11. ASSUME NEW s \in Senders, Stop(s) PROVE Restarting' /\ Unopened'
  <2>1. UNCHANGED <<task, conn>> /\ holder.todo # <<>> /\ Head(holder.todo) = s
    BY <1>11 DEF Stop, At
  <2>2. CASE task[s] = "none" /\ Done
    BY <1>1, <2>1, <2>2, DoneRestarts
  <2>3. CASE Wait("await")
    BY <1>0, <1>1, <2>1, <2>3 DEF Wait, Restarting
  <2>4. CASE Raise
    BY <1>1, <2>1, <2>4 DEF Raise, Free, Restarting
  <2> QED
    BY <1>11, <2>2, <2>3, <2>4 DEF Stop
<1>12. ASSUME NEW s \in Senders, Awaited(s) PROVE Restarting' /\ Unopened'
  <2>1. /\ task' = [task EXCEPT ![s] = "none"] /\ UNCHANGED conn /\ holder.todo # <<>>
        /\ Head(holder.todo) = s
    BY <1>12 DEF Awaited, Enter, At
  <2>2. \A r \in Senders : task'[r] = IF r = s THEN "none" ELSE task[r]
    BY <1>0, <2>1
  <2>3. CASE Done
    BY <2>1, <2>2, <2>3, DoneRestarts DEF Unopened
  <2>4. CASE Wait("close")
    BY <1>0, <2>1, <2>2, <2>4 DEF Wait, Restarting, Unopened
  <2>5. CASE Raise
    BY <2>1, <2>2, <2>5 DEF Raise, Free, Restarting, Unopened
  <2> QED
    BY <1>12, <2>3, <2>4, <2>5 DEF Awaited
<1>13. ASSUME NEW s \in Senders, Runs(s) PROVE Restarting' /\ Unopened'
  <2>1. /\ task' = [task EXCEPT ![s] = "new"] /\ UNCHANGED conn /\ Done /\ holder.todo # <<>>
        /\ Head(holder.todo) \in {"run_sim", "run_ring"}
    BY <1>13 DEF Runs, Enter, At, RunStage, Senders
  <2>2. conn[s] = NoConnection
    BY <1>13, RunsFromNothing
  <2>3. Unopened'
    BY <1>0, <2>1, <2>2 DEF Unopened
  <2>4. holder'.op = holder.op /\ holder'.todo = Tail(holder.todo) /\ Doing(holder.op, holder.todo)
    BY <2>1, StageDone DEF EInv, Types
  <2>5. holder'.todo # <<"run_sim">> \/ holder.op # "start"
    BY <2>1, <2>4, BeforeRun
  <2>6. holder'.todo \notin {<<"send", "run_ring">>, <<"run_ring">>} \/ holder.op # "motion_start"
    <3>1. Head(<<"send", "run_ring">>) = "send"
      BY Tuples
    <3> QED
      BY <2>1, <2>4, <3>1, BeforeRun
  <2> QED
    BY <2>3, <2>4, <2>5, <2>6 DEF Restarting
<1>14. ASSUME NEW o \in {"sim", "send"}, Disconnected(o) PROVE Restarting' /\ Unopened'
  <2>1. /\ UNCHANGED task /\ conn' = [conn EXCEPT ![o] = NoConnection] /\ Done /\ holder.todo # <<>>
        /\ Head(holder.todo) = o /\ holder.at = "close" /\ (o = "sim" => task["sim"] = "none")
    BY <1>14 DEF Disconnected, Closed, At, EInv, Left
  <2>2. Restarting'
    BY <1>0, <2>1, DoneRestarts
  <2> QED
    BY <1>0, <2>1, <2>2 DEF Unopened
<1> QED
  BY <1>3, <1>4, <1>5, <1>6, <1>7, <1>8, <1>9, <1>10, <1>11, <1>12, <1>13, <1>14 DEF Next, Request, Plan

\* No task connects while it has a connection.
LEMMA OneConnectionEach == Spec => []Unopened
<1>1. Init => Restarting /\ Unopened
  BY DEF Init, Restarting, Unopened, Free, NoTask, Unconnected, Owners, Senders
<1>2. EInv /\ (Restarting /\ Unopened) /\ [Next]_vars => (Restarting /\ Unopened)'
  BY NextRestarting
<1> QED
  BY <1>1, <1>2, Invariant, PTL DEF Spec

SavedTarget == IF file = Unset THEN Default ELSE file

\* Nothing Transmission.tla speaks of has changed.
LEMMA SameTransmission ==
    ASSUME UNCHANGED <<override, file, conn, flushing>> PROVE [Tx!Next]_(Tx!vars)
BY DEF Tx!vars, output_config

\* Connections of senders and of a sent sequence.
LEMMA ConnectionRefines ==
    ASSUME EInv, NEW o \in Owners, output_config' = output_config, file' = file,
           \/ conn' = conn /\ flushing' = flushing
           \/ conn' = [conn EXCEPT ![o] = NoConnection] /\ flushing' = flushing
           \/ /\ conn' = [conn EXCEPT ![o] = NoConnection] /\ conn[o] # NoConnection
              /\ flushing' = flushing \cup {conn[o]}
           \/ conn' = [conn EXCEPT ![o] = output_config] /\ conn[o] = NoConnection /\ flushing' = flushing
    PROVE  [Tx!Next]_(Tx!vars)
<1>1. CASE conn' = conn /\ flushing' = flushing
  BY <1>1 DEF Tx!vars
<1>2. CASE conn' = [conn EXCEPT ![o] = NoConnection] /\ flushing' = flushing
  <2>1. Tx!Close(o)
    BY <1>2 DEF Tx!Close
  <2> QED
    BY <2>1 DEF Tx!Next
<1>3. CASE conn' = [conn EXCEPT ![o] = output_config] /\ conn[o] = NoConnection /\ flushing' = flushing
  <2>1. Tx!Open(o)
    BY <1>3 DEF Tx!Open
  <2> QED
    BY <2>1 DEF Tx!Next
<1>4. CASE /\ conn' = [conn EXCEPT ![o] = NoConnection] /\ conn[o] # NoConnection
           /\ flushing' = flushing \cup {conn[o]}
  <2>1. Tx!LetGo(o)
    BY <1>4 DEF Tx!LetGo
  <2> QED
    BY <2>1 DEF Tx!Next
<1> QED
  BY <1>1, <1>2, <1>3, <1>4

\* A new destination is saved, and used when every connection is closed.
LEMMA OutputRefines == ASSUME EInv, Save \/ Assign, UNCHANGED dropped PROVE [Tx!Next]_(Tx!vars)
<1>0. flushing' = flushing
  BY DEF dropped
<1>1. holder.todo # <<>> /\ Doing(holder.op, holder.todo) /\ holder.output \in Outputs \cup {Unset}
  BY DEF Save, Assign, At, EInv, Types
<1>2. CASE Save
  <2>1. UNCHANGED <<override, conn>> /\ (file' = holder.output \/ file' = file)
    BY <1>2 DEF Save
  <2>2. CASE file' = file
    BY <1>0, <2>1, <2>2, SameTransmission
  <2>3. CASE file' = holder.output
    <3>1. SavedTarget' \in Outputs \cup {Default} /\ output_config' = output_config
      BY <1>1, <2>1, <2>3 DEF SavedTarget, output_config
    <3>2. Tx!Save(SavedTarget')
      BY <1>0, <2>1, <3>1 DEF Tx!Save, SavedTarget
    <3> QED
      BY <3>1, <3>2 DEF Tx!Next
  <2> QED
    BY <2>1, <2>2, <2>3
<1>3. CASE Assign
  <2>1. /\ override' = holder.output /\ UNCHANGED <<conn, file>> /\ holder.at = "go"
        /\ Head(holder.todo) = "assign"
    BY <1>3 DEF Assign, At
  <2>2. holder.op = "output" /\ holder.todo = <<"assign">>
    BY <1>1, <2>1, Stages
  <2>3. RingStopped /\ SimStopped /\ Unused
    BY <2>2 DEF RingStopped, SimStopped, Unused
  <2>4. conn["ring"] = NoConnection /\ conn["sim"] = NoConnection /\ file = holder.output
    BY <2>3 DEF EInv, Stopped, Silent, Saved
  <2>5. conn["send"] = NoConnection
    BY <2>1 DEF EInv, Left
  <2>6. conn = Tx!AllClosed
    <3>1. conn \in [Owners -> Outputs \cup {Default, NoConnection}]
      BY DEF EInv, Types
    <3>2. \A o \in Owners : conn[o] = NoConnection
      BY <2>4, <2>5 DEF Owners, Senders
    <3> QED
      BY <3>1, <3>2 DEF Tx!AllClosed
  <2>7. Tx!Redirect
    BY <1>0, <2>1, <2>4, <2>6 DEF Tx!Redirect, output_config
  <2> QED
    BY <2>7 DEF Tx!Next
<1> QED
  BY <1>2, <1>3

\* Every step is one of Transmission.tla or leaves what it speaks of alone.
LEMMA StepTransmits == ASSUME EInv, Shape, Unopened, [Next]_vars PROVE [Tx!Next]_(Tx!vars)
<1>1. CASE UNCHANGED vars \/ Edit \/ \E o \in Owners : PeerTakes(o)
  BY <1>1, SameTransmission DEF vars, dropped, controlVars, Edit, PeerTakes
<1>2. CASE Restart
  <2>1. Tx!Restart
    BY <1>2 DEF Restart, Tx!Restart, Tx!AllClosed, Unconnected, output_config
  <2> QED
    BY <2>1 DEF Tx!Next
<1>3. CASE (\E op \in DOMAIN Plan \ {"output"} : Post(op, Unset)) \/ \E output \in Outputs : Post("output", output)
  BY <1>3, SameTransmission DEF Post, dropped
<1>4. CASE \E s \in Senders : Sender(s)
  <2>1. PICK s \in Senders : Sender(s)
    BY <1>4
  <2>2. CASE s \in unsent
    <3>1. conn[s] # NoConnection /\ {d \in {conn[s]} : s \in unsent} = {conn[s]}
      BY <2>2 DEF Shape
    <3> QED
      BY <2>1, <3>1, SenderMoves, ConnectionRefines DEF Owners
  <2>3. CASE s \notin unsent
    <3>1. flushing \cup {d \in {conn[s]} : s \in unsent} = flushing
      BY <2>3
    <3> QED
      BY <2>1, <3>1, SenderMoves, ConnectionRefines DEF Owners
  <2> QED
    BY <2>2, <2>3
<1>5. CASE \E d \in Outputs \cup {Default} : Flushed(d)
  <2>1. PICK d \in Outputs \cup {Default} : Flushed(d)
    BY <1>5
  <2>2. Tx!Follow(d)
    BY <2>1 DEF Flushed, controlVars, Tx!Follow, output_config
  <2> QED
    BY <2>2 DEF Tx!Next
<1>6. CASE Request
  <2>0. UNCHANGED dropped /\ flushing' = flushing
    BY <1>6 DEF Request, dropped
  <2>1. CASE Save \/ Assign
    BY <2>0, <2>1, OutputRefines
  <2>2. CASE \/ Respond \/ SendOpens \/ SendDrained \/ SendFails
             \/ \E s \in Senders : Stop(s) \/ Awaited(s) \/ Runs(s)
    BY <2>0, <2>2, SameTransmission DEF Respond, SendOpens, SendDrained, SendFails, Stop, Awaited, Runs
  <2>3. CASE SendOpened
    <3>1. /\ conn' = [conn EXCEPT !["send"] = output_config] /\ UNCHANGED <<override, file>>
          /\ conn["send"] = NoConnection /\ "send" \in Owners
      BY <2>3 DEF SendOpened, Connect, EInv, Left, Owners
    <3>2. output_config' = output_config
      BY <3>1 DEF output_config
    <3> QED
      BY <2>0, <3>1, <3>2, ConnectionRefines
  <2>4. CASE \E o \in {"sim", "send"} : Disconnected(o)
    <3>1. PICK o \in {"sim", "send"} : Disconnected(o)
      BY <2>4
    <3>2. conn' = [conn EXCEPT ![o] = NoConnection] /\ UNCHANGED <<override, file>> /\ o \in Owners
      BY <3>1 DEF Disconnected, Closed, Owners, Senders
    <3>3. output_config' = output_config
      BY <3>2 DEF output_config
    <3> QED
      BY <2>0, <3>2, <3>3, ConnectionRefines
  <2> QED
    BY <1>6, <2>1, <2>2, <2>3, <2>4 DEF Request
<1> QED
  BY <1>1, <1>2, <1>3, <1>4, <1>5, <1>6 DEF Next

\* The three owners of connections together are one transmission whose
\* destination changes only between connections (server.py:46-52, 560-570).
THEOREM TransmissionIsImplemented == Spec => SendsToOneTarget
<1>1. Init => Tx!Init
  BY DEF Init, Tx!Init, Tx!AllClosed, Unconnected, output_config
<1>2. EInv /\ Shape /\ Unopened /\ [Next]_vars => [Tx!Next]_(Tx!vars)
  BY StepTransmits
<1> QED
  BY <1>1, <1>2, Invariant, ShapeHolds, OneConnectionEach, PTL DEF Spec, SendsToOneTarget, Tx!Spec

-----------------------------------------------------------------------------
(* A request under the lock comes to its end.                              *)

\* Where a request is and what it waits for: a sender it has told to stop is
\* cancelled, on its way out, or has ended.
Waits ==
    /\ holder.at \in Points
    /\ holder.at = "done" => holder = Free
    /\ holder.at = "await" => \E s \in Senders : At(s) /\ (s \in cancelled \/ task[s] \in {"leaving", "ended"})
    /\ holder.at \in {"open", "drain"} => At("send")
    /\ holder.at = "close" => At("sim") \/ At("send")

\* There are four stages at most, and each one that is done leaves one less.
LEMMA StagesLeft ==
    ASSUME NEW op, NEW todo, Doing(op, todo)
    PROVE  /\ Len(todo) \in 0..4
           /\ todo # <<>> => Len(Tail(todo)) = Len(todo) - 1
           /\ todo # <<>> => Len(<<"send">>) <= Len(todo)
           /\ todo = <<>> => Len(todo) = 0
<1>1. \/ todo = <<>> \/ \E a : todo = <<a>>
      \/ \E a, b : todo = <<a, b>>
      \/ \E a, b, c : todo = <<a, b, c>>
      \/ \E a, b, c, d : todo = <<a, b, c, d>>
  BY DEF Doing
<1>2. /\ Len(<<>>) = 0
      /\ \A a : Len(<<a>>) = 1
      /\ \A a, b : Len(<<a, b>>) = 2
      /\ \A a, b, c : Len(<<a, b, c>>) = 3
      /\ \A a, b, c, d : Len(<<a, b, c, d>>) = 4
  OBVIOUS
<1>3. CASE todo = <<>>
  BY <1>2, <1>3
<1>4. CASE \E a : todo = <<a>>
  BY <1>2, <1>4, Tuples
<1>5. CASE \E a, b : todo = <<a, b>>
  BY <1>2, <1>5, Tuples
<1>6. CASE \E a, b, c : todo = <<a, b, c>>
  BY <1>2, <1>6, Tuples
<1>7. CASE \E a, b, c, d : todo = <<a, b, c, d>>
  BY <1>2, <1>7, Tuples
<1> QED
  BY <1>1, <1>3, <1>4, <1>5, <1>6, <1>7

\* A sender that is awaited only comes nearer to its end.
LEMMA ExpectedEnds ==
    ASSUME EInv, NEW s \in Senders, Sender(s), s \in cancelled \/ task[s] \in {"leaving", "ended"}
    PROVE  /\ task'[s] \in {"leaving", "ended"} /\ s \notin cancelled'
           /\ EndRank(s)' < EndRank(s) /\ Ends(s)
<1>1. task = [r \in Senders |-> task[r]] /\ (s \in cancelled => task[s] \notin {"leaving", "ended"})
  BY DEF EInv, Types
<1>2. CASE Cancelled(s)
  <2>1. s \in cancelled /\ cancelled' = cancelled \ {s} /\ (Enter(s, "leaving") \/ Enter(s, "ended"))
    BY <1>2 DEF Cancelled
  <2>2. task'[s] \in {"leaving", "ended"} /\ s \notin cancelled'
    BY <1>1, <2>1 DEF Enter
  <2>3. UNCHANGED controlVars
    BY <1>2 DEF Sender, Ends, Begin, Opened, Woken, Drained, Fails, Paused, Live, WaitClosed
  <2> QED
    BY <1>2, <2>1, <2>2, <2>3 DEF EndRank, Ends
<1>3. CASE WaitClosed(s)
  <2>1. s \notin cancelled /\ task[s] = "leaving" /\ cancelled' = cancelled /\ Enter(s, "ended")
    BY <1>1, <1>3 DEF WaitClosed, Live
  <2>2. task'[s] = "ended"
    BY <1>1, <2>1 DEF Enter
  <2>3. UNCHANGED controlVars /\ ~Cancelled(s)
    BY <2>1 DEF Sender, Ends, Cancelled
  <2>4. UNCHANGED dropped
    BY <2>3 DEF Sender, Ends
  <2> QED
    BY <1>3, <2>1, <2>2, <2>3, <2>4 DEF EndRank, Ends
<1>4. CASE Begin(s) \/ Opened(s) \/ Woken(s) \/ Drained(s) \/ Fails(s) \/ Paused(s)
  BY <1>1, <1>4 DEF Begin, Opened, Woken, Drained, Fails, Paused, Live
<1> QED
  BY <1>2, <1>3, <1>4 DEF Sender, Ends

\* A sender that is not awaited changes nothing for the one that is.
LEMMA OthersGoOn ==
    ASSUME EInv, NEW s \in Senders, Sender(s), NEW r \in Senders, r # s
    PROVE  task'[r] = task[r] /\ (r \in cancelled' <=> r \in cancelled) /\ EndRank(r)' = EndRank(r)
<1>1. task = [q \in Senders |-> task[q]]
  BY DEF EInv, Types
<1>2. (\E at : task' = [task EXCEPT ![s] = at]) /\ (cancelled' = cancelled \/ cancelled' = cancelled \ {s})
  BY DEF Sender, Ends, Begin, Opened, Woken, Drained, Fails, Paused, WaitClosed, Cancelled, Enter, Frames
<1>3. task'[r] = task[r] /\ (r \in cancelled' <=> r \in cancelled)
  BY <1>1, <1>2
<1> QED
  BY <1>3 DEF EndRank

\* Every step leaves a request with something to wait for.
LEMMA NextWaits == ASSUME EInv, Waits, [Next]_vars PROVE Waits'
<1>0. holder = [op |-> holder.op, todo |-> holder.todo, at |-> holder.at, output |-> holder.output]
  BY DEF EInv, Types
<1>1. ASSUME holder'.at = "go" PROVE Waits'
  BY <1>1 DEF Waits, Points
<1>2. ASSUME holder' = Free PROVE Waits'
  BY <1>2 DEF Waits, Points, Free
<1>3. ASSUME Done PROVE Waits'
  BY <1>0, <1>1, <1>3 DEF Done
<1>4. ASSUME UNCHANGED <<holder, task, cancelled>> PROVE Waits'
  BY <1>4 DEF Waits, At, Free
<1>5. CASE \/ UNCHANGED vars \/ Edit \/ \E o \in Owners : PeerTakes(o)
           \/ \E d \in Outputs \cup {Default} : Flushed(d)
  BY <1>4, <1>5 DEF vars, controlVars, Edit, PeerTakes, Flushed
<1>6. CASE Restart
  BY <1>2, <1>6 DEF Restart
<1>7. CASE (\E op \in DOMAIN Plan \ {"output"} : Post(op, Unset)) \/ \E output \in Outputs : Post("output", output)
  BY <1>1, <1>7 DEF Post
<1>8. ASSUME NEW s \in Senders, Sender(s) PROVE Waits'
  <2>1. holder' = holder
    BY <1>8 DEF Sender, Ends, controlVars
  <2>2. CASE holder.at = "await"
    <3>1. PICK r \in Senders : At(r) /\ (r \in cancelled \/ task[r] \in {"leaving", "ended"})
      BY <2>2 DEF Waits
    <3>2. r \in cancelled' \/ task'[r] \in {"leaving", "ended"}
      BY <1>8, <3>1, ExpectedEnds, OthersGoOn
    <3> QED
      BY <2>1, <2>2, <3>1, <3>2 DEF Waits, At
  <2>3. CASE holder.at # "await"
    BY <2>1, <2>3 DEF Waits, At, Free
  <2> QED
    BY <2>2, <2>3
<1>9. CASE Save \/ Assign \/ Respond \/ SendFails
  BY <1>2, <1>3, <1>9 DEF Save, Assign, Respond, SendFails, Raise
<1>10. CASE SendOpens \/ SendOpened
  BY <1>0, <1>10 DEF SendOpens, SendOpened, Wait, Waits, At, Points
<1>11. CASE SendDrained
  <2>1. holder'.at = "close" /\ holder'.todo \in {holder.todo, <<"send">>} /\ At("send")
    BY <1>0, <1>11 DEF SendDrained, Wait
  <2>2. At("send")'
    BY <2>1, Tuples DEF At
  <2> QED
    BY <2>1, <2>2 DEF Waits, Points
<1>12. ASSUME NEW s \in Senders, Stop(s) PROVE Waits'
  <2>1. CASE Done
    BY <1>3, <2>1
  <2>2. CASE Wait("await") /\ cancelled' = cancelled \cup {s}
    BY <1>0, <1>12, <2>2 DEF Stop, Wait, Waits, At, Points
  <2>3. CASE Raise
    BY <1>2, <2>3 DEF Raise
  <2> QED
    BY <1>12, <2>1, <2>2, <2>3 DEF Stop
<1>13. ASSUME NEW s \in Senders, Awaited(s) PROVE Waits'
  <2>1. CASE Done
    BY <1>3, <2>1
  <2>2. CASE Wait("close") /\ conn[s] # NoConnection
    <3>1. s = "sim"
      BY <1>13, <2>2 DEF Awaited, EInv, Left, Senders
    <3> QED
      BY <1>0, <1>13, <2>2, <3>1 DEF Awaited, Wait, Waits, At, Points
  <2>3. CASE Raise
    BY <1>2, <2>3 DEF Raise
  <2> QED
    BY <1>13, <2>1, <2>2, <2>3 DEF Awaited
<1>14. CASE (\E s \in Senders : Runs(s)) \/ (\E o \in {"sim", "send"} : Disconnected(o))
  BY <1>3, <1>14 DEF Runs, Disconnected
<1> QED
  BY <1>5, <1>6, <1>7, <1>8, <1>9, <1>10, <1>11, <1>12, <1>13, <1>14 DEF Next, Request

-----------------------------------------------------------------------------
\* Steps left in numbers: eight for each stage, and the rest of this one.
RankNow == IF holder.at = "await" THEN EndRank(Head(holder.todo)) ELSE PointRank[holder.at]

LEMMA Counted ==
    ASSUME EInv, Waits
    PROVE  /\ StepsLeft = 8 * Len(holder.todo) + RankNow /\ Len(holder.todo) \in Nat
           /\ RankNow \in 0..7 /\ (holder.at # "done" => RankNow > 0)
           /\ holder.at = "go" => RankNow = 7
<1>1. Len(holder.todo) \in 0..4
  BY StagesLeft DEF EInv, Types
<1>2. EndRank(Head(holder.todo)) \in 4..6
  BY DEF EndRank
<1>3. /\ holder.at # "await" => RankNow \in {0, 3, 5, 6, 7}
      /\ holder.at # "await" /\ holder.at # "done" => RankNow \in {3, 5, 6, 7}
      /\ holder.at = "go" => RankNow = 7
  BY DEF RankNow, PointRank, Waits, Points
<1> QED
  BY <1>1, <1>2, <1>3 DEF StepsLeft, RankNow

\* The same after a step.
LEMMA CountedNext ==
    ASSUME EInv', Waits'
    PROVE  /\ StepsLeft' = 8 * Len(holder'.todo) + RankNow' /\ Len(holder'.todo) \in Nat
           /\ RankNow' \in 0..7
<1>1. Len(holder'.todo) \in 0..4
  BY StagesLeft DEF EInv, Types
<1>2. EndRank(Head(holder.todo))' \in 4..6
  BY DEF EndRank
<1>3. holder'.at # "await" => RankNow' \in {0, 3, 5, 6, 7}
  BY DEF RankNow, PointRank, Waits, Points
<1> QED
  BY <1>1, <1>2, <1>3 DEF StepsLeft, RankNow

\* A request that goes on to its next stage, or ends, is nearer to its end.
LEMMA DoneIsNearer ==
    ASSUME EInv, Waits, EInv', Waits', (holder.todo # <<>> /\ Done) \/ (holder.at # "done" /\ Raise)
    PROVE  StepsLeft' < StepsLeft
<1>1. CASE holder.todo # <<>> /\ Done
  <2>1. holder'.todo = Tail(holder.todo) /\ holder'.at = "go" /\ Doing(holder.op, holder.todo)
    BY <1>1, StageDone DEF EInv, Types
  <2>2. Len(holder'.todo) = Len(holder.todo) - 1
    BY <1>1, <2>1, StagesLeft
  <2>3. StepsLeft' = 8 * Len(holder'.todo) + 7
    BY <2>1 DEF StepsLeft, PointRank
  <2> QED
    BY <2>2, <2>3, Counted
<1>2. CASE holder.at # "done" /\ Raise
  <2>1. StepsLeft' = 0
    BY <1>2 DEF Raise, Free, StepsLeft, PointRank
  <2> QED
    BY <1>2, <2>1, Counted
<1> QED
  BY <1>1, <1>2

\* Within a stage it is nearer when its rank is lower.
LEMMA LowerIsNearer ==
    ASSUME EInv, Waits, EInv', Waits', Len(holder'.todo) <= Len(holder.todo), RankNow' < RankNow
    PROVE  StepsLeft' < StepsLeft
<1>1. \A m, n \in Nat, i, j \in 0..7 : n <= m /\ j < i => 8 * n + j < 8 * m + i
  OBVIOUS
<1>2. Len(holder.todo) \in Nat /\ RankNow \in 0..7 /\ StepsLeft = 8 * Len(holder.todo) + RankNow
  BY Counted
<1>3. /\ Len(holder'.todo) \in Nat /\ RankNow' \in 0..7
      /\ StepsLeft' = 8 * Len(holder'.todo) + RankNow'
  BY CountedNext
<1>4. 8 * Len(holder'.todo) + RankNow' < 8 * Len(holder.todo) + RankNow
  BY <1>1, <1>2, <1>3
<1> QED
  BY <1>2, <1>3, <1>4

\* Every step of a request brings it nearer to its end.
LEMMA RequestIsNearer ==
    ASSUME EInv, Waits, EInv', Waits', Request PROVE StepsLeft' < StepsLeft
<1>0. /\ holder = [op |-> holder.op, todo |-> holder.todo, at |-> holder.at, output |-> holder.output]
      /\ Len(holder.todo) \in Nat /\ Doing(holder.op, holder.todo)
  BY Counted DEF EInv, Types
<1>1. CASE Save \/ Assign \/ Respond \/ SendFails
  BY <1>1, DoneIsNearer DEF Save, Assign, Respond, SendFails, At
<1>2. CASE SendOpens \/ SendOpened
  <2>1. /\ holder'.todo = holder.todo
        /\ \/ holder.at = "go" /\ holder'.at = "open"
           \/ holder.at = "open" /\ holder'.at = "drain"
    BY <1>0, <1>2 DEF SendOpens, SendOpened, Wait
  <2>2. RankNow' < RankNow
    BY <2>1 DEF RankNow, PointRank
  <2> QED
    BY <1>0, <2>1, <2>2, LowerIsNearer
<1>3. CASE SendDrained
  <2>1. /\ holder'.todo = holder.todo \/ holder'.todo = <<"send">>
        /\ holder.at = "drain" /\ holder'.at = "close" /\ holder.todo # <<>>
    BY <1>0, <1>3 DEF SendDrained, Wait, At
  <2>2. RankNow' < RankNow
    BY <2>1 DEF RankNow, PointRank
  <2>3. Len(holder'.todo) <= Len(holder.todo)
    <3>1. Len(<<"send">>) <= Len(holder.todo)
      BY <1>0, <2>1, StagesLeft
    <3>2. CASE holder'.todo = holder.todo
      BY <1>0, <3>2
    <3>3. CASE holder'.todo = <<"send">>
      <4>1. Len(holder'.todo) = Len(<<"send">>)
        BY <3>3
      <4> QED
        BY <3>1, <4>1
    <3> QED
      BY <2>1, <3>2, <3>3
  <2> QED
    BY <2>2, <2>3, LowerIsNearer
<1>4. ASSUME NEW s \in Senders, Stop(s) PROVE StepsLeft' < StepsLeft
  <2>1. CASE Done
    BY <1>4, <2>1, DoneIsNearer DEF Stop, At
  <2>2. CASE Wait("await") /\ cancelled' = cancelled \cup {s}
    <3>1. /\ holder'.todo = holder.todo /\ holder'.at = "await" /\ holder.at = "go"
          /\ Head(holder'.todo) = s /\ s \in cancelled'
      BY <1>0, <1>4, <2>2 DEF Stop, Wait, At
    <3>2. RankNow' = 6 /\ RankNow = 7
      BY <3>1 DEF RankNow, PointRank, EndRank
    <3> QED
      BY <1>0, <3>1, <3>2, LowerIsNearer
  <2>3. CASE Raise
    BY <1>4, <2>3, DoneIsNearer DEF Stop
  <2> QED
    BY <1>4, <2>1, <2>2, <2>3 DEF Stop
<1>5. ASSUME NEW s \in Senders, Awaited(s) PROVE StepsLeft' < StepsLeft
  <2>1. CASE Done
    BY <1>5, <2>1, DoneIsNearer DEF Awaited, At
  <2>2. CASE Wait("close")
    <3>1. /\ holder'.todo = holder.todo /\ holder'.at = "close" /\ holder.at = "await"
          /\ Head(holder.todo) = s /\ task[s] = "ended"
      BY <1>0, <1>5, <2>2 DEF Awaited, Wait, At
    <3>2. s \notin cancelled
      BY <3>1 DEF EInv, Types
    <3>3. RankNow' = 3 /\ RankNow = 4
      BY <3>1, <3>2 DEF RankNow, PointRank, EndRank
    <3> QED
      BY <1>0, <3>1, <3>3, LowerIsNearer
  <2>3. CASE Raise
    BY <1>5, <2>3, DoneIsNearer DEF Awaited
  <2> QED
    BY <1>5, <2>1, <2>2, <2>3 DEF Awaited
<1>6. CASE (\E s \in Senders : Runs(s)) \/ (\E o \in {"sim", "send"} : Disconnected(o))
  BY <1>6, DoneIsNearer DEF Runs, Disconnected, At
<1> QED
  BY <1>1, <1>2, <1>3, <1>4, <1>5, <1>6 DEF Request

\* The steps of the senders never take a request back.
LEMMA SenderIsNearer ==
    ASSUME EInv, Waits, EInv', Waits', NEW s \in Senders, Sender(s)
    PROVE  StepsLeft' <= StepsLeft /\ (Expected(s) => StepsLeft' < StepsLeft)
<1>1. holder' = holder /\ Len(holder.todo) \in Nat
  BY Counted DEF Sender, Ends, controlVars
<1>2. StepsLeft \in Int /\ StepsLeft' \in Int
  BY Counted, CountedNext
<1>3. CASE holder.at # "await"
  <2>1. StepsLeft' = StepsLeft
    BY <1>1, <1>3 DEF StepsLeft
  <2> QED
    BY <1>2, <1>3, <2>1 DEF Expected
<1>4. CASE holder.at = "await"
  <2>1. PICK r \in Senders : At(r) /\ (r \in cancelled \/ task[r] \in {"leaving", "ended"})
    BY <1>4 DEF Waits
  <2>2. Head(holder.todo) = r /\ RankNow = EndRank(r) /\ RankNow' = EndRank(r)'
    BY <1>1, <1>4, <2>1 DEF At, RankNow
  <2>3. CASE r = s
    <3>1. RankNow' < RankNow
      BY <2>1, <2>2, <2>3, ExpectedEnds
    <3>2. StepsLeft' < StepsLeft
      BY <1>1, <3>1, LowerIsNearer
    <3> QED
      BY <1>2, <3>2
  <2>4. CASE r # s
    <3>1. EndRank(r)' = EndRank(r)
      BY <2>4, OthersGoOn
    <3>2. StepsLeft' = StepsLeft
      BY <1>1, <1>4, <2>2, <3>1 DEF StepsLeft, RankNow
    <3>3. ~Expected(s)
      BY <2>2, <2>4 DEF Expected, At
    <3> QED
      BY <1>2, <3>2, <3>3
  <2> QED
    BY <2>3, <2>4
<1> QED
  BY <1>3, <1>4

\* Nothing takes a request back.
LEMMA NeverFarther ==
    ASSUME EInv, Waits, EInv', Waits', holder # Free, [Next]_vars PROVE StepsLeft' <= StepsLeft
<1>1. StepsLeft \in Nat /\ StepsLeft' \in Nat
  <2>1. StepsLeft' = 8 * Len(holder'.todo) + RankNow' /\ Len(holder'.todo) \in Nat /\ RankNow' \in 0..7
    BY CountedNext
  <2> QED
    BY <2>1, Counted
<1>2. CASE Request
  BY <1>1, <1>2, RequestIsNearer
<1>3. CASE \E s \in Senders : Sender(s)
  BY <1>3, SenderIsNearer
<1>4. CASE \/ UNCHANGED vars \/ Edit \/ \E o \in Owners : PeerTakes(o)
           \/ \E d \in Outputs \cup {Default} : Flushed(d)
  <2>1. UNCHANGED <<holder, task, cancelled>>
    BY <1>4 DEF vars, controlVars, Edit, PeerTakes, Flushed
  <2>2. StepsLeft' = StepsLeft
    BY <2>1 DEF StepsLeft, EndRank
  <2> QED
    BY <1>1, <2>2
<1>5. CASE Restart
  <2>1. StepsLeft' = 0
    BY <1>5 DEF Restart, Free, StepsLeft, PointRank
  <2> QED
    BY <1>1, <2>1
<1>6. CASE (\E op \in DOMAIN Plan \ {"output"} : Post(op, Unset)) \/ \E output \in Outputs : Post("output", output)
  BY <1>6 DEF Post
<1> QED
  BY <1>2, <1>3, <1>4, <1>5, <1>6 DEF Next

\* The lock is never held in vain: its holder can go on, or closes a
\* connection, and at most 39 steps for it end it (server.py:213-247).
THEOREM RequestsComeToTheirEnd == Spec => RequestsAdvance
<1>1. Init => Waits
  BY DEF Init, Waits, Free, Points
<1>2. EInv /\ Waits /\ [Next]_vars => Waits'
  BY NextWaits
<1>3. EInv /\ Waits => (holder # Free => CanGoOn \/ \E o \in Owners : Closing(o))
  BY DEF EInv, Types, Waits, Points, CanGoOn, Closing, Expected, Owners, Senders, At
<1>4. EInv /\ Waits /\ (EInv /\ Waits)' /\ [Next]_vars
      => [/\ ForHolder => StepsLeft' < StepsLeft
          /\ holder # Free => StepsLeft' <= StepsLeft]_vars
  <2>1. ASSUME EInv, Waits, EInv', Waits', NEW s \in Senders, Expected(s), Ends(s)
        PROVE  StepsLeft' < StepsLeft
    BY <2>1, SenderIsNearer DEF Sender
  <2> QED
    BY <2>1, RequestIsNearer, NeverFarther DEF ForHolder
<1> QED
  BY <1>1, <1>2, <1>3, <1>4, Invariant, PTL DEF Spec, RequestsAdvance
=============================================================================
