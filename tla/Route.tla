------------------------------- MODULE Route -------------------------------
(***************************************************************************)
(* The vessel the NMEA emulator simulates (src/emulator/server.py): its    *)
(* position, and the route it follows while the operator edits both.  The  *)
(* vessel stays on one great circle, divided into Around equal parts, so   *)
(* that a position is a number, a course is a direction and both distance  *)
(* and the wrap at the date line are exact.                                *)
(***************************************************************************)
EXTENDS Integers, Sequences, FiniteSetsExt

CONSTANTS
    Around, \* parts of the great circle
    Step,   \* parts covered in one interval: speed * interval / 3600
    Placed, \* positions the operator may set
    Routes  \* routes the operator may set: [waypoints, loop]

Positions == 0..(Around - 1)
Courses == {1, -1}

NoRoute == [waypoints |-> <<>>, loop |-> FALSE]

ASSUME RouteAssumption ==
    /\ Around \in Nat \ {0} /\ Step \in Nat /\ Step < Around
    /\ Placed \subseteq Positions
    /\ Routes \subseteq [waypoints : Seq(Positions), loop : BOOLEAN] /\ NoRoute \in Routes

VARIABLES
    position,  \* latitude, longitude
    course,    \* config.course
    speed,     \* current_speed: under way or not
    route,     \* config.route
    index,     \* route_index, from 0
    done       \* route_done

routeVars == <<position, course, speed, route, index, done>>

Waypoints == route.waypoints
Loop == route.loop

RouteTypeOK ==
    /\ position \in Positions /\ course \in Courses /\ speed \in BOOLEAN
    /\ route \in Routes /\ done \in BOOLEAN
    /\ index \in Nat /\ (Waypoints = <<>> \/ index < Len(Waypoints))

RouteInit ==
    /\ position = 0 /\ course = 1 /\ speed = FALSE
    /\ route = NoRoute /\ index = 0 /\ done = FALSE

-----------------------------------------------------------------------------
Distance(from, to) ==
    IF (to - from) % Around <= (from - to) % Around THEN (to - from) % Around ELSE (from - to) % Around
Bearing(from, to) == IF (to - from) % Around <= (from - to) % Around THEN 1 ELSE -1
Destination(from, bearing) == (from + bearing * Step) % Around

Waypoint(i) == Waypoints[i + 1]
Last == Len(Waypoints) - 1
Following(i) == (i + 1) % Len(Waypoints)

\* Waypoints ahead of the vessel, by how many turns of the loop reach them.
Ahead ==
    {k \in 0..Last : (Loop \/ index + k <= Last) /\ Waypoint((index + k) % Len(Waypoints)) # position}

\* (Changed form: one waypoint too many is skipped.)
TargetBeyond ==
    IF Loop THEN (index + Min(Ahead) + 1) % Len(Waypoints)
    ELSE IF index + Min(Ahead) < Last THEN index + Min(Ahead) + 1 ELSE Last

\* The first waypoint, from the current one on, where the vessel is not already.
Target == (index + Min(Ahead)) % Len(Waypoints)

\* All waypoints left are where the vessel is: the route ends, or goes round in place.
AtRest ==
    /\ Ahead = {}
    /\ IF Loop THEN index' = Following(index) /\ UNCHANGED done ELSE index' = Last /\ done' = TRUE
    /\ speed' = FALSE /\ UNCHANGED <<position, course>>

Arrive(at) ==
    /\ position' = Waypoint(at)
    /\ IF Loop \/ at < Last THEN index' = Following(at) /\ UNCHANGED done
       ELSE index' = at /\ done' = TRUE

Approach(at) ==
    /\ position' = Destination(position, Bearing(position, Waypoint(at)))
    /\ index' = at /\ UNCHANGED done

Follow ==
    /\ Ahead # {}
    /\ course' = Bearing(position, Waypoint(Target)) /\ speed' = TRUE
    /\ IF Distance(position, Waypoint(Target)) <= Step THEN Arrive(Target) ELSE Approach(Target)

Advance ==
    /\ \/ Waypoints # <<>> /\ ~done /\ (AtRest \/ Follow)
       \/ Waypoints # <<>> /\ done /\ speed' = FALSE /\ UNCHANGED <<position, course, index, done>>
       \/ /\ Waypoints = <<>>
          /\ position' = Destination(position, course) /\ speed' = TRUE
          /\ UNCHANGED <<course, index, done>>
    /\ UNCHANGED route

-----------------------------------------------------------------------------
SetPosition(p) ==
    /\ position' = p /\ index' = 0 /\ done' = FALSE
    /\ UNCHANGED <<course, speed, route>>

SetRoute(r) ==
    /\ route' = r /\ index' = 0 /\ done' = FALSE
    /\ UNCHANGED <<position, course, speed>>

SetCourse(c) == course' = c /\ UNCHANGED <<position, speed, route, index, done>>

\* The part of POST /api/start that sets the vessel off.
SetOff(p, c, r) ==
    /\ position' = p /\ course' = c /\ route' = r
    /\ speed' = FALSE /\ index' = 0 /\ done' = FALSE

-----------------------------------------------------------------------------
\* The waypoints a step turns away from.
Passed ==
    IF index <= index' THEN index..(index' - 1) ELSE {i \in 0..Last : i >= index \/ i < index'}

\* Of a step of the clock, not of the operator: the waypoints are taken in the
\* order chosen on the map (server.py:183), so the vessel turns only from
\* waypoints it is at and goes back to the first only on a loop; and a route
\* that has ended leaves it at rest at its last waypoint (README.md:15).
TakenInOrder ==
    /\ \A i \in Passed : Waypoint(i) \in {position, position'}
    /\ index' < index => Loop
    /\ done => UNCHANGED <<position, index, done>> /\ ~speed'
    /\ done' => position' = Waypoint(Last)
=============================================================================
