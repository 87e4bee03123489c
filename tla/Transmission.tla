---------------------------- MODULE Transmission ----------------------------
(***************************************************************************)
(* What the emulator promises about where its data goes: every connection  *)
(* is opened to the destination in use, each owner has one at a time, and  *)
(* the destination changes only between connections, to the one that was   *)
(* saved.  A connection may be let go before its data has been sent; the   *)
(* data goes where the connection led, and nothing is added to it.         *)
(* Emulator.tla implements this module.                                    *)
(***************************************************************************)
CONSTANTS
    Owners,       \* what may have a connection
    Destinations, \* where it may lead
    Default,      \* the one of them in use at first
    NoLink        \* no connection

VARIABLES
    target, \* the destination in use
    saved,  \* the destination a restart would read
    links,  \* where the connection of each owner leads, NoLink: there is none
    trailing \* where data of connections that were let go still goes

AllClosed == [o \in Owners |-> NoLink]

Init == target = Default /\ saved = Default /\ links = AllClosed /\ trailing = {}

Open(o) ==
    /\ links[o] = NoLink
    /\ links' = [links EXCEPT ![o] = target]
    /\ UNCHANGED <<target, saved, trailing>>

Close(o) ==
    /\ links' = [links EXCEPT ![o] = NoLink]
    /\ UNCHANGED <<target, saved, trailing>>

LetGo(o) ==
    /\ links[o] # NoLink
    /\ links' = [links EXCEPT ![o] = NoLink]
    /\ trailing' = trailing \cup {links[o]}
    /\ UNCHANGED <<target, saved>>

Follow(d) ==
    /\ d \in trailing /\ trailing' = trailing \ {d}
    /\ UNCHANGED <<target, saved, links>>

Save(new) ==
    /\ saved' = new
    /\ UNCHANGED <<target, links, trailing>>

Redirect ==
    /\ links = AllClosed
    /\ target' = saved
    /\ UNCHANGED <<saved, links, trailing>>

Restart ==
    /\ links' = AllClosed /\ target' = saved /\ trailing' = {}
    /\ UNCHANGED saved

Next ==
    \/ \E o \in Owners : Open(o) \/ Close(o) \/ LetGo(o)
    \/ \E d \in Destinations : Follow(d)
    \/ \E new \in Destinations : Save(new)
    \/ Redirect \/ Restart

vars == <<target, saved, links, trailing>>

Spec == Init /\ [][Next]_vars
=============================================================================
