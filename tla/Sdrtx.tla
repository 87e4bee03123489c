-------------------------------- MODULE Sdrtx --------------------------------
(***************************************************************************)
(* One simulated aircraft (src/adsb/adsb/simulator.py) and the transmit    *)
(* emulator that queues its frames and modulates them for one I/Q client   *)
(* (src/adsb/adsb/sdrtx.py).  The aircraft flies on, at most one place in  *)
(* a tick, and alternates even and odd positions.  The age of a frame is   *)
(* looked at when it is modulated; how long its I/Q is on the way after    *)
(* that, in the sockets' buffers and in the receiver's last chunk, is not  *)
(* bounded.                                                                *)
(***************************************************************************)
EXTENDS Cpr, Sequences

CONSTANTS
    Begin,    \* places where the flight may begin
    MaxAge,   \* 2 s in ticks
    MaxQueue, \* 4096
    MaxIq,    \* frames whose I/Q is on the way, until sendall() blocks
    MaxTime   \* bound on the clock

ASSUME SdrtxAssumption ==
    Begin \subseteq Places /\ MaxAge \in Nat /\ MaxQueue \in Nat \ {0}
    /\ MaxIq \in Nat \ {0} /\ MaxTime \in Nat

VARIABLES
    now,     \* time.monotonic()
    place,   \* Aircraft.lat, lon
    track,   \* Aircraft.track_deg
    odd,     \* Aircraft.odd
    frames,  \* Transmitter.frames, with where each was sent
    client,  \* Transmitter.client is set
    leaving, \* the handler of a client that left empties the queue
    iq       \* frames modulated and not yet handled by the receiver

flight == <<place, track, odd>>
transmitter == <<frames, client, leaving, iq>>

Times == 0..MaxTime
Frame == [kind : {"airborne_position", "other"}, odd : BOOLEAN, y : Places, at : Times, from : Places]

TransmitTypeOK ==
    /\ now \in Times /\ place \in Places /\ track \in {-1, 1} /\ odd \in BOOLEAN
    /\ frames \in Seq(Frame) /\ Len(frames) <= MaxQueue
    /\ iq \in Seq(Frame) /\ Len(iq) <= MaxIq
    /\ client \in BOOLEAN /\ leaving \in BOOLEAN

TransmitInit ==
    /\ now = 0 /\ place \in Begin /\ track \in {-1, 1} /\ odd = FALSE
    /\ frames = <<>> /\ iq = <<>> /\ client = FALSE /\ leaving = FALSE

\* The clock, and the aircraft with it.
Fly ==
    /\ now < MaxTime /\ now' = now + 1
    /\ \E d \in {0, track} : place' = (place + d) % Circle
    /\ UNCHANGED <<track, odd, transmitter>>

\* Dropped when nobody listens and when the queue is full.
Ingest(f) ==
    /\ frames' = IF client /\ Len(frames) < MaxQueue THEN Append(frames, f) ELSE frames
    /\ UNCHANGED <<client, leaving, iq, now, place, track>>

SendPosition ==
    /\ Ingest([kind |-> "airborne_position", odd |-> odd, y |-> cpr_encode(place, odd),
               at |-> now, from |-> place])
    /\ odd' = ~odd

\* Velocity and identification.
SendOther ==
    /\ Ingest([kind |-> "other", odd |-> FALSE, y |-> 0, at |-> now, from |-> 0])
    /\ UNCHANGED odd

Connect ==
    /\ ~client /\ client' = TRUE
    /\ UNCHANGED <<now, flight, frames, leaving, iq>>

\* Another client may connect before the queue is empty: its first frames are lost.
Leave ==
    /\ client /\ client' = FALSE /\ leaving' = TRUE
    /\ UNCHANGED <<now, flight, frames, iq>>

Drain ==
    /\ leaving
    /\ IF frames = <<>> THEN leaving' = FALSE /\ UNCHANGED frames
       ELSE frames' = Tail(frames) /\ UNCHANGED leaving
    /\ UNCHANGED <<now, flight, client, iq>>

Stale(f) == now - f.at > MaxAge

\* block() takes the oldest frame and drops it when it is too old.
Modulate ==
    /\ client /\ frames # <<>> /\ Len(iq) < MaxIq
    /\ frames' = Tail(frames)
    /\ iq' = IF Stale(Head(frames)) THEN iq ELSE Append(iq, Head(frames))
    /\ UNCHANGED <<client, leaving, now, flight>>
=============================================================================
