-------------------------------- MODULE Adsb --------------------------------
(***************************************************************************)
(* The ADS-B receiver (src/adsb/adsb/receiver.py, tracker.py) behind the   *)
(* transmit emulator.  It is one thread: it tracks the aircraft and, at    *)
(* most once in an interval, gives each of its outputs a sentence.  A TCP  *)
(* output that does not answer holds it up, over and over: it then reads   *)
(* no I/Q, and the frames that wait, also those already modulated, grow    *)
(* old.  The tracker counts a frame from when it hears it.                 *)
(***************************************************************************)
EXTENDS Sdrtx

CONSTANTS
    Protocols,   \* the outputs: a sequence of "tcp" and "udp"
    Refs,        \* what --ref may be: NoPosition or one place
    PairSeconds, \* 10 s in ticks
    Delay,       \* how late a frame may be heard for a pair to be right
    Interval,    \* bridge_interval, 1 s
    Retry,       \* 5 s, also the limit of a connection attempt
    LocalReach   \* places less than half a zone

ASSUME AdsbAssumption ==
    /\ Protocols \in Seq({"tcp", "udp"})
    /\ Refs \subseteq {NoPosition} \cup {{p} : p \in Places}
    /\ PairSeconds \in Nat /\ Delay \in Nat /\ Interval \in Nat \ {0} /\ Retry \in Nat /\ LocalReach \in Nat
    /\ 2 * (PairSeconds + Delay) < Unit /\ 2 * LocalReach < Zone(FALSE)

VARIABLES
    ref,     \* Tracker.ref
    ac,      \* Tracker.aircraft[icao]
    sent,    \* Receiver.sent[icao]
    out,     \* each Output, and whether it carried the last sentence (history)
    serving, \* the output send() is called for; 0: the receiver reads frames
    since,   \* when that call began, else 0
    heard    \* history: where and when the aircraft sent its last position that was
             \* heard, if that had a pair in time or a near reference that was right

source == <<now, flight, transmitter>>
vars == <<source, ref, ac, sent, out, serving, since, heard>>
radio == <<ref, ac, heard>>

Outputs == DOMAIN Protocols
NoFrame == [y |-> 0, at |-> -1, late |-> FALSE]
NothingHeard == [from |-> 0, at |-> -1]
NoAircraft == [seen |-> 0, even |-> NoFrame, odd |-> NoFrame, pos |-> NoPosition]

TypeOK ==
    /\ TransmitTypeOK /\ ref \in Refs
    /\ sent \in 0..now /\ since \in 0..now /\ ac.seen \in 0..now
    /\ out \in [Outputs -> [open : BOOLEAN, nextTry : 0..(MaxTime + Retry), got : BOOLEAN]]
    /\ serving \in {0} \cup Outputs
    /\ serving > 0 => sent = ac.seen /\ sent <= since /\ ac.pos # NoPosition

Init ==
    /\ TransmitInit /\ ref \in Refs
    /\ ac = NoAircraft /\ sent = 0
    /\ out = [i \in Outputs |-> [open |-> FALSE, nextTry |-> 0, got |-> FALSE]]
    /\ serving = 0 /\ since = 0 /\ heard = NothingHeard

-----------------------------------------------------------------------------
\* An output in its pause, which the sentence passes by.
Pausing(i) == ~out[i].open /\ since < out[i].nextTry

\* A TCP output may hold the receiver for Retry ticks, until it has connected
\* or taken the sentence.
MayWait ==
    serving > 0 => Protocols[serving] = "tcp" /\ ~Pausing(serving) /\ now < since + Retry

Transmit ==
    /\ (Fly /\ MayWait) \/ SendPosition \/ SendOther \/ Connect \/ Leave \/ Drain \/ Modulate
    /\ UNCHANGED <<radio, sent, out, serving, since>>

\* I/Q that noise damaged, or that a closed connection still held.
Lose ==
    /\ iq # <<>> /\ iq' = Tail(iq)
    /\ UNCHANGED <<now, flight, frames, client, leaving, radio, sent, out, serving, since>>

-----------------------------------------------------------------------------
\* (Changed form: frames of any age are paired.)
PairsAny(a) == a.even.at >= 0 /\ a.odd.at >= 0

Pairs(a) ==
    /\ a.even.at >= 0 /\ a.odd.at >= 0
    /\ a.even.at - a.odd.at \in (-PairSeconds)..PairSeconds

OfPair(a, isOdd) == IF Pairs(a) THEN cpr_global(a.even.y, a.odd.y, isOdd) ELSE NoPosition

\* The first of three ways that gives a position.
Position(a, isOdd, y) ==
    IF OfPair(a, isOdd) # NoPosition THEN OfPair(a, isOdd)
    ELSE {cpr_local(y, isOdd, near) : near \in IF a.pos # NoPosition THEN a.pos ELSE ref}

\* After any message, also one that says nothing of the position.
Bridge(a) ==
    IF a.pos = NoPosition \/ Protocols = <<>> \/ now - sent < Interval
    THEN UNCHANGED <<sent, serving, since, out>>
    ELSE /\ sent' = now /\ serving' = 1 /\ since' = now
         /\ out' = [i \in Outputs |-> [out[i] EXCEPT !.got = FALSE]]

Hear(a) ==
    /\ serving = 0 /\ iq' = Tail(iq)
    /\ ac' = a
    /\ Bridge(a)
    /\ UNCHANGED <<now, flight, frames, client, leaving, ref>>

\* The reference was right and the aircraft has not left its half of a zone.
NearReference(f) ==
    IF ac.pos # NoPosition THEN heard # NothingHeard /\ f.at - heard.at <= LocalReach
    ELSE \E d \in (-LocalReach)..LocalReach : ref = {(f.from + d) % Circle}

\* What the code takes for a pair was sent not long before it was heard.  A late
\* pair goes before a reference that was right.
Trustworthy(a, f) ==
    IF OfPair(a, f.odd) # NoPosition THEN ~a.even.late /\ ~a.odd.late ELSE NearReference(f)

HearPosition ==
    LET f == Head(iq)
        frame == [y |-> f.y, at |-> now, late |-> now - f.at > Delay]
        framed == IF f.odd THEN [ac EXCEPT !.odd = frame, !.seen = now]
                  ELSE [ac EXCEPT !.even = frame, !.seen = now]
        found == Position(framed, f.odd, f.y)
    IN  /\ iq # <<>> /\ f.kind = "airborne_position"
        /\ Hear(IF found = NoPosition THEN framed ELSE [framed EXCEPT !.pos = found])
        /\ heard' = IF Trustworthy(framed, f) THEN [from |-> f.from, at |-> f.at] ELSE NothingHeard

\* Velocity, identification, or a message of another kind.
HearOther ==
    /\ iq # <<>> /\ Head(iq).kind = "other"
    /\ Hear([ac EXCEPT !.seen = now])
    /\ UNCHANGED heard

-----------------------------------------------------------------------------
Then(i) == IF i = Len(Protocols) THEN 0 ELSE i + 1
\* The next output is served when this one is done.
Done(i) == serving' = Then(i) /\ since' = IF Then(i) = 0 THEN 0 ELSE now

Skip(i) ==
    /\ serving = i /\ Pausing(i)
    /\ Done(i)
    /\ UNCHANGED <<source, radio, sent, out>>

\* The socket takes the sentence; a TCP output connects first if it must.  While
\* it is open its next_try has no meaning.
Send(i) ==
    /\ serving = i /\ ~Pausing(i)
    /\ out' = [out EXCEPT ![i] = [@ EXCEPT !.open = TRUE, !.nextTry = 0, !.got = TRUE]]
    /\ Done(i)
    /\ UNCHANGED <<source, radio, sent>>

\* (Changed form: the outputs after the one that failed get nothing.)
FailAll(i) ==
    /\ serving = i /\ ~Pausing(i)
    /\ out' = [out EXCEPT ![i] = [@ EXCEPT !.open = FALSE, !.nextTry = since + Retry]]
    /\ serving' = 0 /\ since' = 0
    /\ UNCHANGED <<source, radio, sent>>

\* Refused, reset, or no answer.  The pause counts from the beginning of the
\* attempt: after one that got no answer for Retry there is none.
Fail(i) ==
    /\ serving = i /\ ~Pausing(i)
    /\ out' = [out EXCEPT ![i] = [@ EXCEPT !.open = FALSE, !.nextTry = since + Retry]]
    /\ Done(i)
    /\ UNCHANGED <<source, radio, sent>>

Next == Transmit \/ Lose \/ HearPosition \/ HearOther \/ \E i \in Outputs : Skip(i) \/ Send(i) \/ Fail(i)

Spec == Init /\ [][Next]_vars

-----------------------------------------------------------------------------
\* The tracked position is where the aircraft sent its last position that was
\* heard, whatever was lost before it, when the code paired that frame and the two
\* were heard at most Delay after they were sent, or when it took a near reference
\* that was itself right (tracker.py:35-45): neither an old frame of the other kind
\* nor the end of the scale brings a wrong zone, and after a wrong position the
\* next pair in time is right again.
PositionTrue == heard # NothingHeard => \E p \in ac.pos : p % Circle = heard.from /\ ac.pos = {p}

\* While the receiver reads, each output that is open has carried the last
\* sentence, whichever others failed (ADSB_DESIGN.md:205), and less than an interval
\* lies between that sentence and the last message of the aircraft.
OutputsKeepUp ==
    serving = 0 /\ ac.pos # NoPosition =>
        /\ Protocols # <<>> => ac.seen - sent < Interval
        /\ \A i \in Outputs : out[i].open => out[i].got
=============================================================================
