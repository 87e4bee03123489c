----------------------------- MODULE IQTransmit -----------------------------
(***************************************************************************)
(* The AIS modulator (src/sdr-tx/server.py): NMEA inputs fill a bounded    *)
(* packet queue, the handler of the one I/Q client takes packets, turns    *)
(* them into blocks of samples and sends a block every 10 ms; the          *)
(* management page starts and stops modulation and saves the signal        *)
(* settings.  All are threads; State.lock protects what they share, but    *)
(* the handler takes packets and sends blocks without it.                  *)
(*                                                                         *)
(* An action is what happens under one hold of the lock, or one call that  *)
(* another thread can overtake.  A packet is known by the session in which *)
(* its first sentence arrived: sessions end when modulation is stopped or  *)
(* started, or the client is gone.  Sample contents are left out: a block  *)
(* carries signal or does not.                                             *)
(***************************************************************************)
EXTENDS Naturals, Sequences, FiniteSets

CONSTANTS
    Clients,     \* connections to the I/Q port
    Sources,     \* senders of NMEA, each with an Assembler
    Cap,         \* size of the packet queue (256)
    Blocks,      \* blocks one packet fills
    MaxPackets,  \* bound: packets assembled
    MaxEpoch     \* bound: epoch at which users stop acting

None == "none"

ASSUME IQTransmitAssumption ==
    /\ None \notin Clients
    /\ Cap \in Nat \ {0} /\ Blocks \in Nat \ {0}
    /\ MaxPackets \in Nat /\ MaxEpoch \in Nat

VARIABLES
    enabled,    \* modulation was started
    epoch,      \* State.epoch
    session,    \* history: sessions begun
    queue,      \* packets waiting, as the sessions they belong to
    client,     \* State.client
    clientLock, \* who holds client_lock
    conn,       \* the handler of each connection
    part,       \* per source: epoch of its Assembler, first sentence it holds
    counts,     \* packets assembled, dropped and modulated
    config,     \* settings saved so far
    saving      \* POST /api/config between stop() and the assignment

shared == <<enabled, epoch, session, queue, client>>
web == <<config, saving>>
vars == <<shared, clientLock, conn, part, counts, web>>

NotConnected == [at |-> "idle", epoch |-> 0, on |-> FALSE, left |-> 0, since |-> 0, signal |-> FALSE]
Looping == {"loop", "take", "count", "check", "send"}

ConnState == [at : Looping \cup {"idle", "register", "cleanup", "release"}, epoch : Nat,
              on : BOOLEAN, left : 0..Blocks, since : Nat, signal : BOOLEAN]

TypeOK ==
    /\ enabled \in BOOLEAN /\ epoch \in Nat /\ session \in Nat \ {0}
    /\ queue \in Seq(Nat) /\ Len(queue) <= Cap
    /\ client \in Clients \cup {None} /\ clientLock \in Clients \cup {None}
    /\ conn \in [Clients -> ConnState]
    /\ part \in [Sources -> [epoch : Nat, since : Nat]]
    /\ counts \in [packets : Nat, dropped : Nat, modulated : Nat]
    /\ config \in Nat /\ saving \in BOOLEAN

\* epoch starts at 1 so that 0 is the epoch of an Assembler, or a handler,
\* that has not seen any (None and -1 in the code).
Init ==
    /\ enabled = FALSE /\ epoch = 1 /\ session = 1
    /\ queue = <<>> /\ client = None /\ clientLock = None
    /\ conn = [c \in Clients |-> NotConnected]
    /\ part = [s \in Sources |-> [epoch |-> 0, since |-> 0]]
    /\ counts = [packets |-> 0, dropped |-> 0, modulated |-> 0]
    /\ config = 0 /\ saving = FALSE

-----------------------------------------------------------------------------
(* State.ingest().  A source sends whole messages, or the first or the     *)
(* last of two sentences; an Assembler forgets what it holds when the      *)
(* epoch changed, and a first sentence after 10 s.                         *)

\* Mutant of Held: the Assembler is not reset when the epoch changes.
HeldAcross(s) == part[s].since

Held(s) == IF part[s].epoch = epoch THEN part[s].since ELSE 0

Accepts == enabled /\ client # None

Offer(since) ==
    IF Accepts /\ Len(queue) < Cap
    THEN /\ queue' = Append(queue, since)
         /\ counts' = [counts EXCEPT !.packets = @ + 1]
    ELSE /\ counts' = [counts EXCEPT !.packets = @ + 1, !.dropped = @ + 1]
         /\ UNCHANGED queue

Assembled(s, since) ==
    /\ counts.packets < MaxPackets
    /\ Offer(since)
    /\ part' = [part EXCEPT ![s] = [epoch |-> epoch, since |-> 0]]
    /\ UNCHANGED <<enabled, epoch, session, client, clientLock, conn, web>>

IngestSingle(s) ==
    /\ counts.packets < MaxPackets
    /\ Offer(session)
    /\ part' = [part EXCEPT ![s] = [epoch |-> epoch, since |-> Held(s)]]
    /\ UNCHANGED <<enabled, epoch, session, client, clientLock, conn, web>>

IngestFirst(s) ==
    /\ part' = [part EXCEPT ![s] = [epoch |-> epoch, since |-> session]]
    /\ UNCHANGED <<shared, clientLock, conn, counts, web>>

IngestLast(s) == Held(s) # 0 /\ Assembled(s, Held(s))

\* A bad sentence, or a last one that finds no first one or one too old.
IngestInvalid(s) ==
    /\ \E since \in {0, Held(s)} : part' = [part EXCEPT ![s] = [epoch |-> epoch, since |-> since]]
    /\ UNCHANGED <<shared, clientLock, conn, counts, web>>

-----------------------------------------------------------------------------
(* The management page.                                                    *)

\* clear() pops packet by packet; a packet the handler takes meanwhile counts
\* as taken before.
Cleared == counts' = [counts EXCEPT !.dropped = @ + Len(queue)] /\ queue' = <<>>
NewSession == epoch' = epoch + 1 /\ session' = session + 1

\* Mutant of Start: the epoch stays.
StartSameEpoch ==
    /\ epoch < MaxEpoch
    /\ enabled' = TRUE /\ session' = session + 1 /\ Cleared
    /\ UNCHANGED <<epoch, client, clientLock, conn, part, web>>

Start ==
    /\ epoch < MaxEpoch
    /\ enabled' = TRUE /\ NewSession /\ Cleared
    /\ UNCHANGED <<client, clientLock, conn, part, web>>

Stopped == enabled' = FALSE /\ NewSession /\ Cleared

Stop ==
    /\ epoch < MaxEpoch
    /\ Stopped
    /\ UNCHANGED <<client, clientLock, conn, part, web>>

\* POST /api/config: state.stop(), and the lock again for the assignment.
SaveStop ==
    /\ epoch < MaxEpoch /\ ~saving /\ config = 0
    /\ Stopped
    /\ saving' = TRUE
    /\ UNCHANGED <<client, clientLock, conn, part, config>>

SaveAssign ==
    /\ saving
    /\ config' = config + 1 /\ saving' = FALSE
    /\ UNCHANGED <<shared, clientLock, conn, part, counts>>

-----------------------------------------------------------------------------
(* IQOutput.handle().  A second connection is refused at once.             *)

Goto(c, pc) == conn' = [conn EXCEPT ![c].at = pc]

Connect(c) ==
    /\ conn[c].at = "idle" /\ clientLock = None /\ epoch < MaxEpoch
    /\ clientLock' = c
    /\ Goto(c, "register")
    /\ UNCHANGED <<shared, part, counts, web>>

Register(c) ==
    /\ conn[c].at = "register"
    /\ client' = c /\ Cleared
    /\ Goto(c, "loop")
    /\ UNCHANGED <<enabled, epoch, session, clientLock, part, web>>

\* The thread that reads commands: a new sample rate, between any two steps.
Tune(c) ==
    /\ conn[c].at \in Looping \cup {"cleanup"} /\ epoch < MaxEpoch
    /\ epoch' = epoch + 1
    /\ UNCHANGED <<enabled, session, queue, client, clientLock, conn, part, counts, web>>

Snapshot(c) ==
    /\ conn[c].at = "loop"
    /\ conn' = [conn EXCEPT ![c].at = "take", ![c].epoch = epoch, ![c].on = enabled,
                            ![c].left = IF conn[c].epoch = epoch THEN @ ELSE 0]
    /\ UNCHANGED <<shared, clientLock, part, counts, web>>

\* A packet that waited more than 10 s fills no block.
Take(c) ==
    /\ conn[c].at = "take"
    /\ IF conn[c].left = 0 /\ conn[c].on /\ queue # <<>>
       THEN /\ queue' = Tail(queue)
            /\ \E n \in {0, Blocks} :
                conn' = [conn EXCEPT ![c].at = "count", ![c].left = n, ![c].since = Head(queue)]
       ELSE Goto(c, "check") /\ UNCHANGED queue
    /\ UNCHANGED <<enabled, epoch, session, client, clientLock, part, counts, web>>

\* Mutant of Count: a packet that is too old is not counted.
CountModulated(c) ==
    /\ conn[c].at = "count"
    /\ counts' = [counts EXCEPT !.modulated = IF conn[c].left = 0 THEN @ ELSE @ + 1]
    /\ Goto(c, "check")
    /\ UNCHANGED <<shared, clientLock, part, web>>

Count(c) ==
    /\ conn[c].at = "count"
    /\ counts' = IF conn[c].left = 0 THEN [counts EXCEPT !.dropped = @ + 1]
                 ELSE [counts EXCEPT !.modulated = @ + 1]
    /\ Goto(c, "check")
    /\ UNCHANGED <<shared, clientLock, part, web>>

\* Mutant of Check: the block that was sent is not taken off the packet.
CheckSameBlock(c) ==
    /\ conn[c].at = "check"
    /\ conn' = [conn EXCEPT ![c].at = "send",
                            ![c].signal = conn[c].left > 0 /\ conn[c].epoch = epoch]
    /\ UNCHANGED <<shared, clientLock, part, counts, web>>

Check(c) ==
    /\ conn[c].at = "check"
    /\ conn' = [conn EXCEPT ![c].at = "send",
                            ![c].signal = conn[c].left > 0 /\ conn[c].epoch = epoch,
                            ![c].left = IF @ = 0 THEN 0 ELSE @ - 1]
    /\ UNCHANGED <<shared, clientLock, part, counts, web>>

Send(c) ==
    /\ conn[c].at = "send"
    /\ conn' = [conn EXCEPT ![c].at = "loop", ![c].signal = FALSE]
    /\ UNCHANGED <<shared, clientLock, part, counts, web>>

\* The peer closed, sent a bad command, or is too slow.
Leave(c) ==
    /\ conn[c].at \in {"loop", "send"}
    /\ conn' = [conn EXCEPT ![c].at = "cleanup", ![c].signal = FALSE]
    /\ UNCHANGED <<shared, clientLock, part, counts, web>>

\* Mutant of Cleanup: the queue is left to the next client.
CleanupKeepingQueue(c) ==
    /\ conn[c].at = "cleanup"
    /\ client' = None /\ NewSession
    /\ Goto(c, "release")
    /\ UNCHANGED <<enabled, queue, clientLock, part, counts, web>>

Cleanup(c) ==
    /\ conn[c].at = "cleanup"
    /\ client' = None /\ Cleared /\ NewSession
    /\ Goto(c, "release")
    /\ UNCHANGED <<enabled, clientLock, part, web>>

ReleaseClient(c) ==
    /\ conn[c].at = "release"
    /\ clientLock' = None
    /\ conn' = [conn EXCEPT ![c] = NotConnected]
    /\ UNCHANGED <<shared, part, counts, web>>

Handle(c) == Register(c) \/ Snapshot(c) \/ Take(c) \/ Count(c) \/ Check(c) \/ Send(c)
             \/ Cleanup(c) \/ ReleaseClient(c)

Next ==
    \/ \E s \in Sources : IngestSingle(s) \/ IngestFirst(s) \/ IngestLast(s) \/ IngestInvalid(s)
    \/ Start \/ Stop \/ SaveStop \/ SaveAssign
    \/ \E c \in Clients : Connect(c) \/ Handle(c) \/ Tune(c) \/ Leave(c)

Spec == Init /\ [][Next]_vars

\* Threads run and every socket call has a timeout; nobody must send,
\* connect, leave or press a button.
FairSpec == Spec /\ \A c \in Clients : WF_vars(Handle(c))
-----------------------------------------------------------------------------
(***************************************************************************)
(* Properties                                                              *)
(***************************************************************************)

\* What waits in the queue belongs to the running session: a client is
\* there, modulation is on, and the message began after the last start, stop
\* or disconnection (queue, fragments, client and epoch of five threads).
QueueIsCurrent ==
    /\ queue # <<>> => enabled /\ client # None
    /\ \A i \in DOMAIN queue : queue[i] = session

\* Signal of an ended session is never made ready for sending, whatever the
\* handler had read, taken or computed when the session ended.  (A block
\* that was checked just before the end may still go out: Send.)
NoResend ==
    [][\A c \in Clients : conn'[c].signal /\ ~conn[c].signal => conn[c].since = session]_vars

\* Every assembled packet is accounted for: dropped, modulated, waiting, or
\* in the hand of the handler that is about to count it.
Accounted ==
    counts.packets = counts.dropped + counts.modulated + Len(queue)
                     + Cardinality({c \in Clients : conn[c].at = "count"})

\* What is queued leaves the queue, be it because the client takes it, goes
\* away or modulation stops.
QueueDrains == queue # <<>> ~> queue = <<>>

\* How far the handler is from taking a packet: the passes of its loop that
\* still send what it has in hand, or began while modulation was off, and an
\* upper bound of its steps.
Passes(c) ==
    IF conn[c].at \in {"count", "check"} /\ conn[c].left > 0 THEN conn[c].left - 1
    ELSE IF conn[c].at = "take" /\ conn[c].left = 0 /\ ~conn[c].on THEN 1
    ELSE conn[c].left
StepsOfPass == [take |-> 1, loop |-> 2, send |-> 3, check |-> 4, count |-> 5, cleanup |-> 0]
Due(c) == StepsOfPass[conn[c].at] + 4 * Passes(c)

\* The packet at the head of the queue is the next to leave it, and always
\* comes nearer to that: each step of the handler, which is in its loop or on
\* its way out of it, takes the packet or is one less, and nothing else that
\* happens delays or overtakes it (server.py:100-128).
HeadIsServed ==
    /\ [](queue # <<>> => client # None /\ conn[client].at \in Looping \cup {"cleanup"})
    /\ [][queue # <<>> =>
            \/ queue' = <<>>
            \/ Handle(client) /\ queue' = Tail(queue)
            \/ /\ queue' \in {queue, Append(queue, session)} /\ client' = client
               /\ Due(client)' <= Due(client)
               /\ Handle(client) => Due(client)' < Due(client)]_vars
=============================================================================
