---------------------------- MODULE Destination ----------------------------
(***************************************************************************)
(* The NMEA router of the SDR receiver (src/sdr/core.py).  Router.ingest() *)
(* offers every checked sentence to each Destination under router.lock; a  *)
(* Destination is a queue and a thread that connects, sends and reconnects *)
(* on its own; Router.configure() replaces all of them under the same      *)
(* lock.  The offering thread and the sending thread share a queue and a   *)
(* flag without a lock, so an offer is two steps and clear() takes one     *)
(* sentence per step.                                                      *)
(*                                                                         *)
(* Times are abstracted: Age is the passing of the two seconds after which *)
(* a queued sentence is stale.  Two facts about the clock are assumed: an  *)
(* offer does not take the second that a thread pauses before it connects  *)
(* again (Resume), and a thread waiting for or sending a sentence leaves   *)
(* that within the four seconds of join() (get() waits .2 s, a send 2 s at *)
(* most), while resolving and connecting may take longer (Joined).         *)
(***************************************************************************)
EXTENDS Naturals, Sequences, FiniteSets

CONSTANTS
    Outs,        \* Destination objects that may come to exist
    Capacity,    \* of a queue (512)
    MaxSentences \* bound: sentences received

None == "none"

ASSUME DestinationAssumption ==
    None \notin Outs /\ Capacity \in Nat \ {0} /\ MaxSentences \in Nat

VARIABLES
    outputs,   \* Router.outputs
    phase,     \* where the thread of each Destination is
    connected, \* its flag, read by offer()
    stop,      \* its stop event
    queue,     \* its queue
    hand,      \* the sentence its thread is sending
    count,     \* its counters sent and dropped and, as history, offered
    received,  \* Router.received
    offering,  \* Router.ingest: outputs still to be offered, and the one found connected
    cfg        \* Router.configure: Destinations still to be closed, and the one joined

thread == <<phase, connected, hand>>
router == <<outputs, stop, received, offering, cfg>>
destinationVars == <<thread, queue, count, router>>

IngestIdle == [busy |-> FALSE, todo |-> {}, at |-> None]
CfgIdle == [busy |-> FALSE, todo |-> {}, on |-> None]
RouterFree == ~offering.busy /\ ~cfg.busy   \* router.lock

Phases == {"unborn", "connecting", "clear", "top", "get", "sending", "lost", "purge", "pause", "ended"}

\* A queued sentence: younger than two seconds, and (history) put in the
\* queue while the connection that is there now was up.
Item == [fresh : BOOLEAN, current : BOOLEAN]

DestinationTypeOK ==
    /\ outputs \subseteq Outs
    /\ phase \in [Outs -> Phases]
    /\ connected \in [Outs -> BOOLEAN] /\ stop \in [Outs -> BOOLEAN]
    /\ queue \in [Outs -> Seq(Item)] /\ \A o \in Outs : Len(queue[o]) <= Capacity
    /\ hand \in [Outs -> Seq(Item)] /\ \A o \in Outs : Len(hand[o]) <= 1
    /\ count \in [Outs -> [sent : Nat, dropped : Nat, offered : Nat]]
    /\ received \in Nat
    /\ offering \in [busy : BOOLEAN, todo : SUBSET Outs, at : Outs \cup {None}]
    /\ cfg \in [busy : BOOLEAN, todo : SUBSET Outs, on : Outs \cup {None}]

\* configure() of the saved settings has made the outputs.
DestinationInit ==
    /\ outputs \in SUBSET Outs
    /\ phase = [o \in Outs |-> IF o \in outputs THEN "connecting" ELSE "unborn"]
    /\ connected = [o \in Outs |-> FALSE] /\ stop = [o \in Outs |-> FALSE]
    /\ queue = [o \in Outs |-> <<>>] /\ hand = [o \in Outs |-> <<>>]
    /\ count = [o \in Outs |-> [sent |-> 0, dropped |-> 0, offered |-> 0]]
    /\ received = 0 /\ offering = IngestIdle /\ cfg = CfgIdle

-----------------------------------------------------------------------------
\* Router.ingest, one sentence; the lock is held until every output was offered it.

\* What may arrive on UDP 10112, by what sentence() looks at.
Raw == [aivdm : BOOLEAN, checksum : BOOLEAN, number : 1..2, total : 1..2]
Sentence(raw) == raw.aivdm /\ raw.checksum /\ raw.number <= raw.total

Ingest(raw) ==
    /\ RouterFree /\ received < MaxSentences /\ Sentence(raw)
    /\ received' = received + 1
    /\ offering' = [busy |-> TRUE, todo |-> outputs, at |-> None]
    /\ UNCHANGED <<thread, queue, count, outputs, stop, cfg>>

Counted(o, field) == [count EXCEPT ![o][field] = @ + 1]
Refused(o) == [count EXCEPT ![o].dropped = @ + 1, ![o].offered = @ + 1]

OfferDisconnected(o) ==
    /\ offering.at = None /\ o \in offering.todo
    /\ ~connected[o]
    /\ count' = Refused(o)
    /\ offering' = [offering EXCEPT !.todo = @ \ {o}]
    /\ UNCHANGED <<thread, queue, outputs, stop, received, cfg>>

OfferCheck(o) ==
    /\ offering.at = None /\ o \in offering.todo
    /\ connected[o]
    /\ offering' = [offering EXCEPT !.todo = @ \ {o}, !.at = o]
    /\ UNCHANGED <<thread, queue, count, outputs, stop, received, cfg>>

OfferPut(o) ==
    /\ offering.at = o
    /\ IF Len(queue[o]) < Capacity
       THEN /\ queue' = [queue EXCEPT ![o] = Append(@, [fresh |-> TRUE, current |-> TRUE])]
            /\ count' = Counted(o, "offered")
       ELSE count' = Refused(o) /\ UNCHANGED queue
    /\ offering' = [offering EXCEPT !.at = None]
    /\ UNCHANGED <<thread, outputs, stop, received, cfg>>

IngestDone ==
    /\ offering.busy /\ offering.todo = {} /\ offering.at = None
    /\ offering' = IngestIdle
    /\ UNCHANGED <<thread, queue, count, outputs, stop, received, cfg>>

-----------------------------------------------------------------------------
\* Destination.run

Go(o, to) == phase' = [phase EXCEPT ![o] = to]
Taken(o) == queue' = [queue EXCEPT ![o] = Tail(@)]

\* (Changed form: what the queue holds is not cleared before connecting.)
ConnectKeeping(o) ==
    /\ phase[o] = "connecting"
    /\ Go(o, "top") /\ connected' = [connected EXCEPT ![o] = TRUE]
    /\ queue' = [queue EXCEPT ![o] = [i \in DOMAIN @ |-> [@[i] EXCEPT !.current = FALSE]]]
    /\ UNCHANGED <<hand, count, router>>

Connect(o) ==
    /\ phase[o] = "connecting"
    /\ Go(o, "clear")
    /\ queue' = [queue EXCEPT ![o] = [i \in DOMAIN @ |-> [@[i] EXCEPT !.current = FALSE]]]
    /\ UNCHANGED <<connected, hand, count, router>>

ConnectFails(o) ==
    /\ phase[o] = "connecting"
    /\ Go(o, "lost")
    /\ UNCHANGED <<connected, hand, queue, count, router>>

\* (Changed form: cleared sentences are not counted.)
ClearUncounted(o) ==
    /\ phase[o] \in {"clear", "purge"} /\ queue[o] # <<>>
    /\ Taken(o)
    /\ UNCHANGED <<thread, count, router>>

\* clear(): one sentence taken and counted.
ClearOne(o) ==
    /\ phase[o] \in {"clear", "purge"} /\ queue[o] # <<>>
    /\ Taken(o) /\ count' = Counted(o, "dropped")
    /\ UNCHANGED <<thread, router>>

\* clear() found the queue empty; connected = True.
Cleared(o) ==
    /\ phase[o] = "clear" /\ queue[o] = <<>>
    /\ connected' = [connected EXCEPT ![o] = TRUE]
    /\ Go(o, "top")
    /\ UNCHANGED <<hand, queue, count, router>>

Loop(o) ==
    /\ phase[o] = "top"
    /\ Go(o, IF stop[o] THEN "lost" ELSE "get")
    /\ UNCHANGED <<connected, hand, queue, count, router>>

GetStale(o) ==
    /\ phase[o] = "get" /\ queue[o] # <<>> /\ ~Head(queue[o]).fresh
    /\ Taken(o) /\ count' = Counted(o, "dropped")
    /\ Go(o, "top")
    /\ UNCHANGED <<connected, hand, router>>

Get(o) ==
    /\ phase[o] = "get" /\ queue[o] # <<>> /\ Head(queue[o]).fresh
    /\ Taken(o) /\ hand' = [hand EXCEPT ![o] = <<Head(queue[o])>>]
    /\ Go(o, "sending")
    /\ UNCHANGED <<connected, count, router>>

GetEmpty(o) ==
    /\ phase[o] = "get" /\ queue[o] = <<>>
    /\ \/ Go(o, "top")
       \/ Go(o, "lost")   \* the peer closed the TCP connection
    /\ UNCHANGED <<connected, hand, queue, count, router>>

Sent(o) ==
    /\ phase[o] = "sending"
    /\ \/ Go(o, "top") /\ count' = Counted(o, "sent")
       \/ Go(o, "lost") /\ count' = Counted(o, "dropped")
    /\ hand' = [hand EXCEPT ![o] = <<>>]
    /\ UNCHANGED <<connected, queue, router>>

\* finally: connected = False, clear(), close.
Lost(o) ==
    /\ phase[o] = "lost"
    /\ connected' = [connected EXCEPT ![o] = FALSE]
    /\ Go(o, "purge")
    /\ UNCHANGED <<hand, queue, count, router>>

Purged(o) ==
    /\ phase[o] = "purge" /\ queue[o] = <<>>
    /\ Go(o, "pause")
    /\ UNCHANGED <<connected, hand, queue, count, router>>

Resume(o) ==
    /\ phase[o] = "pause"
    /\ \/ stop[o] /\ Go(o, "ended")
       \/ ~stop[o] /\ offering.at # o /\ Go(o, "connecting")
    /\ UNCHANGED <<connected, hand, queue, count, router>>

\* Two seconds pass.
Age ==
    /\ \E o \in Outs : \E i \in DOMAIN queue[o] : queue[o][i].fresh
    /\ queue' = [o \in Outs |-> [i \in DOMAIN queue[o] |-> [queue[o][i] EXCEPT !.fresh = FALSE]]]
    /\ UNCHANGED <<thread, count, router>>

-----------------------------------------------------------------------------
\* Router.configure

\* atomic_json() has replaced the file; had it failed, nothing would have changed.
Configure ==
    /\ RouterFree
    /\ cfg' = [busy |-> TRUE, todo |-> outputs, on |-> None]
    /\ UNCHANGED <<thread, queue, count, outputs, stop, received, offering>>

Close(o) ==
    /\ cfg.on = None /\ o \in cfg.todo
    /\ stop' = [stop EXCEPT ![o] = TRUE]
    /\ cfg' = [cfg EXCEPT !.todo = @ \ {o}, !.on = o]
    /\ UNCHANGED <<thread, queue, count, outputs, received, offering>>

\* (Changed form: the thread is not waited for.)
JoinSkipped(o) == TRUE

JoinReturns(o) == phase[o] \notin {"get", "sending"}

Joined(o) ==
    /\ cfg.on = o /\ JoinReturns(o)
    /\ cfg' = [cfg EXCEPT !.on = None]
    /\ UNCHANGED <<thread, queue, count, outputs, stop, received, offering>>

Replace(new) ==
    /\ cfg.busy /\ cfg.todo = {} /\ cfg.on = None
    /\ \A o \in new : phase[o] = "unborn"
    /\ outputs' = new
    /\ phase' = [o \in Outs |-> IF o \in new THEN "connecting" ELSE phase[o]]
    /\ cfg' = CfgIdle
    /\ UNCHANGED <<connected, hand, queue, count, stop, received, offering>>

Step(o) ==
    \/ Connect(o) \/ ConnectFails(o) \/ ClearOne(o) \/ Cleared(o) \/ Loop(o) \/ GetStale(o)
    \/ Get(o) \/ GetEmpty(o) \/ Sent(o) \/ Lost(o) \/ Purged(o) \/ Resume(o)

Offer(o) == OfferDisconnected(o) \/ OfferCheck(o) \/ OfferPut(o)

-----------------------------------------------------------------------------
\* Every sentence offered to a destination is, exactly once, counted as sent
\* or dropped, or is still queued or in the hands of the thread - through
\* full queues, stale sentences, broken connections and the race between an
\* offer and the loss of the connection (core.py:109-177).
OfferedAccounted ==
    \A o \in Outs :
        count[o].offered = count[o].sent + count[o].dropped + Len(queue[o]) + Len(hand[o])

\* "Anything queued during a disconnect is discarded" (core.py:96): no
\* sentence is sent over a connection that was made after it was queued.
NoCarryOver == \A o \in Outs : \A i \in DOMAIN hand[o] : hand[o][i].current

\* Once configure() has gone past the join of a destination, that one never
\* sends again, even when its thread outlived the join because it was still
\* connecting (core.py:180-182, 214-216).
ReplacedAreSilent ==
    \A o \in Outs : stop[o] /\ cfg.on # o => phase[o] \notin {"get", "sending"} /\ hand[o] = <<>>
=============================================================================
