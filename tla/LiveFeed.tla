------------------------------ MODULE LiveFeed ------------------------------
(***************************************************************************)
(* The live feed of the web application: Runtime.publish() and the reset   *)
(* broadcast of delete_data() (src/app/main.py) put messages in a bounded  *)
(* queue per WebSocket client; ws() sends them; the page (static/app.js)   *)
(* merges them, and the history it fetches over REST, into the newest Keep *)
(* rows it shows.  One browser, seen from the server and from the page.    *)
(*                                                                         *)
(* Rows are stored one at a time; hello and heartbeat messages, alerts,    *)
(* logout and what the page draws are left out.  received_at grows with    *)
(* the id, so a purge removes the lowest ids.  The browser is not the one  *)
(* that asked for the deletion.                                            *)
(***************************************************************************)
EXTENDS Naturals, Sequences, FiniteSets

CONSTANTS
    Writers,     \* coroutines that store and publish: consume(), imports
    Requests,    \* bound: GET /api/events a page has outstanding
    Cap,         \* maxsize of a client's queue (32)
    Keep,        \* rows the page keeps, and asks for (500)
    MaxBorn,     \* bound: rows ever stored
    IdsReused    \* SQLite gives max(id) + 1, PostgreSQL never an id twice

ASSUME LiveFeedAssumption ==
    /\ Cap \in Nat \ {0} /\ Keep \in Nat \ {0} /\ MaxBorn \in Nat
    /\ IsFiniteSet(Writers) /\ IsFiniteSet(Requests) /\ IdsReused \in BOOLEAN

VARIABLES
    events,   \* rows of the events table
    born,     \* rows ever stored
    pending,  \* per writer: the rows it committed and has not published yet
    clearing, \* store.clear() committed, the reset is not broadcast yet
    conn,     \* "closed", "accepted" by ws(), or "open" for the page too
    q,        \* the client's queue in ws()
    wire,     \* the message being sent
    fetch,    \* per request: nothing, "asked", or the rows the server read
    failed,   \* a request failed since the page last opened a connection
    shown     \* rows of the page

server == <<events, born, pending, clearing>>
page == <<fetch, failed, shown>>
vars == <<server, conn, q, wire, page>>

Row == [id : 1..MaxBorn, no : 1..MaxBorn]
Message == [type : {"events"}, rows : SUBSET Row] \cup [type : {"gap", "reset"}]
FetchState == [at : {"idle", "asked"}] \cup [at : {"read"}, rows : SUBSET Row]

Gap == [type |-> "gap"]
Reset == [type |-> "reset"]
Idle == [at |-> "idle"]
Asked == [at |-> "asked"]

TypeOK ==
    /\ events \subseteq Row
    /\ born \in 0..MaxBorn
    /\ pending \in [Writers -> SUBSET Row]
    /\ clearing \in BOOLEAN
    /\ conn \in {"closed", "accepted", "open"}
    /\ q \in Seq(Message) /\ Len(q) <= Cap
    /\ wire \in Seq(Message) /\ Len(wire) <= 1
    /\ fetch \in [Requests -> FetchState]
    /\ failed \in BOOLEAN
    /\ shown \subseteq Row /\ Cardinality(shown) <= Keep

Init ==
    /\ events = {} /\ born = 0
    /\ pending = [w \in Writers |-> {}]
    /\ clearing = FALSE
    /\ conn = "closed" /\ q = <<>> /\ wire = <<>>
    /\ fetch = [f \in Requests |-> Idle]
    /\ failed = FALSE
    /\ shown = {}

-----------------------------------------------------------------------------
(* Server: a writer commits in a thread; the coroutine publishes when it   *)
(* is scheduled again.                                                     *)

Ids == {r.id : r \in events}
MaxId == CHOOSE n \in Ids \cup {0} : \A i \in Ids : i <= n
NextId == (IF IdsReused THEN MaxId ELSE born) + 1

Newest(rows) == {r \in rows : Cardinality({s \in rows : s.id > r.id}) < Keep}

Store(w) ==
    /\ pending[w] = {} /\ ~clearing /\ born < MaxBorn
    /\ born' = born + 1
    /\ LET row == [id |-> NextId, no |-> born + 1] IN
        /\ events' = events \cup {row}
        /\ pending' = [pending EXCEPT ![w] = {row}]
    /\ UNCHANGED <<clearing, conn, q, wire, page>>

\* Mutant of Publish: a full queue just refuses the message.
PublishIfRoom(w) ==
    /\ pending[w] # {}
    /\ pending' = [pending EXCEPT ![w] = {}]
    /\ q' = IF conn = "closed" \/ Len(q) = Cap THEN q
            ELSE Append(q, [type |-> "events", rows |-> pending[w]])
    /\ UNCHANGED <<events, born, clearing, conn, wire, page>>

Publish(w) ==
    /\ pending[w] # {}
    /\ pending' = [pending EXCEPT ![w] = {}]
    /\ q' = IF conn = "closed" THEN q
            ELSE IF Len(q) = Cap THEN Append(Tail(q), Gap)
            ELSE Append(q, [type |-> "events", rows |-> pending[w]])
    /\ UNCHANGED <<events, born, clearing, conn, wire, page>>

\* Rows not yet published are minutes younger than the shortest period.
Purge ==
    /\ ~clearing
    /\ \E oldest \in events :
        /\ events' = {r \in events : r.id > oldest.id}
        /\ \A w \in Writers : pending[w] \subseteq events'
    /\ UNCHANGED <<born, pending, clearing, conn, q, wire, page>>

\* delete_data() gets here only when no writer is between commit and
\* publication (Runtime: ResetExclusive, CountStillTrue).
Clear ==
    /\ ~clearing /\ events # {}
    /\ \A w \in Writers : pending[w] = {}
    /\ events' = {} /\ clearing' = TRUE
    /\ UNCHANGED <<born, pending, conn, q, wire, page>>

BroadcastReset ==
    /\ clearing
    /\ clearing' = FALSE
    /\ q' = IF conn = "closed" THEN q
            ELSE Append(IF Len(q) = Cap THEN Tail(q) ELSE q, Reset)
    /\ UNCHANGED <<events, born, pending, conn, wire, page>>

-----------------------------------------------------------------------------
(* The connection.  ws() creates the client's queue as soon as it accepts, *)
(* before the page learns that the connection is open.                     *)

Accept ==
    /\ conn = "closed"
    /\ conn' = "accepted" /\ q' = <<>>
    /\ UNCHANGED <<server, wire, page>>

Ask(f) == fetch[f] = Idle /\ fetch' = [fetch EXCEPT ![f] = Asked]

\* Mutant of Open: the page relies on the messages alone.
OpenWithoutHistory ==
    /\ conn = "accepted"
    /\ conn' = "open" /\ failed' = FALSE
    /\ UNCHANGED <<server, q, wire, fetch, shown>>

Open ==
    /\ conn = "accepted"
    /\ conn' = "open" /\ failed' = FALSE
    /\ \E f \in Requests : Ask(f)
    /\ UNCHANGED <<server, q, wire, shown>>

\* Either side closes, or a send takes more than 10 s; the page keeps its
\* rows and its outstanding requests.
Disconnect ==
    /\ conn # "closed"
    /\ conn' = "closed" /\ q' = <<>> /\ wire' = <<>>
    /\ UNCHANGED <<server, page>>

Send ==
    /\ conn # "closed" /\ q # <<>> /\ wire = <<>>
    /\ wire' = <<Head(q)>> /\ q' = Tail(q)
    /\ UNCHANGED <<server, conn, page>>

-----------------------------------------------------------------------------
(* The page.                                                               *)

\* merge(): a Map by id, the newest Keep of which stay.
Merge(rows, data) == Newest(data \cup {r \in rows : \A d \in data : d.id # r.id})

ReceiveEvents ==
    /\ conn = "open" /\ wire # <<>> /\ Head(wire).type = "events"
    /\ shown' = Merge(shown, Head(wire).rows)
    /\ wire' = <<>>
    /\ UNCHANGED <<server, conn, q, fetch, failed>>

\* Mutant of ReceiveGap: the gap is ignored.
ReceiveGapIdle ==
    /\ conn = "open" /\ wire # <<>> /\ Head(wire).type = "gap"
    /\ wire' = <<>>
    /\ UNCHANGED <<server, conn, q, fetch, failed, shown>>

ReceiveGap ==
    /\ conn = "open" /\ wire # <<>> /\ Head(wire).type = "gap"
    /\ wire' = <<>>
    /\ \E f \in Requests : Ask(f)
    /\ UNCHANGED <<server, conn, q, failed, shown>>

ReceiveReset ==
    /\ conn = "open" /\ wire # <<>> /\ Head(wire).type = "reset"
    /\ shown' = {}
    /\ wire' = <<>>
    /\ UNCHANGED <<server, conn, q, fetch, failed>>

Recent(f) ==
    /\ fetch[f] = Asked
    /\ fetch' = [fetch EXCEPT ![f] = [at |-> "read", rows |-> Newest(events)]]
    /\ UNCHANGED <<server, conn, q, wire, failed, shown>>

\* Mutant of Respond: the page asks again for what it was given.
RespondAsking(f) ==
    /\ fetch[f].at = "read"
    /\ shown' = Merge(shown, fetch[f].rows)
    /\ fetch' = [fetch EXCEPT ![f] = Asked]
    /\ UNCHANGED <<server, conn, q, wire, failed>>

Respond(f) ==
    /\ fetch[f].at = "read"
    /\ shown' = Merge(shown, fetch[f].rows)
    /\ fetch' = [fetch EXCEPT ![f] = Idle]
    /\ UNCHANGED <<server, conn, q, wire, failed>>

\* The page reports the failure and does not ask again.
Fail(f) ==
    /\ fetch[f] # Idle
    /\ fetch' = [fetch EXCEPT ![f] = Idle]
    /\ failed' = TRUE
    /\ UNCHANGED <<server, conn, q, wire, shown>>

Receive == ReceiveEvents \/ ReceiveGap \/ ReceiveReset

Next ==
    \/ \E w \in Writers : Store(w) \/ Publish(w)
    \/ Purge \/ Clear \/ BroadcastReset
    \/ Accept \/ Open \/ Disconnect \/ Send
    \/ Receive
    \/ \E f \in Requests : Recent(f) \/ Respond(f) \/ Fail(f)

Spec == Init /\ [][Next]_vars

\* The event loops of the server and of the page run what is ready, and the
\* page reconnects; nothing obliges anyone to store, purge or delete.
Fairness ==
    /\ \A w \in Writers : WF_vars(Publish(w))
    /\ WF_vars(BroadcastReset) /\ WF_vars(Accept) /\ WF_vars(Open)
    /\ WF_vars(Send) /\ WF_vars(Receive)
    /\ \A f \in Requests : WF_vars(Recent(f)) /\ WF_vars(Respond(f))

FairSpec == Spec /\ Fairness
-----------------------------------------------------------------------------
(***************************************************************************)
(* Properties                                                              *)
(***************************************************************************)

Line == wire \o q
Carries(m, r) == m = Gap \/ (m.type = "events" /\ r \in m.rows)
NoResetAfter(i) == \A k \in (i + 1)..Len(Line) : Line[k] # Reset

OnItsWay(r) ==
    \/ \E w \in Writers : r \in pending[w]
    \/ \E i \in 1..Len(Line) : Carries(Line[i], r) /\ NoResetAfter(i)
    \/ /\ NoResetAfter(0)
       /\ \E f \in Requests : fetch[f] = Asked \/ (fetch[f].at = "read" /\ r \in fetch[f].rows)

\* While the connection is open and no request failed, each of the newest
\* Keep stored rows is shown or on its way, whatever overflowed, and no reset
\* still to be received will take it away.
NothingLost ==
    conn = "open" /\ ~failed =>
        \A r \in Newest(events) : OnItsWay(r) \/ (r \in shown /\ NoResetAfter(0))

\* A page that stays connected always catches up with the newest rows.
NewestShown == Newest(events) \subseteq shown
CatchesUp == []<>(conn = "open" /\ ~failed => NewestShown)

\* An upper bound of the steps between what the server stored and the page: a
\* message is published, sent and received, and may be a gap, which makes the
\* page ask and merge the answer.
Waiting == {w \in Writers : pending[w] # {}}
Outstanding == {f \in Requests : fetch[f] # Idle}
Unread == {f \in Requests : fetch[f] = Asked}
ToPublish == 5 * Cardinality(Waiting) + IF clearing THEN 5 ELSE 0
ToReceive == 4 * Len(q) + 3 * Len(wire)
ToMerge == Cardinality(Outstanding) + Cardinality(Unread)
Debt == ToPublish + ToReceive + ToMerge

Deliver ==
    \/ \E w \in Writers : Publish(w)
    \/ BroadcastReset \/ Send \/ Receive
    \/ \E f \in Requests : Recent(f) \/ Respond(f) \/ Fail(f)

\* Catching up never goes round in circles: while a page that is connected and
\* had no failure lacks one of the newest rows, there are steps of delivery to
\* take, each of them leaves fewer, overflows, gaps and the requests they cause
\* included, and only a new row, a deletion or a new connection adds to them
\* (main.py:57-65, 470-485, app.js:134).
FeedAdvances ==
    /\ [](conn = "open" /\ ~failed /\ ~NewestShown => Debt > 0)
    /\ [][/\ Deliver => Debt' < Debt
          /\ Debt' > Debt => (\E w \in Writers : Store(w)) \/ Clear \/ Open]_vars
=============================================================================
