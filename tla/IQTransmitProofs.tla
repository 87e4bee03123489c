-------------------------- MODULE IQTransmitProofs --------------------------
(***************************************************************************)
(* Theorems about the AIS modulator, for any number of clients, sources    *)
(* and packets and any queue size.                                         *)
(*                                                                         *)
(* What waits in the queue, what an Assembler holds and what the handler   *)
(* has in hand belong to the running session or are recognised by their    *)
(* epoch: epochs change whenever sessions do.                              *)
(***************************************************************************)
EXTENDS IQTransmit, FiniteSetTheorems, TLAPS

\* No Assembler and no handler is ahead of the epoch.
EpochsPast ==
    /\ \A s \in Sources : part[s].epoch <= epoch
    /\ \A c \in Clients : conn[c].epoch <= epoch

\* A fragment, or a packet in hand, that bears the current epoch belongs to
\* the running session.
PartsCurrent == \A s \in Sources : Held(s) \in {0, session}
InHandCurrent ==
    \A c \in Clients : conn[c].left > 0 /\ conn[c].epoch = epoch => conn[c].since = session

IInv ==
    /\ TypeOK
    /\ EpochsPast
    /\ QueueIsCurrent
    /\ PartsCurrent
    /\ InHandCurrent

LEMMA InitIInv == Init => IInv
  <1> SUFFICES ASSUME Init PROVE IInv
    OBVIOUS
  <1> USE IQTransmitAssumption DEF IQTransmitAssumption, Init
  <1>1. NotConnected \in ConnState
    BY DEF NotConnected, ConnState
  <1>2. TypeOK
    <2>1. queue \in Seq(Nat) /\ Len(queue) <= Cap
      OBVIOUS
    <2>2. counts \in [packets : Nat, dropped : Nat, modulated : Nat]
      OBVIOUS
    <2>3. conn \in [Clients -> ConnState] /\ part \in [Sources -> [epoch : Nat, since : Nat]]
      BY <1>1
    <2>4. epoch \in Nat /\ session \in Nat \ {0} /\ config \in Nat
      OBVIOUS
    <2>5. enabled \in BOOLEAN /\ saving \in BOOLEAN
      OBVIOUS
    <2>. QED  BY <2>1, <2>2, <2>3, <2>4, <2>5, Zenon DEF TypeOK
  <1>3. EpochsPast /\ QueueIsCurrent /\ PartsCurrent /\ InHandCurrent
    BY DEF EpochsPast, QueueIsCurrent, PartsCurrent, Held, InHandCurrent, NotConnected
  <1>. QED  BY <1>2, <1>3 DEF IInv

\* The parts of the type invariant that are arithmetic.
CountsType == counts \in [packets : Nat, dropped : Nat, modulated : Nat]
QueueType == queue \in Seq(Nat) /\ Len(queue) <= Cap

LEMMA OfferTypes ==
  ASSUME TypeOK, NEW since \in Nat, Offer(since)
  PROVE  QueueType' /\ CountsType'
  <1>1. QueueType /\ Cap \in Nat
    BY IQTransmitAssumption DEF TypeOK, QueueType, IQTransmitAssumption
  <1>2. CountsType
    BY DEF TypeOK, CountsType
  <1>3. CASE Accepts /\ Len(queue) < Cap
    <2>1. queue' = Append(queue, since) /\ counts' = [counts EXCEPT !.packets = @ + 1]
      BY <1>3 DEF Offer
    <2>2. QueueType'
      BY <1>1, <1>3, <2>1 DEF QueueType
    <2>3. CountsType'
      BY <1>2, <2>1 DEF CountsType
    <2>. QED  BY <2>2, <2>3
  <1>4. CASE ~(Accepts /\ Len(queue) < Cap)
    <2>1. queue' = queue /\ counts' = [counts EXCEPT !.packets = @ + 1, !.dropped = @ + 1]
      BY <1>4 DEF Offer
    <2>2. QueueType'
      BY <1>1, <2>1 DEF QueueType
    <2>3. CountsType'
      <3>1. counts' = [packets |-> counts.packets + 1, dropped |-> counts.dropped + 1,
                       modulated |-> counts.modulated]
        BY <1>2, <2>1 DEF CountsType
      <3>. QED  BY <1>2, <3>1 DEF CountsType
    <2>. QED  BY <2>2, <2>3
  <1>. QED  BY <1>3, <1>4

LEMMA ClearedTypes ==
  ASSUME TypeOK, Cleared
  PROVE  QueueType' /\ CountsType'
  <1>1. QueueType /\ CountsType /\ Cap \in Nat
    BY IQTransmitAssumption DEF TypeOK, QueueType, CountsType, IQTransmitAssumption
  <1>2. queue' = <<>> /\ counts' = [counts EXCEPT !.dropped = @ + Len(queue)]
    BY DEF Cleared
  <1>. QED  BY <1>1, <1>2 DEF QueueType, CountsType

\* Whatever an Assembler becomes, only its own entry changes, and it bears
\* the current epoch.
LEMMA IngestKeepsIInv ==
  ASSUME IInv, NEW s \in Sources,
         IngestSingle(s) \/ IngestFirst(s) \/ IngestLast(s) \/ IngestInvalid(s)
  PROVE  IInv'
  <1> USE DEF IInv
  <1>1. PICK since \in {0, session} : part' = [part EXCEPT ![s] = [epoch |-> epoch, since |-> since]]
    BY DEF IngestSingle, IngestFirst, IngestLast, IngestInvalid, Assembled, PartsCurrent
  <1>2. /\ UNCHANGED <<enabled, epoch, session, client, clientLock, conn, web>>
        /\ \/ UNCHANGED <<queue, counts>>
           \/ Offer(session)
    BY DEF IngestSingle, IngestFirst, IngestLast, IngestInvalid, Assembled, PartsCurrent, shared
  <1>3. /\ queue' \in Seq(Nat) /\ Len(queue') <= Cap
        /\ counts' \in [packets : Nat, dropped : Nat, modulated : Nat]
    BY <1>2, OfferTypes DEF TypeOK, QueueType, CountsType
  <1>4. TypeOK'
    BY <1>1, <1>2, <1>3 DEF TypeOK, web
  <1>5. EpochsPast' /\ PartsCurrent' /\ InHandCurrent'
    BY <1>1, <1>2 DEF EpochsPast, PartsCurrent, InHandCurrent, Held, TypeOK
  <1>6. QueueIsCurrent'
    <2>1. CASE UNCHANGED queue
      BY <1>2, <2>1 DEF QueueIsCurrent
    <2>2. CASE Accepts /\ queue' = Append(queue, session)
      BY <1>2, <2>2 DEF QueueIsCurrent, Accepts, TypeOK
    <2>. QED  BY <1>2, <2>1, <2>2 DEF Offer
  <1>. QED  BY <1>4, <1>5, <1>6

\* A new session empties the queue and leaves every fragment and every
\* packet in hand with an older epoch.
LEMMA NewSessionKeepsIInv ==
  ASSUME IInv, NewSession, Cleared, enabled' \in BOOLEAN, client' \in Clients \cup {None},
         saving' \in BOOLEAN, conn' \in [Clients -> ConnState],
         \A c \in Clients : conn'[c].epoch = conn[c].epoch,
         UNCHANGED <<clientLock, part, config>>
  PROVE  IInv'
  <1> USE DEF IInv, NewSession, Cleared
  <1>1. TypeOK'
    <2>1. QueueType' /\ CountsType'
      BY ClearedTypes
    <2>. QED  BY <2>1 DEF TypeOK, QueueType, CountsType
  <1>2. \A s \in Sources : part'[s].epoch < epoch'
    BY DEF EpochsPast, TypeOK
  <1>3. \A c \in Clients : conn'[c].epoch < epoch'
    BY DEF EpochsPast, TypeOK, ConnState
  <1>4. epoch' \in Nat /\ (\A s \in Sources : part'[s].epoch \in Nat) /\ (\A c \in Clients : conn'[c].epoch \in Nat)
    BY <1>1 DEF TypeOK, ConnState
  <1>5. EpochsPast' /\ InHandCurrent'
    BY <1>2, <1>3, <1>4 DEF EpochsPast, InHandCurrent
  <1>6. PartsCurrent'
    BY <1>2, <1>4 DEF PartsCurrent, Held
  <1>7. QueueIsCurrent'
    BY DEF QueueIsCurrent
  <1>. QED  BY <1>1, <1>5, <1>6, <1>7

LEMMA WebKeepsIInv ==
  ASSUME IInv, Start \/ Stop \/ SaveStop \/ SaveAssign
  PROVE  IInv'
  <1>1. conn \in [Clients -> ConnState] /\ client \in Clients \cup {None} /\ saving \in BOOLEAN
    BY DEF IInv, TypeOK
  <1>2. CASE Start
    BY <1>1, <1>2, NewSessionKeepsIInv DEF Start, web
  <1>3. CASE Stop
    BY <1>1, <1>3, NewSessionKeepsIInv DEF Stop, Stopped, web
  <1>4. CASE SaveStop
    BY <1>1, <1>4, NewSessionKeepsIInv DEF SaveStop, Stopped
  <1>5. CASE SaveAssign
    <2>0. config \in Nat /\ config' = config + 1
      BY <1>5 DEF SaveAssign, IInv, TypeOK
    <2>1. config' \in Nat /\ saving' = FALSE /\ UNCHANGED <<shared, clientLock, conn, part, counts>>
      BY <1>5, <2>0 DEF SaveAssign
    <2>2. TypeOK'
      BY <2>1 DEF IInv, shared, TypeOK
    <2>. QED  BY <2>1, <2>2 DEF IInv, shared, EpochsPast, QueueIsCurrent, PartsCurrent, InHandCurrent, Held
  <1>. QED  BY <1>2, <1>3, <1>4, <1>5

\* A handler that changes its own state alone.
LEMMA OwnStepKeepsIInv ==
  ASSUME IInv, NEW c \in Clients, NEW own \in ConnState, conn' = [conn EXCEPT ![c] = own],
         own.epoch <= epoch,
         own.left > 0 /\ own.epoch = epoch => own.since = session,
         clientLock' \in Clients \cup {None}, client' \in Clients \cup {None},
         QueueType', CountsType', QueueIsCurrent',
         UNCHANGED <<enabled, epoch, session, part, web>>
  PROVE  IInv'
  <1> USE DEF IInv
  <1>1. TypeOK'
    BY DEF TypeOK, QueueType, CountsType, web
  <1>2. EpochsPast' /\ InHandCurrent'
    BY DEF EpochsPast, InHandCurrent, TypeOK
  <1>3. PartsCurrent'
    BY DEF PartsCurrent, Held
  <1>. QED  BY <1>1, <1>2, <1>3

LEMMA HandlerKeepsIInv ==
  ASSUME IInv, NEW c \in Clients, Connect(c) \/ Handle(c) \/ Tune(c) \/ Leave(c)
  PROVE  IInv'
  <1>1. /\ conn[c] \in ConnState /\ conn \in [Clients -> ConnState]
        /\ client \in Clients \cup {None} /\ clientLock \in Clients \cup {None}
        /\ epoch \in Nat /\ session \in Nat \ {0} /\ saving \in BOOLEAN /\ enabled \in BOOLEAN
        /\ QueueType /\ CountsType /\ QueueIsCurrent /\ conn[c].epoch <= epoch
        /\ conn[c].left > 0 /\ conn[c].epoch = epoch => conn[c].since = session
    BY DEF IInv, TypeOK, QueueType, CountsType, EpochsPast, InHandCurrent
  <1>2. ASSUME NEW at \in Looping \cup {"idle", "register", "cleanup", "release"}, Goto(c, at),
               clientLock' \in Clients \cup {None}, client' \in Clients \cup {None},
               QueueType', CountsType', QueueIsCurrent',
               UNCHANGED <<enabled, epoch, session, part, web>>
        PROVE  IInv'
    <2> DEFINE own == [conn[c] EXCEPT !.at = at]
    <2>1. conn' = [conn EXCEPT ![c] = own] /\ own \in ConnState
      BY <1>1, <1>2 DEF Goto, ConnState
    <2>2. own.epoch = conn[c].epoch /\ own.left = conn[c].left /\ own.since = conn[c].since
      BY <1>1 DEF ConnState
    <2> HIDE DEF own
    <2>. QED  BY <1>1, <1>2, <2>1, <2>2, OwnStepKeepsIInv
  <1>3. CASE Connect(c)
    <2>1. QueueType' /\ CountsType' /\ QueueIsCurrent'
      BY <1>1, <1>3 DEF Connect, QueueType, CountsType, QueueIsCurrent, shared
    <2>. QED  BY <1>1, <1>2, <1>3, <2>1 DEF Connect, shared
  <1>4. CASE Register(c)
    <2>1. QueueType' /\ CountsType' /\ QueueIsCurrent'
      BY <1>4, ClearedTypes DEF Register, Cleared, QueueIsCurrent, IInv
    <2>. QED  BY <1>1, <1>2, <1>4, <2>1 DEF Register, Looping
  <1>5. CASE Snapshot(c)
    <2>1. PICK n \in 0..Blocks : n = IF conn[c].epoch = epoch THEN conn[c].left ELSE 0
      BY <1>1, IQTransmitAssumption DEF ConnState, IQTransmitAssumption
    <2> DEFINE own == [conn[c] EXCEPT !.at = "take", !.epoch = epoch, !.on = enabled, !.left = n]
    <2>2. conn' = [conn EXCEPT ![c] = own]
      BY <1>1, <1>5, <2>1 DEF Snapshot
    <2>3. own \in ConnState /\ own.epoch = epoch /\ own.left = n /\ own.since = conn[c].since
      BY <1>1 DEF ConnState, Looping
    <2>4. n > 0 => conn[c].since = session
      BY <1>1, <2>1
    <2>5. UNCHANGED <<shared, clientLock, part, counts, web>>
      BY <1>5 DEF Snapshot
    <2>6. UNCHANGED <<enabled, epoch, session, client, queue, clientLock, part, counts, web>>
      BY <2>5 DEF shared
    <2>8. own.epoch <= epoch /\ (own.left > 0 /\ own.epoch = epoch => own.since = session)
      BY <1>1, <2>3, <2>4
    <2>7. QueueType' /\ CountsType' /\ QueueIsCurrent'
      BY <1>1, <2>5, <2>6 DEF QueueType, CountsType, QueueIsCurrent
    <2> HIDE DEF own
    <2>. QED  BY <1>1, <2>2, <2>3, <2>6, <2>7, <2>8, OwnStepKeepsIInv
  <1>6. CASE Take(c)
    <2>0. UNCHANGED <<enabled, epoch, session, client, clientLock, part, counts, web>>
      BY <1>6 DEF Take
    <2>1. CASE conn[c].left = 0 /\ conn[c].on /\ queue # <<>>
      <3>1. PICK n \in 0..Blocks :
              conn' = [conn EXCEPT ![c].at = "count", ![c].left = n, ![c].since = Head(queue)]
        <4>1. {0, Blocks} \subseteq 0..Blocks
          BY IQTransmitAssumption DEF IQTransmitAssumption
        <4>. QED  BY <1>6, <2>1, <4>1 DEF Take
      <3> DEFINE own == [conn[c] EXCEPT !.at = "count", !.left = n, !.since = Head(queue)]
      <3>2. Head(queue) = session /\ queue' = Tail(queue)
        BY <1>1, <1>6, <2>1 DEF Take, QueueIsCurrent, QueueType
      <3>3. conn' = [conn EXCEPT ![c] = own]
        BY <1>1, <3>1
      <3>4. own \in ConnState /\ own.epoch = conn[c].epoch /\ own.since = session
        BY <1>1, <3>2 DEF ConnState, Looping
      <3>5. QueueType'
        BY <1>1, <2>1, <3>2, IQTransmitAssumption DEF QueueType, IQTransmitAssumption
      <3>6. QueueIsCurrent'
        BY <1>1, <2>0, <2>1, <3>2 DEF QueueIsCurrent, QueueType
      <3> HIDE DEF own
      <3>. QED  BY <1>1, <2>0, <3>3, <3>4, <3>5, <3>6, OwnStepKeepsIInv DEF CountsType
    <2>2. CASE ~(conn[c].left = 0 /\ conn[c].on /\ queue # <<>>)
      <3>1. Goto(c, "check") /\ UNCHANGED queue
        BY <1>6, <2>2 DEF Take
      <3>. QED  BY <1>1, <1>2, <2>0, <3>1 DEF Looping, QueueType, CountsType, QueueIsCurrent
    <2>. QED  BY <2>1, <2>2
  <1>7. CASE Count(c)
    <2>1. CountsType'
      BY <1>1, <1>7 DEF Count, CountsType
    <2>. QED  BY <1>1, <1>2, <1>7, <2>1 DEF Count, Looping, shared, QueueType, QueueIsCurrent
  <1>8. CASE Check(c)
    <2>1. PICK n \in 0..Blocks : n = IF conn[c].left = 0 THEN 0 ELSE conn[c].left - 1
      BY <1>1, IQTransmitAssumption DEF ConnState, IQTransmitAssumption
    <2>2. PICK lit \in BOOLEAN : lit = (conn[c].left > 0 /\ conn[c].epoch = epoch)
      OBVIOUS
    <2> DEFINE own == [conn[c] EXCEPT !.at = "send", !.signal = lit, !.left = n]
    <2>3. conn' = [conn EXCEPT ![c] = own]
      BY <1>1, <1>8, <2>1, <2>2 DEF Check
    <2>4. own \in ConnState /\ own.epoch = conn[c].epoch /\ own.left = n /\ own.since = conn[c].since
      BY <1>1 DEF ConnState, Looping
    <2>5. n > 0 => conn[c].left > 0
      BY <1>1, <2>1, IQTransmitAssumption DEF ConnState, IQTransmitAssumption
    <2>6. UNCHANGED <<shared, clientLock, part, counts, web>>
      BY <1>8 DEF Check
    <2> HIDE DEF own
    <2>. QED  BY <1>1, <2>3, <2>4, <2>5, <2>6, OwnStepKeepsIInv DEF shared, QueueType, CountsType, QueueIsCurrent
  <1>9. CASE Send(c) \/ Leave(c)
    <2>1. PICK at \in {"loop", "cleanup"} : conn' = [conn EXCEPT ![c].at = at, ![c].signal = FALSE]
      BY <1>9 DEF Send, Leave
    <2> DEFINE own == [conn[c] EXCEPT !.at = at, !.signal = FALSE]
    <2>2. conn' = [conn EXCEPT ![c] = own] /\ own \in ConnState
      BY <1>1, <2>1 DEF ConnState, Looping
    <2>3. own.epoch = conn[c].epoch /\ own.left = conn[c].left /\ own.since = conn[c].since
      BY <1>1 DEF ConnState
    <2>4. UNCHANGED <<shared, clientLock, part, counts, web>>
      BY <1>9 DEF Send, Leave
    <2> HIDE DEF own
    <2>. QED  BY <1>1, <2>2, <2>3, <2>4, OwnStepKeepsIInv DEF shared, QueueType, CountsType, QueueIsCurrent
  <1>10. CASE Cleanup(c)
    <2>1. conn' \in [Clients -> ConnState] /\ \A d \in Clients : conn'[d].epoch = conn[d].epoch
      BY <1>1, <1>10 DEF Cleanup, Goto, ConnState
    <2>. QED  BY <1>1, <1>10, <2>1, NewSessionKeepsIInv DEF Cleanup, web
  <1>11. CASE ReleaseClient(c)
    <2>1. /\ NotConnected \in ConnState /\ NotConnected.epoch = 0 /\ NotConnected.left = 0
      BY IQTransmitAssumption DEF NotConnected, ConnState, IQTransmitAssumption
    <2>2. /\ conn' = [conn EXCEPT ![c] = NotConnected] /\ clientLock' = None
          /\ UNCHANGED <<enabled, epoch, session, client, queue, part, counts, web>>
      BY <1>11 DEF ReleaseClient, shared
    <2>3. QueueType' /\ CountsType' /\ QueueIsCurrent'
      BY <1>1, <2>2 DEF QueueType, CountsType, QueueIsCurrent
    <2>4. NotConnected.epoch <= epoch /\ ~(NotConnected.left > 0)
      BY <1>1, <2>1
    <2>. QED  BY <1>1, <2>1, <2>2, <2>3, <2>4, OwnStepKeepsIInv
  <1>12. CASE Tune(c)
    <2>1. epoch' = epoch + 1 /\ UNCHANGED <<enabled, session, queue, client, clientLock, conn, part, counts, web>>
      BY <1>12 DEF Tune
    <2>2. \A d \in Clients : conn[d].epoch \in Nat /\ conn[d].epoch <= epoch
      BY DEF IInv, TypeOK, ConnState, EpochsPast
    <2>3. \A s \in Sources : part[s].epoch \in Nat /\ part[s].epoch <= epoch
      BY DEF IInv, TypeOK, EpochsPast
    <2>4. TypeOK'
      BY <1>1, <2>1 DEF IInv, TypeOK, web
    <2>5. EpochsPast' /\ InHandCurrent'
      BY <1>1, <2>1, <2>2, <2>3 DEF EpochsPast, InHandCurrent
    <2>6. PartsCurrent'
      BY <1>1, <2>1, <2>3 DEF PartsCurrent, Held
    <2>7. QueueIsCurrent'
      BY <1>1, <2>1 DEF QueueIsCurrent
    <2>. QED  BY <2>4, <2>5, <2>6, <2>7 DEF IInv
  <1>. QED  BY <1>3, <1>4, <1>5, <1>6, <1>7, <1>8, <1>9, <1>10, <1>11, <1>12 DEF Handle

LEMMA NextKeepsIInv == IInv /\ [Next]_vars => IInv'
  <1> SUFFICES ASSUME IInv, [Next]_vars PROVE IInv'
    OBVIOUS
  <1>1. ASSUME NEW s \in Sources, IngestSingle(s) \/ IngestFirst(s) \/ IngestLast(s) \/ IngestInvalid(s)
        PROVE  IInv'
    BY <1>1, IngestKeepsIInv
  <1>2. CASE Start \/ Stop \/ SaveStop \/ SaveAssign
    BY <1>2, WebKeepsIInv
  <1>3. ASSUME NEW c \in Clients, Connect(c) \/ Handle(c) \/ Tune(c) \/ Leave(c)
        PROVE  IInv'
    BY <1>3, HandlerKeepsIInv
  <1>4. CASE UNCHANGED vars
    BY <1>4 DEF vars, shared, web, IInv, TypeOK, EpochsPast, QueueIsCurrent, PartsCurrent, InHandCurrent, Held
  <1>. QED  BY <1>1, <1>2, <1>3, <1>4 DEF Next

\* The strengthened invariant holds in every reachable state.
THEOREM Inductive == Spec => []IInv
  BY InitIInv, NextKeepsIInv, PTL DEF Spec

\* Every reachable state is well typed; in particular the queue is bounded.
THEOREM TypeCorrect == Spec => []TypeOK
  <1>1. IInv => TypeOK
    BY DEF IInv
  <1>. QED  BY <1>1, Inductive, PTL

\* What waits in the packet queue belongs to the running session
\* (State.ingest, clear, stop and the clean-up of IQOutput.handle).
THEOREM QueueAlwaysCurrent == Spec => []QueueIsCurrent
  <1>1. IInv => QueueIsCurrent
    BY DEF IInv
  <1>. QED  BY <1>1, Inductive, PTL

\* The handler never makes ready signal of a session that has ended
\* (IQOutput.handle against start, stop, reconnection and retuning).
THEOREM NothingResent == Spec => NoResend
  <1> DEFINE Ready == \A c \in Clients : conn'[c].signal /\ ~conn[c].signal => conn[c].since = session
  <1>1. IInv /\ [Next]_vars => [Ready]_vars
    <2> SUFFICES ASSUME IInv, Next, NEW c \in Clients, conn'[c].signal, ~conn[c].signal
                 PROVE  conn[c].since = session
      OBVIOUS
    <2>1. conn \in [Clients -> ConnState] /\ (conn[c].left > 0 /\ conn[c].epoch = epoch => conn[c].since = session)
      BY DEF IInv, TypeOK, InHandCurrent
    <2>2. ASSUME NEW s \in Sources, IngestSingle(s) \/ IngestFirst(s) \/ IngestLast(s) \/ IngestInvalid(s)
          PROVE  FALSE
      BY <2>2 DEF IngestSingle, IngestFirst, IngestLast, IngestInvalid, Assembled
    <2>3. CASE Start \/ Stop \/ SaveStop \/ SaveAssign
      BY <2>3 DEF Start, Stop, SaveStop, SaveAssign
    <2>4. ASSUME NEW d \in Clients, Check(d) PROVE conn[c].since = session
      BY <2>1, <2>4 DEF Check, ConnState
    <2>5. ASSUME NEW d \in Clients, Connect(d) \/ Handle(d) \/ Tune(d) \/ Leave(d), ~Check(d)
          PROVE  FALSE
      <3>1. CASE Snapshot(d)
        BY <2>1, <3>1 DEF Snapshot, ConnState
      <3>2. CASE Take(d)
        <4>1. \/ \E n \in {0, Blocks} :
                   conn' = [conn EXCEPT ![d].at = "count", ![d].left = n, ![d].since = Head(queue)]
              \/ Goto(d, "check")
          BY <3>2 DEF Take
        <4>. QED  BY <2>1, <4>1 DEF Goto, ConnState
      <3>3. CASE Send(d) \/ Leave(d)
        BY <2>1, <3>3 DEF Send, Leave, ConnState
      <3>4. CASE ReleaseClient(d)
        BY <2>1, <3>4 DEF ReleaseClient, NotConnected, ConnState
      <3>5. CASE Connect(d) \/ Register(d) \/ Count(d) \/ Cleanup(d)
        BY <2>1, <3>5 DEF Connect, Register, Count, Cleanup, Goto, ConnState
      <3>6. CASE Tune(d)
        BY <3>6 DEF Tune
      <3>. QED  BY <2>5, <3>1, <3>2, <3>3, <3>4, <3>5, <3>6 DEF Handle
    <2>. QED  BY <2>2, <2>3, <2>4, <2>5 DEF Next
  <1>. QED  BY <1>1, Inductive, PTL DEF Spec, NoResend

-----------------------------------------------------------------------------
\* A handler between its first and its last step holds client_lock.
LockHeld == \A c \in Clients : conn[c].at # "idle" => clientLock = c

\* The packet in the hand of the handler that is about to count it.
InHand == IF \E c \in Clients : conn[c].at = "count" THEN 1 ELSE 0
Balance == counts.packets = counts.dropped + counts.modulated + Len(queue) + InHand

\* Only one handler can be about to count.
LEMMA OneInHand ==
    ASSUME LockHeld
    PROVE  Cardinality({c \in Clients : conn[c].at = "count"}) = InHand
  <1> DEFINE hands == {c \in Clients : conn[c].at = "count"}
  <1>1. CASE \E c \in Clients : conn[c].at = "count"
    <2>1. PICK c \in Clients : conn[c].at = "count"
      BY <1>1
    <2>2. hands = {c}
      BY <2>1 DEF LockHeld
    <2>. QED  BY <1>1, <2>2, FS_Singleton DEF InHand
  <1>2. CASE ~\E c \in Clients : conn[c].at = "count"
    <2>1. hands = {}
      BY <1>2
    <2>. QED  BY <1>2, <2>1, FS_EmptySet DEF InHand
  <1>. QED  BY <1>1, <1>2

\* Steps of sources: one packet more, and it waits or is dropped.
LEMMA OfferBalances ==
    ASSUME IInv, Balance, NEW since, Offer(since), UNCHANGED conn
    PROVE  Balance'
  <1>1. CountsType /\ QueueType /\ InHand \in {0, 1} /\ InHand' = InHand
    BY DEF IInv, TypeOK, CountsType, QueueType, InHand
  <1>2. CASE Accepts /\ Len(queue) < Cap
    <2>1. queue' = Append(queue, since) /\ counts' = [counts EXCEPT !.packets = @ + 1]
      BY <1>2 DEF Offer
    <2>2. Len(queue') = Len(queue) + 1 /\ Len(queue) \in Nat
      BY <1>1, <2>1 DEF QueueType
    <2>3. /\ counts'.packets = counts.packets + 1 /\ counts'.dropped = counts.dropped
          /\ counts'.modulated = counts.modulated
      BY <1>1, <2>1 DEF CountsType
    <2>. QED  BY <1>1, <2>2, <2>3 DEF Balance, CountsType
  <1>3. CASE ~(Accepts /\ Len(queue) < Cap)
    <2>1. queue' = queue /\ counts' = [counts EXCEPT !.packets = @ + 1, !.dropped = @ + 1]
      BY <1>3 DEF Offer
    <2>2. counts' = [packets |-> counts.packets + 1, dropped |-> counts.dropped + 1,
                     modulated |-> counts.modulated]
      BY <1>1, <2>1 DEF CountsType
    <2>3. Len(queue') = Len(queue) /\ Len(queue) \in Nat
      BY <1>1, <2>1 DEF QueueType
    <2>. QED  BY <1>1, <2>2, <2>3 DEF Balance, CountsType
  <1>. QED  BY <1>2, <1>3

\* Emptying the queue counts what waited as dropped.
LEMMA ClearBalances ==
    ASSUME IInv, Balance, Cleared, InHand' = InHand
    PROVE  Balance'
  <1>1. CountsType /\ QueueType /\ InHand \in {0, 1}
    BY DEF IInv, TypeOK, CountsType, QueueType, InHand
  <1>2. counts' = [packets |-> counts.packets, dropped |-> counts.dropped + Len(queue),
                   modulated |-> counts.modulated]
    BY <1>1 DEF Cleared, CountsType
  <1>3. Len(queue') = 0 /\ Len(queue) \in Nat
    BY <1>1 DEF Cleared, QueueType
  <1>. QED  BY <1>1, <1>2, <1>3 DEF Balance, CountsType

\* A handler that moves on without counting keeps what is in hand.
LEMMA GotoKeepsHand ==
    ASSUME TypeOK, NEW c \in Clients, NEW own \in ConnState, conn' = [conn EXCEPT ![c] = own],
           own.at # "count", conn[c].at # "count"
    PROVE  InHand' = InHand
  <1>1. \A d \in Clients : conn'[d].at = "count" <=> conn[d].at = "count"
    BY DEF TypeOK
  <1>. QED  BY <1>1 DEF InHand

\* The lock protects the handlers from one another.
LEMMA LockStep ==
    ASSUME IInv, LockHeld, [Next]_vars
    PROVE  LockHeld'
  <1>1. conn \in [Clients -> ConnState] /\ None \notin Clients
    BY IQTransmitAssumption DEF IInv, TypeOK, IQTransmitAssumption
  <1>2. CASE UNCHANGED <<conn, clientLock>>
    BY <1>2 DEF LockHeld
  <1>3. ASSUME NEW c \in Clients, Connect(c) PROVE LockHeld'
    BY <1>1, <1>3 DEF Connect, Goto, LockHeld
  <1>4. ASSUME NEW c \in Clients, ReleaseClient(c) PROVE LockHeld'
    BY <1>1, <1>4 DEF ReleaseClient, LockHeld, NotConnected
  <1>5. ASSUME NEW c \in Clients, clientLock' = clientLock, conn[c].at # "idle",
               \A d \in Clients \ {c} : conn'[d] = conn[d]
        PROVE  LockHeld'
    BY <1>5 DEF LockHeld
  <1>6. ASSUME NEW c \in Clients, Handle(c) \/ Leave(c), ~ReleaseClient(c) PROVE LockHeld'
    <2>1. conn[c].at # "idle" /\ clientLock' = clientLock
      BY <1>6 DEF Handle, Register, Snapshot, Take, Count, Check, Send, Leave, Cleanup
    <2>2. \A d \in Clients \ {c} : conn'[d] = conn[d]
      BY <1>1, <1>6 DEF Handle, Register, Snapshot, Take, Count, Check, Send, Leave, Cleanup, Goto
    <2>. QED  BY <1>5, <2>1, <2>2
  <1>7. ASSUME NEW s \in Sources, IngestSingle(s) \/ IngestFirst(s) \/ IngestLast(s) \/ IngestInvalid(s)
        PROVE  UNCHANGED <<conn, clientLock>>
    BY <1>7 DEF IngestSingle, IngestFirst, IngestLast, IngestInvalid, Assembled
  <1>8. Start \/ Stop \/ SaveStop \/ SaveAssign \/ (\E c \in Clients : Tune(c)) \/ UNCHANGED vars
        => UNCHANGED <<conn, clientLock>>
    BY DEF Start, Stop, SaveStop, SaveAssign, Tune, vars
  <1>. QED  BY <1>2, <1>3, <1>4, <1>6, <1>7, <1>8 DEF Next

\* Every step keeps the balance.
LEMMA BalanceStep ==
    ASSUME IInv, IInv', LockHeld, LockHeld', Balance, [Next]_vars
    PROVE  Balance'
  <1>1. /\ conn \in [Clients -> ConnState] /\ CountsType /\ QueueType /\ Len(queue) \in Nat
        /\ TypeOK /\ conn' \in [Clients -> ConnState]
    BY DEF IInv, TypeOK, CountsType, QueueType
  <1>2. CASE UNCHANGED <<counts, queue>> /\ InHand' = InHand
    BY <1>2 DEF Balance
  <1>3. ASSUME NEW s \in Sources, IngestSingle(s) \/ IngestFirst(s) \/ IngestLast(s) \/ IngestInvalid(s)
        PROVE  Balance'
    <2>1. CASE IngestSingle(s) \/ IngestLast(s)
      BY <2>1, OfferBalances DEF IngestSingle, IngestLast, Assembled
    <2>2. CASE IngestFirst(s) \/ IngestInvalid(s)
      BY <2>2, <1>2 DEF IngestFirst, IngestInvalid, shared, InHand
    <2>. QED  BY <1>3, <2>1, <2>2
  <1>4. CASE Start \/ Stop \/ SaveStop
    <2>1. Cleared /\ UNCHANGED conn
      BY <1>4 DEF Start, Stop, SaveStop, Stopped
    <2>. QED  BY <2>1, ClearBalances DEF InHand
  <1>5. CASE SaveAssign \/ (\E c \in Clients : Tune(c)) \/ UNCHANGED vars
    BY <1>2, <1>5 DEF SaveAssign, Tune, vars, shared, InHand
  <1>6. ASSUME NEW c \in Clients, Register(c) \/ Cleanup(c) PROVE Balance'
    <2>1. Cleared /\ conn[c].at # "count" /\ conn'[c].at # "count"
          /\ \A d \in Clients \ {c} : conn'[d] = conn[d]
      <3>1. CASE Register(c)
        <4>1. conn' = [conn EXCEPT ![c].at = "loop"] /\ conn[c].at = "register" /\ Cleared
          BY <3>1 DEF Register, Goto
        <4>. QED  BY <1>1, <4>1 DEF ConnState
      <3>2. CASE Cleanup(c)
        <4>1. conn' = [conn EXCEPT ![c].at = "release"] /\ conn[c].at = "cleanup" /\ Cleared
          BY <3>2 DEF Cleanup, Goto
        <4>. QED  BY <1>1, <4>1 DEF ConnState
      <3>. QED  BY <1>6, <3>1, <3>2
    <2>2. InHand' = InHand
      BY <2>1 DEF InHand
    <2>. QED  BY <2>1, <2>2, ClearBalances
  <1>7. ASSUME NEW c \in Clients,
               Connect(c) \/ Snapshot(c) \/ Check(c) \/ Send(c) \/ Leave(c) \/ ReleaseClient(c)
        PROVE  Balance'
    <2>1. UNCHANGED <<counts, queue>>
      BY <1>7 DEF Connect, Snapshot, Check, Send, Leave, ReleaseClient, shared
    <2>2. conn[c].at # "count" /\ conn'[c].at # "count" /\ \A d \in Clients \ {c} : conn'[d] = conn[d]
      <3>1. CASE Connect(c)
        BY <1>1, <3>1 DEF Connect, Goto, ConnState
      <3>2. CASE Snapshot(c)
        BY <1>1, <3>2 DEF Snapshot, ConnState
      <3>3. CASE Check(c)
        BY <1>1, <3>3 DEF Check, ConnState
      <3>4. CASE Send(c) \/ Leave(c)
        BY <1>1, <3>4 DEF Send, Leave, ConnState
      <3>5. CASE ReleaseClient(c)
        BY <1>1, <3>5 DEF ReleaseClient, NotConnected, ConnState
      <3>. QED  BY <1>7, <3>1, <3>2, <3>3, <3>4, <3>5
    <2>3. InHand' = InHand
      BY <2>2 DEF InHand
    <2>. QED  BY <1>2, <2>1, <2>3
  <1>8. ASSUME NEW c \in Clients, Take(c) PROVE Balance'
    <2>1. conn[c].at = "take" /\ clientLock = c /\ InHand = 0
      BY <1>8 DEF Take, LockHeld, InHand
    <2>2. CASE conn[c].left = 0 /\ conn[c].on /\ queue # <<>>
      <3>1. queue' = Tail(queue) /\ counts' = counts
            /\ \E n \in {0, Blocks} :
                 conn' = [conn EXCEPT ![c].at = "count", ![c].left = n, ![c].since = Head(queue)]
        BY <1>8, <2>2 DEF Take
      <3>2. conn'[c].at = "count"
        BY <1>1, <3>1 DEF ConnState
      <3>3. Len(queue') = Len(queue) - 1 /\ InHand' = 1
        BY <1>1, <2>2, <3>1, <3>2 DEF QueueType, InHand
      <3>4. counts.packets \in Nat /\ counts.dropped \in Nat /\ counts.modulated \in Nat
        BY <1>1 DEF CountsType
      <3>5. counts.packets = counts.dropped + counts.modulated + Len(queue) + 0
        BY <2>1 DEF Balance
      <3>6. Len(queue) \in Nat
        BY <1>1
      <3>7. counts.packets = counts.dropped + counts.modulated + Len(queue') + 1
        BY <3>3, <3>4, <3>5, <3>6
      <3>. QED  BY <3>1, <3>3, <3>7 DEF Balance
    <2>3. CASE ~(conn[c].left = 0 /\ conn[c].on /\ queue # <<>>)
      <3>1. queue' = queue /\ counts' = counts /\ Goto(c, "check")
        BY <1>8, <2>3 DEF Take
      <3>2. \A d \in Clients : conn'[d].at = "count" => conn[d].at = "count"
        BY <1>1, <3>1 DEF Goto
      <3>3. InHand' = 0
        BY <2>1, <3>2 DEF InHand
      <3>. QED  BY <2>1, <3>1, <3>3 DEF Balance
    <2>. QED  BY <2>2, <2>3
  <1>9. ASSUME NEW c \in Clients, Count(c) PROVE Balance'
    <2>1. conn[c].at = "count" /\ InHand = 1 /\ clientLock = c /\ queue' = queue
      BY <1>9 DEF Count, LockHeld, InHand, shared
    <2>2. InHand' = 0
      <3>1. \A d \in Clients : conn'[d].at # "count"
        BY <1>1, <1>9, <2>1 DEF Count, Goto, LockHeld
      <3>. QED  BY <3>1 DEF InHand
    <2>3. \/ counts' = [counts EXCEPT !.dropped = @ + 1]
          \/ counts' = [counts EXCEPT !.modulated = @ + 1]
      BY <1>9 DEF Count
    <2>4. counts'.packets = counts.packets /\ counts'.dropped + counts'.modulated = counts.dropped + counts.modulated + 1
      BY <1>1, <2>3 DEF CountsType
    <2>5. counts' \in [packets : Nat, dropped : Nat, modulated : Nat]
      BY DEF IInv, TypeOK
    <2>. QED  BY <1>1, <2>1, <2>2, <2>4, <2>5 DEF Balance, CountsType
  <1>. QED  BY <1>3, <1>4, <1>5, <1>6, <1>7, <1>8, <1>9 DEF Next, Handle

\* Every assembled packet is dropped, modulated, waiting or about to be
\* counted, whatever the sources, the page and the clients do (server.py:46-57).
THEOREM AllAccounted == Spec => []Accounted
  <1>1. Init => LockHeld /\ Balance
    <2> SUFFICES ASSUME Init PROVE LockHeld /\ Balance
      OBVIOUS
    <2>1. conn = [c \in Clients |-> NotConnected] /\ queue = <<>>
          /\ counts = [packets |-> 0, dropped |-> 0, modulated |-> 0]
      BY DEF Init
    <2>. QED  BY <2>1 DEF LockHeld, Balance, InHand, NotConnected
  <1>2. IInv /\ IInv' /\ (LockHeld /\ Balance) /\ [Next]_vars => (LockHeld /\ Balance)'
    BY LockStep, BalanceStep
  <1>3. LockHeld /\ Balance => Accounted
    BY OneInHand DEF Accounted, Balance
  <1>. QED  BY <1>1, <1>2, <1>3, Inductive, PTL DEF Spec

-----------------------------------------------------------------------------
\* The client the server knows of is in its loop or on its way out of it.
Registered == \A c \in Clients : client = c => conn[c].at \in Looping \cup {"cleanup"}

\* Every step keeps it so.
LEMMA NextKeepsRegistered ==
    ASSUME IInv, Registered, [Next]_vars
    PROVE  Registered'
  <1>1. conn \in [Clients -> ConnState] /\ client \in Clients \cup {None} /\ None \notin Clients
    BY IQTransmitAssumption DEF IInv, TypeOK, IQTransmitAssumption
  <1>2. CASE UNCHANGED <<client, conn>>
    BY <1>2 DEF Registered
  <1>3. ASSUME NEW d \in Clients, client' \in {client, None}, \A c \in Clients \ {d} : conn'[c] = conn[c],
               client' = d => conn'[d].at \in Looping \cup {"cleanup"}
        PROVE  Registered'
    BY <1>1, <1>3 DEF Registered
  <1>4. ASSUME NEW d \in Clients, Register(d) PROVE Registered'
    BY <1>1, <1>4 DEF Register, Goto, Registered, Looping
  <1>5. ASSUME NEW d \in Clients, Connect(d) \/ ReleaseClient(d) PROVE Registered'
    <2>1. client # d /\ client' = client /\ \A c \in Clients \ {d} : conn'[c] = conn[c]
      BY <1>1, <1>5 DEF Connect, ReleaseClient, Goto, Registered, Looping, shared
    <2>. QED  BY <1>3, <2>1
  <1>6. ASSUME NEW d \in Clients, Cleanup(d) PROVE Registered'
    <2>1. client' = None /\ \A c \in Clients \ {d} : conn'[c] = conn[c]
      BY <1>1, <1>6 DEF Cleanup, Goto
    <2>. QED  BY <1>1, <1>3, <2>1
  <1>7. ASSUME NEW d \in Clients, Snapshot(d) \/ Take(d) \/ Count(d) \/ Check(d) \/ Send(d) \/ Leave(d)
        PROVE  Registered'
    <2>1. client' = client
      BY <1>7 DEF Snapshot, Take, Count, Check, Send, Leave, shared
    <2>2. \A c \in Clients \ {d} : conn'[c] = conn[c]
      BY <1>1, <1>7 DEF Snapshot, Take, Count, Check, Send, Leave, Goto
    <2>3. conn'[d].at \in Looping \cup {"cleanup"}
      BY <1>1, <1>7 DEF Snapshot, Take, Count, Check, Send, Leave, Goto, ConnState, Looping
    <2>. QED  BY <1>3, <2>1, <2>2, <2>3
  <1>8. ASSUME NEW s \in Sources, IngestSingle(s) \/ IngestFirst(s) \/ IngestLast(s) \/ IngestInvalid(s)
        PROVE  UNCHANGED <<client, conn>>
    BY <1>8 DEF IngestSingle, IngestFirst, IngestLast, IngestInvalid, Assembled, shared
  <1>9. Start \/ Stop \/ SaveStop \/ SaveAssign \/ (\E c \in Clients : Tune(c)) \/ UNCHANGED vars
        => UNCHANGED <<client, conn>>
    BY DEF Start, Stop, SaveStop, SaveAssign, Tune, vars, shared
  <1>. QED  BY <1>2, <1>4, <1>5, <1>6, <1>7, <1>8, <1>9 DEF Next, Handle

\* The bound, from the state of the handler.
DueOf(x) ==
    StepsOfPass[x.at] + 4 * (IF x.at \in {"count", "check"} /\ x.left > 0 THEN x.left - 1
                             ELSE IF x.at = "take" /\ x.left = 0 /\ ~x.on THEN 1
                             ELSE x.left)

\* What it is at each place of the loop.
LEMMA DueIs ==
    ASSUME NEW x \in ConnState, Blocks \in Nat
    PROVE  LET later == IF x.left > 0 THEN x.left - 1 ELSE 0 IN
           /\ x.left \in Nat
           /\ x.at = "loop" => DueOf(x) = 2 + 4 * x.left
           /\ x.at = "take" => DueOf(x) = IF x.left = 0 /\ ~x.on THEN 5 ELSE 1 + 4 * x.left
           /\ x.at = "count" => DueOf(x) = 5 + 4 * later
           /\ x.at = "check" => DueOf(x) = 4 + 4 * later
           /\ x.at = "send" => DueOf(x) = 3 + 4 * x.left
           /\ x.at = "cleanup" => DueOf(x) = 4 * x.left
  BY DEF ConnState, DueOf, StepsOfPass

\* Each step of the handler takes the first packet, comes nearer to it, or
\* empties the queue.
LEMMA HandlerServes ==
    ASSUME IInv, Registered, queue # <<>>, client # None, Handle(client)
    PROVE  \/ queue' = <<>>
           \/ queue' = Tail(queue)
           \/ queue' = queue /\ client' = client /\ Due(client)' <= Due(client) /\ Due(client)' < Due(client)
  <1> DEFINE c == client
             x == conn[c]
             y == conn'[c]
  <1>1. /\ conn \in [Clients -> ConnState] /\ c \in Clients /\ x \in ConnState /\ Blocks \in Nat
        /\ enabled /\ x.at \in Looping \cup {"cleanup"}
    BY IQTransmitAssumption DEF IInv, TypeOK, QueueIsCurrent, Registered, IQTransmitAssumption
  <1>2. y \in ConnState
    BY <1>1, HandlerKeepsIInv DEF IInv, TypeOK
  <1>3. ASSUME client' = client, queue' = queue, DueOf(y) <= DueOf(x), DueOf(y) < DueOf(x)
        PROVE  queue' = queue /\ client' = client /\ Due(client)' <= Due(client) /\ Due(client)' < Due(client)
    <2>1. Due(client) = DueOf(x) /\ Due(client)' = DueOf(y)
      BY <1>3 DEF Due, Passes, DueOf, StepsOfPass
    <2>. QED  BY <1>3, <2>1
  <1>4. CASE Register(c) \/ Cleanup(c)
    BY <1>4 DEF Register, Cleanup, Cleared
  <1>5. CASE Snapshot(c)
    <2>1. x.at = "loop" /\ y.at = "take" /\ y.on /\ y.left \in {x.left, 0}
      BY <1>1, <1>5 DEF Snapshot, ConnState
    <2>2. client' = client /\ queue' = queue
      BY <1>5 DEF Snapshot, shared
    <2>3. DueOf(x) = 2 + 4 * x.left /\ DueOf(y) = 1 + 4 * y.left /\ x.left \in Nat
      BY <1>1, <1>2, <2>1, DueIs
    <2>. QED  BY <1>3, <2>1, <2>2, <2>3
  <1>6. CASE Take(c)
    <2>1. x.at = "take" /\ client' = client
      BY <1>6 DEF Take
    <2>2. CASE x.left = 0 /\ x.on
      BY <1>6, <2>2 DEF Take
    <2>3. CASE ~(x.left = 0 /\ x.on)
      <3>1. queue' = queue /\ y.at = "check" /\ y.left = x.left
        BY <1>1, <1>6, <2>3 DEF Take, Goto, ConnState
      <3>2. /\ x.left \in Nat /\ DueOf(x) = (IF x.left = 0 /\ ~x.on THEN 5 ELSE 1 + 4 * x.left)
            /\ DueOf(y) = 4 + 4 * (IF x.left > 0 THEN x.left - 1 ELSE 0)
        BY <1>1, <1>2, <2>1, <3>1, DueIs
      <3>3. CASE x.left = 0
        BY <1>3, <2>1, <2>3, <3>1, <3>2, <3>3
      <3>4. CASE x.left # 0
        BY <1>3, <2>1, <3>1, <3>2, <3>4
      <3>. QED  BY <3>3, <3>4
    <2>. QED  BY <2>2, <2>3
  <1>7. CASE Count(c)
    <2>1. x.at = "count" /\ y.at = "check" /\ y.left = x.left /\ client' = client /\ queue' = queue
      BY <1>1, <1>7 DEF Count, Goto, ConnState, shared
    <2>2. /\ DueOf(x) = 5 + 4 * (IF x.left > 0 THEN x.left - 1 ELSE 0) /\ x.left \in Nat
          /\ DueOf(y) = 4 + 4 * (IF x.left > 0 THEN x.left - 1 ELSE 0)
      BY <1>1, <1>2, <2>1, DueIs
    <2>. QED  BY <1>3, <2>1, <2>2
  <1>8. CASE Check(c)
    <2>1. /\ x.at = "check" /\ y.at = "send" /\ y.left = (IF x.left = 0 THEN 0 ELSE x.left - 1)
          /\ client' = client /\ queue' = queue
      BY <1>1, <1>8 DEF Check, ConnState, shared
    <2>2. /\ DueOf(x) = 4 + 4 * (IF x.left > 0 THEN x.left - 1 ELSE 0) /\ x.left \in Nat
          /\ DueOf(y) = 3 + 4 * y.left
      BY <1>1, <1>2, <2>1, DueIs
    <2>. QED  BY <1>3, <2>1, <2>2
  <1>9. CASE Send(c)
    <2>1. x.at = "send" /\ y.at = "loop" /\ y.left = x.left /\ client' = client /\ queue' = queue
      BY <1>1, <1>9 DEF Send, ConnState, shared
    <2>2. DueOf(x) = 3 + 4 * x.left /\ DueOf(y) = 2 + 4 * x.left /\ x.left \in Nat
      BY <1>1, <1>2, <2>1, DueIs
    <2>. QED  BY <1>3, <2>1, <2>2
  <1>10. ~ReleaseClient(c)
    BY <1>1 DEF ReleaseClient, Looping
  <1>. QED  BY <1>4, <1>5, <1>6, <1>7, <1>8, <1>9, <1>10 DEF Handle

\* Nobody else takes a packet from the queue or delays the handler.
LEMMA OthersDoNotDelay ==
    ASSUME IInv, LockHeld, Registered, queue # <<>>, client # None, [Next]_vars, ~Handle(client)
    PROVE  \/ queue' = <<>>
           \/ /\ queue' \in {queue, Append(queue, session)} /\ client' = client
              /\ Due(client)' <= Due(client)
  <1> DEFINE c == client
             x == conn[c]
             y == conn'[c]
  <1>1. /\ conn \in [Clients -> ConnState] /\ c \in Clients /\ x \in ConnState /\ Blocks \in Nat
        /\ x.at \in Looping \cup {"cleanup"} /\ clientLock = c /\ None \notin Clients
        /\ \A d \in Clients : conn[d].at # "idle" => d = c
    BY IQTransmitAssumption DEF IInv, TypeOK, Registered, LockHeld, Looping, IQTransmitAssumption
  <1>2. ASSUME client' = client, y = x PROVE Due(client)' <= Due(client)
    <2>1. Due(client) = DueOf(x) /\ Due(client)' = DueOf(x)
      BY <1>2 DEF Due, Passes, DueOf, StepsOfPass
    <2>2. DueOf(x) \in Int
      BY <1>1, DueIs DEF Looping
    <2>. QED  BY <2>1, <2>2
  <1>3. ASSUME NEW s \in Sources, IngestSingle(s) \/ IngestFirst(s) \/ IngestLast(s) \/ IngestInvalid(s)
        PROVE  queue' \in {queue, Append(queue, session)} /\ client' = client /\ y = x
    BY <1>3 DEF IngestSingle, IngestFirst, IngestLast, IngestInvalid, Assembled, Offer, IInv, PartsCurrent, shared
  <1>4. CASE Start \/ Stop \/ SaveStop
    BY <1>4 DEF Start, Stop, SaveStop, Stopped, Cleared
  <1>5. SaveAssign \/ (\E d \in Clients : Tune(d)) \/ UNCHANGED vars
        => queue' = queue /\ client' = client /\ y = x
    BY DEF SaveAssign, Tune, vars, shared
  <1>6. ASSUME NEW d \in Clients, Connect(d) PROVE FALSE
    BY <1>1, <1>6 DEF Connect
  <1>7. ASSUME NEW d \in Clients, Handle(d) PROVE FALSE
    <2>1. conn[d].at # "idle"
      BY <1>7 DEF Handle, Register, Snapshot, Take, Count, Check, Send, Cleanup, ReleaseClient
    <2>. QED  BY <1>1, <1>7, <2>1
  <1>8. ASSUME NEW d \in Clients, Leave(d)
        PROVE  queue' = queue /\ client' = client /\ Due(client)' <= Due(client)
    <2>1. d = c
      BY <1>1, <1>8 DEF Leave
    <2>2. /\ x.at \in {"loop", "send"} /\ y \in ConnState /\ y.at = "cleanup" /\ y.left = x.left
          /\ client' = client /\ queue' = queue
      BY <1>1, <1>8, <2>1 DEF Leave, ConnState, shared
    <2>3. DueOf(x) \in {2 + 4 * x.left, 3 + 4 * x.left} /\ DueOf(y) = 4 * x.left /\ x.left \in Nat
      BY <1>1, <2>2, DueIs
    <2>4. Due(client) = DueOf(x) /\ Due(client)' = DueOf(y)
      BY <2>2 DEF Due, Passes, DueOf, StepsOfPass
    <2>. QED  BY <2>2, <2>3, <2>4
  <1>. QED  BY <1>2, <1>3, <1>4, <1>5, <1>6, <1>7, <1>8 DEF Next

\* The packet at the head of the queue is the next to leave it, and each step
\* of the handler takes it or brings it nearer to being taken.
THEOREM HeadAlwaysServed == Spec => HeadIsServed
  <1>1. Init => LockHeld /\ Registered
    BY IQTransmitAssumption DEF Init, LockHeld, Registered, NotConnected, IQTransmitAssumption
  <1>2. IInv /\ (LockHeld /\ Registered) /\ [Next]_vars => (LockHeld /\ Registered)'
    BY LockStep, NextKeepsRegistered
  <1>3. IInv /\ Registered => (queue # <<>> => client # None /\ conn[client].at \in Looping \cup {"cleanup"})
    BY DEF IInv, QueueIsCurrent, TypeOK, Registered
  <1> DEFINE Served ==
        queue # <<>> =>
            \/ queue' = <<>>
            \/ Handle(client) /\ queue' = Tail(queue)
            \/ /\ queue' \in {queue, Append(queue, session)} /\ client' = client
               /\ Due(client)' <= Due(client)
               /\ Handle(client) => Due(client)' < Due(client)
  <1>4. IInv /\ IInv' /\ (LockHeld /\ Registered) /\ (LockHeld /\ Registered)' /\ [Next]_vars => [Served]_vars
    <2> SUFFICES ASSUME IInv, LockHeld, Registered, Next, queue # <<>> PROVE Served
      BY DEF Served
    <2>1. client # None
      BY DEF IInv, QueueIsCurrent
    <2>2. CASE Handle(client)
      <3>1. \/ queue' = <<>>
            \/ queue' = Tail(queue)
            \/ queue' = queue /\ client' = client /\ Due(client)' <= Due(client) /\ Due(client)' < Due(client)
        BY <2>1, <2>2, HandlerServes
      <3>. QED  BY <2>2, <3>1
    <2>3. CASE ~Handle(client)
      BY <2>1, <2>3, OthersDoNotDelay
    <2>. QED  BY <2>2, <2>3
  <1>. QED  BY <1>1, <1>2, <1>3, <1>4, Inductive, PTL DEF Spec, HeadIsServed

=============================================================================
