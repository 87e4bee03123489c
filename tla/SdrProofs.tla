------------------------------ MODULE SdrProofs ------------------------------
(* The SDR receiver for any destinations, requests, settings and bounds: no  *)
(* sentence is lost uncounted or carried over to a later connection, there   *)
(* is one subprocess, and it runs with the settings that were saved.         *)
EXTENDS Sdr, SequenceTheorems, TLAPS

\* Sequences of queued sentences after their marks have changed.
LEMMA Marked ==
    ASSUME NEW q \in Seq(Item), NEW r, DOMAIN r = DOMAIN q, \A i \in DOMAIN q : r[i] \in Item,
           r = [i \in DOMAIN q |-> r[i]]
    PROVE  r \in Seq(Item) /\ Len(r) = Len(q)
<1>1. DOMAIN q = 1..Len(q) /\ Len(q) \in Nat
  OBVIOUS
<1> QED
  BY <1>1

\* Taking the first sentence of a queue.
LEMMA Shorter ==
    ASSUME NEW q \in Seq(Item), q # <<>>
    PROVE  /\ Tail(q) \in Seq(Item) /\ Len(q) = Len(Tail(q)) + 1 /\ Head(q) \in Item /\ Head(q) = q[1]
           /\ 1 \in DOMAIN q
           /\ DOMAIN Tail(q) = 1..Len(Tail(q)) /\ \A i \in DOMAIN Tail(q) : Tail(q)[i] = q[i + 1] /\ i + 1 \in DOMAIN q
<1>1. Len(q) \in Nat /\ Len(q) # 0 /\ DOMAIN q = 1..Len(q)
  OBVIOUS
<1>2. Tail(q) \in Seq(Item) /\ Len(Tail(q)) = Len(q) - 1 /\ Head(q) = q[1]
  BY <1>1
<1> QED
  BY <1>1, <1>2

\* What the queue and the hand of a destination hold in each phase; no
\* destination is being closed when no configure() is at work.
InHand == \A o \in Outs : Len(hand[o]) = IF phase[o] = "sending" THEN 1 ELSE 0
Current == \A o \in Outs : phase[o] # "clear" => \A i \in DOMAIN queue[o] : queue[o][i].current
Reconfiguring == cfg.busy \/ (cfg.todo = {} /\ cfg.on = None)
RouterInv == /\ DestinationTypeOK /\ Reconfiguring /\ InHand /\ Current
             /\ NoCarryOver /\ OfferedAccounted /\ ReplacedAreSilent

\* The router starts with empty queues and hands.
LEMMA InitRouter == DestinationInit => RouterInv
<1> SUFFICES ASSUME DestinationInit PROVE RouterInv
  OBVIOUS
<1>1. DestinationTypeOK
  BY DestinationAssumption DEF DestinationInit, DestinationTypeOK, DestinationAssumption, Phases,
     IngestIdle, CfgIdle, None
<1>2. Reconfiguring /\ InHand /\ Current /\ NoCarryOver /\ ReplacedAreSilent
  BY DEF DestinationInit, Reconfiguring, CfgIdle, InHand, Current, NoCarryOver, ReplacedAreSilent
<1>3. OfferedAccounted
  BY DEF DestinationInit, OfferedAccounted
<1> QED
  BY <1>1, <1>2, <1>3 DEF RouterInv

\* Steps of the thread that leave queue, hand and counters alone.
LEMMA MovesKeep ==
    ASSUME RouterInv, NEW o \in Outs,
           ConnectFails(o) \/ Cleared(o) \/ Loop(o) \/ GetEmpty(o) \/ Lost(o) \/ Purged(o) \/ Resume(o)
    PROVE  RouterInv'
<1>1. /\ UNCHANGED <<hand, queue, count, router>>
      /\ \E to \in Phases \ {"sending", "clear", "unborn"} :
            /\ phase' = [phase EXCEPT ![o] = to] /\ (to = "get" => ~stop[o])
      /\ phase[o] # "sending" /\ (phase[o] = "clear" => queue[o] = <<>>)
      /\ connected' \in [Outs -> BOOLEAN]
  <2>1. connected \in [Outs -> BOOLEAN] /\ stop \in [Outs -> BOOLEAN]
    BY DEF RouterInv, DestinationTypeOK
  <2>2. CASE ConnectFails(o) \/ GetEmpty(o) \/ Purged(o) \/ Resume(o)
    BY <2>1, <2>2 DEF ConnectFails, GetEmpty, Purged, Resume, Go, Phases
  <2>3. CASE Cleared(o)
    <3>1. connected' \in [Outs -> BOOLEAN]
      BY <2>1, <2>3 DEF Cleared
    <3>3. "top" \in Phases \ {"sending", "clear", "unborn"} /\ "top" # "get"
      BY DEF Phases
    <3>2. phase' = [phase EXCEPT ![o] = "top"] /\ UNCHANGED <<hand, queue, count, router>>
          /\ phase[o] # "sending" /\ (phase[o] = "clear" => queue[o] = <<>>)
      BY <2>3 DEF Cleared, Go
    <3> QED
      BY <3>1, <3>2, <3>3, Zenon
  <2>4. CASE Loop(o)
    <3>1. connected' \in [Outs -> BOOLEAN]
      BY <2>1, <2>4 DEF Loop
    <3>2. phase' = [phase EXCEPT ![o] = IF stop[o] THEN "lost" ELSE "get"] /\ UNCHANGED <<hand, queue, count, router>>
          /\ phase[o] # "sending" /\ (phase[o] = "clear" => queue[o] = <<>>)
      BY <2>4 DEF Loop, Go
    <3>3. "lost" \in Phases \ {"sending", "clear", "unborn"} /\ "lost" # "get"
          /\ "get" \in Phases \ {"sending", "clear", "unborn"}
      BY DEF Phases
    <3>4. CASE stop[o]
      BY <3>1, <3>2, <3>3, <3>4, Zenon
    <3>5. CASE ~stop[o]
      BY <3>1, <3>2, <3>3, <3>5, Zenon
    <3> QED
      BY <3>4, <3>5
  <2>5. CASE Lost(o)
    <3>1. connected' \in [Outs -> BOOLEAN]
      BY <2>1, <2>5 DEF Lost
    <3>3. "purge" \in Phases \ {"sending", "clear", "unborn"} /\ "purge" # "get"
      BY DEF Phases
    <3>2. phase' = [phase EXCEPT ![o] = "purge"] /\ UNCHANGED <<hand, queue, count, router>>
          /\ phase[o] # "sending" /\ (phase[o] = "clear" => queue[o] = <<>>)
      BY <2>5 DEF Lost, Go
    <3> QED
      BY <3>1, <3>2, <3>3, Zenon
  <2> QED
    BY <2>2, <2>3, <2>4, <2>5
<1>2. UNCHANGED <<outputs, stop, received, offering, cfg>>
  BY <1>1 DEF router
<1>3. PICK to \in Phases \ {"sending", "clear", "unborn"} :
          phase' = [phase EXCEPT ![o] = to] /\ (to = "get" => ~stop[o])
  BY <1>1
<1>4. phase \in [Outs -> Phases]
  BY DEF RouterInv, DestinationTypeOK
<1>5. DestinationTypeOK'
  BY <1>1, <1>2, <1>3, <1>4 DEF RouterInv, DestinationTypeOK
<1>6. InHand' /\ NoCarryOver'
  BY <1>1, <1>3, <1>4 DEF RouterInv, InHand, NoCarryOver
<1>7. Current'
  BY <1>1, <1>3, <1>4 DEF RouterInv, Current
<1>8. OfferedAccounted'
  BY <1>1 DEF RouterInv, OfferedAccounted
<1>9. ReplacedAreSilent' /\ Reconfiguring'
  BY <1>1, <1>2, <1>3, <1>4 DEF RouterInv, Reconfiguring, ReplacedAreSilent, InHand
<1> QED
  BY <1>5, <1>6, <1>7, <1>8, <1>9 DEF RouterInv

\* A connection is made: what is queued no longer belongs to it.
LEMMA ConnectKeeps == ASSUME RouterInv, NEW o \in Outs, Connect(o) PROVE RouterInv'
<1> DEFINE old == queue[o]
           new == [i \in DOMAIN old |-> [old[i] EXCEPT !.current = FALSE]]
<1>1. /\ phase[o] = "connecting" /\ phase' = [phase EXCEPT ![o] = "clear"]
      /\ UNCHANGED <<connected, hand, count, router>> /\ queue' = [queue EXCEPT ![o] = new]
  BY DEF Connect, Go
<1>2. UNCHANGED <<outputs, stop, received, offering, cfg>>
  BY <1>1 DEF router
<1>3. phase \in [Outs -> Phases] /\ queue \in [Outs -> Seq(Item)] /\ Len(old) <= Capacity
  BY DEF RouterInv, DestinationTypeOK
<1>4. new \in Seq(Item) /\ Len(new) = Len(old)
  <2>1. old \in Seq(Item) /\ \A i \in DOMAIN old : old[i] \in Item
    BY <1>3
  <2>2. \A i \in DOMAIN old : new[i] \in Item
    BY <2>1 DEF Item
  <2> HIDE DEF old
  <2> QED
    BY <2>1, <2>2, Marked
<1> HIDE DEF new
<1>5. DestinationTypeOK'
  BY <1>1, <1>2, <1>3, <1>4 DEF RouterInv, DestinationTypeOK, Phases
<1>6. InHand' /\ NoCarryOver' /\ Current'
  BY <1>1, <1>3 DEF RouterInv, InHand, NoCarryOver, Current
<1>7. OfferedAccounted'
  BY <1>1, <1>3, <1>4 DEF RouterInv, OfferedAccounted
<1>8. ReplacedAreSilent' /\ Reconfiguring'
  BY <1>1, <1>2, <1>3 DEF RouterInv, Reconfiguring, ReplacedAreSilent
<1> QED
  BY <1>5, <1>6, <1>7, <1>8 DEF RouterInv

\* A queued sentence is dropped, or taken to be sent.
LEMMA TakesKeep ==
    ASSUME RouterInv, NEW o \in Outs, ClearOne(o) \/ GetStale(o) \/ Get(o) PROVE RouterInv'
<1>1. /\ queue[o] # <<>> /\ queue' = [queue EXCEPT ![o] = Tail(@)] /\ UNCHANGED <<connected, router>>
      /\ phase[o] \in {"clear", "purge", "get"}
      /\ \/ /\ count' = [count EXCEPT ![o]["dropped"] = @ + 1] /\ UNCHANGED hand
            /\ phase' = [phase EXCEPT ![o] = IF phase[o] = "get" THEN "top" ELSE phase[o]]
         \/ /\ hand' = [hand EXCEPT ![o] = <<Head(queue[o])>>] /\ UNCHANGED count
            /\ phase[o] = "get" /\ phase' = [phase EXCEPT ![o] = "sending"]
  <2>1. phase = [phase EXCEPT ![o] = phase[o]]
    BY DEF RouterInv, DestinationTypeOK
  <2>2. CASE ClearOne(o)
    BY <2>1, <2>2 DEF ClearOne, Taken, Counted, thread
  <2>3. CASE GetStale(o)
    BY <2>3 DEF GetStale, Taken, Counted, Go
  <2>4. CASE Get(o)
    BY <2>4 DEF Get, Taken, Go
  <2> QED
    BY <2>2, <2>3, <2>4
<1>2. UNCHANGED <<outputs, stop, received, offering, cfg>>
  BY <1>1 DEF router
<1>3. /\ phase \in [Outs -> Phases] /\ queue \in [Outs -> Seq(Item)] /\ hand \in [Outs -> Seq(Item)]
      /\ count \in [Outs -> [sent : Nat, dropped : Nat, offered : Nat]]
      /\ Len(queue[o]) <= Capacity /\ queue[o] \in Seq(Item) /\ Capacity \in Nat
  BY DestinationAssumption DEF RouterInv, DestinationTypeOK, DestinationAssumption
<1> DEFINE old == queue[o]
           new == Tail(old)
<1>4. /\ new \in Seq(Item) /\ Len(old) = Len(new) + 1 /\ Len(new) \in Nat /\ Head(old) \in Item
      /\ Head(old) = old[1] /\ 1 \in DOMAIN old
      /\ \A i \in DOMAIN new : new[i] = old[i + 1] /\ i + 1 \in DOMAIN old
  BY <1>1, <1>3, Shorter
<1>5. queue' = [queue EXCEPT ![o] = new] /\ Head(queue[o]) = Head(old) /\ Len(queue[o]) = Len(old)
      /\ (phase[o] # "clear" => \A i \in DOMAIN old : old[i].current)
  BY <1>1 DEF RouterInv, Current
<1>6. Len(hand[o]) = 0 /\ hand[o] = <<>>
  BY <1>1, <1>3 DEF RouterInv, InHand
<1> HIDE DEF old, new
<1>7. queue' \in [Outs -> Seq(Item)] /\ \A p \in Outs : Len(queue'[p]) <= Capacity
  BY <1>3, <1>4, <1>5 DEF RouterInv, DestinationTypeOK
<1>8. Current'
  <2> SUFFICES ASSUME NEW p \in Outs, phase'[p] # "clear", NEW i \in DOMAIN queue'[p]
               PROVE  queue'[p][i].current
    BY DEF Current
  <2>1. CASE p = o
    BY <1>1, <1>3, <1>4, <1>5, <2>1
  <2>2. CASE p # o
    BY <1>1, <1>3, <1>5, <2>2 DEF RouterInv, Current
  <2> QED
    BY <2>1, <2>2
<1>9. CASE /\ count' = [count EXCEPT ![o]["dropped"] = @ + 1] /\ UNCHANGED hand
           /\ phase' = [phase EXCEPT ![o] = IF phase[o] = "get" THEN "top" ELSE phase[o]]
  <2>1. DestinationTypeOK'
    <3>1. phase' \in [Outs -> Phases]
      BY <1>3, <1>9 DEF Phases
    <3>2. count' \in [Outs -> [sent : Nat, dropped : Nat, offered : Nat]]
      <4>1. count[o].dropped + 1 \in Nat /\ count[o] \in [sent : Nat, dropped : Nat, offered : Nat]
        BY <1>3
      <4>2. [count[o] EXCEPT !["dropped"] = @ + 1] \in [sent : Nat, dropped : Nat, offered : Nat]
        BY <4>1
      <4> QED
        BY <1>3, <1>9, <4>2
    <3> QED
      BY <1>1, <1>2, <1>7, <1>9, <3>1, <3>2 DEF RouterInv, DestinationTypeOK
  <2>2. InHand' /\ NoCarryOver'
    BY <1>1, <1>3, <1>9 DEF RouterInv, InHand, NoCarryOver
  <2>3. OfferedAccounted'
    <3>1. \A p \in Outs : p # o => count'[p] = count[p] /\ queue'[p] = queue[p]
      BY <1>3, <1>5, <1>9
    <3>2. /\ count'[o].dropped = count[o].dropped + 1 /\ count'[o].sent = count[o].sent
          /\ count'[o].offered = count[o].offered /\ queue'[o] = new
      BY <1>3, <1>5, <1>9
    <3>3. count[o].offered = count[o].sent + count[o].dropped + Len(old) + Len(hand[o])
      BY <1>5 DEF RouterInv, OfferedAccounted
    <3>4. count[o].sent \in Nat /\ count[o].dropped \in Nat
      BY <1>3
    <3>5. count'[o].offered = count'[o].sent + count'[o].dropped + Len(queue'[o]) + Len(hand'[o])
      <4>1. count[o].offered = count[o].sent + count[o].dropped + (Len(new) + 1) + 0
        BY <1>4, <1>6, <3>3
      <4>2. count[o].offered = count[o].sent + (count[o].dropped + 1) + Len(new) + 0
        <5>1. Len(new) \in Nat /\ 0 \in Nat
          BY <1>4
        <5> QED
          BY <3>4, <4>1, <5>1
      <4> QED
        BY <1>6, <1>9, <3>2, <4>2
    <3> QED
      BY <1>9, <3>1, <3>5 DEF RouterInv, OfferedAccounted
  <2>4. ReplacedAreSilent' /\ Reconfiguring'
    BY <1>1, <1>2, <1>3, <1>9 DEF RouterInv, Reconfiguring, ReplacedAreSilent
  <2> QED
    BY <1>8, <2>1, <2>2, <2>3, <2>4 DEF RouterInv
<1>10. CASE /\ hand' = [hand EXCEPT ![o] = <<Head(queue[o])>>] /\ UNCHANGED count
            /\ phase[o] = "get" /\ phase' = [phase EXCEPT ![o] = "sending"]
  <2>0. <<Head(old)>> \in Seq(Item) /\ Len(<<Head(old)>>) = 1 /\ <<Head(old)>>[1] = Head(old)
        /\ DOMAIN <<Head(old)>> = {1}
    BY <1>4
  <2>1. DestinationTypeOK'
    <3>1. phase' \in [Outs -> Phases]
      BY <1>3, <1>10 DEF Phases
    <3>2. hand' \in [Outs -> Seq(Item)] /\ \A p \in Outs : Len(hand'[p]) <= 1
      BY <1>3, <1>5, <1>10, <2>0 DEF RouterInv, DestinationTypeOK
    <3> QED
      BY <1>1, <1>2, <1>7, <1>10, <3>1, <3>2 DEF RouterInv, DestinationTypeOK
  <2>2. InHand'
    BY <1>1, <1>3, <1>5, <1>10, <2>0 DEF RouterInv, InHand
  <2>5. NoCarryOver'
    BY <1>1, <1>3, <1>4, <1>5, <1>10, <2>0 DEF RouterInv, NoCarryOver
  <2>3. OfferedAccounted'
    <3>1. \A p \in Outs : p # o => hand'[p] = hand[p] /\ queue'[p] = queue[p]
      BY <1>3, <1>5, <1>10
    <3>2. queue'[o] = new /\ Len(hand'[o]) = 1 /\ count' = count
      BY <1>3, <1>5, <1>10, <2>0
    <3>3. count[o].offered = count[o].sent + count[o].dropped + Len(old) + Len(hand[o])
      BY <1>5 DEF RouterInv, OfferedAccounted
    <3>4. count[o].sent \in Nat /\ count[o].dropped \in Nat
      BY <1>3
    <3>5. count'[o].offered = count'[o].sent + count'[o].dropped + Len(queue'[o]) + Len(hand'[o])
      <4>1. count[o].offered = count[o].sent + count[o].dropped + (Len(new) + 1) + 0
        BY <1>4, <1>6, <3>3
      <4>2. count[o].offered = count[o].sent + count[o].dropped + Len(new) + (0 + 1)
        <5>1. Len(new) \in Nat /\ 0 \in Nat
          BY <1>4
        <5> QED
          BY <3>4, <4>1, <5>1
      <4> QED
        BY <3>2, <4>2
    <3> QED
      BY <3>1, <3>2, <3>5 DEF RouterInv, OfferedAccounted
  <2>4. ReplacedAreSilent' /\ Reconfiguring'
    BY <1>1, <1>2, <1>3, <1>10 DEF RouterInv, Reconfiguring, ReplacedAreSilent
  <2> QED
    BY <1>8, <2>1, <2>2, <2>3, <2>4, <2>5 DEF RouterInv
<1> QED
  BY <1>1, <1>9, <1>10

\* The sending ends, well or not.
LEMMA SentKeeps == ASSUME RouterInv, NEW o \in Outs, Sent(o) PROVE RouterInv'
<1>1. /\ phase[o] = "sending" /\ hand' = [hand EXCEPT ![o] = <<>>]
      /\ UNCHANGED <<connected, queue, router>>
      /\ \E to \in {"top", "lost"}, field \in {"sent", "dropped"} :
            phase' = [phase EXCEPT ![o] = to] /\ count' = [count EXCEPT ![o][field] = @ + 1]
  BY DEF Sent, Go, Counted
<1>2. UNCHANGED <<outputs, stop, received, offering, cfg>>
  BY <1>1 DEF router
<1>3. PICK to \in {"top", "lost"}, field \in {"sent", "dropped"} :
          phase' = [phase EXCEPT ![o] = to] /\ count' = [count EXCEPT ![o][field] = @ + 1]
  BY <1>1
<1>4. /\ phase \in [Outs -> Phases] /\ queue \in [Outs -> Seq(Item)] /\ hand \in [Outs -> Seq(Item)]
      /\ count \in [Outs -> [sent : Nat, dropped : Nat, offered : Nat]]
  BY DEF RouterInv, DestinationTypeOK
<1>5. \A p \in Outs : p # o => count'[p] = count[p] /\ hand'[p] = hand[p] /\ phase'[p] = phase[p]
  BY <1>1, <1>3, <1>4
<1>6. hand'[o] = <<>> /\ Len(hand[o]) = 1 /\ phase'[o] \in {"top", "lost"}
  BY <1>1, <1>3, <1>4 DEF RouterInv, InHand
<1>7. /\ count'[o].offered = count[o].offered
      /\ count'[o].sent + count'[o].dropped = count[o].sent + count[o].dropped + 1
      /\ count'[o] \in [sent : Nat, dropped : Nat, offered : Nat]
  <2>1. count[o] \in [sent : Nat, dropped : Nat, offered : Nat]
    BY <1>4
  <2>2. count'[o] = [count[o] EXCEPT ![field] = @ + 1]
    BY <1>3, <1>4
  <2>3. count[o].sent \in Nat /\ count[o].dropped \in Nat /\ count[o].offered \in Nat
    BY <2>1
  <2>4. CASE field = "sent"
    <3>1. count'[o] = [count[o] EXCEPT !.sent = @ + 1]
      BY <2>2, <2>4
    <3> QED
      BY <2>1, <2>3, <3>1
  <2>5. CASE field = "dropped"
    <3>1. count'[o] = [count[o] EXCEPT !.dropped = @ + 1]
      BY <2>2, <2>5
    <3> QED
      BY <2>1, <2>3, <3>1
  <2> QED
    BY <2>4, <2>5
<1>8. count' \in [Outs -> [sent : Nat, dropped : Nat, offered : Nat]] /\ hand' \in [Outs -> Seq(Item)]
  BY <1>1, <1>3, <1>4, <1>5, <1>7
<1>9. DestinationTypeOK'
  <2>1. phase' \in [Outs -> Phases]
    BY <1>3, <1>4 DEF Phases
  <2>2. \A p \in Outs : Len(hand'[p]) <= 1
    <3>1. Len(<<>>) = 0 /\ \A p \in Outs : Len(hand[p]) <= 1
      BY DEF RouterInv, DestinationTypeOK
    <3> QED
      BY <1>5, <1>6, <3>1
  <2> QED
    BY <1>1, <1>2, <1>8, <2>1, <2>2 DEF RouterInv, DestinationTypeOK
<1>10. InHand' /\ NoCarryOver' /\ Current'
  BY <1>1, <1>5, <1>6 DEF RouterInv, InHand, NoCarryOver, Current
<1>11. OfferedAccounted'
  <2>1. count[o].offered = count[o].sent + count[o].dropped + Len(queue[o]) + Len(hand[o])
    BY DEF RouterInv, OfferedAccounted
  <2>2. Len(queue[o]) \in Nat /\ count[o].sent \in Nat /\ count[o].dropped \in Nat
        /\ count'[o].sent \in Nat /\ count'[o].dropped \in Nat
    BY <1>4, <1>7
  <2>3. count'[o].offered = count'[o].sent + count'[o].dropped + Len(queue'[o]) + Len(hand'[o])
    <3>1. count'[o].offered = (count'[o].sent + count'[o].dropped) + Len(queue[o])
      BY <1>6, <1>7, <2>1, <2>2
    <3> QED
      BY <1>1, <1>6, <2>2, <3>1
  <2> QED
    BY <1>1, <1>5, <2>3 DEF RouterInv, OfferedAccounted
<1>12. ReplacedAreSilent' /\ Reconfiguring'
  BY <1>2, <1>5, <1>6 DEF RouterInv, Reconfiguring, ReplacedAreSilent
<1> QED
  BY <1>9, <1>10, <1>11, <1>12 DEF RouterInv

\* Two seconds pass: sentences grow stale.
LEMMA AgeKeeps == ASSUME RouterInv, Age PROVE RouterInv'
<1> DEFINE aged(o) == [i \in DOMAIN queue[o] |-> [queue[o][i] EXCEPT !.fresh = FALSE]]
<1>1. queue' = [o \in Outs |-> aged(o)] /\ UNCHANGED <<thread, count, router>>
  BY DEF Age
<1>2. UNCHANGED <<phase, connected, hand, count, outputs, stop, received, offering, cfg>>
  BY <1>1 DEF router, thread
<1>3. ASSUME NEW o \in Outs
      PROVE  /\ aged(o) \in Seq(Item) /\ Len(aged(o)) = Len(queue[o])
             /\ DOMAIN aged(o) = DOMAIN queue[o]
             /\ \A i \in DOMAIN queue[o] : aged(o)[i].current = queue[o][i].current
  <2>1. queue[o] \in Seq(Item) /\ \A i \in DOMAIN queue[o] : queue[o][i] \in Item
    BY DEF RouterInv, DestinationTypeOK
  <2>2. /\ \A i \in DOMAIN queue[o] : aged(o)[i] \in Item /\ aged(o)[i].current = queue[o][i].current
        /\ DOMAIN aged(o) = DOMAIN queue[o] /\ aged(o) = [i \in DOMAIN queue[o] |-> aged(o)[i]]
    BY <2>1 DEF Item
  <2> HIDE DEF aged
  <2> QED
    BY <2>1, <2>2, Marked
<1> HIDE DEF aged
<1>4. DestinationTypeOK'
  BY <1>1, <1>2, <1>3 DEF RouterInv, DestinationTypeOK
<1>5. InHand' /\ NoCarryOver' /\ ReplacedAreSilent' /\ Reconfiguring'
  BY <1>2 DEF RouterInv, Reconfiguring, InHand, NoCarryOver, ReplacedAreSilent
<1>6. Current'
  BY <1>1, <1>2, <1>3 DEF RouterInv, Current
<1>7. OfferedAccounted'
  BY <1>1, <1>2, <1>3 DEF RouterInv, OfferedAccounted
<1> QED
  BY <1>4, <1>5, <1>6, <1>7 DEF RouterInv

-----------------------------------------------------------------------------
\* An offer that counts nothing, or is counted as dropped.
LEMMA RefusalKeeps ==
    ASSUME RouterInv, NEW o \in Outs, count' = Refused(o) \/ count' = count,
           UNCHANGED <<thread, queue, outputs, stop, received, cfg>>,
           offering' \in [busy : BOOLEAN, todo : SUBSET Outs, at : Outs \cup {None}]
    PROVE  RouterInv'
<1>1. UNCHANGED <<phase, connected, hand>>
  BY DEF thread
<1>2. count \in [Outs -> [sent : Nat, dropped : Nat, offered : Nat]] /\ queue[o] \in Seq(Item)
      /\ hand[o] \in Seq(Item)
  BY DEF RouterInv, DestinationTypeOK
<1>3. InHand' /\ Current' /\ NoCarryOver' /\ ReplacedAreSilent' /\ Reconfiguring'
  BY <1>1 DEF RouterInv, Reconfiguring, InHand, Current, NoCarryOver, ReplacedAreSilent
<1>4. CASE count' = count
  <2>1. DestinationTypeOK' /\ OfferedAccounted'
    BY <1>1, <1>4 DEF RouterInv, DestinationTypeOK, OfferedAccounted
  <2> QED
    BY <1>3, <2>1 DEF RouterInv
<1>5. CASE count' = Refused(o)
  <2>1. /\ count[o].sent \in Nat /\ count[o].dropped \in Nat /\ count[o].offered \in Nat
        /\ Len(queue[o]) \in Nat /\ Len(hand[o]) \in Nat
    BY <1>2
  <2>2. /\ count'[o] = [count[o] EXCEPT !.dropped = @ + 1, !.offered = @ + 1]
        /\ \A p \in Outs : p # o => count'[p] = count[p]
        /\ count' = [p \in Outs |-> count'[p]]
    BY <1>2, <1>5 DEF Refused
  <2>3. /\ count'[o].sent = count[o].sent /\ count'[o].dropped = count[o].dropped + 1
        /\ count'[o].offered = count[o].offered + 1
        /\ count'[o] \in [sent : Nat, dropped : Nat, offered : Nat]
    <3>1. count[o] = [sent |-> count[o].sent, dropped |-> count[o].dropped, offered |-> count[o].offered]
      BY <1>2
    <3>2. count'[o] = [sent |-> count[o].sent, dropped |-> count[o].dropped + 1,
                       offered |-> count[o].offered + 1]
      BY <2>2, <3>1
    <3> QED
      BY <2>1, <3>2
  <2>4. count' \in [Outs -> [sent : Nat, dropped : Nat, offered : Nat]]
    BY <1>2, <2>2, <2>3
  <2>5. DestinationTypeOK'
    BY <1>1, <2>4 DEF RouterInv, DestinationTypeOK
  <2>6. count[o].offered = count[o].sent + count[o].dropped + Len(queue[o]) + Len(hand[o])
    BY DEF RouterInv, OfferedAccounted
  <2>7. count'[o].offered = count'[o].sent + count'[o].dropped + Len(queue[o]) + Len(hand[o])
    <3>1. count[o].offered + 1
          = count[o].sent + (count[o].dropped + 1) + Len(queue[o]) + Len(hand[o])
      <4> DEFINE f == count[o].offered
                 s == count[o].sent
                 d == count[o].dropped
                 l == Len(queue[o])
                 h == Len(hand[o])
      <4>1. f = s + d + l + h /\ s \in Nat /\ d \in Nat /\ l \in Nat /\ h \in Nat
        BY <2>1, <2>6
      <4> HIDE DEF f, s, d, l, h
      <4>2. f + 1 = s + (d + 1) + l + h
        BY <4>1
      <4> QED
        BY <4>2 DEF f, s, d, l, h
    <3> QED
      BY <2>3, <3>1
  <2>8. OfferedAccounted'
    BY <1>1, <2>2, <2>7 DEF RouterInv, OfferedAccounted
  <2> QED
    BY <1>3, <2>5, <2>8 DEF RouterInv
<1> QED
  BY <1>4, <1>5

\* A sentence is offered to a destination.
LEMMA OfferKeeps == ASSUME RouterInv, NEW o \in Outs, Offer(o) PROVE RouterInv'
<1>0. /\ offering \in [busy : BOOLEAN, todo : SUBSET Outs, at : Outs \cup {None}]
      /\ queue \in [Outs -> Seq(Item)] /\ count \in [Outs -> [sent : Nat, dropped : Nat, offered : Nat]]
      /\ hand[o] \in Seq(Item)
  BY DEF RouterInv, DestinationTypeOK
<1>1. CASE OfferDisconnected(o)
  BY <1>0, <1>1, RefusalKeeps DEF OfferDisconnected
<1>2. CASE OfferCheck(o)
  BY <1>0, <1>2, RefusalKeeps DEF OfferCheck
<1>3. CASE OfferPut(o) /\ ~(Len(queue[o]) < Capacity)
  <2>1. /\ count' = Refused(o) /\ UNCHANGED <<thread, queue, outputs, stop, received, cfg>>
        /\ offering' = [offering EXCEPT !.at = None]
    BY <1>3 DEF OfferPut
  <2>2. offering' \in [busy : BOOLEAN, todo : SUBSET Outs, at : Outs \cup {None}]
    BY <1>0, <2>1
  <2> QED
    BY <2>1, <2>2, RefusalKeeps
<1>4. CASE OfferPut(o) /\ Len(queue[o]) < Capacity
  <2> DEFINE item == [fresh |-> TRUE, current |-> TRUE]
             old == queue[o]
             new == Append(old, item)
  <2>1. /\ queue' = [queue EXCEPT ![o] = new] /\ count' = Counted(o, "offered")
        /\ UNCHANGED <<thread, outputs, stop, received, cfg>> /\ offering' = [offering EXCEPT !.at = None]
    BY <1>4 DEF OfferPut
  <2>2. UNCHANGED <<phase, connected, hand>>
    BY <2>1 DEF thread
  <2>3. offering' \in [busy : BOOLEAN, todo : SUBSET Outs, at : Outs \cup {None}]
    BY <1>0, <2>1
  <2>4. old \in Seq(Item) /\ item \in Item /\ item.current /\ Len(old) \in Nat
    BY <1>0 DEF Item
  <2>5. Len(old) + 1 <= Capacity
    BY <1>4, <2>4, DestinationAssumption DEF DestinationAssumption
  <2> HIDE DEF item
  <2>6. /\ new \in Seq(Item) /\ Len(new) = Len(old) + 1 /\ new[Len(old) + 1] = item
        /\ \A i \in DOMAIN new : (i \in DOMAIN old /\ new[i] = old[i]) \/ i = Len(old) + 1
    BY <2>4
  <2>7. \A p \in Outs : p # o => queue'[p] = queue[p] /\ count'[p] = count[p]
    BY <1>0, <2>1 DEF Counted
  <2>8. /\ count'[o] = [count[o] EXCEPT !.offered = @ + 1] /\ queue'[o] = new
        /\ count' = [p \in Outs |-> count'[p]]
    BY <1>0, <2>1 DEF Counted
  <2>9. /\ count[o].sent \in Nat /\ count[o].dropped \in Nat /\ count[o].offered \in Nat
        /\ Len(hand[o]) \in Nat
    BY <1>0
  <2>10. /\ count'[o].sent = count[o].sent /\ count'[o].dropped = count[o].dropped
         /\ count'[o].offered = count[o].offered + 1
         /\ count'[o] \in [sent : Nat, dropped : Nat, offered : Nat]
    BY <1>0, <2>8, <2>9
  <2>11. count' \in [Outs -> [sent : Nat, dropped : Nat, offered : Nat]] /\ queue' \in [Outs -> Seq(Item)]
    BY <1>0, <2>1, <2>6, <2>7, <2>8, <2>10
  <2>12. \A p \in Outs : Len(queue'[p]) <= Capacity
    BY <2>5, <2>6, <2>7, <2>8 DEF RouterInv, DestinationTypeOK
  <2>13. count[o].offered = count[o].sent + count[o].dropped + Len(old) + Len(hand[o])
    BY DEF RouterInv, OfferedAccounted
  <2>14. \A i \in DOMAIN old : phase[o] # "clear" => old[i].current
    BY DEF RouterInv, Current
  <2> HIDE DEF old, new
  <2>15. DestinationTypeOK'
    BY <2>1, <2>2, <2>3, <2>11, <2>12 DEF RouterInv, DestinationTypeOK
  <2>16. Current'
    BY <2>2, <2>4, <2>6, <2>7, <2>8, <2>14 DEF RouterInv, Current
  <2>17. count'[o].offered = count'[o].sent + count'[o].dropped + Len(queue'[o]) + Len(hand[o])
    <3>0. Len(old) \in Nat
      BY <2>4
    <3>1. count[o].offered + 1 = count[o].sent + count[o].dropped + (Len(old) + 1) + Len(hand[o])
      <4> DEFINE f == count[o].offered
                 s == count[o].sent
                 d == count[o].dropped
                 l == Len(old)
                 h == Len(hand[o])
      <4>1. f = s + d + l + h /\ s \in Nat /\ d \in Nat /\ l \in Nat /\ h \in Nat
        BY <2>9, <2>13, <3>0
      <4> HIDE DEF f, s, d, l, h
      <4>2. f + 1 = s + d + (l + 1) + h
        BY <4>1
      <4> QED
        BY <4>2 DEF f, s, d, l, h
    <3> QED
      BY <2>6, <2>8, <2>10, <3>1
  <2>18. OfferedAccounted'
    BY <2>2, <2>7, <2>17 DEF RouterInv, OfferedAccounted
  <2>19. InHand' /\ NoCarryOver' /\ ReplacedAreSilent' /\ Reconfiguring'
    BY <2>1, <2>2 DEF RouterInv, Reconfiguring, InHand, NoCarryOver, ReplacedAreSilent
  <2> QED
    BY <2>15, <2>16, <2>18, <2>19 DEF RouterInv
<1> QED
  BY <1>1, <1>2, <1>3, <1>4 DEF Offer

\* A sentence is received, or has been offered to every destination.
LEMMA IngestKeeps ==
    ASSUME RouterInv, IngestDone \/ \E raw \in Raw : Ingest(raw) PROVE RouterInv'
<1>1. /\ UNCHANGED <<thread, queue, count, outputs, stop, cfg>> /\ received' \in {received, received + 1}
      /\ offering' \in {IngestIdle, [busy |-> TRUE, todo |-> outputs, at |-> None]}
  BY DEF IngestDone, Ingest
<1>2. UNCHANGED <<phase, connected, hand>>
  BY <1>1 DEF thread
<1>3. offering' \in [busy : BOOLEAN, todo : SUBSET Outs, at : Outs \cup {None}]
  <2>1. outputs \in SUBSET Outs
    BY DEF RouterInv, DestinationTypeOK
  <2>2. IngestIdle \in [busy : BOOLEAN, todo : SUBSET Outs, at : Outs \cup {None}]
    BY DEF IngestIdle
  <2>3. [busy |-> TRUE, todo |-> outputs, at |-> None] \in [busy : BOOLEAN, todo : SUBSET Outs, at : Outs \cup {None}]
    BY <2>1
  <2> QED
    BY <1>1, <2>2, <2>3
<1>4. received' \in Nat
  BY <1>1 DEF RouterInv, DestinationTypeOK
<1> QED
  BY <1>1, <1>2, <1>3, <1>4 DEF RouterInv, DestinationTypeOK, Reconfiguring, InHand, Current,
     NoCarryOver, OfferedAccounted, ReplacedAreSilent

\* Destinations are closed, joined and replaced.
LEMMA ConfigureKeeps ==
    ASSUME RouterInv,
           \/ Configure \/ \E o \in Outs : Close(o) \/ Joined(o)
           \/ \E new \in SUBSET Outs : Replace(new)
    PROVE  RouterInv'
<1>0. /\ cfg \in [busy : BOOLEAN, todo : SUBSET Outs, on : Outs \cup {None}] /\ None \notin Outs
      /\ phase \in [Outs -> Phases] /\ stop \in [Outs -> BOOLEAN] /\ hand \in [Outs -> Seq(Item)]
      /\ outputs \in SUBSET Outs
  BY DestinationAssumption DEF RouterInv, DestinationTypeOK, DestinationAssumption
<1>1. CASE Configure
  <2>1. /\ ~cfg.busy /\ cfg' = [busy |-> TRUE, todo |-> outputs, on |-> None]
        /\ UNCHANGED <<phase, connected, hand, queue, count, outputs, stop, received, offering>>
    BY <1>1 DEF Configure, RouterFree, thread
  <2>2. cfg.on = None
    BY <2>1 DEF RouterInv, Reconfiguring
  <2>3. cfg' \in [busy : BOOLEAN, todo : SUBSET Outs, on : Outs \cup {None}] /\ cfg'.busy /\ cfg'.on = None
    BY <1>0, <2>1
  <2>4. DestinationTypeOK' /\ InHand' /\ Current' /\ NoCarryOver' /\ OfferedAccounted'
    BY <2>1, <2>3 DEF RouterInv, DestinationTypeOK, InHand, Current, NoCarryOver, OfferedAccounted
  <2>5. ReplacedAreSilent' /\ Reconfiguring'
    BY <2>1, <2>2, <2>3 DEF RouterInv, Reconfiguring, ReplacedAreSilent
  <2> QED
    BY <2>4, <2>5 DEF RouterInv
<1>2. ASSUME NEW o \in Outs, Close(o) PROVE RouterInv'
  <2>1. /\ cfg.on = None /\ stop' = [stop EXCEPT ![o] = TRUE] /\ cfg' = [cfg EXCEPT !.todo = @ \ {o}, !.on = o]
        /\ UNCHANGED <<phase, connected, hand, queue, count, outputs, received, offering>>
    BY <1>2 DEF Close, thread
  <2>2. cfg' \in [busy : BOOLEAN, todo : SUBSET Outs, on : Outs \cup {None}] /\ cfg'.on = o
    BY <1>0, <2>1
  <2>3. stop' \in [Outs -> BOOLEAN] /\ \A p \in Outs : p # o => stop'[p] = stop[p]
    BY <1>0, <2>1
  <2>4. DestinationTypeOK' /\ InHand' /\ Current' /\ NoCarryOver' /\ OfferedAccounted'
    BY <2>1, <2>2, <2>3 DEF RouterInv, DestinationTypeOK, InHand, Current, NoCarryOver, OfferedAccounted
  <2>5. ReplacedAreSilent' /\ Reconfiguring'
    <3>1. cfg.busy
      BY <1>2 DEF Close, RouterInv, Reconfiguring
    <3>2. cfg'.busy = cfg.busy
      BY <1>0, <2>1
    <3> QED
      BY <1>0, <2>1, <2>2, <2>3, <3>1, <3>2 DEF RouterInv, Reconfiguring, ReplacedAreSilent
  <2> QED
    BY <2>4, <2>5 DEF RouterInv
<1>3. ASSUME NEW o \in Outs, Joined(o) PROVE RouterInv'
  <2>1. /\ cfg.on = o /\ phase[o] \notin {"get", "sending"} /\ cfg' = [cfg EXCEPT !.on = None]
        /\ UNCHANGED <<phase, connected, hand, queue, count, outputs, stop, received, offering>>
    BY <1>3 DEF Joined, JoinReturns, thread
  <2>2. cfg' \in [busy : BOOLEAN, todo : SUBSET Outs, on : Outs \cup {None}]
    BY <1>0, <2>1
  <2>3. hand[o] = <<>>
    BY <1>0, <2>1 DEF RouterInv, InHand
  <2>4. DestinationTypeOK' /\ InHand' /\ Current' /\ NoCarryOver' /\ OfferedAccounted'
    BY <2>1, <2>2 DEF RouterInv, DestinationTypeOK, InHand, Current, NoCarryOver, OfferedAccounted
  <2>5. ReplacedAreSilent' /\ Reconfiguring'
    BY <2>1, <2>3 DEF RouterInv, Reconfiguring, ReplacedAreSilent
  <2> QED
    BY <2>4, <2>5 DEF RouterInv
<1>4. ASSUME NEW new \in SUBSET Outs, Replace(new) PROVE RouterInv'
  <2>1. /\ cfg.on = None /\ cfg' = CfgIdle /\ outputs' = new
        /\ phase' = [o \in Outs |-> IF o \in new THEN "connecting" ELSE phase[o]]
        /\ \A o \in new : phase[o] = "unborn"
        /\ UNCHANGED <<connected, hand, queue, count, stop, received, offering>>
    BY <1>4 DEF Replace
  <2>2. cfg' \in [busy : BOOLEAN, todo : SUBSET Outs, on : Outs \cup {None}] /\ cfg'.on = None
        /\ cfg'.todo = {}
    BY <2>1 DEF CfgIdle
  <2>3. phase' \in [Outs -> Phases]
    BY <1>0, <2>1 DEF Phases
  <2>4. DestinationTypeOK'
    BY <2>1, <2>2, <2>3 DEF RouterInv, DestinationTypeOK
  <2>5. InHand' /\ Current' /\ NoCarryOver' /\ OfferedAccounted'
    BY <1>0, <2>1 DEF RouterInv, InHand, Current, NoCarryOver, OfferedAccounted
  <2>6. ReplacedAreSilent' /\ Reconfiguring'
    BY <1>0, <2>1, <2>2 DEF RouterInv, Reconfiguring, ReplacedAreSilent
  <2> QED
    BY <2>4, <2>5, <2>6 DEF RouterInv
<1> QED
  BY <1>1, <1>2, <1>3, <1>4

\* Nothing of the router has changed.
LEMMA RouterSame == ASSUME RouterInv, UNCHANGED destinationVars PROVE RouterInv'
BY DEF destinationVars, thread, router, RouterInv, DestinationTypeOK, Reconfiguring, InHand, Current,
   NoCarryOver, OfferedAccounted, ReplacedAreSilent

\* Every step of the router.
LEMMA RouterKeeps ==
    ASSUME RouterInv,
           \/ Age \/ IngestDone \/ Configure
           \/ \E o \in Outs : Step(o) \/ Offer(o) \/ Close(o) \/ Joined(o)
           \/ \E raw \in Raw : Ingest(raw)
           \/ \E new \in SUBSET Outs : Replace(new)
    PROVE  RouterInv'
<1>1. ASSUME NEW o \in Outs, Step(o) PROVE RouterInv'
  BY <1>1, ConnectKeeps, MovesKeep, TakesKeep, SentKeeps DEF Step
<1> QED
  BY <1>1, AgeKeeps, IngestKeeps, OfferKeeps, ConfigureKeeps

-----------------------------------------------------------------------------
\* The engine: what a live worker has to do with the process.
EngineInv == EngineTypeOK /\ OneReceiver

\* The engine is stopped at first.
LEMMA InitEngine == EngineInit => EngineInv
<1> SUFFICES ASSUME EngineInit PROVE EngineInv
  OBVIOUS
<1>1. NoRequest \in [at : {"idle", "wait", "stop", "done", "failed"}, start : BOOLEAN, config : Settings]
  BY DEF NoRequest, Settings
<1>2. EngineTypeOK
  BY <1>1 DEF EngineInit, EngineTypeOK, States, NoWorker, NoProcess, Settings
<1>3. OneReceiver
  BY DEF EngineInit, OneReceiver, NoWorker, NoProcess, WorkerAlive
<1> QED
  BY <1>2, <1>3 DEF EngineInv

\* Requests.
LEMMA HandleKeeps ==
    ASSUME EngineInv, NEW r \in Requests, Handle(r) PROVE EngineInv'
<1>0. request[r] \in [at : {"idle", "wait", "stop", "done", "failed"}, start : BOOLEAN, config : Settings]
  BY DEF EngineInv, EngineTypeOK
<1>1. CASE Acquire(r)
  BY <1>0, <1>1 DEF EngineInv, EngineTypeOK, OneReceiver, WorkerAlive, Acquire
<1>2. CASE StopRound(r)
  BY <1>0, <1>2 DEF EngineInv, EngineTypeOK, OneReceiver, WorkerAlive, StopRound
<1>3. CASE StopFails(r)
  BY <1>0, <1>3 DEF EngineInv, EngineTypeOK, OneReceiver, WorkerAlive, StopFails
<1>4. CASE StopDone(r)
  BY <1>0, <1>4 DEF EngineInv, EngineTypeOK, OneReceiver, WorkerAlive, StopDone, States
<1>5. CASE StartDone(r)
  BY <1>0, <1>5 DEF EngineInv, EngineTypeOK, OneReceiver, WorkerAlive, StartDone, States
<1> QED
  BY <1>1, <1>2, <1>3, <1>4, <1>5 DEF Handle

\* The worker and the process.
LEMMA RunKeeps == ASSUME EngineInv, Run \/ ProcessEnds PROVE EngineInv'
<1>1. CASE Top
  BY <1>1 DEF EngineInv, EngineTypeOK, OneReceiver, WorkerAlive, Top, At, NoWorker, Settings
<1>2. CASE Spawn
  BY <1>2 DEF EngineInv, EngineTypeOK, OneReceiver, WorkerAlive, Spawn, At, States
<1>3. CASE SpawnFails
  BY <1>3 DEF EngineInv, EngineTypeOK, OneReceiver, WorkerAlive, SpawnFails, At
<1>4. CASE ProcessEnds
  BY <1>4 DEF EngineInv, EngineTypeOK, OneReceiver, WorkerAlive, ProcessEnds, NoProcess, Settings
<1>5. CASE Reap
  BY <1>5 DEF EngineInv, EngineTypeOK, OneReceiver, WorkerAlive, Reap, At, NoWorker, Settings, States
<1>6. CASE Check
  BY <1>6 DEF EngineInv, EngineTypeOK, OneReceiver, WorkerAlive, Check, At, NoWorker, Settings, States
<1>7. CASE Retry
  BY <1>7 DEF EngineInv, EngineTypeOK, OneReceiver, WorkerAlive, Retry, At, NoWorker, Settings
<1> QED
  BY <1>1, <1>2, <1>3, <1>4, <1>5, <1>6, <1>7 DEF Run

\* Nothing of the engine but its requests has changed.
LEMMA EngineSame ==
    ASSUME EngineInv, UNCHANGED <<state, stopEvent, worker, process, holder>>,
           request' \in [Requests -> [at : {"idle", "wait", "stop", "done", "failed"},
                                      start : BOOLEAN, config : Settings]]
    PROVE  EngineInv'
BY DEF EngineInv, EngineTypeOK, OneReceiver, WorkerAlive

-----------------------------------------------------------------------------
\* As long as no call was given up: a request that is handled is the one the
\* router waits for, a start of it carries the saved settings, and so does a
\* live worker; while the settings change there is neither.
CallInv ==
    /\ \A r \in Requests :
        /\ request[r].at # "idle" => control.on = r /\ control.op \in {"save", "start", "stop"}
        /\ request[r].start /\ request[r].at # "idle" => request[r].config = saved /\ control.op = "start"
        /\ control.op = "save" /\ request[r].at = "done" => ~WorkerAlive
    /\ control.op = "configure" => ~WorkerAlive /\ control.on = Nobody
    /\ WorkerAlive => worker.config = saved
    /\ process.alive => process.config = saved
ServiceInv ==
    /\ saved \in Configs /\ posts \in 0..MaxPosts /\ lapsed \in BOOLEAN /\ wire \in BOOLEAN
    /\ control \in [op : {"idle", "save", "start", "stop", "configure"},
                    on : Requests \cup {Nobody}, config : Settings]
    /\ control.op \in {"save", "configure"} => control.config \in Configs
    /\ control.op = "configure" <=> cfg.busy

IInv == RouterInv /\ EngineInv /\ ServiceInv /\ (~lapsed => CallInv)

\* Requests as records.
RequestTypes == [at : {"idle", "wait", "stop", "done", "failed"}, start : BOOLEAN, config : Settings]

\* The system starts idle.
LEMMA InitIInv == Init => IInv
<1> SUFFICES ASSUME Init PROVE IInv
  OBVIOUS
<1>1. RouterInv /\ EngineInv
  BY InitRouter, InitEngine DEF Init
<1>2. ServiceInv
  <2>1. ControlIdle \in [op : {"idle", "save", "start", "stop", "configure"},
                          on : Requests \cup {Nobody}, config : Settings] /\ ControlIdle.op = "idle"
    BY DEF ControlIdle, Settings
  <2>2. 0 \in 0..MaxPosts
    BY SdrAssumption DEF SdrAssumption
  <2> QED
    BY <2>1, <2>2 DEF Init, ServiceInv, DestinationInit, CfgIdle
<1>3. CallInv
  BY DEF Init, CallInv, ControlIdle, EngineInit, NoRequest, NoWorker, NoProcess, WorkerAlive,
     DestinationInit, CfgIdle
<1> QED
  BY <1>1, <1>2, <1>3 DEF IInv

\* The engine works on a request of the router or by itself.
LEMMA EngineStep ==
    ASSUME IInv, Run \/ ProcessEnds \/ \E r \in Requests : Handle(r),
           UNCHANGED <<destinationVars, serviceVars, wire>>
    PROVE  IInv'
<1>1. RouterInv'
  BY RouterSame DEF IInv
<1>2. EngineInv'
  BY HandleKeeps, RunKeeps DEF IInv
<1>3. UNCHANGED <<saved, control, posts, lapsed, cfg, wire>>
  BY DEF serviceVars, destinationVars, router
<1>4. ServiceInv'
  BY <1>3 DEF IInv, ServiceInv
<1>5. ASSUME ~lapsed PROVE CallInv'
  <2>1. CallInv
    BY <1>5 DEF IInv
  <2>2. request \in [Requests -> RequestTypes] /\ OneReceiver
    BY DEF IInv, EngineInv, EngineTypeOK, RequestTypes
  <2>3. CASE ProcessEnds
    BY <1>3, <2>1, <2>3 DEF CallInv, ProcessEnds, NoProcess, WorkerAlive
  <2>4. CASE Run
    <3>1. request' = request /\ (WorkerAlive' => WorkerAlive /\ worker'.config = worker.config)
      <4>1. worker = [at |-> worker.at, config |-> worker.config]
        BY DEF IInv, EngineInv, EngineTypeOK
      <4> QED
        BY <2>4, <4>1 DEF Run, Top, Spawn, SpawnFails, Reap, Check, Retry, At, NoWorker, WorkerAlive
    <3>2. process'.alive => process' = process \/ (process'.config = worker.config /\ WorkerAlive)
      BY <2>4 DEF Run, Top, Spawn, SpawnFails, Reap, Check, Retry, WorkerAlive
    <3> QED
      BY <1>3, <2>1, <3>1, <3>2 DEF CallInv
  <2>5. ASSUME NEW r \in Requests, Handle(r) PROVE CallInv'
    <3>1. CASE Acquire(r)
      BY <1>3, <2>1, <2>2, <3>1 DEF CallInv, Acquire, WorkerAlive, RequestTypes
    <3>2. CASE StopRound(r)
      BY <1>3, <2>1, <2>2, <3>2 DEF CallInv, StopRound, WorkerAlive, EngineTypeOK
    <3>3. CASE StopFails(r)
      BY <1>3, <2>1, <2>2, <3>3 DEF CallInv, StopFails, WorkerAlive, RequestTypes
    <3>4. CASE StopDone(r)
      BY <1>3, <2>1, <2>2, <3>4 DEF CallInv, StopDone, WorkerAlive, RequestTypes
    <3>5. CASE StartDone(r)
      BY <1>3, <2>1, <2>2, <3>5 DEF CallInv, StartDone, WorkerAlive, RequestTypes
    <3> QED
      BY <2>5, <3>1, <3>2, <3>3, <3>4, <3>5 DEF Handle
  <2> QED
    BY <2>3, <2>4, <2>5
<1> QED
  BY <1>1, <1>2, <1>3, <1>4, <1>5 DEF IInv

\* The router works on its own.
LEMMA RouterStep ==
    ASSUME IInv,
           Age \/ IngestDone \/ \E o \in Outs : Step(o) \/ Offer(o) \/ Close(o) \/ Joined(o),
           UNCHANGED <<engineVars, serviceVars, wire>>
    PROVE  IInv'
<1>1. RouterInv'
  BY RouterKeeps DEF IInv
<1>2. UNCHANGED <<state, stopEvent, worker, process, request, holder, saved, control, posts, lapsed, wire>>
  BY DEF serviceVars, engineVars
<1>4. cfg'.busy = cfg.busy
  <2>1. cfg = [busy |-> cfg.busy, todo |-> cfg.todo, on |-> cfg.on]
    BY DEF IInv, RouterInv, DestinationTypeOK
  <2>2. CASE Age \/ IngestDone
    BY <2>2 DEF Age, IngestDone, router
  <2>3. ASSUME NEW o \in Outs, Step(o) PROVE cfg'.busy = cfg.busy
    BY <2>3 DEF Step, Connect, ConnectFails, ClearOne, Cleared, Loop, GetStale, Get, GetEmpty, Sent,
       Lost, Purged, Resume, router
  <2>4. ASSUME NEW o \in Outs, Offer(o) \/ Close(o) \/ Joined(o) PROVE cfg'.busy = cfg.busy
    BY <2>1, <2>4 DEF Offer, OfferDisconnected, OfferCheck, OfferPut, Close, Joined
  <2> QED
    BY <2>2, <2>3, <2>4
<1>3. EngineInv' /\ ServiceInv'
  BY <1>2, <1>4 DEF IInv, EngineInv, EngineTypeOK, OneReceiver, WorkerAlive, ServiceInv
<1>5. CallInv => CallInv'
  BY <1>2, <1>4 DEF CallInv, WorkerAlive
<1> QED
  BY <1>1, <1>2, <1>3, <1>5 DEF IInv

\* A message travels from the process to the router.
LEMMA WireStep == ASSUME IInv, Emit \/ Receive PROVE IInv'
<1>1. UNCHANGED <<engineVars, serviceVars>> /\ wire' \in BOOLEAN
  BY DEF Emit, Receive
<1>2. UNCHANGED <<state, stopEvent, worker, process, request, holder, saved, control, posts, lapsed>>
  BY <1>1 DEF serviceVars, engineVars
<1>3. RouterInv'
  BY RouterSame, RouterKeeps DEF IInv, Emit, Receive
<1>5. cfg' = cfg
  BY DEF Emit, Receive, Ingest, destinationVars, router
<1>4. EngineInv' /\ ServiceInv'
  BY <1>1, <1>2, <1>5 DEF IInv, EngineInv, EngineTypeOK, OneReceiver, WorkerAlive, ServiceInv
<1>6. CallInv => CallInv'
  BY <1>2, <1>5 DEF CallInv, WorkerAlive
<1> QED
  BY <1>2, <1>3, <1>4, <1>6 DEF IInv

\* A POST begins.
LEMMA PostStep ==
    ASSUME IInv, NEW r \in Requests, NEW op \in {"save", "start", "stop"}, NEW config \in Configs,
           Post(op, config, r)
    PROVE  IInv'
<1>1. /\ control = ControlIdle /\ request[r].at = "idle"
      /\ request' = [request EXCEPT ![r] = [at |-> "wait", start |-> op = "start",
                          config |-> IF op = "start" THEN saved ELSE NoConfig]]
      /\ control' = [op |-> op, on |-> r, config |-> IF op = "save" THEN config ELSE NoConfig]
      /\ posts < MaxPosts /\ posts' = posts + 1
      /\ UNCHANGED <<state, stopEvent, worker, process, holder, saved, lapsed, wire>>
      /\ UNCHANGED destinationVars
  BY DEF Post, Arrives
<1>2. cfg' = cfg
  BY <1>1 DEF destinationVars, router
<1>3. RouterInv'
  BY <1>1, RouterSame DEF IInv
<1>4. request \in [Requests -> RequestTypes] /\ saved \in Configs
  BY DEF IInv, EngineInv, EngineTypeOK, RequestTypes, ServiceInv
<1>5. request' \in [Requests -> RequestTypes]
  BY <1>1, <1>4 DEF RequestTypes, Settings
<1>6. EngineInv'
  BY <1>1, <1>5, EngineSame DEF IInv, RequestTypes
<1>7. ServiceInv'
  <2>1. control' \in [op : {"idle", "save", "start", "stop", "configure"},
                      on : Requests \cup {Nobody}, config : Settings]
    BY <1>1 DEF Settings
  <2>2. posts' \in 0..MaxPosts
    BY <1>1, SdrAssumption DEF IInv, ServiceInv, SdrAssumption
  <2>3. control'.op = op /\ (op = "save" => control'.config = config) /\ control.op = "idle"
    BY <1>1 DEF ControlIdle
  <2> QED
    BY <1>1, <1>2, <2>1, <2>2, <2>3 DEF IInv, ServiceInv
<1>8. CallInv => CallInv'
  <2> SUFFICES ASSUME CallInv PROVE CallInv'
    OBVIOUS
  <2>1. control.op = "idle" /\ control.on = Nobody /\ control'.op = op /\ control'.on = r
    BY <1>1 DEF ControlIdle
  <2>2. \A q \in Requests : q # r => request'[q] = request[q] /\ request[q].at = "idle"
    BY <1>1, <1>4, <2>1 DEF CallInv
  <2>3. /\ request'[r].at = "wait" /\ (request'[r].start => op = "start")
        /\ (op = "start" => request'[r].config = saved)
    BY <1>1, <1>4
  <2> QED
    BY <1>1, <2>1, <2>2, <2>3 DEF CallInv, WorkerAlive
<1> QED
  BY <1>1, <1>3, <1>6, <1>7, <1>8 DEF IInv

\* A request is over: it was answered or nobody waits for it.
LEMMA FinishedTypes ==
    ASSUME IInv, NEW r \in Requests, request' = Finished(r),
           UNCHANGED <<state, stopEvent, worker, process, holder>>
    PROVE  /\ EngineInv' /\ request'[r].at = "idle"
           /\ \A q \in Requests : q # r => request'[q] = request[q]
<1>1. request \in [Requests -> RequestTypes]
  BY DEF IInv, EngineInv, EngineTypeOK, RequestTypes
<1>2. NoRequest \in RequestTypes /\ NoRequest.at = "idle"
  BY DEF NoRequest, RequestTypes, Settings
<1>3. request' = [request EXCEPT ![r] = NoRequest]
  BY DEF Finished
<1>4. request' \in [Requests -> RequestTypes]
  BY <1>1, <1>2, <1>3
<1>5. EngineInv'
  BY <1>4, EngineSame DEF IInv, RequestTypes
<1> QED
  BY <1>1, <1>2, <1>3, <1>5

\* The end of a POST, or of a request that was given up.
LEMMA ReplyStep == ASSUME IInv, NEW r \in Requests, Reply(r) PROVE IInv'
<1>1. CASE Answered(r)
  <2>1. /\ control.on = r /\ control.op \in {"save", "start", "stop"} /\ request' = Finished(r)
        /\ control' = ControlIdle
        /\ UNCHANGED <<state, stopEvent, worker, process, holder, saved, posts, lapsed, wire>>
        /\ UNCHANGED destinationVars
    BY <1>1 DEF Answered, Waits
  <2>2. RouterInv' /\ cfg' = cfg
    BY <2>1, RouterSame DEF IInv, destinationVars, router
  <2>3. /\ EngineInv' /\ request'[r].at = "idle"
        /\ \A q \in Requests : q # r => request'[q] = request[q]
    BY <2>1, FinishedTypes
  <2>4. ServiceInv'
    BY <2>1, <2>2 DEF IInv, ServiceInv, ControlIdle, Settings
  <2>5. CallInv => CallInv'
    BY <2>1, <2>2, <2>3 DEF CallInv, WorkerAlive, ControlIdle
  <2> QED
    BY <2>1, <2>2, <2>3, <2>4, <2>5 DEF IInv
<1>2. CASE SaveAnswered(r)
  <2>1. /\ control.on = r /\ control.op = "save" /\ request[r].at = "done" /\ request' = Finished(r)
        /\ control' = [control EXCEPT !.op = "configure", !.on = Nobody] /\ Configure
        /\ UNCHANGED <<state, stopEvent, worker, process, holder, saved, posts, lapsed, wire>>
    BY <1>2 DEF SaveAnswered, Waits
  <2>2. RouterInv' /\ cfg'.busy
    BY <2>1, RouterKeeps DEF IInv, Configure
  <2>3. /\ EngineInv' /\ request'[r].at = "idle"
        /\ \A q \in Requests : q # r => request'[q] = request[q]
    BY <2>1, FinishedTypes
  <2>4. control'.op = "configure" /\ control'.on = Nobody /\ control'.config = control.config
        /\ control' \in [op : {"idle", "save", "start", "stop", "configure"},
                         on : Requests \cup {Nobody}, config : Settings]
    BY <2>1 DEF IInv, ServiceInv
  <2>5. ServiceInv'
    BY <2>1, <2>2, <2>4 DEF IInv, ServiceInv
  <2>6. CallInv => CallInv'
    BY <2>1, <2>3, <2>4 DEF CallInv, WorkerAlive
  <2> QED
    BY <2>1, <2>2, <2>3, <2>5, <2>6 DEF IInv
<1>3. CASE TimedOut(r)
  <2>1. /\ control.op \in {"save", "start", "stop"} /\ control' = ControlIdle /\ lapsed' = TRUE
        /\ UNCHANGED <<destinationVars, engineVars, saved, posts, wire>>
    BY <1>3 DEF TimedOut, Waits
  <2>2. RouterInv' /\ cfg' = cfg
    BY <2>1, RouterSame DEF IInv, destinationVars, router
  <2>3. EngineInv'
    BY <2>1 DEF IInv, engineVars, EngineInv, EngineTypeOK, OneReceiver, WorkerAlive
  <2>4. ServiceInv'
    BY <2>1, <2>2 DEF IInv, ServiceInv, ControlIdle, Settings
  <2> QED
    BY <2>1, <2>2, <2>3, <2>4 DEF IInv
<1>4. CASE Abandoned(r)
  <2>1. /\ ~Waits(r) /\ request[r].at # "idle" /\ request' = Finished(r)
        /\ UNCHANGED <<state, stopEvent, worker, process, holder, wire, saved, control, posts, lapsed>>
        /\ UNCHANGED destinationVars
    BY <1>4 DEF Abandoned, serviceVars
  <2>2. RouterInv' /\ cfg' = cfg
    BY <2>1, RouterSame DEF IInv, destinationVars, router
  <2>3. EngineInv'
    BY <2>1, FinishedTypes
  <2>4. ServiceInv'
    BY <2>1, <2>2 DEF IInv, ServiceInv
  <2>5. ~CallInv
    BY <2>1 DEF CallInv, Waits
  <2> QED
    BY <2>1, <2>2, <2>3, <2>4, <2>5 DEF IInv
<1> QED
  BY <1>1, <1>2, <1>3, <1>4 DEF Reply

\* The settings are changed together with the outputs.
LEMMA ReconfiguredStep == ASSUME IInv, NEW new \in SUBSET Outs, Reconfigured(new) PROVE IInv'
<1>1. /\ Replace(new) /\ saved' = control.config /\ control' = ControlIdle
      /\ UNCHANGED <<state, stopEvent, worker, process, request, holder, posts, lapsed, wire>>
  BY DEF Reconfigured, engineVars
<1>2. RouterInv'
  BY <1>1, RouterKeeps DEF IInv
<1>3. cfg.busy /\ ~cfg'.busy
  BY <1>1 DEF Replace, CfgIdle
<1>4. EngineInv'
  BY <1>1 DEF IInv, EngineInv, EngineTypeOK, OneReceiver, WorkerAlive
<1>5. ServiceInv'
  BY <1>1, <1>3 DEF IInv, ServiceInv, ControlIdle, Settings
<1>6. ~lapsed => CallInv'
  <2>1. control.op = "configure"
    BY <1>3 DEF IInv, ServiceInv
  <2>2. OneReceiver
    BY DEF IInv, EngineInv
  <2> SUFFICES ASSUME CallInv, ~lapsed PROVE CallInv'
    BY DEF IInv
  <2>3. Nobody \notin Requests
    BY EngineAssumption DEF EngineAssumption
  <2>4. ~WorkerAlive /\ ~process.alive /\ \A r \in Requests : request[r].at = "idle"
    BY <2>1, <2>2, <2>3 DEF CallInv, OneReceiver, WorkerAlive
  <2> QED
    BY <1>1, <2>4 DEF CallInv, WorkerAlive, ControlIdle
<1> QED
  BY <1>1, <1>2, <1>4, <1>5, <1>6 DEF IInv

\* Every step keeps the invariant.
LEMMA NextIInv == ASSUME IInv, [Next]_vars PROVE IInv'
<1>1. CASE UNCHANGED vars
  <2>1. UNCHANGED destinationVars
    BY <1>1 DEF vars
  <2>2. UNCHANGED <<state, stopEvent, worker, process, request, holder, saved, control, posts, lapsed, wire>>
    BY <1>1 DEF vars, engineVars, serviceVars
  <2>3. RouterInv' /\ cfg' = cfg
    BY <2>1, RouterSame DEF IInv, destinationVars, router
  <2> QED
    BY <2>2, <2>3 DEF IInv, EngineInv, EngineTypeOK, OneReceiver, WorkerAlive, ServiceInv, CallInv
<1>2. CASE Next
  <2>1. CASE (Run \/ ProcessEnds \/ \E r \in Requests : Handle(r))
             /\ UNCHANGED <<destinationVars, serviceVars, wire>>
    BY <2>1, EngineStep
  <2>2. CASE (Age \/ IngestDone \/ \E o \in Outs : Step(o) \/ Offer(o) \/ Close(o) \/ Joined(o))
             /\ UNCHANGED <<engineVars, serviceVars, wire>>
    BY <2>2, RouterStep
  <2>3. CASE Emit \/ Receive
    BY <2>3, WireStep
  <2>4. CASE \E r \in Requests :
               \/ Reply(r)
               \/ \E op \in {"save", "start", "stop"}, config \in Configs : Post(op, config, r)
    BY <2>4, ReplyStep, PostStep
  <2>5. CASE \E new \in SUBSET Outs : Reconfigured(new)
    BY <2>5, ReconfiguredStep
  <2> QED
    BY <1>2, <2>1, <2>2, <2>3, <2>4, <2>5 DEF Next
<1> QED
  BY <1>1, <1>2

-----------------------------------------------------------------------------
\* The invariant holds in every state.
LEMMA Invariant == Spec => []IInv
BY InitIInv, NextIInv, PTL DEF Spec

\* Every state is well typed.
THEOREM TypeCorrect == Spec => []TypeOK
<1>1. IInv => TypeOK
  BY DEF IInv, RouterInv, EngineInv, ServiceInv, TypeOK
<1> QED
  BY Invariant, <1>1, PTL

\* No offered sentence is lost uncounted, however offers, clears and lost
\* connections interleave (core.py:109-177).
THEOREM AllOffersCounted == Spec => []OfferedAccounted
<1>1. IInv => OfferedAccounted
  BY DEF IInv, RouterInv
<1> QED
  BY Invariant, <1>1, PTL

\* No sentence crosses from one connection to the next (core.py:96).
THEOREM NothingCarriedOver == Spec => []NoCarryOver
<1>1. IInv => NoCarryOver
  BY DEF IInv, RouterInv
<1> QED
  BY Invariant, <1>1, PTL

\* A destination that was replaced never sends again (core.py:171-173).
THEOREM ReplacedStaySilent == Spec => []ReplacedAreSilent
<1>1. IInv => ReplacedAreSilent
  BY DEF IInv, RouterInv
<1> QED
  BY Invariant, <1>1, PTL

\* There is never a second process, nor one after a stop (engine.py:44-95).
THEOREM AtMostOneReceiver == Spec => []OneReceiver
<1>1. IInv => OneReceiver
  BY DEF IInv, EngineInv
<1> QED
  BY Invariant, <1>1, PTL

\* Unless a call was given up, the process runs with the saved settings
\* (service.py:95-104).
THEOREM SavedSettingsRun == Spec => []RunsWhatWasSaved
<1>1. IInv => RunsWhatWasSaved
  BY DEF IInv, CallInv, RunsWhatWasSaved
<1> QED
  BY Invariant, <1>1, PTL

-----------------------------------------------------------------------------
(* The receiver seen from the management API (Receiver.tla).               *)

Running == IF process.alive THEN {process.config} ELSE {}
Call == IF control.op = "configure" THEN "save" ELSE control.op

\* A process lives only with its worker.
LEMMA NoneWithoutWorker == ASSUME IInv, ~WorkerAlive PROVE Running = {}
BY DEF IInv, EngineInv, OneReceiver, WorkerAlive, Running

\* Nothing Receiver.tla speaks of has changed.
LEMMA Unseen ==
    ASSUME UNCHANGED <<Running, WorkerAlive, saved, Call, lapsed>> PROVE [R!Next]_(R!vars)
BY DEF R!vars, Running, Call

\* A request that is handled arms a receiver at most, when the user asked for
\* it or nobody knows of it any more.
LEMMA HandleRefines ==
    ASSUME IInv, NEW r \in Requests, Handle(r), UNCHANGED <<saved, control, lapsed>>
    PROVE  [R!Next]_(R!vars)
<1>1. CASE Acquire(r) \/ StopFails(r) \/ StopDone(r)
  <2>1. UNCHANGED <<Running, WorkerAlive, Call>>
    BY <1>1 DEF Acquire, StopFails, StopDone, Running, Call, WorkerAlive
  <2> QED
    BY <2>1, Unseen
<1>2. CASE StopRound(r)
  <2>1. process'.alive = process.alive /\ process'.config = process.config
    BY <1>2 DEF StopRound, IInv, EngineInv, EngineTypeOK
  <2>2. UNCHANGED <<Running, WorkerAlive, Call>>
    BY <1>2, <2>1 DEF StopRound, Running, Call, WorkerAlive
  <2> QED
    BY <2>2, Unseen
<1>3. CASE StartDone(r)
  <2>1. ~WorkerAlive /\ WorkerAlive' /\ UNCHANGED process
    BY <1>3 DEF StartDone, WorkerAlive
  <2>2. Running = {} /\ Running' = {}
    BY <2>1, NoneWithoutWorker DEF Running
  <2>3. control.op = "start" \/ lapsed
    BY <1>3 DEF StartDone, IInv, CallInv
  <2>4. R!Arm
    BY <2>1, <2>2, <2>3 DEF R!Arm, Running, Call
  <2> QED
    BY <2>4 DEF R!Next
<1> QED
  BY <1>1, <1>2, <1>3 DEF Handle

\* Starts and workers are given settings, not the placeholder of the others.
Given ==
    /\ \A r \in Requests : request[r].start /\ request[r].at # "idle" => request[r].config \in Configs
    /\ WorkerAlive => worker.config \in Configs

\* The engine passes them on.
LEMMA EngineGives ==
    ASSUME IInv, Given, Run \/ ProcessEnds \/ \E r \in Requests : Handle(r)
    PROVE  Given'
<1>1. request \in [Requests -> RequestTypes]
  BY DEF IInv, EngineInv, EngineTypeOK, RequestTypes
<1>2. worker = [at |-> worker.at, config |-> worker.config]
  BY DEF IInv, EngineInv, EngineTypeOK
<1>3. CASE Run \/ ProcessEnds
  <2>1. request' = request /\ (WorkerAlive' => WorkerAlive /\ worker'.config = worker.config)
    BY <1>2, <1>3 DEF Run, ProcessEnds, Top, Spawn, SpawnFails, Reap, Check, Retry, At, NoWorker, WorkerAlive
  <2> QED
    BY <2>1 DEF Given
<1>4. ASSUME NEW r \in Requests, Handle(r) PROVE Given'
  <2>1. CASE Acquire(r)
    BY <1>1, <2>1 DEF Acquire, Given, WorkerAlive, RequestTypes
  <2>2. CASE StopRound(r)
    BY <2>2 DEF StopRound, Given, WorkerAlive
  <2>3. CASE StopFails(r)
    BY <1>1, <2>3 DEF StopFails, Given, WorkerAlive, RequestTypes
  <2>4. CASE StopDone(r)
    BY <1>1, <2>4 DEF StopDone, Given, WorkerAlive, RequestTypes
  <2>5. CASE StartDone(r)
    BY <1>1, <2>5 DEF StartDone, Given, WorkerAlive, RequestTypes
  <2> QED
    BY <1>4, <2>1, <2>2, <2>3, <2>4, <2>5 DEF Handle
<1> QED
  BY <1>3, <1>4

\* So do the POSTs, and nothing else changes them.
LEMMA NextGives == ASSUME IInv, Given, [Next]_vars PROVE Given'
<1>1. request \in [Requests -> RequestTypes]
  BY DEF IInv, EngineInv, EngineTypeOK, RequestTypes
<1>2. ASSUME NEW r \in Requests, NEW op \in {"save", "start", "stop"}, NEW config \in Configs,
             Post(op, config, r)
      PROVE  Given'
  <2>1. /\ request' = [request EXCEPT ![r] = [at |-> "wait", start |-> op = "start",
                                             config |-> IF op = "start" THEN saved ELSE NoConfig]]
        /\ UNCHANGED worker
    BY <1>2 DEF Post, Arrives
  <2>2. saved \in Configs
    BY DEF IInv, ServiceInv
  <2> QED
    BY <1>1, <2>1, <2>2 DEF Given, WorkerAlive
<1>3. ASSUME NEW r \in Requests, Reply(r) PROVE Given'
  <2>1. UNCHANGED worker /\ (request' = request \/ request' = [request EXCEPT ![r] = NoRequest])
    BY <1>3 DEF Reply, Answered, SaveAnswered, TimedOut, Abandoned, Finished, engineVars
  <2> QED
    BY <1>1, <2>1 DEF Given, WorkerAlive, NoRequest
<1>4. ASSUME UNCHANGED <<request, worker>> PROVE Given'
  BY <1>4 DEF Given, WorkerAlive
<1>5. CASE Next
  <2>1. CASE UNCHANGED engineVars
    BY <1>4, <2>1 DEF engineVars
  <2>2. CASE Emit \/ Receive \/ \E new \in SUBSET Outs : Reconfigured(new)
    BY <2>1, <2>2 DEF Emit, Receive, Reconfigured
  <2> QED
    BY <1>2, <1>3, <1>5, <2>1, <2>2, EngineGives DEF Next
<1> QED
  BY <1>4, <1>5 DEF vars, engineVars

\* No start is without settings, also one that was given up.
LEMMA AlwaysGiven == Spec => []Given
<1>1. Init => Given
  BY DEF Init, EngineInit, Given, NoRequest, NoWorker, WorkerAlive
<1> QED
  BY <1>1, NextGives, Invariant, PTL DEF Spec

\* The worker starts a receiver with the saved settings or ends without one.
LEMMA RunRefines ==
    ASSUME IInv, Given, Run \/ ProcessEnds, UNCHANGED <<saved, control, lapsed>>
    PROVE  [R!Next]_(R!vars)
<1>1. CASE Spawn
  <2>1. Running = {} /\ WorkerAlive /\ WorkerAlive'
    BY <1>1 DEF Spawn, At, IInv, EngineInv, EngineTypeOK, OneReceiver, WorkerAlive, Running
  <2>2. Running' = {worker.config}
    BY <1>1 DEF Spawn, Running
  <2>3. worker.config = saved \/ lapsed
    BY <2>1 DEF IInv, CallInv
  <2>4. R!Start(worker.config)
    BY <2>1, <2>2, <2>3 DEF R!Start, Running, Call
  <2> QED
    BY <2>1, <2>4 DEF R!Next, Given
<1>2. CASE ProcessEnds
  <2>1. Running' = {} /\ UNCHANGED WorkerAlive
    BY <1>2 DEF ProcessEnds, NoProcess, Running, WorkerAlive
  <2>2. R!End
    BY <2>1 DEF R!End, Running, Call
  <2> QED
    BY <2>2 DEF R!Next
<1>3. CASE Top \/ SpawnFails \/ Reap \/ Check \/ Retry
  <2>1. /\ UNCHANGED process /\ ~process.alive
        /\ (WorkerAlive' = WorkerAlive) \/ ~WorkerAlive'
    BY <1>3 DEF Top, SpawnFails, Reap, Check, Retry, At, NoWorker, WorkerAlive,
       IInv, EngineInv, EngineTypeOK, OneReceiver
  <2>2. CASE WorkerAlive' = WorkerAlive
    BY <2>1, <2>2, Unseen DEF Running, Call
  <2>3. CASE ~WorkerAlive'
    <3>1. R!Disarm
      BY <2>1, <2>3 DEF R!Disarm, Running, Call
    <3> QED
      BY <3>1 DEF R!Next
  <2> QED
    BY <2>1, <2>2, <2>3
<1> QED
  BY <1>1, <1>2, <1>3 DEF Run

\* The POSTs of the management page, from their arrival to their answer.
LEMMA ServiceRefines ==
    ASSUME IInv, NEW r \in Requests,
           \/ Reply(r)
           \/ \E op \in {"save", "start", "stop"}, config \in Configs : Post(op, config, r)
    PROVE  [R!Next]_(R!vars)
<1>1. UNCHANGED <<Running, WorkerAlive, saved>>
  BY DEF Reply, Answered, SaveAnswered, TimedOut, Abandoned, Post, Arrives, Running, WorkerAlive,
     engineVars, serviceVars
<1>2. CASE Answered(r) \/ TimedOut(r)
  <2>3. control' = ControlIdle /\ (lapsed' = lapsed \/ lapsed' = TRUE)
    BY <1>2 DEF Answered, TimedOut
  <2>1. Call' = "idle" /\ (lapsed' = lapsed \/ lapsed' = TRUE)
    BY <2>3 DEF ControlIdle, Call
  <2>2. R!Answer \/ R!GiveUp
    BY <1>1, <2>1 DEF R!Answer, R!GiveUp, Running, Call
  <2> QED
    BY <2>2 DEF R!Next
<1>3. CASE SaveAnswered(r)
  <2>1. Call = "save" /\ Call' = "save" /\ UNCHANGED lapsed
    BY <1>3 DEF SaveAnswered, Waits, Call, IInv, ServiceInv
  <2> QED
    BY <1>1, <2>1, Unseen
<1>4. CASE Abandoned(r)
  BY <1>1, <1>4, Unseen DEF Abandoned, serviceVars, Call
<1>5. ASSUME NEW op \in {"save", "start", "stop"}, NEW config \in Configs, Post(op, config, r)
      PROVE  [R!Next]_(R!vars)
  <2>1. Call = "idle" /\ Call' = op /\ UNCHANGED lapsed
    BY <1>5 DEF Post, ControlIdle, Call
  <2>2. R!Ask(op)
    BY <1>1, <2>1 DEF R!Ask, Running, Call
  <2> QED
    BY <2>2 DEF R!Next
<1> QED
  BY <1>2, <1>3, <1>4, <1>5 DEF Reply

\* The settings change while nothing runs or can be started.
LEMMA ReconfiguredRefines ==
    ASSUME IInv, NEW new \in SUBSET Outs, Reconfigured(new) PROVE [R!Next]_(R!vars)
<1>1. control.op = "configure" /\ control.config \in Configs
  BY DEF Reconfigured, Replace, IInv, ServiceInv
<1>2. lapsed \/ (~WorkerAlive /\ Running = {})
  BY <1>1, NoneWithoutWorker DEF IInv, CallInv
<1>3. UNCHANGED <<Running, WorkerAlive, lapsed>> /\ saved' = control.config
  BY DEF Reconfigured, engineVars, Running, WorkerAlive
<1>4. Call = "save" /\ Call' = "idle"
  BY <1>1 DEF Reconfigured, ControlIdle, Call
<1>5. R!Save(control.config)
  BY <1>2, <1>3, <1>4 DEF R!Save, Running, Call
<1> QED
  BY <1>1, <1>5 DEF R!Next

\* Every step is one of Receiver.tla or leaves what it speaks of alone.
LEMMA StepRefines == ASSUME IInv, Given, [Next]_vars PROVE [R!Next]_(R!vars)
<1>1. CASE UNCHANGED vars
  BY <1>1, Unseen DEF vars, engineVars, serviceVars, Running, WorkerAlive, Call
<1>2. CASE (Run \/ ProcessEnds \/ \E r \in Requests : Handle(r))
           /\ UNCHANGED <<destinationVars, serviceVars, wire>>
  BY <1>2, HandleRefines, RunRefines DEF serviceVars
<1>3. CASE (Age \/ IngestDone \/ \E o \in Outs : Step(o) \/ Offer(o) \/ Close(o) \/ Joined(o))
           /\ UNCHANGED <<engineVars, serviceVars, wire>>
  BY <1>3, Unseen DEF engineVars, serviceVars, Running, WorkerAlive, Call
<1>4. CASE Emit \/ Receive
  BY <1>4, Unseen DEF Emit, Receive, engineVars, serviceVars, Running, WorkerAlive, Call
<1>5. CASE \E r \in Requests :
             \/ Reply(r)
             \/ \E op \in {"save", "start", "stop"}, config \in Configs : Post(op, config, r)
  BY <1>5, ServiceRefines
<1>6. CASE \E new \in SUBSET Outs : Reconfigured(new)
  BY <1>6, ReconfiguredRefines
<1> QED
  BY <1>1, <1>2, <1>3, <1>4, <1>5, <1>6 DEF Next

\* Whatever the threads, the lock and the calls do, the management API
\* controls one receiver as Receiver.tla promises (service.py:95-104).
THEOREM ReceiverIsImplemented == Spec => ActsAsOneReceiver
<1>1. Init => R!Init
  BY DEF Init, R!Init, EngineInit, ControlIdle, NoProcess, NoWorker, WorkerAlive
<1>2. IInv /\ Given /\ [Next]_vars => [R!Next]_(R!vars)
  BY StepRefines
<1> QED
  BY <1>1, <1>2, Invariant, AlwaysGiven, PTL DEF Spec, ActsAsOneReceiver, R!Spec
=============================================================================
