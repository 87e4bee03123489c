--------------------------- MODULE LiveFeedProofs ---------------------------
(***************************************************************************)
(* That no row is lost between the events table and a connected page, and  *)
(* that neither the queue nor the page grows beyond its limit, for any     *)
(* queue, any number of rows, writers and requests, where the database     *)
(* never gives an id twice.                                                *)
(***************************************************************************)
EXTENDS LiveFeed, FiniteSetTheorems, SequenceTheorems, WellFoundedInduction, TLAPS

\* The n-th row ever stored: its id is its number.
Stored(n) == [id |-> n, no |-> n]
Known(rows) == rows \subseteq {Stored(n) : n \in 1..born}

Shapes ==
    /\ born \in Nat /\ conn \in {"closed", "accepted", "open"}
    /\ q \in Seq(Message) /\ wire \in Seq(Message) /\ Len(wire) <= 1
    /\ conn = "closed" => q = <<>> /\ wire = <<>>
    /\ pending \in [Writers -> SUBSET Row]
    /\ fetch \in [Requests -> FetchState]

\* Rows leave the table from its old end or all at once, so whatever is newer
\* than a row of the table is in the table.
Table ==
    /\ IsFiniteSet(events) /\ Known(events) /\ events \subseteq Row
    /\ \A r \in events : \A n \in 1..born : n >= r.id => Stored(n) \in events
    /\ clearing => events = {}

\* Rows that are shown or on their way were stored.
LineKnown == \A i \in 1..Len(Line) : Line[i].type = "events" => Known(Line[i].rows)
Carried ==
    /\ Known(shown)
    /\ \A w \in Writers : Known(pending[w])
    /\ \A f \in Requests : fetch[f].at = "read" => Known(fetch[f].rows)
    /\ LineKnown

ByMessage(r) == \E i \in 1..Len(Line) : Carries(Line[i], r) /\ NoResetAfter(i)
ByWriter(r) == \E w \in Writers : r \in pending[w]
ByRequest(r) == \E f \in Requests : fetch[f] = Asked \/ (fetch[f].at = "read" /\ r \in fetch[f].rows)

\* Whatever is in the table while a reset is under way was stored after the
\* deletion, and its message follows the reset.
AfterReset ==
    conn # "closed" => \A r \in events : ByWriter(r) \/ ByMessage(r) \/ NoResetAfter(0)

IInv == Shapes /\ Table /\ Carried /\ AfterReset /\ NothingLost

\* The ways a row can be coming: its writer, a message, or a request no reset
\* will undo.
LEMMA Ways ==
  ASSUME NEW r
  PROVE  OnItsWay(r) <=> ByWriter(r) \/ ByMessage(r) \/ (NoResetAfter(0) /\ ByRequest(r))
  BY DEF OnItsWay, ByWriter, ByMessage, ByRequest

-----------------------------------------------------------------------------
(* The line: the message being sent, then the queue.                       *)

\* The line by its positions.
LEMMA LineIs ==
  ASSUME Shapes
  PROVE  /\ Line \in Seq(Message) /\ Len(Line) = Len(wire) + Len(q)
         /\ \A i \in 1..Len(Line) : Line[i] = IF i <= Len(wire) THEN wire[i] ELSE q[i - Len(wire)]
  BY DEF Shapes, Line

\* A message at the end disturbs none before it, unless it is a reset.
LEMMA LineAppend ==
  ASSUME Shapes, NEW m \in Message, wire' = wire, q' = Append(q, m), born' = born
  PROVE  /\ LineKnown /\ (m.type = "events" => Known(m.rows)) => LineKnown'
         /\ m # Reset => /\ NoResetAfter(0) => NoResetAfter(0)'
                         /\ \A r : ByMessage(r) \/ Carries(m, r) => ByMessage(r)'
  <1>0. PICK n \in Nat, a \in Nat, b \in Nat : n = Len(Line) /\ a = Len(wire) /\ b = Len(q)
    BY LineIs DEF Shapes
  <1>1. n = a + b
        /\ \A i \in 1..n : Line[i] = IF i <= a THEN wire[i] ELSE q[i - a]
    BY <1>0, LineIs DEF Shapes
  <1>2. q' \in Seq(Message) /\ Len(q') = b + 1 /\ q'[b + 1] = m
        /\ \A i \in 1..b : q'[i] = q[i]
    BY <1>0 DEF Shapes
  <1>3. Line' \in Seq(Message) /\ Len(Line') = a + (b + 1)
        /\ \A i \in 1..Len(Line') : Line'[i] = IF i <= a THEN wire[i] ELSE q'[i - a]
    BY <1>0, <1>2 DEF Shapes, Line
  <1>4. Len(Line') = n + 1 /\ Line'[n + 1] = m
    BY <1>1, <1>2, <1>3
  <1>5. \A i \in 1..n : Line'[i] = Line[i]
    <2> SUFFICES ASSUME NEW i \in 1..n PROVE Line'[i] = Line[i]
      OBVIOUS
    <2>1. CASE i <= a
      BY <1>1, <1>3, <1>4, <2>1
    <2>2. CASE i > a
      <3>1. i - a \in 1..b
        BY <1>1, <2>2
      <3>. QED  BY <1>1, <1>2, <1>3, <1>4, <2>2, <3>1
    <2>. QED  BY <1>1, <2>1, <2>2
  <1>6. LineKnown /\ (m.type = "events" => Known(m.rows)) => LineKnown'
    <2> SUFFICES ASSUME LineKnown, m.type = "events" => Known(m.rows), NEW i \in 1..(n + 1),
                        Line'[i].type = "events"
                 PROVE  Known(Line'[i].rows)
      BY <1>4 DEF LineKnown, Known
    <2>1. CASE i = n + 1
      BY <1>4, <2>1
    <2>2. CASE i \in 1..n
      BY <1>0, <1>5, <2>2 DEF LineKnown
    <2>. QED  BY <1>1, <2>1, <2>2
  <1>7. ASSUME m # Reset, NEW k \in 0..n, NoResetAfter(k) PROVE NoResetAfter(k)'
    <2> SUFFICES ASSUME NEW i \in (k + 1)..(n + 1) PROVE Line'[i] # Reset
      BY <1>4 DEF NoResetAfter
    <2>1. CASE i = n + 1
      BY <1>4, <1>7, <2>1
    <2>2. CASE i \in (k + 1)..n
      BY <1>0, <1>1, <1>5, <1>7, <2>2 DEF NoResetAfter
    <2>. QED  BY <1>1, <2>1, <2>2
  <1>8. ASSUME m # Reset, NEW r, ByMessage(r) \/ Carries(m, r) PROVE ByMessage(r)'
    <2>1. CASE Carries(m, r)
      <3>1. Carries(Line'[n + 1], r)
        BY <1>4, <2>1
      <3>2. NoResetAfter(n + 1)'
        BY <1>1, <1>4 DEF NoResetAfter
      <3>. QED  BY <1>1, <1>4, <3>1, <3>2 DEF ByMessage, Carries
    <2>2. CASE ByMessage(r)
      <3>1. PICK i \in 1..n : Carries(Line[i], r) /\ NoResetAfter(i)
        BY <1>0, <2>2 DEF ByMessage
      <3>2. NoResetAfter(i)' /\ Carries(Line'[i], r)
        BY <1>1, <1>5, <1>7, <1>8, <3>1
      <3>. QED  BY <1>1, <1>4, <3>2 DEF ByMessage, Carries
    <2>. QED  BY <1>8, <2>1, <2>2
  <1>. QED  BY <1>1, <1>6, <1>7, <1>8

\* The gap that replaces the oldest message of a full queue stands for every row.
LEMMA LineOverflow ==
  ASSUME Shapes, q # <<>>, NEW m \in Message, wire' = wire, q' = Append(Tail(q), m), born' = born
  PROVE  /\ LineKnown /\ m.type # "events" => LineKnown'
         /\ m = Gap => \A r : ByMessage(r)'
  <1>0. PICK n \in Nat, a \in Nat, b \in Nat : n = Len(Line) /\ a = Len(wire) /\ b = Len(q)
    BY LineIs DEF Shapes
  <1>1. n = a + b /\ b > 0
        /\ \A i \in 1..n : Line[i] = IF i <= a THEN wire[i] ELSE q[i - a]
    BY <1>0, LineIs DEF Shapes
  <1>2. q' \in Seq(Message) /\ Len(q') = b /\ q'[b] = m
        /\ \A i \in 1..(b - 1) : q'[i] = q[i + 1]
    BY <1>0, <1>1 DEF Shapes
  <1>3. Line' \in Seq(Message) /\ Len(Line') = a + b
        /\ \A i \in 1..Len(Line') : Line'[i] = IF i <= a THEN wire[i] ELSE q'[i - a]
    BY <1>0, <1>2 DEF Shapes, Line
  <1>4. Len(Line') = n /\ Line'[n] = m
    BY <1>1, <1>2, <1>3
  <1>5. \A i \in 1..(n - 1) : \E j \in 1..n : Line'[i] = Line[j]
    <2> SUFFICES ASSUME NEW i \in 1..(n - 1) PROVE \E j \in 1..n : Line'[i] = Line[j]
      OBVIOUS
    <2>1. CASE i <= a
      BY <1>1, <1>3, <1>4, <2>1
    <2>2. CASE i > a
      <3>1. i - a \in 1..(b - 1) /\ i + 1 \in 1..n /\ i + 1 > a
        BY <1>1, <2>2
      <3>2. Line'[i] = q'[i - a] /\ q'[i - a] = q[(i - a) + 1]
        BY <1>1, <1>2, <1>3, <1>4, <2>2, <3>1
      <3>3. Line[i + 1] = q[(i + 1) - a]
        BY <1>1, <3>1
      <3>4. (i + 1) - a = (i - a) + 1
        BY <1>1
      <3>. QED  BY <3>1, <3>2, <3>3, <3>4
    <2>. QED  BY <1>1, <2>1, <2>2
  <1>6. LineKnown /\ m.type # "events" => LineKnown'
    <2> SUFFICES ASSUME LineKnown, m.type # "events", NEW i \in 1..n, Line'[i].type = "events"
                 PROVE  Known(Line'[i].rows)
      BY <1>4 DEF LineKnown, Known
    <2>1. i \in 1..(n - 1)
      BY <1>1, <1>4
    <2>2. PICK j \in 1..n : Line'[i] = Line[j]
      BY <1>5, <2>1
    <2>. QED  BY <1>0, <2>2 DEF LineKnown
  <1>7. ASSUME m = Gap, NEW r PROVE ByMessage(r)'
    <2>1. Carries(Line'[n], r) /\ n \in 1..Len(Line')
      BY <1>1, <1>4, <1>7 DEF Carries
    <2>2. NoResetAfter(n)'
      BY <1>1, <1>4 DEF NoResetAfter
    <2>. QED  BY <2>1, <2>2 DEF ByMessage, Carries
  <1>. QED  BY <1>6, <1>7

\* The page takes the first message of the line.
LEMMA LineReceive ==
  ASSUME Shapes, wire # <<>>, wire' = <<>>, q' = q, born' = born
  PROVE  /\ LineKnown => LineKnown' /\ (Head(wire).type = "events" => Known(Head(wire).rows))
         /\ NoResetAfter(0) => NoResetAfter(0)' /\ Head(wire) # Reset
         /\ \A r : ByMessage(r) => ByMessage(r)' \/ (Carries(Head(wire), r) /\ NoResetAfter(0)')
  <1>00. Len(wire) = 1
    <2>1. wire \in Seq(Message) /\ Len(wire) <= 1
      BY DEF Shapes
    <2>2. \A m \in Seq(Message) : m # <<>> => Len(m) \in Nat \ {0}
      BY EmptySeq
    <2>3. Len(wire) \in Nat \ {0}
      BY <2>1, <2>2
    <2>4. \A k \in Nat \ {0} : k <= 1 => k = 1
      OBVIOUS
    <2>. QED  BY <2>1, <2>3, <2>4, Zenon
  <1>0. PICK n \in Nat, b \in Nat : n = Len(Line) /\ b = Len(q) /\ Len(wire) = 1
    BY <1>00, LineIs DEF Shapes
  <1>1. n = 1 + b /\ Line[1] = Head(wire) /\ \A i \in 2..n : Line[i] = q[i - 1]
    <2>1. n = 1 + b /\ \A i \in 1..n : Line[i] = IF i <= 1 THEN wire[i] ELSE q[i - 1]
      BY <1>0, LineIs
    <2>2. wire[1] = Head(wire)
      BY <1>0 DEF Shapes
    <2>. QED  BY <2>1, <2>2
  <1>2. Line' = q
    BY DEF Shapes, Line
  <1>3. Len(Line') = n - 1 /\ n \in Nat \ {0} /\ \A i \in 1..(n - 1) : Line'[i] = Line[i + 1]
    <2>1. \A i \in 1..(n - 1) : i + 1 \in 2..n /\ (i + 1) - 1 = i
      OBVIOUS
    <2>. QED  BY <1>0, <1>1, <1>2, <2>1
  <1>4. LineKnown => LineKnown' /\ (Head(wire).type = "events" => Known(Head(wire).rows))
    <2> SUFFICES ASSUME LineKnown PROVE LineKnown' /\ (Head(wire).type = "events" => Known(Head(wire).rows))
      OBVIOUS
    <2>1. Head(wire).type = "events" => Known(Head(wire).rows)
      BY <1>0, <1>1, <1>3 DEF LineKnown
    <2>2. ASSUME NEW i \in 1..(n - 1), Line'[i].type = "events" PROVE Known(Line'[i].rows)
      <3>1. i + 1 \in 1..n /\ Line'[i] = Line[i + 1]
        BY <1>3
      <3>. QED  BY <1>0, <2>2, <3>1 DEF LineKnown
    <2>. QED  BY <1>3, <2>1, <2>2 DEF LineKnown, Known
  <1>5. ASSUME NEW k \in 1..n, NoResetAfter(k) PROVE NoResetAfter(k - 1)'
    <2> SUFFICES ASSUME NEW i \in k..(n - 1) PROVE Line'[i] # Reset
      BY <1>3 DEF NoResetAfter
    <2>1. i + 1 \in (k + 1)..n /\ Line'[i] = Line[i + 1]
      BY <1>3
    <2>. QED  BY <1>0, <1>5, <2>1 DEF NoResetAfter
  <1>6. NoResetAfter(0) => NoResetAfter(0)' /\ Head(wire) # Reset
    <2> SUFFICES ASSUME NoResetAfter(0) PROVE NoResetAfter(0)' /\ Head(wire) # Reset
      OBVIOUS
    <2>1. \A i \in 1..n : Line[i] # Reset
      BY <1>0 DEF NoResetAfter
    <2>2. \A i \in 1..(n - 1) : Line'[i] # Reset
      BY <1>3, <2>1
    <2>3. NoResetAfter(0)'
      BY <1>3, <2>2 DEF NoResetAfter
    <2>4. 1 \in 1..n
      BY <1>3
    <2>. QED  BY <1>1, <2>1, <2>3, <2>4
  <1>7. ASSUME NEW r, ByMessage(r) PROVE ByMessage(r)' \/ (Carries(Head(wire), r) /\ NoResetAfter(0)')
    <2>1. PICK i \in 1..n : Carries(Line[i], r) /\ NoResetAfter(i)
      BY <1>0, <1>7 DEF ByMessage
    <2>2. NoResetAfter(i - 1)'
      BY <1>5, <2>1
    <2>3. CASE i = 1
      <3>1. NoResetAfter(0)'
        BY <2>2, <2>3
      <3>. QED  BY <1>1, <2>1, <2>3, <3>1
    <2>4. CASE i > 1
      <3>1. i - 1 \in 1..(n - 1) /\ (i - 1) + 1 = i
        BY <1>3, <2>4
      <3>2. Line'[i - 1] = Line[i]
        BY <1>3, <3>1
      <3>3. Carries(Line'[i - 1], r)
        BY <2>1, <3>2
      <3>. QED  BY <1>3, <2>2, <3>1, <3>3 DEF ByMessage, Carries
    <2>. QED  BY <2>3, <2>4
  <1>. QED  BY <1>4, <1>6, <1>7

-----------------------------------------------------------------------------
(* The newest rows.                                                        *)

\* Ids tell rows apart.
LEMMA IdIsRow ==
  ASSUME NEW r \in {Stored(n) : n \in 1..born}, NEW s \in {Stored(n) : n \in 1..born}, r.id = s.id
  PROVE  r = s
  BY DEF Stored

\* merge() never drops one of the newest rows of the table: what is newer than
\* it on the page is newer than it in the table.
LEMMA MergeKeeps ==
  ASSUME born \in Nat, Table, NEW rows, NEW data, Known(rows), Known(data),
         NEW r \in Newest(events), r \in rows \cup data
  PROVE  r \in Merge(rows, data)
  <1> DEFINE all == data \cup {x \in rows : \A d \in data : d.id # x.id}
             above(set) == {s \in set : s.id > r.id}
  <1>1. r \in all
    BY IdIsRow DEF Known
  <1>2. r \in events /\ IsFiniteSet(events)
    BY DEF Newest, Table
  <1>3. above(all) \subseteq above(events)
    <2> SUFFICES ASSUME NEW s \in all, s.id > r.id PROVE s \in events
      OBVIOUS
    <2>1. PICK n \in 1..born : s = Stored(n)
      BY DEF Known
    <2>2. PICK m \in 1..born : r = Stored(m)
      BY <1>2 DEF Known, Table
    <2>3. n >= r.id
      BY <2>1, <2>2 DEF Stored
    <2>. QED  BY <1>2, <2>1, <2>3 DEF Table
  <1>4. IsFiniteSet(above(events))
    BY <1>2, FS_Subset
  <1>5. Cardinality(above(all)) <= Cardinality(above(events)) /\ Cardinality(above(events)) < Keep
        /\ Cardinality(above(all)) \in Nat /\ Cardinality(above(events)) \in Nat
    <2>1. Cardinality(above(events)) < Keep
      BY DEF Newest
    <2>2. IsFiniteSet(above(all)) /\ Cardinality(above(all)) <= Cardinality(above(events))
      BY <1>3, <1>4, FS_Subset
    <2>. QED  BY <1>4, <2>1, <2>2, FS_CardinalityType
  <1>6. Cardinality(above(all)) < Keep
    BY <1>5, LiveFeedAssumption DEF LiveFeedAssumption
  <1>. QED  BY <1>1, <1>6 DEF Merge, Newest

\* What is merged was stored.
LEMMA MergeKnown ==
  ASSUME NEW rows, NEW data, Known(rows), Known(data)
  PROVE  Known(Merge(rows, data))
  BY DEF Merge, Newest, Known

-----------------------------------------------------------------------------
\* At first there is nothing.
LEMMA InitIInv == Init => IInv
  <1> SUFFICES ASSUME Init PROVE IInv
    OBVIOUS
  <1>1. Line = <<>>
    BY DEF Init, Line
  <1>2. Shapes
    BY DEF Init, Shapes, FetchState, Idle
  <1>3. Table
    BY FS_EmptySet DEF Init, Table, Known
  <1>4. Carried
    BY <1>1 DEF Init, Carried, LineKnown, Known, Idle
  <1>. QED  BY <1>2, <1>3, <1>4 DEF Init, IInv, AfterReset, NothingLost

\* What was stored stays known.
LEMMA StillKnown ==
  ASSUME NEW rows, Known(rows), born \in Nat, born' \in {born, born + 1}
  PROVE  rows \subseteq {Stored(n) : n \in 1..born'}
  BY DEF Known

\* A writer commits a row; it is ahead of all others.
LEMMA StoreKeeps ==
  ASSUME ~IdsReused, IInv, NEW w \in Writers, Store(w)
  PROVE  IInv'
  <1>0. PICK row : row = Stored(born + 1)
    OBVIOUS
  <1>1. /\ born \in Nat /\ born' = born + 1 /\ pending[w] = {} /\ ~clearing /\ born < MaxBorn
        /\ events' = events \cup {row} /\ pending' = [pending EXCEPT ![w] = {row}]
        /\ UNCHANGED <<clearing, conn, q, wire, fetch, failed, shown>>
    BY <1>0 DEF IInv, Shapes, Store, NextId, Stored, page
  <1>2. row \in Row /\ row.id = born + 1
    BY <1>0, <1>1, LiveFeedAssumption DEF Row, Stored, LiveFeedAssumption
  <1>3. pending'[w] = {row} /\ \A v \in Writers \ {w} : pending'[v] = pending[v]
    BY <1>1 DEF IInv, Shapes
  <1>4. Shapes'
    <2>1. pending' \in [Writers -> SUBSET Row]
      BY <1>1, <1>2 DEF IInv, Shapes
    <2>. QED  BY <1>1, <2>1 DEF IInv, Shapes
  <1>5. Known({row})' /\ Known(events)'
    <2>1. row \in {Stored(n) : n \in 1..born'}
      BY <1>0, <1>1
    <2>2. events \subseteq {Stored(n) : n \in 1..born'}
      BY <1>1, StillKnown DEF IInv, Table
    <2>. QED  BY <1>1, <2>1, <2>2 DEF Known
  <1>6. Table'
    <2>1. IsFiniteSet(events')
      BY <1>1, FS_AddElement DEF IInv, Table
    <2>2. \A r \in events' : \A n \in 1..born' : n >= r.id => Stored(n) \in events'
      <3> SUFFICES ASSUME NEW r \in events', NEW n \in 1..born', n >= r.id PROVE Stored(n) \in events'
        OBVIOUS
      <3>1. CASE n = born + 1
        BY <1>0, <1>1, <3>1
      <3>2. CASE n # born + 1
        <4>1. n \in 1..born /\ r \in events
          BY <1>1, <1>2, <3>2
        <4>. QED  BY <1>1, <4>1 DEF IInv, Table
      <3>. QED  BY <3>1, <3>2
    <2>. QED  BY <1>1, <1>2, <1>5, <2>1, <2>2 DEF IInv, Table
  <1>7. Carried'
    <2>1. Line' = Line
      BY <1>1 DEF Line
    <2>2. \A v \in Writers : Known(pending[v])'
      BY <1>1, <1>3, <1>5, StillKnown DEF IInv, Carried, Known
    <2>3. LineKnown'
      BY <1>1, <2>1, StillKnown DEF IInv, Carried, LineKnown, Known
    <2>4. Known(shown)' /\ \A f \in Requests : fetch'[f].at = "read" => Known(fetch[f].rows)'
      BY <1>1, StillKnown DEF IInv, Carried, Known
    <2>. QED  BY <2>2, <2>3, <2>4 DEF Carried
  <1>8. ASSUME NEW r PROVE /\ ByWriter(r) => ByWriter(r)'
                           /\ ByMessage(r) <=> ByMessage(r)'
                           /\ ByRequest(r) <=> ByRequest(r)'
                           /\ NoResetAfter(0) <=> NoResetAfter(0)'
    <2>1. ByWriter(r) => ByWriter(r)'
      BY <1>1, <1>3 DEF ByWriter
    <2>2. Line' = Line
      BY <1>1 DEF Line
    <2>. QED  BY <1>1, <2>1, <2>2 DEF ByMessage, ByRequest, NoResetAfter, Carries
  <1>9. ByWriter(row)'
    BY <1>3 DEF ByWriter
  <1>10. AfterReset'
    BY <1>1, <1>8, <1>9 DEF IInv, AfterReset
  <1>11. Newest(events') \subseteq Newest(events) \cup {row}
    <2> SUFFICES ASSUME NEW r \in Newest(events'), r # row PROVE r \in Newest(events)
      OBVIOUS
    <2> DEFINE above(set) == {s \in set : s.id > r.id}
    <2>1. r \in events /\ above(events) \subseteq above(events') /\ IsFiniteSet(above(events'))
      BY <1>1, <1>6, FS_Subset DEF Newest, Table
    <2>2. Cardinality(above(events')) < Keep
      BY DEF Newest
    <2>3. Cardinality(above(events)) < Keep
      BY <2>1, <2>2, FS_Subset, FS_CardinalityType, LiveFeedAssumption DEF LiveFeedAssumption
    <2>. QED  BY <2>1, <2>3 DEF Newest
  <1>12. NothingLost'
    <2> SUFFICES ASSUME conn' = "open", ~failed', NEW r \in Newest(events')
                 PROVE  OnItsWay(r)' \/ (r \in shown' /\ NoResetAfter(0)')
      BY DEF NothingLost
    <2>1. CASE r = row
      BY <1>9, <2>1 DEF OnItsWay, ByWriter
    <2>2. CASE r \in Newest(events)
      <3>1. OnItsWay(r) \/ (r \in shown /\ NoResetAfter(0))
        BY <1>1, <2>2 DEF IInv, NothingLost
      <3>. QED  BY <1>1, <1>8, <3>1, Ways DEF OnItsWay, ByWriter, ByMessage, ByRequest
    <2>. QED  BY <1>11, <2>1, <2>2
  <1>. QED  BY <1>4, <1>6, <1>7, <1>10, <1>12 DEF IInv

\* A step that leaves the line alone leaves what depends on it alone.
LEMMA LineStays ==
  ASSUME Line' = Line, born' = born
  PROVE  /\ LineKnown => LineKnown'
         /\ NoResetAfter(0) => NoResetAfter(0)'
         /\ \A r : ByMessage(r) => ByMessage(r)'
  BY DEF LineKnown, Known, NoResetAfter, ByMessage, Carries

\* publish(): the rows leave the writer for the queue of each client, or a gap
\* takes the place of the oldest message.
LEMMA PublishKeeps ==
  ASSUME IInv, NEW w \in Writers, Publish(w)
  PROVE  IInv'
  <1>0. PICK m : m = [type |-> "events", rows |-> pending[w]]
    OBVIOUS
  <1>1. /\ pending' = [pending EXCEPT ![w] = {}]
        /\ UNCHANGED <<events, born, clearing, conn, wire, fetch, failed, shown>>
    BY DEF Publish, page
  <1>2. m \in Message /\ m # Reset /\ m.type = "events" /\ Known(m.rows) /\ \A r \in pending[w] : Carries(m, r)
    BY <1>0 DEF IInv, Shapes, Carried, Message, Reset, Carries
  <1>3. Gap \in Message /\ Gap # Reset /\ Gap.type # "events"
    BY DEF Gap, Message, Reset
  <1>4. \A v \in Writers : pending'[v] = {} \/ pending'[v] = pending[v]
    BY <1>1 DEF IInv, Shapes
  <1>5. pending' \in [Writers -> SUBSET Row]
    BY <1>1 DEF IInv, Shapes
  <1>6. Table'
    BY <1>1 DEF IInv, Table, Known
  <1>7. Known(shown)' /\ (\A v \in Writers : Known(pending[v])')
        /\ \A f \in Requests : fetch'[f].at = "read" => Known(fetch[f].rows)'
    BY <1>1, <1>4 DEF IInv, Carried, Known
  <1>8. \A r : ByWriter(r) => ByWriter(r)' \/ r \in pending[w]
    BY <1>1 DEF IInv, Shapes, ByWriter
  <1>9. CASE conn = "closed" /\ q' = q
    <2>1. Line' = Line
      BY <1>1, <1>9 DEF Line
    <2>2. Shapes'
      BY <1>1, <1>5, <1>9 DEF IInv, Shapes
    <2>3. Carried'
      BY <1>1, <1>7, <2>1, LineStays DEF IInv, Carried
    <2>. QED  BY <1>1, <1>6, <1>9, <2>2, <2>3 DEF IInv, AfterReset, NothingLost
  <1>10. CASE conn # "closed" /\ Len(q) = Cap /\ q' = Append(Tail(q), Gap)
    <2>1. q # <<>> /\ q' \in Seq(Message)
      BY <1>3, <1>10, LiveFeedAssumption DEF IInv, Shapes, LiveFeedAssumption
    <2>2. Shapes'
      BY <1>1, <1>5, <1>10, <2>1 DEF IInv, Shapes
    <2>3. LineKnown' /\ \A r : ByMessage(r)'
      BY <1>1, <1>3, <1>10, <2>1, LineOverflow DEF IInv, Carried
    <2>4. Carried'
      BY <1>7, <2>3 DEF Carried
    <2>5. AfterReset' /\ NothingLost'
      BY <2>3, Ways DEF AfterReset, NothingLost, OnItsWay, ByMessage
    <2>. QED  BY <1>6, <2>2, <2>4, <2>5 DEF IInv
  <1>11. CASE conn # "closed" /\ q' = Append(q, m)
    <2>1. Shapes'
      BY <1>1, <1>2, <1>5, <1>11 DEF IInv, Shapes
    <2>2. /\ LineKnown' /\ (NoResetAfter(0) => NoResetAfter(0)')
          /\ \A r : ByMessage(r) \/ Carries(m, r) => ByMessage(r)'
      BY <1>1, <1>2, <1>11, LineAppend DEF IInv, Carried
    <2>3. Carried'
      BY <1>7, <2>2 DEF Carried
    <2>4. \A r : ByRequest(r) => ByRequest(r)'
      BY <1>1 DEF ByRequest
    <2>5. \A r : ByWriter(r) \/ ByMessage(r) => ByWriter(r)' \/ ByMessage(r)'
      BY <1>2, <1>8, <2>2
    <2>6. AfterReset'
      BY <1>1, <2>2, <2>5 DEF IInv, AfterReset
    <2>7. NothingLost'
      <3> SUFFICES ASSUME conn' = "open", ~failed', NEW r \in Newest(events)
                   PROVE  (OnItsWay(r) \/ (r \in shown /\ NoResetAfter(0)))'
        BY <1>1 DEF NothingLost
      <3>1. OnItsWay(r) \/ (r \in shown /\ NoResetAfter(0))
        BY <1>1 DEF IInv, NothingLost
      <3>2. ByWriter(r)' \/ ByMessage(r)' \/ (NoResetAfter(0)' /\ ByRequest(r)') \/ (r \in shown' /\ NoResetAfter(0)')
        BY <1>1, <2>2, <2>4, <2>5, <3>1, Ways
      <3>. QED  BY <3>2 DEF OnItsWay, ByWriter, ByMessage, ByRequest
    <2>. QED  BY <1>6, <2>1, <2>3, <2>6, <2>7 DEF IInv
  <1>. QED  BY <1>0, <1>9, <1>10, <1>11 DEF Publish

\* A purge takes the oldest rows: what was among the newest stays there.
LEMMA PurgeKeeps ==
  ASSUME IInv, Purge
  PROVE  IInv'
  <1>1. PICK oldest \in events : events' = {r \in events : r.id > oldest.id}
    BY DEF Purge
  <1>2. UNCHANGED <<born, pending, clearing, conn, q, wire, fetch, failed, shown>> /\ ~clearing
    BY DEF Purge, page
  <1>3. Line' = Line
    BY <1>2 DEF Line
  <1>4. IsFiniteSet(events') /\ events' \subseteq events
    BY <1>1, FS_Subset DEF IInv, Table
  <1>5. Table'
    <2> SUFFICES ASSUME NEW r \in events', NEW n \in 1..born, n >= r.id PROVE Stored(n) \in events'
      BY <1>2, <1>4 DEF IInv, Table, Known
    <2>1. Stored(n) \in events /\ Stored(n).id = n
      BY <1>4 DEF IInv, Table, Stored
    <2>2. r.id > oldest.id /\ r.id \in Nat /\ oldest.id \in Nat /\ born \in Nat
      BY <1>1 DEF IInv, Shapes, Table, Row
    <2>. QED  BY <1>1, <2>1, <2>2
  <1>6. Shapes' /\ Carried'
    BY <1>2, <1>3, LineStays DEF IInv, Shapes, Carried, Known
  <1>7. Newest(events') \subseteq Newest(events)
    <2> SUFFICES ASSUME NEW r \in Newest(events') PROVE r \in Newest(events)
      OBVIOUS
    <2>1. r \in events' /\ Cardinality({s \in events' : s.id > r.id}) < Keep
      BY DEF Newest
    <2>2. r.id > oldest.id /\ r.id \in Nat /\ oldest.id \in Nat /\ \A s \in events : s.id \in Nat
      BY <1>1, <2>1 DEF IInv, Table, Row
    <2>3. {s \in events' : s.id > r.id} = {s \in events : s.id > r.id}
      BY <1>1, <2>2
    <2>. QED  BY <1>4, <2>1, <2>3 DEF Newest
  <1>8. AfterReset'
    <2> SUFFICES ASSUME conn # "closed", NEW r \in events' PROVE (ByWriter(r) \/ ByMessage(r) \/ NoResetAfter(0))'
      BY <1>2 DEF AfterReset
    <2>1. ByWriter(r) \/ ByMessage(r) \/ NoResetAfter(0)
      BY <1>4 DEF IInv, AfterReset
    <2>2. ByWriter(r) => ByWriter(r)'
      BY <1>2 DEF ByWriter
    <2>3. (ByMessage(r) => ByMessage(r)') /\ (NoResetAfter(0) => NoResetAfter(0)')
      BY <1>2, <1>3, LineStays
    <2>. QED  BY <2>1, <2>2, <2>3
  <1>9. NothingLost'
    <2> SUFFICES ASSUME conn' = "open", ~failed', NEW r \in Newest(events)
                 PROVE  (OnItsWay(r) \/ (r \in shown /\ NoResetAfter(0)))'
      BY <1>7 DEF NothingLost
    <2>1. OnItsWay(r) \/ (r \in shown /\ NoResetAfter(0))
      BY <1>2 DEF IInv, NothingLost
    <2>. QED  BY <1>2, <1>3, <2>1 DEF OnItsWay, NoResetAfter, Carries
  <1>. QED  BY <1>5, <1>6, <1>8, <1>9 DEF IInv

\* With an empty table there is nothing to lose.
LEMMA EmptyKeeps ==
  ASSUME Shapes', Carried', Table', events' = {}
  PROVE  IInv'
  BY DEF IInv, AfterReset, NothingLost, Newest

\* delete_data() empties the table, then tells the clients.
LEMMA DeletionKeeps ==
  ASSUME IInv, Clear \/ BroadcastReset
  PROVE  IInv'
  <1>1. CASE Clear
    <2>1. /\ events' = {} /\ clearing'
          /\ UNCHANGED <<born, pending, conn, q, wire, fetch, failed, shown>>
      BY <1>1 DEF Clear, page
    <2>2. Line' = Line
      BY <2>1 DEF Line
    <2>3. Shapes' /\ Carried'
      BY <2>1, <2>2, LineStays DEF IInv, Shapes, Carried, Known
    <2>4. Table'
      BY <2>1, FS_EmptySet DEF Table, Known
    <2>. QED  BY <2>1, <2>3, <2>4, EmptyKeeps
  <1>2. CASE BroadcastReset
    <2>1. /\ events = {} /\ events' = {} /\ ~clearing'
          /\ UNCHANGED <<born, pending, conn, wire, fetch, failed, shown>>
      BY <1>2 DEF BroadcastReset, page, IInv, Table
    <2>2. Reset \in Message /\ Reset.type # "events"
      BY DEF Reset, Message
    <2>3. Table'
      BY <2>1, FS_EmptySet DEF Table, Known
    <2>4. q' \in Seq(Message) /\ (conn = "closed" => q' = q) /\ LineKnown'
      <3>1. CASE conn = "closed" /\ q' = q
        <4>1. Line' = Line
          BY <2>1, <3>1 DEF Line
        <4>. QED  BY <2>1, <3>1, <4>1, LineStays DEF IInv, Shapes, Carried
      <3>2. CASE conn # "closed" /\ Len(q) = Cap /\ q' = Append(Tail(q), Reset)
        <4>1. q # <<>> /\ q' \in Seq(Message)
          BY <2>2, <3>2, LiveFeedAssumption DEF IInv, Shapes, LiveFeedAssumption
        <4>. QED  BY <2>1, <2>2, <3>2, <4>1, LineOverflow DEF IInv, Carried
      <3>3. CASE conn # "closed" /\ q' = Append(q, Reset)
        <4>1. q' \in Seq(Message)
          BY <2>2, <3>3 DEF IInv, Shapes
        <4>. QED  BY <2>1, <2>2, <3>3, <4>1, LineAppend DEF IInv, Carried
      <3>. QED  BY <1>2, <3>1, <3>2, <3>3 DEF BroadcastReset
    <2>5. Shapes' /\ Carried'
      BY <2>1, <2>4 DEF IInv, Shapes, Carried, Known
    <2>. QED  BY <2>1, <2>3, <2>5, EmptyKeeps
  <1>. QED  BY <1>1, <1>2

\* The connection comes and goes; a new one begins with an empty line and a
\* request for the history.
LEMMA ConnectionKeeps ==
  ASSUME IInv, Accept \/ Open \/ Disconnect \/ Send
  PROVE  IInv'
  <1>0. UNCHANGED <<events, born, pending, clearing, shown>>
    BY DEF Accept, Open, Disconnect, Send, server, page
  <1>1. Table'
    BY <1>0 DEF IInv, Table, Known
  <1>2. CASE Accept \/ Disconnect
    <2>1. /\ conn' = "accepted" \/ conn' = "closed"
          /\ q' = <<>> /\ wire' = <<>> /\ UNCHANGED <<fetch, failed>>
      BY <1>2 DEF Accept, Disconnect, page, IInv, Shapes
    <2>2. Line' = <<>>
      BY <2>1 DEF Line
    <2>3. Shapes'
      BY <1>0, <2>1 DEF IInv, Shapes
    <2>4. Carried'
      BY <1>0, <2>1, <2>2 DEF IInv, Carried, LineKnown, Known
    <2>5. AfterReset' /\ NothingLost'
      BY <2>1, <2>2 DEF AfterReset, NothingLost, NoResetAfter
    <2>. QED  BY <1>1, <2>3, <2>4, <2>5 DEF IInv
  <1>3. CASE Open
    <2>1. conn = "accepted" /\ conn' = "open" /\ UNCHANGED <<q, wire>>
      BY <1>3 DEF Open
    <2>2. PICK f \in Requests : fetch' = [fetch EXCEPT ![f] = Asked]
      BY <1>3 DEF Open, Ask
    <2>3. Asked \in FetchState /\ Asked.at # "read"
      BY DEF Asked, FetchState
    <2>4. fetch' \in [Requests -> FetchState] /\ fetch'[f] = Asked /\ \A g \in Requests \ {f} : fetch'[g] = fetch[g]
      BY <2>2, <2>3 DEF IInv, Shapes
    <2>5. Line' = Line
      BY <2>1 DEF Line
    <2>6. Shapes'
      BY <1>0, <2>1, <2>4 DEF IInv, Shapes
    <2>7. Carried'
      <3>1. \A g \in Requests : fetch'[g].at = "read" => Known(fetch[g].rows)'
        BY <1>0, <2>3, <2>4 DEF IInv, Carried, Known
      <3>. QED  BY <1>0, <2>5, <3>1, LineStays DEF IInv, Carried, Known
    <2>8. \A r \in events : ByWriter(r)' \/ ByMessage(r)' \/ NoResetAfter(0)'
      <3>1. \A r \in events : ByWriter(r) \/ ByMessage(r) \/ NoResetAfter(0)
        BY <2>1 DEF IInv, AfterReset
      <3>2. \A r : ByWriter(r) => ByWriter(r)'
        BY <1>0 DEF ByWriter
      <3>. QED  BY <1>0, <2>5, <3>1, <3>2, LineStays
    <2>9. \A r : ByRequest(r)'
      BY <2>4 DEF ByRequest
    <2>10. NothingLost'
      <3> SUFFICES ASSUME NEW r \in Newest(events) PROVE OnItsWay(r)'
        BY <1>0 DEF NothingLost
      <3>1. r \in events
        BY DEF Newest
      <3>2. ByWriter(r)' \/ ByMessage(r)' \/ (NoResetAfter(0)' /\ ByRequest(r)')
        BY <2>8, <2>9, <3>1
      <3>. QED  BY <3>2 DEF OnItsWay, ByWriter, ByMessage, ByRequest
    <2>. QED  BY <1>0, <1>1, <2>6, <2>7, <2>8, <2>10 DEF IInv, AfterReset
  <1>4. CASE Send
    <2>1. /\ conn # "closed" /\ q # <<>> /\ wire = <<>> /\ wire' = <<Head(q)>> /\ q' = Tail(q)
          /\ UNCHANGED <<conn, fetch, failed>>
      BY <1>4 DEF Send, page
    <2>2. Head(q) \in Message /\ q' \in Seq(Message) /\ wire' \in Seq(Message) /\ Len(wire') = 1
      BY <2>1, HeadTailProperties DEF IInv, Shapes
    <2>3. Line' = Line
      BY <2>1 DEF IInv, Shapes, Line
    <2>4. Shapes' /\ Carried'
      BY <1>0, <2>1, <2>2, <2>3, LineStays DEF IInv, Shapes, Carried, Known
    <2>5. AfterReset' /\ NothingLost'
      BY <1>0, <2>1, <2>3 DEF IInv, AfterReset, NothingLost, OnItsWay, ByWriter, ByMessage, NoResetAfter, Carries
    <2>. QED  BY <1>1, <2>4, <2>5 DEF IInv
  <1>. QED  BY <1>2, <1>3, <1>4

-----------------------------------------------------------------------------
(* The page.                                                               *)

\* The page takes a message: events are shown, a gap asks for the history, a
\* reset empties the page.
LEMMA ReceiveKeeps ==
  ASSUME IInv, Receive
  PROVE  IInv'
  <1> DEFINE m == Head(wire)
  <1>0. /\ conn = "open" /\ wire # <<>> /\ wire' = <<>>
        /\ UNCHANGED <<events, born, pending, clearing, conn, q, failed>>
    BY DEF Receive, ReceiveEvents, ReceiveGap, ReceiveReset, server
  <1>1. Table'
    BY <1>0 DEF IInv, Table, Known
  <1>2. /\ LineKnown' /\ (m.type = "events" => Known(m.rows))
        /\ NoResetAfter(0) => NoResetAfter(0)' /\ m # Reset
        /\ \A r : ByMessage(r) => ByMessage(r)' \/ (Carries(m, r) /\ NoResetAfter(0)')
    BY <1>0, LineReceive DEF IInv, Carried
  <1>3. m \in Message
    BY <1>0, HeadTailProperties DEF IInv, Shapes
  <1>4. \A r : ByWriter(r) => ByWriter(r)'
    BY <1>0 DEF ByWriter
  <1>5. AfterReset'
    BY <1>0, <1>2, <1>4 DEF IInv, AfterReset
  <1>6. \A w \in Writers : Known(pending[w])'
    BY <1>0 DEF IInv, Carried, Known
  <1>7. ASSUME NEW r \in Newest(events), ~failed
        PROVE  ByWriter(r) \/ ByMessage(r) \/ (NoResetAfter(0) /\ (ByRequest(r) \/ r \in shown))
    BY <1>0, <1>7, Ways DEF IInv, NothingLost
  <1>8. ASSUME \A r \in Newest(events) :
                   /\ Carries(m, r) => ByRequest(r)' \/ r \in shown'
                   /\ m # Reset /\ r \in shown => r \in shown'
                   /\ ByRequest(r) => ByRequest(r)'
        PROVE  NothingLost'
    <2> SUFFICES ASSUME ~failed, NEW r \in Newest(events)
                 PROVE  (OnItsWay(r) \/ (r \in shown /\ NoResetAfter(0)))'
      BY <1>0 DEF NothingLost
    <2>1. ByWriter(r)' \/ ByMessage(r)' \/ (NoResetAfter(0)' /\ (ByRequest(r)' \/ r \in shown'))
      BY <1>2, <1>4, <1>7, <1>8
    <2>. QED  BY <2>1 DEF OnItsWay, ByWriter, ByMessage, ByRequest
  <1>9. CASE ReceiveEvents
    <2>1. m.type = "events" /\ shown' = Merge(shown, m.rows) /\ fetch' = fetch
      BY <1>9 DEF ReceiveEvents
    <2>2. Known(m.rows) /\ Known(shown)
      BY <1>2, <2>1 DEF IInv, Carried
    <2>3. Shapes'
      BY <1>0, <2>1 DEF IInv, Shapes
    <2>4. Known(Merge(shown, m.rows))
      BY <2>2, MergeKnown
    <2>5. Carried'
      BY <1>0, <1>2, <1>6, <2>1, <2>4 DEF IInv, Carried, Known
    <2>6. m # Gap
      BY <2>1 DEF Gap
    <2>7. \A r \in Newest(events) : Carries(m, r) \/ r \in shown => r \in shown'
      BY <2>1, <2>2, <2>6, MergeKeeps DEF IInv, Shapes, Carries
    <2>8. \A r : ByRequest(r) => ByRequest(r)'
      BY <2>1 DEF ByRequest
    <2>. QED  BY <1>1, <1>5, <1>8, <2>3, <2>5, <2>7, <2>8 DEF IInv
  <1>10. CASE ReceiveGap
    <2>1. m.type = "gap" /\ shown' = shown
      BY <1>10 DEF ReceiveGap
    <2>2. PICK f \in Requests : fetch[f] = Idle /\ fetch' = [fetch EXCEPT ![f] = Asked]
      BY <1>10 DEF ReceiveGap, Ask
    <2>3. Asked \in FetchState /\ Asked.at # "read"
      BY DEF Asked, FetchState
    <2>4. fetch' \in [Requests -> FetchState] /\ fetch'[f] = Asked /\ \A g \in Requests \ {f} : fetch'[g] = fetch[g]
      BY <2>2, <2>3 DEF IInv, Shapes
    <2>5. Shapes'
      BY <1>0, <2>4 DEF IInv, Shapes
    <2>6. \A g \in Requests : fetch'[g].at = "read" => Known(fetch[g].rows)'
      BY <1>0, <2>3, <2>4 DEF IInv, Carried, Known
    <2>7. Carried'
      BY <1>0, <1>2, <1>6, <2>1, <2>6 DEF IInv, Carried, Known
    <2>8. \A r : ByRequest(r)'
      BY <2>4 DEF ByRequest
    <2>. QED  BY <1>1, <1>5, <1>8, <2>1, <2>5, <2>7, <2>8 DEF IInv
  <1>11. CASE ReceiveReset
    <2>1. m.type = "reset" /\ shown' = {} /\ fetch' = fetch
      BY <1>11 DEF ReceiveReset
    <2>2. m = Reset
      BY <1>3, <2>1 DEF Message, Reset
    <2>3. Shapes'
      BY <1>0, <2>1 DEF IInv, Shapes
    <2>4. Carried'
      BY <1>0, <1>2, <1>6, <2>1 DEF IInv, Carried, Known
    <2>5. \A r : ~Carries(m, r)
      BY <2>2 DEF Carries, Reset, Gap
    <2>6. \A r : ByRequest(r) => ByRequest(r)'
      BY <2>1 DEF ByRequest
    <2>. QED  BY <1>1, <1>5, <1>8, <2>2, <2>3, <2>4, <2>5, <2>6 DEF IInv
  <1>. QED  BY <1>9, <1>10, <1>11 DEF Receive

\* A request is read by the server, answered, or fails.
LEMMA RequestKeeps ==
  ASSUME IInv, NEW f \in Requests, Recent(f) \/ Respond(f) \/ Fail(f)
  PROVE  IInv'
  <1>0. UNCHANGED <<events, born, pending, clearing, conn, q, wire>>
    BY DEF Recent, Respond, Fail, server
  <1>1. Table' /\ Line' = Line
    BY <1>0 DEF IInv, Table, Known, Line
  <1>2. \A r : (ByWriter(r) => ByWriter(r)') /\ (ByMessage(r) => ByMessage(r)')
    BY <1>0, <1>1, LineStays DEF ByWriter
  <1>3. (NoResetAfter(0) => NoResetAfter(0)') /\ LineKnown'
    BY <1>0, <1>1, LineStays DEF IInv, Carried
  <1>4. AfterReset'
    BY <1>0, <1>2, <1>3 DEF IInv, AfterReset
  <1>5. \A w \in Writers : Known(pending[w])'
    BY <1>0 DEF IInv, Carried, Known
  <1>6. ASSUME NEW state \in FetchState, fetch' = [fetch EXCEPT ![f] = state],
               state.at = "read" => Known(state.rows), Known(shown')
        PROVE  /\ Shapes' /\ Carried' /\ fetch'[f] = state
               /\ \A g \in Requests \ {f} : fetch'[g] = fetch[g]
    <2>1. /\ fetch' \in [Requests -> FetchState] /\ fetch'[f] = state
          /\ \A g \in Requests \ {f} : fetch'[g] = fetch[g]
      BY <1>6 DEF IInv, Shapes
    <2>2. \A g \in Requests : fetch'[g].at = "read" => Known(fetch[g].rows)'
      BY <1>0, <1>6, <2>1 DEF IInv, Carried, Known
    <2>3. Known(shown)'
      BY <1>0, <1>6 DEF Known
    <2>. QED  BY <1>0, <1>3, <1>5, <2>1, <2>2, <2>3 DEF IInv, Shapes, Carried
  <1>7. ASSUME failed' = failed,
               \A r \in Newest(events) :
                   /\ ByRequest(r) => ByRequest(r)' \/ r \in shown'
                   /\ r \in shown => r \in shown'
        PROVE  NothingLost'
    <2> SUFFICES ASSUME conn = "open", ~failed, NEW r \in Newest(events)
                 PROVE  (OnItsWay(r) \/ (r \in shown /\ NoResetAfter(0)))'
      BY <1>0, <1>7 DEF NothingLost
    <2>1. ByWriter(r) \/ ByMessage(r) \/ (NoResetAfter(0) /\ (ByRequest(r) \/ r \in shown))
      BY Ways DEF IInv, NothingLost
    <2>2. ByWriter(r)' \/ ByMessage(r)' \/ (NoResetAfter(0)' /\ (ByRequest(r)' \/ r \in shown'))
      BY <1>2, <1>3, <1>7, <2>1
    <2>. QED  BY <2>2 DEF OnItsWay, ByWriter, ByMessage, ByRequest
  <1>8. CASE Recent(f)
    <2>0. PICK state : state = [at |-> "read", rows |-> Newest(events)]
      OBVIOUS
    <2>1. fetch' = [fetch EXCEPT ![f] = state] /\ shown' = shown /\ failed' = failed
      BY <1>8, <2>0 DEF Recent
    <2>2. state \in FetchState /\ Known(state.rows) /\ state.at = "read" /\ state.rows = Newest(events)
      BY <2>0 DEF IInv, Table, Newest, Known, FetchState
    <2>3. Known(shown')
      BY <2>1 DEF IInv, Carried
    <2>4. Shapes' /\ Carried' /\ fetch'[f] = state /\ \A g \in Requests \ {f} : fetch'[g] = fetch[g]
      BY <1>6, <2>1, <2>2, <2>3
    <2>5. \A r \in Newest(events) : ByRequest(r)'
      BY <2>2, <2>4 DEF ByRequest
    <2>. QED  BY <1>1, <1>4, <1>7, <2>1, <2>4, <2>5 DEF IInv
  <1>9. CASE Respond(f)
    <2>1. /\ fetch[f].at = "read" /\ fetch' = [fetch EXCEPT ![f] = Idle]
          /\ shown' = Merge(shown, fetch[f].rows) /\ failed' = failed
      BY <1>9 DEF Respond
    <2>2. Idle \in FetchState /\ Idle.at # "read"
      BY DEF Idle, FetchState
    <2>3. Known(fetch[f].rows) /\ Known(shown)
      BY <2>1 DEF IInv, Carried
    <2>4. Known(shown')
      BY <2>1, <2>3, MergeKnown
    <2>5. Shapes' /\ Carried' /\ \A g \in Requests \ {f} : fetch'[g] = fetch[g]
      BY <1>6, <2>1, <2>2, <2>4
    <2>6. \A r \in Newest(events) : r \in shown \cup fetch[f].rows => r \in shown'
      BY <2>1, <2>3, MergeKeeps DEF IInv, Shapes
    <2>7. fetch[f] # Asked
      BY <2>1 DEF Asked
    <2>8. \A r \in Newest(events) : ByRequest(r) => ByRequest(r)' \/ r \in shown'
      BY <2>5, <2>6, <2>7 DEF ByRequest
    <2>. QED  BY <1>1, <1>4, <1>7, <2>1, <2>5, <2>6, <2>8 DEF IInv
  <1>10. CASE Fail(f)
    <2>1. fetch' = [fetch EXCEPT ![f] = Idle] /\ shown' = shown /\ failed'
      BY <1>10 DEF Fail
    <2>2. Idle \in FetchState /\ Idle.at # "read" /\ Known(shown')
      BY <2>1 DEF Idle, FetchState, IInv, Carried
    <2>3. Shapes' /\ Carried'
      BY <1>6, <2>1, <2>2
    <2>4. NothingLost'
      BY <2>1 DEF NothingLost
    <2>. QED  BY <1>1, <1>4, <2>3, <2>4 DEF IInv
  <1>. QED  BY <1>8, <1>9, <1>10

-----------------------------------------------------------------------------
\* Every step keeps the invariant.
LEMMA NextKeeps ==
  ASSUME ~IdsReused, IInv, [Next]_vars
  PROVE  IInv'
  <1>1. CASE \E w \in Writers : Store(w) \/ Publish(w)
    BY <1>1, StoreKeeps, PublishKeeps
  <1>2. CASE Purge \/ Clear \/ BroadcastReset
    BY <1>2, PurgeKeeps, DeletionKeeps
  <1>3. CASE Accept \/ Open \/ Disconnect \/ Send
    BY <1>3, ConnectionKeeps
  <1>4. CASE Receive
    BY <1>4, ReceiveKeeps
  <1>5. CASE \E f \in Requests : Recent(f) \/ Respond(f) \/ Fail(f)
    BY <1>5, RequestKeeps
  <1>6. CASE UNCHANGED vars
    <2>1. /\ UNCHANGED <<events, born, pending, clearing, conn, q, wire, fetch, failed, shown>>
          /\ Line' = Line
      BY <1>6 DEF vars, server, page, Line
    <2>2. Shapes' /\ Table' /\ Carried'
      BY <2>1, LineStays DEF IInv, Shapes, Table, Carried, Known
    <2>3. AfterReset' /\ NothingLost'
      BY <2>1 DEF IInv, AfterReset, NothingLost, OnItsWay, ByWriter, ByMessage, NoResetAfter, Carries
    <2>. QED  BY <2>2, <2>3 DEF IInv
  <1>. QED  BY <1>1, <1>2, <1>3, <1>4, <1>5, <1>6 DEF Next

\* Where the database gives no id twice, each of the newest rows is shown by a
\* connected page none of whose requests failed, or on its way to it, whatever
\* overflowed, was purged or deleted, and in whatever order answers came.
THEOREM NothingIsLost ==
  ASSUME ~IdsReused
  PROVE  Spec => []NothingLost
  <1>1. Init => IInv
    BY InitIInv
  <1>2. IInv /\ [Next]_vars => IInv'
    BY NextKeeps
  <1>3. IInv => NothingLost
    BY DEF IInv
  <1>. QED  BY <1>1, <1>2, <1>3, PTL DEF Spec

-----------------------------------------------------------------------------
(* The limits of the queue and of the page.                                *)
\* A set of numbers has a least one.
LEMMA Least ==
  ASSUME NEW T \in SUBSET Nat, T # {}
  PROVE  \E x \in T : \A y \in T : x <= y
  <1> DEFINE R == {ss \in Nat \X Nat : ss[1] < ss[2]}
  <1>1. IsWellFoundedOn(R, Nat)
    BY NatLessThanWellFounded DEF OpToRel
  <1> HIDE DEF R
  <1>2. PICK x \in T : \A y \in T : ~ (<<y, x>> \in R)
    BY <1>1, WFMin
  <1>3. \A y, z \in Nat : <<z, y>> \in R <=> z < y
    BY DEF R
  <1>4. \A y \in T : x \in Nat /\ y \in Nat /\ ~(y < x)
    BY <1>2, <1>3
  <1>5. \A y \in T : x <= y
    BY <1>4
  <1>. QED  BY <1>5

\* Stored rows are finitely many.
LEMMA KnownFinite ==
  ASSUME born \in Nat, NEW U, Known(U)
  PROVE  IsFiniteSet(U)
  <1>1. IsFiniteSet(1..born)
    BY FS_Interval
  <1> DEFINE f == [n \in 1..born |-> Stored(n)]
  <1>2. f \in Surjection(1..born, {Stored(n) : n \in 1..born})
    BY DEF Surjection
  <1> HIDE DEF f
  <1>3. IsFiniteSet({Stored(n) : n \in 1..born})
    BY <1>1, <1>2, FS_Surjection
  <1>. QED  BY <1>3, FS_Subset DEF Known

\* The newest rows are at most Keep.
LEMMA NewestBounded ==
  ASSUME born \in Nat, NEW U, Known(U)
  PROVE  Cardinality(Newest(U)) <= Keep
  <1> DEFINE B == Newest(U)
  <1>1. IsFiniteSet(U) /\ IsFiniteSet(B) /\ Cardinality(B) \in Nat /\ B \subseteq U /\ Keep \in Nat \ {0}
    BY KnownFinite, FS_Subset, FS_CardinalityType, LiveFeedAssumption DEF Newest, LiveFeedAssumption
  <1>2. CASE B = {}
    BY <1>1, <1>2, FS_EmptySet
  <1>3. CASE B # {}
    <2> DEFINE T == {r.id : r \in B}
    <2>1. T \in SUBSET Nat /\ T # {} /\ \A s, t \in B : s.id \in Nat /\ (s.id = t.id => s = t)
      BY <1>1, <1>3 DEF Known, Stored
    <2>2. PICK r \in B : \A s \in B : r.id <= s.id
      <3>1. \E n \in T : \A m \in T : n <= m
        <4> HIDE DEF T
        <4>. QED  BY <2>1, Least
      <3>. QED  BY <3>1
    <2> DEFINE N == {s \in U : s.id > r.id}
    <2>3. Cardinality(N) < Keep
      BY <2>2 DEF Newest
    <2>4. B \ {r} \subseteq N
      BY <1>1, <2>1, <2>2
    <2>5. IsFiniteSet(N) /\ Cardinality(N) \in Nat
      BY <1>1, FS_Subset, FS_CardinalityType
    <2>6. Cardinality(B \ {r}) <= Cardinality(N)
      BY <2>4, <2>5, FS_Subset
    <2>7. Cardinality(B \ {r}) = Cardinality(B) - 1
      BY <1>1, <2>2, FS_RemoveElement
    <2>. QED  BY <1>1, <2>3, <2>5, <2>6, <2>7
  <1>. QED  BY <1>2, <1>3

\* What the shapes lack: the queue and the page within their limits.
Limits ==
  /\ born <= MaxBorn /\ Len(q) <= Cap /\ Cardinality(shown) <= Keep
  /\ clearing \in BOOLEAN /\ failed \in BOOLEAN

\* Every step stays within the limits.
LEMMA LimitsKeep ==
  ASSUME IInv, IInv', Limits, [Next]_vars
  PROVE  Limits'
  <1>1. /\ born \in Nat /\ MaxBorn \in Nat /\ Cap \in Nat \ {0} /\ Keep \in Nat \ {0}
        /\ q \in Seq(Message) /\ Len(q) \in Nat /\ Known(shown)
    BY LiveFeedAssumption DEF LiveFeedAssumption, IInv, Shapes, Carried
  <1>2. \/ born' = born
        \/ born < MaxBorn /\ born' = born + 1
    BY DEF Next, Store, Publish, Purge, Clear, BroadcastReset, Accept, Open, Disconnect, Send, Receive,
           ReceiveEvents, ReceiveGap, ReceiveReset, Recent, Respond, Fail, server, vars
  <1>3. \/ q' = q \/ q' = <<>>
        \/ q # <<>> /\ q' = Tail(q)
        \/ \E m : Len(q) # Cap /\ q' = Append(q, m)
        \/ \E m : Len(q) = Cap /\ q' = Append(Tail(q), m)
    BY DEF Next, Store, Publish, Purge, Clear, BroadcastReset, Accept, Open, Disconnect, Send, Receive,
           ReceiveEvents, ReceiveGap, ReceiveReset, Recent, Respond, Fail, vars
  <1>4. \/ shown' = shown \/ shown' = {}
        \/ \E data : Known(data) /\ shown' = Merge(shown, data)
    <2>1. CASE ReceiveEvents
      <3>1. wire # <<>> /\ Head(wire).type = "events" /\ shown' = Merge(shown, Head(wire).rows)
        BY <2>1 DEF ReceiveEvents
      <3>2. Line[1] = Head(wire) /\ 1 \in 1..Len(Line)
        BY <3>1, LineIs DEF IInv, Shapes
      <3>3. Known(Head(wire).rows)
        BY <3>1, <3>2 DEF IInv, Carried, LineKnown
      <3>. QED  BY <3>1, <3>3
    <2>2. CASE \E f \in Requests : Respond(f)
      BY <2>2 DEF Respond, IInv, Carried
    <2>3. CASE ~ReceiveEvents /\ ~(\E f \in Requests : Respond(f))
      BY <2>3 DEF Next, Store, Publish, Purge, Clear, BroadcastReset, Accept, Open, Disconnect, Send,
                  Receive, ReceiveGap, ReceiveReset, Recent, Fail, vars, page
    <2>. QED  BY <2>1, <2>2, <2>3
  <1>5. born' <= MaxBorn
    BY <1>1, <1>2 DEF Limits
  <1>6. Len(q') <= Cap
    <2>1. CASE q' = q \/ q' = <<>>
      BY <1>1, <2>1 DEF Limits
    <2>2. CASE q # <<>> /\ q' = Tail(q)
      BY <1>1, <2>2 DEF Limits
    <2>. QED  BY <1>1, <1>3, <2>1, <2>2 DEF Limits
  <1>7. Cardinality(shown') <= Keep
    <2>1. CASE shown' = {}
      BY <1>1, <2>1, FS_EmptySet
    <2>2. CASE \E data : Known(data) /\ shown' = Merge(shown, data)
      <3>1. PICK U : Known(U) /\ shown' = Newest(U)
        BY <1>1, <2>2 DEF Merge, Known
      <3>. QED  BY <1>1, <3>1, NewestBounded
    <2>. QED  BY <1>4, <2>1, <2>2 DEF Limits
  <1>8. clearing' \in BOOLEAN /\ failed' \in BOOLEAN
    BY DEF Limits, Next, Store, Publish, Purge, Clear, BroadcastReset, Accept, Open, Disconnect, Send,
           Receive, ReceiveEvents, ReceiveGap, ReceiveReset, Recent, Respond, Fail, server, page, vars
  <1>. QED  BY <1>5, <1>6, <1>7, <1>8 DEF Limits

\* Where the database gives no id twice, every reachable state is well typed: no
\* queue grows beyond its limit, and the page never keeps more rows than it asks
\* for (main.py:61, app.js:134).
THEOREM TypeCorrect ==
  ASSUME ~IdsReused
  PROVE  Spec => []TypeOK
  <1>1. Init => IInv /\ Limits
    <2>1. Init => Limits
      <3> SUFFICES ASSUME Init PROVE Limits
        OBVIOUS
      <3>1. /\ born = 0 /\ q = <<>> /\ shown = {} /\ Cardinality(shown) = 0
            /\ clearing = FALSE /\ failed = FALSE
        BY FS_EmptySet DEF Init
      <3>2. Len(q) = 0 /\ 0 <= Cap /\ 0 <= Keep /\ 0 <= MaxBorn
        BY <3>1, LiveFeedAssumption DEF LiveFeedAssumption
      <3>3. born <= MaxBorn /\ Len(q) <= Cap
        BY <3>1, <3>2
      <3>4. Cardinality(shown) <= Keep
        BY ONLY <3>1, <3>2
      <3>. QED  BY <3>1, <3>3, <3>4 DEF Limits
    <2>. QED  BY <2>1, InitIInv
  <1>2. IInv /\ Limits /\ [Next]_vars => IInv' /\ Limits'
    BY NextKeeps, LimitsKeep
  <1>3. IInv /\ Limits => TypeOK
    <2> SUFFICES ASSUME IInv, Limits PROVE TypeOK
      OBVIOUS
    <2>1. /\ born \in 0..MaxBorn /\ events \subseteq Row /\ pending \in [Writers -> SUBSET Row]
          /\ conn \in {"closed", "accepted", "open"} /\ q \in Seq(Message) /\ Len(q) <= Cap
          /\ wire \in Seq(Message) /\ Len(wire) <= 1 /\ fetch \in [Requests -> FetchState]
      BY LiveFeedAssumption DEF IInv, Shapes, Table, Limits, LiveFeedAssumption
    <2>2. shown \subseteq Row
      BY <2>1, LiveFeedAssumption DEF IInv, Carried, Known, Stored, Row, LiveFeedAssumption
    <2>. QED  BY <2>1, <2>2 DEF TypeOK, Limits
  <1>. QED  BY <1>1, <1>2, <1>3, PTL DEF Spec

-----------------------------------------------------------------------------
(* The steps of delivery that are left.                                    *)

\* The writers and requests that have steps to take can be counted.
LEMMA Countable ==
  /\ IsFiniteSet(Waiting) /\ IsFiniteSet(Outstanding) /\ IsFiniteSet(Unread)
  /\ Cardinality(Waiting) \in Nat /\ Cardinality(Outstanding) \in Nat /\ Cardinality(Unread) \in Nat
  <1>1. IsFiniteSet(Writers) /\ IsFiniteSet(Requests)
    BY LiveFeedAssumption DEF LiveFeedAssumption
  <1>2. Waiting \in SUBSET Writers /\ Outstanding \in SUBSET Requests /\ Unread \in SUBSET Requests
    BY DEF Waiting, Outstanding, Unread
  <1>3. IsFiniteSet(Waiting) /\ IsFiniteSet(Outstanding) /\ IsFiniteSet(Unread)
    BY <1>1, <1>2, FS_Subset
  <1>. QED  BY <1>3, FS_CardinalityType

\* The steps of each part can be counted.
PartsAreNumbers == ToPublish \in Nat /\ ToReceive \in Nat /\ ToMerge \in Nat

\* Writers and requests are finitely many, so the steps of each part are a number.
LEMMA CountedBefore == Shapes => PartsAreNumbers
  <1> SUFFICES ASSUME Shapes PROVE PartsAreNumbers
    OBVIOUS
  <1>1. ToPublish \in Nat
    BY Countable DEF ToPublish
  <1>2. ToReceive \in Nat
    BY DEF Shapes, ToReceive
  <1>3. ToMerge \in Nat
    BY Countable DEF ToMerge
  <1>. QED  BY <1>1, <1>2, <1>3 DEF PartsAreNumbers

\* The same before and after a step.
LEMMA Counted == Shapes /\ Shapes' => PartsAreNumbers /\ PartsAreNumbers'
  BY CountedBefore, PTL

\* What a step leaves alone it leaves to be delivered.
LEMMA NothingAdded ==
  /\ UNCHANGED <<pending, clearing>> => ToPublish' = ToPublish
  /\ UNCHANGED <<q, wire>> => ToReceive' = ToReceive
  /\ UNCHANGED fetch => ToMerge' = ToMerge
  <1>1. UNCHANGED <<pending, clearing>> => ToPublish' = ToPublish
    BY DEF ToPublish, Waiting
  <1>2. UNCHANGED <<q, wire>> => ToReceive' = ToReceive
    BY DEF ToReceive
  <1>3. UNCHANGED fetch => ToMerge' = ToMerge
    BY DEF ToMerge, Outstanding, Unread
  <1>. QED  BY <1>1, <1>2, <1>3

\* Publication, also where it costs the oldest message of a full queue.
LEMMA PublishLess ==
  ASSUME Shapes, Shapes', NEW w \in Writers, Publish(w)
  PROVE  Debt' < Debt
  <1>1. w \in Waiting /\ Waiting' = Waiting \ {w} /\ UNCHANGED <<clearing, wire, fetch>>
    BY DEF Publish, Waiting, Shapes, page
  <1>2. Cardinality(Waiting') = Cardinality(Waiting) - 1
    BY <1>1, FS_RemoveElement, Countable
  <1>3. ToPublish' = ToPublish - 5
    BY <1>1, <1>2, Countable DEF ToPublish
  <1>4. Len(q') \in Nat /\ Len(q) \in Nat /\ Len(q') <= Len(q) + 1 /\ Len(wire) \in Nat
    BY LiveFeedAssumption DEF Publish, Shapes, LiveFeedAssumption
  <1>5. ToReceive' <= ToReceive + 4
    BY <1>1, <1>4 DEF ToReceive
  <1>6. ToMerge' = ToMerge
    BY <1>1, NothingAdded
  <1>. QED  BY <1>3, <1>5, <1>6, Counted DEF Debt, PartsAreNumbers

\* The reset after a deletion.
LEMMA ResetLess ==
  ASSUME Shapes, Shapes', BroadcastReset
  PROVE  Debt' < Debt
  <1>1. clearing /\ ~clearing' /\ UNCHANGED <<pending, wire, fetch>>
    BY DEF BroadcastReset, page
  <1>2. ToPublish' = ToPublish - 5
    <2>1. Waiting' = Waiting
      BY <1>1 DEF Waiting
    <2>. QED  BY <1>1, <2>1, Countable DEF ToPublish
  <1>3. Len(q') \in Nat /\ Len(q) \in Nat /\ Len(q') <= Len(q) + 1 /\ Len(wire) \in Nat
    BY LiveFeedAssumption DEF BroadcastReset, Shapes, LiveFeedAssumption
  <1>4. ToReceive' <= ToReceive + 4
    BY <1>1, <1>3 DEF ToReceive
  <1>5. ToMerge' = ToMerge
    BY <1>1, NothingAdded
  <1>. QED  BY <1>2, <1>4, <1>5, Counted DEF Debt, PartsAreNumbers

\* Sending.
LEMMA SendLess ==
  ASSUME Shapes, Shapes', Send
  PROVE  Debt' < Debt
  <1>1. UNCHANGED <<pending, clearing, fetch>>
    BY DEF Send, server, page
  <1>2. Len(q) \in Nat /\ Len(q') = Len(q) - 1 /\ Len(wire) = 0 /\ Len(wire') = 1
    BY DEF Send, Shapes
  <1>3. ToReceive' = ToReceive - 1
    BY <1>2 DEF ToReceive
  <1>. QED  BY <1>1, <1>3, NothingAdded, Counted DEF Debt, PartsAreNumbers

\* A request that is made is two more steps.
LEMMA AskIsTwo ==
  ASSUME Shapes, NEW f \in Requests, Ask(f)
  PROVE  ToMerge' = ToMerge + 2
  <1>1. /\ f \notin Outstanding /\ f \notin Unread
        /\ Outstanding' = Outstanding \cup {f} /\ Unread' = Unread \cup {f}
    BY DEF Ask, Outstanding, Unread, Shapes, Idle, Asked
  <1>2. Cardinality(Outstanding') = Cardinality(Outstanding) + 1
    BY <1>1, FS_AddElement, Countable
  <1>3. Cardinality(Unread') = Cardinality(Unread) + 1
    BY <1>1, FS_AddElement, Countable
  <1>. QED  BY <1>2, <1>3, Countable DEF ToMerge

\* Reception, also of a gap.
LEMMA ReceiveLess ==
  ASSUME Shapes, Shapes', Receive
  PROVE  Debt' < Debt
  <1>1. UNCHANGED <<pending, clearing, q>> /\ wire # <<>> /\ wire' = <<>>
    BY DEF Receive, ReceiveEvents, ReceiveGap, ReceiveReset, server
  <1>2. Len(wire) = 1 /\ Len(wire') = 0 /\ Len(q) \in Nat
    <2>1. wire \in Seq(Message) /\ Len(wire) <= 1 /\ q \in Seq(Message)
      BY DEF Shapes
    <2>2. Len(wire) = 1
      <3>1. Len(wire) \in Nat
        BY <2>1
      <3>2. Len(wire) # 0
        BY <1>1, <2>1, EmptySeq
      <3>3. Len(wire) <= 1
        BY <2>1
      <3>. QED  BY <3>1, <3>2, <3>3
    <2>. QED  BY <1>1, <2>1, <2>2
  <1>3. ToReceive' = ToReceive - 3 /\ ToPublish' = ToPublish
    BY <1>1, <1>2, NothingAdded DEF ToReceive
  <1>4. UNCHANGED fetch \/ \E f \in Requests : Ask(f)
    BY DEF Receive, ReceiveEvents, ReceiveGap, ReceiveReset
  <1>5. ToMerge' = ToMerge \/ ToMerge' = ToMerge + 2
    BY <1>4, NothingAdded, AskIsTwo
  <1>. QED  BY <1>3, <1>5, Counted DEF Debt, PartsAreNumbers

\* A request that is served, answered or given up.
LEMMA RequestLess ==
  ASSUME Shapes, Shapes', NEW f \in Requests, Recent(f) \/ Respond(f) \/ Fail(f)
  PROVE  Debt' < Debt
  <1>1. UNCHANGED <<pending, clearing, q, wire>>
    BY DEF Recent, Respond, Fail, server
  <1>2. CASE Recent(f)
    <2>1. f \in Unread /\ Unread' = Unread \ {f} /\ Outstanding' = Outstanding
      BY <1>2 DEF Recent, Outstanding, Unread, Shapes, Idle, Asked
    <2>2. Cardinality(Unread') = Cardinality(Unread) - 1
      BY <2>1, FS_RemoveElement, Countable
    <2>3. ToMerge' = ToMerge - 1
      BY <2>1, <2>2, Countable DEF ToMerge
    <2>. QED  BY <1>1, <2>3, NothingAdded, Counted DEF Debt, PartsAreNumbers
  <1>3. CASE Respond(f) \/ Fail(f)
    <2>1. f \in Outstanding /\ Unread' = Unread \ {f} /\ Outstanding' = Outstanding \ {f}
      BY <1>3 DEF Respond, Fail, Outstanding, Unread, Shapes, Idle, Asked
    <2>2. Cardinality(Outstanding') = Cardinality(Outstanding) - 1
      BY <2>1, FS_RemoveElement, Countable
    <2>3. Cardinality(Unread') <= Cardinality(Unread) /\ Cardinality(Unread') \in Nat
      <3>1. Unread' \in SUBSET Unread /\ IsFiniteSet(Unread)
        BY <2>1, Countable
      <3>. QED  BY <3>1, FS_Subset, FS_CardinalityType
    <2>4. ToMerge' <= ToMerge - 1
      BY <2>2, <2>3, Countable DEF ToMerge
    <2>. QED  BY <1>1, <2>4, NothingAdded, Counted DEF Debt, PartsAreNumbers
  <1>. QED  BY <1>2, <1>3

\* The steps of delivery, and what else leaves nothing more to deliver.
LEMMA DebtStep ==
  ASSUME Shapes, Shapes', [Next]_vars
  PROVE  /\ Deliver => Debt' < Debt
         /\ Debt' > Debt => (\E w \in Writers : Store(w)) \/ Clear \/ Open
  <1>1. Deliver => Debt' < Debt
    BY PublishLess, ResetLess, SendLess, ReceiveLess, RequestLess DEF Deliver
  <1>2. Debt \in Nat /\ Debt' \in Nat
    BY Counted DEF Debt, PartsAreNumbers
  <1>3. ASSUME Purge \/ Accept \/ Disconnect \/ UNCHANGED vars PROVE Debt' <= Debt
    <2>1. UNCHANGED <<pending, clearing, fetch>>
      BY <1>3 DEF Purge, Accept, Disconnect, vars, server, page
    <2>2. /\ Len(q) \in Nat /\ Len(wire) \in Nat
          /\ (Len(q') = Len(q) \/ Len(q') = 0) /\ (Len(wire') = Len(wire) \/ Len(wire') = 0)
      BY <1>3 DEF Purge, Accept, Disconnect, vars, Shapes
    <2>3. ToReceive' <= ToReceive
      BY <2>2 DEF ToReceive
    <2>. QED  BY <2>1, <2>3, NothingAdded, Counted DEF Debt, PartsAreNumbers
  <1>. QED  BY <1>1, <1>2, <1>3 DEF Next, Deliver

\* What is missing on a page that had no failure is on its way.
LEMMA MissingIsDue ==
  ASSUME IInv, conn = "open", ~failed, ~NewestShown
  PROVE  Debt > 0
  <1>0. Len(q) \in Nat /\ Len(wire) \in Nat /\ Len(Line) = Len(wire) + Len(q)
    BY LineIs DEF IInv, Shapes
  <1>1. PICK r \in Newest(events) : r \notin shown
    BY DEF NewestShown
  <1>2. OnItsWay(r)
    BY <1>1 DEF IInv, NothingLost
  <1>3. PartsAreNumbers
    BY CountedBefore DEF IInv
  <1>4. ASSUME Waiting # {} PROVE ToPublish > 0
    <2>1. Cardinality(Waiting) # 0
      BY <1>4, FS_EmptySet, Countable
    <2>. QED  BY <2>1, Countable DEF ToPublish
  <1>5. ASSUME Outstanding # {} PROVE ToMerge > 0
    <2>1. Cardinality(Outstanding) # 0
      BY <1>5, FS_EmptySet, Countable
    <2>. QED  BY <2>1, Countable DEF ToMerge
  <1>6. ASSUME Len(Line) # 0 PROVE ToReceive > 0
    BY <1>0, <1>6 DEF ToReceive
  <1>7. \/ \E w \in Writers : r \in pending[w]
        \/ \E i \in 1..Len(Line) : Carries(Line[i], r)
        \/ \E f \in Requests : fetch[f] = Asked \/ fetch[f].at = "read"
    BY <1>2 DEF OnItsWay
  <1>8. Waiting # {} \/ Len(Line) # 0 \/ Outstanding # {}
    BY <1>0, <1>7 DEF Waiting, Outstanding, Idle, Asked
  <1>. QED  BY <1>3, <1>4, <1>5, <1>6, <1>8 DEF Debt, PartsAreNumbers

\* Catching up never goes round in circles: what a connected page lacks is due,
\* and each step of the delivery leaves fewer steps to take.
THEOREM FeedComesToItsEnd ==
  ASSUME ~IdsReused
  PROVE  Spec => FeedAdvances
  <1>1. Init => IInv
    BY InitIInv
  <1>2. IInv /\ [Next]_vars => IInv'
    BY NextKeeps
  <1>3. IInv => (conn = "open" /\ ~failed /\ ~NewestShown => Debt > 0)
    BY MissingIsDue
  <1>4. IInv /\ IInv' /\ [Next]_vars =>
          [/\ Deliver => Debt' < Debt
           /\ Debt' > Debt => (\E w \in Writers : Store(w)) \/ Clear \/ Open]_vars
    BY DebtStep DEF IInv
  <1>. QED  BY <1>1, <1>2, <1>3, <1>4, PTL DEF Spec, FeedAdvances
=============================================================================
