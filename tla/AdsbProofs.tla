----------------------------- MODULE AdsbProofs -----------------------------
(***************************************************************************)
(* That the pair of an even and an odd frame, and one frame with a near    *)
(* reference, give the place the frames were sent from, whatever the       *)
(* number of zones; that so do the positions the receiver tracks; that     *)
(* each working output of the receiver keeps up; and that its state is     *)
(* well typed, for any outputs of either protocol and any times.           *)
(***************************************************************************)
EXTENDS Adsb, TLAPS

\* Quotient and remainder of a division by a positive number.
LEMMA Division ==
    ASSUME NEW a \in Int, NEW b \in Nat \ {0}
    PROVE  a \div b \in Int /\ a % b \in 0..(b - 1) /\ a = b * (a \div b) + (a % b)
OBVIOUS

\* They are the only ones.
LEMMA DivisionUnique ==
    ASSUME NEW b \in Nat \ {0}, NEW c \in Int, NEW r \in 0..(b - 1)
    PROVE  (b * c + r) \div b = c /\ (b * c + r) % b = r
OBVIOUS

\* A multiple of the divisor leaves the remainder as it is.
LEMMA Congruent ==
    ASSUME NEW a \in Int, NEW b \in Nat \ {0}, NEW k \in Int
    PROVE  (a + b * k) % b = a % b
<1> DEFINE n == a \div b
           e == a % b
<1>1. n \in Int /\ e \in 0..(b - 1) /\ a = b * n + e
  BY Division
<1> HIDE DEF n, e
<1>2. a + b * k = b * (n + k) + e /\ n + k \in Int
  BY <1>1
<1>3. (b * (n + k) + e) % b = e
  BY <1>1, <1>2, DivisionUnique
<1> QED
  BY <1>2, <1>3 DEF e

-----------------------------------------------------------------------------
\* A place is the start of its zone and what its frame says.
LEMMA Encoded ==
    ASSUME NEW p \in Places, NEW f \in BOOLEAN
    PROVE  /\ Zone(f) \in Nat \ {0}
           /\ p \div Zone(f) \in 0..((IF f THEN Zones - 1 ELSE Zones) - 1)
           /\ cpr_encode(p, f) \in 0..(Zone(f) - 1)
           /\ p = Zone(f) * (p \div Zone(f)) + cpr_encode(p, f)
<1> DEFINE n == IF f THEN Zones - 1 ELSE Zones
           z == Zone(f)
           i == p \div z
           e == p % z
<1>1. n \in Nat \ {0} /\ z \in Nat \ {0} /\ Circle = z * n
  BY CprAssumption DEF CprAssumption, Zone, Circle
<1>2. p \in Nat /\ p < z * n
  BY <1>1, CprAssumption DEF CprAssumption, Places, Circle
<1> HIDE DEF n, z
<1>3. i \in Int /\ e \in 0..(z - 1) /\ p = z * i + e
  BY <1>1, <1>2, Division
<1> HIDE DEF i, e
<1>4. i >= 0
  BY <1>1, <1>2, <1>3
<1>5. i < n
  <2> SUFFICES ASSUME i >= n PROVE FALSE
    BY <1>1, <1>3
  <2>1. z * i >= z * n
    BY <1>1, <1>3
  <2> QED
    BY <2>1, <1>1, <1>2, <1>3
<1> QED
  BY <1>1, <1>3, <1>4, <1>5 DEF n, z, i, e, cpr_encode

\* What the decoder finds from the two fractions: their zones i and k enter as
\* one number, from which both can be read.
LEMMA ZoneNumber ==
    ASSUME NEW i \in 0..(Zones - 1), NEW k \in 0..(Zones - 2)
    PROVE  LET j == Zones * k - (Zones - 1) * i IN
             j \in Int /\ j % Zones = i /\ j % (Zones - 1) = k
<1>1. Zones \in Nat \ {0} /\ Zones - 1 \in Nat \ {0} /\ i \in Int /\ k \in Int /\ k - i \in Int
  BY CprAssumption DEF CprAssumption
<1>2. Zones * k - (Zones - 1) * i = Zones * (k - i) + i
  BY <1>1
<1>3. Zones * k - (Zones - 1) * i = (Zones - 1) * (k - i) + k
  BY <1>1
<1>4. (Zones * (k - i) + i) % Zones = i
  BY <1>1, DivisionUnique
<1>5. ((Zones - 1) * (k - i) + k) % (Zones - 1) = k
  BY <1>1, DivisionUnique
<1> QED
  BY <1>1, <1>2, <1>3, <1>4, <1>5

-----------------------------------------------------------------------------
\* The frames of the two kinds.
EvenFrame(p) == cpr_encode(p, FALSE)
OddFrame(p) == cpr_encode(p, TRUE)

\* Two places are less than half a unit apart, along the circle.
Close(p, q) ==
    \E c \in Int : 0 - Unit <= 2 * ((p - q) + c * Circle) /\ 2 * ((p - q) + c * Circle) < Unit

\* Two frames whose places are less than half a unit apart, in the same or in
\* neighbouring zones or on both sides of the seam of the scale, give the place
\* of the newer one, or nothing when the latitude bands differ; never a place in
\* another zone (modes.py:61-78).
THEOREM PairIsTrue ==
    ASSUME NEW p \in Places, NEW q \in Places, NEW oddNewest \in BOOLEAN, Close(p, q)
    PROVE  cpr_global(EvenFrame(p), OddFrame(q), oddNewest)
             = IF nl[p] # nl[q] THEN NoPosition ELSE {IF oddNewest THEN q ELSE p}
<1> DEFINE i == p \div Zone(FALSE)
           k == q \div Zone(TRUE)
           e == EvenFrame(p)
           o == OddFrame(q)
<1>1. i \in 0..(Zones - 1) /\ e \in 0..(Zone(FALSE) - 1) /\ p = Zone(FALSE) * i + e
  BY Encoded DEF EvenFrame
<1>2. k \in 0..((Zones - 1) - 1) /\ o \in 0..(Zone(TRUE) - 1) /\ q = Zone(TRUE) * k + o
  BY Encoded DEF OddFrame
<1> HIDE DEF i, k, e, o
<1>3. Zones \in Nat /\ Unit \in Nat \ {0} /\ p \in Int /\ q \in Int
  BY CprAssumption DEF CprAssumption, Places
<1>4. i \in 0..(Zones - 1) /\ k \in 0..(Zones - 2) /\ e \in Int /\ o \in Int
  BY <1>1, <1>2, <1>3
<1>5. PICK c \in Int : 0 - Unit <= 2 * ((p - q) + c * Circle) /\ 2 * ((p - q) + c * Circle) < Unit
  BY DEF Close
<1> DEFINE m == Zones * k - (Zones - 1) * i
           w == m - c * (Zones * (Zones - 1))
           d == (p - q) + c * Circle
           j == (2 * (e - o) + Unit) \div (2 * Unit)
<1>6. m \in Int /\ m % Zones = i /\ m % (Zones - 1) = k
  BY <1>4, ZoneNumber
<1>7. i \in Int /\ k \in Int
  BY <1>4
<1>8. e - o = (p - q) + Unit * m
  BY <1>1, <1>2, <1>3, <1>7 DEF Zone
<1> HIDE DEF m
<1>9. w \in Int /\ w % Zones = i /\ w % (Zones - 1) = k
  <2>1. Zones \in Nat \ {0} /\ Zones - 1 \in Nat \ {0}
    BY CprAssumption DEF CprAssumption
  <2>2. PICK y \in Int, v \in Int : y = 0 - c * (Zones - 1) /\ v = 0 - c * Zones
    BY <2>1
  <2>3. w = m + Zones * y /\ w = m + (Zones - 1) * v
    BY <1>6, <2>1, <2>2
  <2>4. (m + Zones * y) % Zones = m % Zones /\ (m + (Zones - 1) * v) % (Zones - 1) = m % (Zones - 1)
    BY <1>6, <2>1, <2>2, Congruent
  <2> QED
    BY <1>6, <2>1, <2>2, <2>3, <2>4
<1>10. d \in Int /\ 2 * d + Unit \in 0..(2 * Unit - 1) /\ e - o = d + Unit * w
  <2>1. c * Circle = Unit * (c * (Zones * (Zones - 1))) /\ c * Circle \in Int
    BY <1>3 DEF Circle
  <2>2. d \in Int /\ 2 * d + Unit \in 0..(2 * Unit - 1)
    BY <1>3, <1>5, <2>1
  <2>3. PICK g \in Int : g = c * (Zones * (Zones - 1))
    BY <1>3
  <2>4. d = (p - q) + Unit * g /\ w = m - g
    BY <2>1, <2>3
  <2>5. Unit * m = Unit * w + Unit * g
    BY <1>3, <1>6, <2>3, <2>4
  <2> QED
    BY <1>3, <1>6, <1>8, <2>2, <2>3, <2>4, <2>5
<1> HIDE DEF w, d
<1>11. j = w
  <2>1. 2 * Unit \in Nat \ {0}
    BY <1>3
  <2>2. 2 * (e - o) + Unit = (2 * Unit) * w + (2 * d + Unit)
    BY <1>3, <1>9, <1>10
  <2> QED
    BY <1>9, <1>10, <2>1, <2>2, DivisionUnique
<1> HIDE DEF j
<1>12. Zone(FALSE) * (j % Zones) + e = p /\ Zone(TRUE) * (j % (Zones - 1)) + o = q
  BY <1>1, <1>2, <1>9, <1>11
<1> QED
  BY <1>12 DEF cpr_global, j, e, o

\* One frame gives the place that is within half a zone of the reference,
\* wherever the two lie: also where the zone of the reference is another one,
\* and beyond the ends of the scale (modes.py:81-91).
THEOREM NearestIsTrue ==
    ASSUME NEW p \in Int, NEW f \in BOOLEAN, NEW near \in Int,
           0 - Zone(f) <= 2 * (near - p), 2 * (near - p) < Zone(f)
    PROVE  cpr_local(cpr_encode(p, f), f, near) = p
<1> DEFINE z == Zone(f)
           i == p \div z
           y == cpr_encode(p, f)
           a == near \div z
           r == near % z
           t == (2 * (r - y) + z) \div (2 * z)
<1>1. z \in Nat \ {0} /\ i \in Int /\ y \in 0..(z - 1) /\ p = z * i + y /\ p \in Int
  <2>1. z \in Nat \ {0}
    BY CprAssumption DEF CprAssumption, Zone
  <2> HIDE DEF z
  <2>2. p \div z \in Int /\ p % z \in 0..(z - 1) /\ p = z * (p \div z) + (p % z)
    BY <2>1, Division
  <2>3. y = p % z
    BY DEF cpr_encode, z
  <2> QED
    BY <2>1, <2>2, <2>3
<1>2. 0 - z <= 2 * (near - p) /\ 2 * (near - p) < z
  OBVIOUS
<1> HIDE DEF i, y, z
<1>3. a \in Int /\ r \in 0..(z - 1) /\ near = z * a + r
  BY <1>1, Division
<1> HIDE DEF a, r
<1>4. r - y = (near - p) + z * (i - a)
  BY <1>1, <1>3
<1>5. 2 * (r - y) + z = (2 * z) * (i - a) + (2 * (near - p) + z)
  BY <1>1, <1>3, <1>4
<1>6. 2 * (near - p) + z \in 0..(2 * z - 1) /\ 2 * z \in Nat \ {0} /\ i - a \in Int
  BY <1>1, <1>2, <1>3
<1>7. t = i - a
  BY <1>5, <1>6, DivisionUnique
<1> HIDE DEF t
<1>8. z * a + z * t + y = p
  BY <1>1, <1>3, <1>7
<1> QED
  BY <1>8 DEF cpr_local, t, a, r, y, z

-----------------------------------------------------------------------------
\* An output that is open has carried the last sentence.
Carried(i) == out[i].open => out[i].got

Shapes ==
    /\ now \in Nat /\ sent \in Nat /\ sent <= now
    /\ ac = [seen |-> ac.seen, even |-> ac.even, odd |-> ac.odd, pos |-> ac.pos]
    /\ ac.seen \in Nat
    /\ serving \in {0} \cup Outputs
    /\ out \in [Outputs -> [open : BOOLEAN, nextTry : Nat, got : BOOLEAN]]

\* While a sentence goes round, the outputs before the one being served have
\* carried it, and it is as new as the last message.
Round ==
    serving > 0 => /\ sent = ac.seen
                   /\ \A i \in Outputs : i < serving => Carried(i)

\* Nothing was connected before there was a position to send.
Silent == ac.pos = NoPosition => serving = 0 /\ \A i \in Outputs : ~out[i].open

KInv == Shapes /\ Round /\ Silent /\ OutputsKeepUp /\ since \in Nat

\* A sequence of outputs is served from the first to the last.
LEMMA Served ==
    /\ Outputs = 1..Len(Protocols) /\ Len(Protocols) \in Nat
    /\ Protocols # <<>> => 1 \in Outputs
    /\ \A i \in Outputs : Then(i) \in {0} \cup Outputs /\ (Then(i) = 0 => i = Len(Protocols))
                          /\ (Then(i) > 0 => Then(i) = i + 1)
<1>1. Protocols \in Seq({"tcp", "udp"})
  BY AdsbAssumption DEF AdsbAssumption
<1>2. Outputs = 1..Len(Protocols) /\ Len(Protocols) \in Nat
  BY <1>1 DEF Outputs
<1>3. Protocols # <<>> => 1 \in Outputs
  BY <1>1, <1>2
<1> QED
  BY <1>2, <1>3 DEF Then

\* The initial state satisfies the invariant.
LEMMA InitKInv == Init => KInv
<1> SUFFICES ASSUME Init PROVE KInv
  OBVIOUS
<1>1. now = 0 /\ sent = 0 /\ since = 0 /\ serving = 0 /\ ac = NoAircraft
  BY DEF Init, TransmitInit
<1>2. out \in [Outputs -> [open : BOOLEAN, nextTry : Nat, got : BOOLEAN]]
  BY DEF Init
<1> QED
  BY <1>1, <1>2 DEF KInv, Shapes, Round, Silent, OutputsKeepUp, NoAircraft, NoPosition, Init

\* A message that is heard, whatever it makes of the aircraft.
LEMMA HearKeeps ==
    ASSUME KInv, NEW a, Hear(a),
           a = [seen |-> a.seen, even |-> a.even, odd |-> a.odd, pos |-> a.pos], a.seen = now,
           a.pos = NoPosition => ac.pos = NoPosition
    PROVE  KInv'
<1>1. serving = 0 /\ now' = now /\ ac' = a /\ Bridge(a)
  BY DEF Hear
<1>2. CASE a.pos = NoPosition \/ Protocols = <<>> \/ now - sent < Interval
  <2>1. sent' = sent /\ serving' = 0 /\ since' = since /\ out' = out
    BY <1>1, <1>2 DEF Bridge
  <2>2. Shapes'
    BY <1>1, <2>1 DEF KInv, Shapes
  <2>3. ASSUME ac'.pos # NoPosition, NEW i \in Outputs, out'[i].open PROVE out'[i].got
    BY <2>1, <2>3, <1>1 DEF KInv, Silent, OutputsKeepUp
  <2>4. OutputsKeepUp'
    BY <1>1, <1>2, <2>1, <2>3 DEF OutputsKeepUp
  <2>5. Silent'
    BY <1>1, <2>1 DEF KInv, Silent
  <2> QED
    BY <1>1, <2>1, <2>2, <2>4, <2>5 DEF KInv, Round
<1>3. CASE ~(a.pos = NoPosition \/ Protocols = <<>> \/ now - sent < Interval)
  <2>1. sent' = now /\ serving' = 1 /\ since' = now
        /\ out' = [i \in Outputs |-> [out[i] EXCEPT !.got = FALSE]]
    BY <1>1, <1>3 DEF Bridge
  <2>2. out' \in [Outputs -> [open : BOOLEAN, nextTry : Nat, got : BOOLEAN]]
    BY <2>1 DEF KInv, Shapes
  <2>3. Shapes' /\ since' \in Nat
    BY <1>1, <1>3, <2>1, <2>2, Served DEF KInv, Shapes
  <2>4. Round'
    BY <1>1, <2>1, Served DEF Round, Shapes
  <2>5. OutputsKeepUp'
    BY <2>1 DEF OutputsKeepUp
  <2>6. Silent'
    BY <1>1, <1>3 DEF Silent
  <2> QED
    BY <2>3, <2>4, <2>5, <2>6 DEF KInv
<1> QED
  BY <1>2, <1>3

\* A position: what is known of the aircraft afterwards.
LEMMA HearPositionKeeps == ASSUME KInv, HearPosition PROVE KInv'
<1> DEFINE f == Head(iq)
           frame == [y |-> f.y, at |-> now, late |-> now - f.at > Delay]
           framed == IF f.odd THEN [ac EXCEPT !.odd = frame, !.seen = now]
                     ELSE [ac EXCEPT !.even = frame, !.seen = now]
           found == Position(framed, f.odd, f.y)
           a == IF found = NoPosition THEN framed ELSE [framed EXCEPT !.pos = found]
<1>1. Hear(a)
  BY DEF HearPosition
<1>2. /\ framed = [seen |-> framed.seen, even |-> framed.even, odd |-> framed.odd, pos |-> framed.pos]
      /\ framed.seen = now /\ framed.pos = ac.pos
  BY DEF KInv, Shapes
<1> HIDE DEF framed, found
<1>3. a = [seen |-> a.seen, even |-> a.even, odd |-> a.odd, pos |-> a.pos] /\ a.seen = now
      /\ (a.pos = NoPosition => ac.pos = NoPosition)
  BY <1>2
<1> QED
  BY <1>1, <1>3, HearKeeps

\* A message of another kind.
LEMMA HearOtherKeeps == ASSUME KInv, HearOther PROVE KInv'
<1> DEFINE a == [ac EXCEPT !.seen = now]
<1>1. Hear(a)
  BY DEF HearOther
<1>2. a = [seen |-> a.seen, even |-> a.even, odd |-> a.odd, pos |-> a.pos] /\ a.seen = now /\ a.pos = ac.pos
  BY DEF KInv, Shapes
<1> QED
  BY <1>1, <1>2, HearKeeps

\* An output is done with the sentence, whatever became of it.
LEMMA DoneKeeps ==
    ASSUME KInv, NEW i \in Outputs, serving = i, Done(i), UNCHANGED <<source, radio, sent>>,
           out' \in [Outputs -> [open : BOOLEAN, nextTry : Nat, got : BOOLEAN]],
           \A j \in Outputs \ {i} : out'[j] = out[j],
           out'[i].open => out'[i].got
    PROVE  KInv'
<1>1. now' = now /\ ac' = ac /\ sent' = sent
  BY DEF source, radio
<1>2. serving' \in {0} \cup Outputs /\ (serving' = 0 => i = Len(Protocols)) /\ (serving' > 0 => serving' = i + 1)
  BY Served DEF Done
<1>3. since' \in Nat
  BY DEF Done, KInv, Shapes
<1>4. i > 0 /\ i \in Nat /\ sent = ac.seen /\ ac.pos # NoPosition
  BY Served DEF KInv, Round, Silent
<1>5. \A j \in Outputs : j < i => Carried(j)
  BY <1>4 DEF KInv, Round
<1>6. \A j \in Outputs : j <= i => Carried(j)'
  <2> SUFFICES ASSUME NEW j \in Outputs, j <= i PROVE Carried(j)'
    OBVIOUS
  <2>1. CASE j = i
    BY <2>1 DEF Carried
  <2>2. CASE j # i
    <3>1. j < i
      BY <2>2, <1>4, Served
    <3> QED
      BY <3>1, <2>2, <1>5 DEF Carried
  <2> QED
    BY <2>1, <2>2
<1>7. Shapes'
  BY <1>1, <1>2 DEF KInv, Shapes
<1>8. Round'
  <2> SUFFICES ASSUME serving' > 0 PROVE sent' = ac'.seen /\ \A j \in Outputs : j < serving' => Carried(j)'
    BY DEF Round
  <2>1. \A j \in Outputs : j < serving' => j <= i
    BY <1>2, <1>4, Served
  <2> QED
    BY <1>1, <1>4, <1>6, <2>1
<1>9. OutputsKeepUp'
  <2> SUFFICES ASSUME serving' = 0 PROVE OutputsKeepUp'
    BY DEF OutputsKeepUp
  <2>1. ac'.seen - sent' < Interval
    BY <1>1, <1>4, AdsbAssumption DEF KInv, Shapes, AdsbAssumption
  <2>2. \A j \in Outputs : j <= i
    BY <1>2, Served
  <2> QED
    BY <2>1, <2>2, <1>6 DEF OutputsKeepUp, Carried
<1>10. Silent'
  BY <1>1, <1>4 DEF Silent
<1> QED
  BY <1>3, <1>7, <1>8, <1>9, <1>10 DEF KInv

\* Each output, each step of it.
LEMMA ServeKeeps ==
    ASSUME KInv, NEW i \in Outputs, Skip(i) \/ Send(i) \/ Fail(i) PROVE KInv'
<1>1. CASE Skip(i)
  <2>1. out' = out /\ out \in [Outputs -> [open : BOOLEAN, nextTry : Nat, got : BOOLEAN]] /\ ~out[i].open
    BY <1>1 DEF Skip, Pausing, KInv, Shapes
  <2>2. serving = i /\ Done(i) /\ UNCHANGED <<source, radio, sent>>
    BY <1>1 DEF Skip
  <2> QED
    BY <2>1, <2>2, DoneKeeps
<1>2. CASE Send(i)
  <2>1. out' = [out EXCEPT ![i] = [@ EXCEPT !.open = TRUE, !.nextTry = 0, !.got = TRUE]]
        /\ out \in [Outputs -> [open : BOOLEAN, nextTry : Nat, got : BOOLEAN]]
    BY <1>2 DEF Send, KInv, Shapes
  <2>2. serving = i /\ Done(i) /\ UNCHANGED <<source, radio, sent>>
    BY <1>2 DEF Send
  <2>3. out' \in [Outputs -> [open : BOOLEAN, nextTry : Nat, got : BOOLEAN]]
        /\ (\A j \in Outputs \ {i} : out'[j] = out[j]) /\ out'[i].got
    BY <2>1
  <2> QED
    BY <2>2, <2>3, DoneKeeps
<1>3. CASE Fail(i)
  <2>1. out' = [out EXCEPT ![i] = [@ EXCEPT !.open = FALSE, !.nextTry = since + Retry]]
        /\ out \in [Outputs -> [open : BOOLEAN, nextTry : Nat, got : BOOLEAN]]
        /\ since + Retry \in Nat
    BY <1>3, AdsbAssumption DEF Fail, KInv, Shapes, AdsbAssumption
  <2>2. serving = i /\ Done(i) /\ UNCHANGED <<source, radio, sent>>
    BY <1>3 DEF Fail
  <2>3. out' \in [Outputs -> [open : BOOLEAN, nextTry : Nat, got : BOOLEAN]]
        /\ (\A j \in Outputs \ {i} : out'[j] = out[j]) /\ ~out'[i].open
    BY <2>1
  <2> QED
    BY <2>2, <2>3, DoneKeeps
<1> QED
  BY <1>1, <1>2, <1>3

\* The aircraft, the emulator and lost frames: nothing the receiver knows changes.
LEMMA OthersKeep == ASSUME KInv, Transmit \/ Lose \/ UNCHANGED vars PROVE KInv'
<1>1. ac' = ac /\ sent' = sent /\ out' = out /\ serving' = serving /\ since' = since
  BY DEF Transmit, Lose, vars, radio
<1>2. now' \in Nat /\ sent' <= now'
  <2>1. now' = now \/ now' = now + 1
    BY DEF Transmit, Lose, vars, Fly, SendPosition, SendOther, Ingest, Connect, Leave, Drain, Modulate, source
  <2> QED
    BY <2>1, <1>1 DEF KInv, Shapes
<1> QED
  BY <1>1, <1>2 DEF KInv, Shapes, Round, Silent, Carried, OutputsKeepUp

\* Every output that is open keeps up with the aircraft, whatever becomes of
\* the others.
THEOREM OutputsAlwaysKeepUp == Spec => []OutputsKeepUp
<1>1. KInv /\ [Next]_vars => KInv'
  <2> SUFFICES ASSUME KInv, [Next]_vars PROVE KInv'
    OBVIOUS
  <2>1. CASE Transmit \/ Lose \/ UNCHANGED vars
    BY <2>1, OthersKeep
  <2>2. CASE HearPosition
    BY <2>2, HearPositionKeeps
  <2>3. CASE HearOther
    BY <2>3, HearOtherKeeps
  <2>4. CASE \E i \in Outputs : Skip(i) \/ Send(i) \/ Fail(i)
    BY <2>4, ServeKeeps
  <2> QED
    BY <2>1, <2>2, <2>3, <2>4 DEF Next
<1>2. KInv => OutputsKeepUp
  BY DEF KInv
<1> QED
  BY InitKInv, <1>1, <1>2, PTL DEF Spec

-----------------------------------------------------------------------------
\* Types: what TypeOK lacks to be inductive is the shape of the aircraft.
TInv == TypeOK /\ ac = [seen |-> ac.seen, even |-> ac.even, odd |-> ac.odd, pos |-> ac.pos]

OutState == [open : BOOLEAN, nextTry : 0..(MaxTime + Retry), got : BOOLEAN]

\* Places are counted round the circle.
LEMMA PlacesRound ==
    /\ Circle \in Nat \ {0}
    /\ \A p \in Places, d \in Int : (p + d) % Circle \in Places
    /\ \A p \in Places, f \in BOOLEAN : cpr_encode(p, f) \in Places
<1>1. Circle \in Nat \ {0}
  <2>1. Unit \in Nat \ {0} /\ Zones \in Nat \ {0} /\ Zones - 1 \in Nat \ {0}
    BY CprAssumption DEF CprAssumption
  <2>2. Unit * Zones \in Nat \ {0}
    BY <2>1
  <2>. QED BY <2>1, <2>2 DEF Circle
<1>2. ASSUME NEW p \in Places, NEW d \in Int PROVE (p + d) % Circle \in Places
  <2>1. PICK c \in Nat \ {0} : c = Circle
    BY <1>1
  <2>2. p + d \in Int
    BY <1>1, <2>1 DEF Places
  <2> QED
    BY <2>1, <2>2, Division DEF Places
<1>3. ASSUME NEW p \in Places, NEW f \in BOOLEAN PROVE cpr_encode(p, f) \in Places
  <2>1. PICK z, n, y : z = Zone(f) /\ n = p \div Zone(f) /\ y = cpr_encode(p, f)
    OBVIOUS
  <2>2. z \in Nat \ {0} /\ n \in Nat /\ y \in Nat /\ p = z * n + y
    <3>1. PICK k : k = (IF f THEN Zones - 1 ELSE Zones) - 1
      OBVIOUS
    <3>2. k \in Int
      BY <3>1, CprAssumption DEF CprAssumption
    <3> QED
      BY <2>1, <3>1, <3>2, Encoded
  <2>3. z * n \in Nat
    BY <2>2
  <2>4. y <= p /\ p \in Nat
    BY <2>2, <2>3
  <2> QED
    BY <1>1, <2>1, <2>2, <2>4 DEF Places
<1> QED
  BY <1>1, <1>2, <1>3

\* A frame is queued or dropped.
LEMMA IngestType ==
    ASSUME TransmitTypeOK, NEW f \in Frame, Ingest(f), odd' \in BOOLEAN
    PROVE  TransmitTypeOK'
<1>1. frames' \in Seq(Frame) /\ Len(frames') <= MaxQueue
  BY SdrtxAssumption DEF Ingest, TransmitTypeOK, SdrtxAssumption
<1> QED
  BY <1>1 DEF Ingest, TransmitTypeOK

\* The aircraft and the emulator.
LEMMA TransmitType ==
    ASSUME TransmitTypeOK, Fly \/ SendPosition \/ SendOther \/ Connect \/ Leave \/ Drain \/ Modulate
    PROVE  TransmitTypeOK'
<1>1. CASE Fly
  <2>1. now' \in Times /\ place' \in Places
    BY <1>1, PlacesRound, SdrtxAssumption DEF Fly, TransmitTypeOK, Times, SdrtxAssumption
  <2> QED
    BY <1>1, <2>1 DEF Fly, TransmitTypeOK, transmitter
<1>2. CASE SendPosition
  <2>1. [kind |-> "airborne_position", odd |-> odd, y |-> cpr_encode(place, odd),
         at |-> now, from |-> place] \in Frame
    BY PlacesRound DEF TransmitTypeOK, Frame
  <2> QED
    BY <1>2, <2>1, IngestType DEF SendPosition, TransmitTypeOK
<1>3. CASE SendOther
  <2>1. 0 \in Places /\ now \in Times
    BY PlacesRound DEF Places, TransmitTypeOK
  <2>2. [kind |-> "other", odd |-> FALSE, y |-> 0, at |-> now, from |-> 0] \in Frame
    BY <2>1 DEF Frame
  <2> QED
    BY <1>3, <2>2, IngestType DEF SendOther, TransmitTypeOK
<1>4. CASE Connect \/ Leave
  BY <1>4 DEF Connect, Leave, TransmitTypeOK, flight
<1>5. CASE Drain
  <2>1. frames' = frames \/ (frames # <<>> /\ frames' = Tail(frames))
    BY <1>5 DEF Drain
  <2>2. frames' \in Seq(Frame) /\ Len(frames') <= MaxQueue
    BY <2>1, SdrtxAssumption DEF TransmitTypeOK, SdrtxAssumption
  <2> QED
    BY <1>5, <2>2 DEF Drain, TransmitTypeOK, flight
<1>6. CASE Modulate
  <2>1. frames' \in Seq(Frame) /\ Len(frames') <= MaxQueue /\ Head(frames) \in Frame
    BY <1>6, SdrtxAssumption DEF Modulate, TransmitTypeOK, SdrtxAssumption
  <2>2. iq' \in Seq(Frame) /\ Len(iq') <= MaxIq
    BY <1>6, <2>1, SdrtxAssumption DEF Modulate, TransmitTypeOK, SdrtxAssumption
  <2> QED
    BY <1>6, <2>1, <2>2 DEF Modulate, TransmitTypeOK, flight
<1> QED
  BY <1>1, <1>2, <1>3, <1>4, <1>5, <1>6

\* I/Q is handled or lost.
LEMMA IqType ==
    ASSUME TransmitTypeOK, iq # <<>>, iq' = Tail(iq), UNCHANGED <<now, flight, frames, client, leaving>>
    PROVE  TransmitTypeOK'
<1>1. iq' \in Seq(Frame) /\ Len(iq') <= MaxIq
  BY SdrtxAssumption DEF TransmitTypeOK, SdrtxAssumption
<1> QED
  BY <1>1 DEF TransmitTypeOK, flight

\* A message that is heard, whatever it makes of the aircraft.
LEMMA HearType ==
    ASSUME TInv, NEW a, iq # <<>>, Hear(a), a = [seen |-> a.seen, even |-> a.even, odd |-> a.odd, pos |-> a.pos], a.seen = now
    PROVE  TInv'
<1>1. TransmitTypeOK' /\ ref' \in Refs
  BY IqType DEF Hear, TInv, TypeOK
<1>2. ac' = a /\ now' = now /\ serving = 0 /\ Bridge(a) /\ now \in 0..MaxTime /\ MaxTime \in Nat
  BY SdrtxAssumption DEF Hear, TInv, TypeOK, TransmitTypeOK, Times, SdrtxAssumption
<1>3. CASE UNCHANGED <<sent, serving, since, out>>
  BY <1>1, <1>2, <1>3 DEF TInv, TypeOK
<1>4. CASE /\ sent' = now /\ serving' = 1 /\ since' = now /\ a.pos # NoPosition /\ Protocols # <<>>
           /\ out' = [i \in Outputs |-> [out[i] EXCEPT !.got = FALSE]]
  <2>1. out' \in [Outputs -> OutState]
    BY <1>4 DEF TInv, TypeOK, OutState
  <2> QED
    BY <1>1, <1>2, <1>4, <2>1, Served DEF TInv, TypeOK, OutState
<1> QED
  BY <1>2, <1>3, <1>4 DEF Bridge

\* An output is served.
LEMMA ServeType ==
    ASSUME TInv, NEW i \in Outputs, Skip(i) \/ Send(i) \/ Fail(i)
    PROVE  TInv'
<1>1. serving = i /\ Done(i) /\ UNCHANGED <<source, radio, sent>>
  BY DEF Skip, Send, Fail
<1>2. TransmitTypeOK' /\ ref' = ref /\ ac' = ac /\ sent' = sent /\ now' = now
  BY <1>1 DEF source, radio, flight, transmitter, TransmitTypeOK, TInv, TypeOK
<1>3. now \in 0..MaxTime /\ MaxTime \in Nat /\ Retry \in Nat /\ since \in 0..now /\ sent \in 0..now /\ sent <= since
      /\ sent = ac.seen /\ ac.pos # NoPosition
  <2>1. i > 0
    BY Served
  <2> QED
    BY <1>1, <2>1, SdrtxAssumption, AdsbAssumption DEF TInv, TypeOK, TransmitTypeOK, Times, SdrtxAssumption, AdsbAssumption
<1>4. since + Retry \in 0..(MaxTime + Retry) /\ 0 \in 0..(MaxTime + Retry)
  BY <1>3
<1>5. out' \in [Outputs -> OutState]
  <2>1. out \in [Outputs -> OutState]
    BY DEF TInv, TypeOK, OutState
  <2>2. CASE Skip(i)
    BY <2>1, <2>2 DEF Skip
  <2>3. CASE Send(i)
    BY <1>4, <2>1, <2>3 DEF Send, OutState
  <2>4. CASE Fail(i)
    BY <1>4, <2>1, <2>4 DEF Fail, OutState
  <2> QED
    BY <2>2, <2>3, <2>4
<1>6. serving' \in {0} \cup Outputs /\ since' \in 0..now /\ (serving' > 0 => sent <= since')
  BY <1>1, <1>3, Served DEF Done
<1> QED
  BY <1>2, <1>3, <1>5, <1>6 DEF TInv, TypeOK, OutState

\* The types hold in every state.
LEMMA TypesHold == Spec => []TInv
<1>1. Init => TInv
  <2> SUFFICES ASSUME Init PROVE TInv
    OBVIOUS
  <2>1. TransmitTypeOK
    <3>1. now \in Times /\ place \in Places
      BY SdrtxAssumption DEF Init, TransmitInit, Times, SdrtxAssumption
    <3>2. frames = <<>> /\ iq = <<>> /\ <<>> \in Seq(Frame) /\ Len(frames) <= MaxQueue /\ Len(iq) <= MaxIq
      BY SdrtxAssumption DEF Init, TransmitInit, SdrtxAssumption
    <3>3. track \in {-1, 1} /\ odd \in BOOLEAN /\ client \in BOOLEAN /\ leaving \in BOOLEAN
      BY DEF Init, TransmitInit
    <3> QED
      BY <3>1, <3>2, <3>3 DEF TransmitTypeOK
  <2>2. out \in [Outputs -> OutState]
    BY SdrtxAssumption, AdsbAssumption DEF Init, OutState, SdrtxAssumption, AdsbAssumption
  <2> QED
    BY <2>1, <2>2 DEF Init, TransmitInit, TInv, TypeOK, NoAircraft, OutState
<1>2. TInv /\ [Next]_vars => TInv'
  <2> SUFFICES ASSUME TInv, [Next]_vars PROVE TInv'
    OBVIOUS
  <2>1. CASE Transmit \/ Lose
    <3>1. TransmitTypeOK'
      BY <2>1, TransmitType, IqType DEF Transmit, Lose, TInv, TypeOK
    <3>2. UNCHANGED <<radio, sent, out, serving, since>> /\ (now' = now \/ now' = now + 1)
      BY <2>1 DEF Transmit, Lose, Fly, SendPosition, SendOther, Ingest, Connect, Leave, Drain, Modulate
    <3>3. \A t \in 0..now : t \in 0..now'
      BY <3>2 DEF TInv, TypeOK, TransmitTypeOK, Times
    <3> QED
      BY <3>1, <3>2, <3>3 DEF TInv, TypeOK, radio
  <2>2. CASE HearPosition
    <3> DEFINE f == Head(iq)
               frame == [y |-> f.y, at |-> now, late |-> now - f.at > Delay]
               framed == IF f.odd THEN [ac EXCEPT !.odd = frame, !.seen = now]
                         ELSE [ac EXCEPT !.even = frame, !.seen = now]
               found == Position(framed, f.odd, f.y)
               a == IF found = NoPosition THEN framed ELSE [framed EXCEPT !.pos = found]
    <3>1. Hear(a) /\ iq # <<>>
      BY <2>2 DEF HearPosition
    <3>2. /\ framed = [seen |-> framed.seen, even |-> framed.even, odd |-> framed.odd, pos |-> framed.pos]
          /\ framed.seen = now
      BY DEF TInv
    <3> HIDE DEF framed, found
    <3>3. a = [seen |-> a.seen, even |-> a.even, odd |-> a.odd, pos |-> a.pos] /\ a.seen = now
      BY <3>2
    <3> QED
      BY <3>1, <3>3, HearType
  <2>3. CASE HearOther
    <3> DEFINE a == [ac EXCEPT !.seen = now]
    <3>1. Hear(a) /\ iq # <<>>
      BY <2>3 DEF HearOther
    <3>2. a = [seen |-> a.seen, even |-> a.even, odd |-> a.odd, pos |-> a.pos] /\ a.seen = now
      BY DEF TInv
    <3> QED
      BY <3>1, <3>2, HearType
  <2>4. CASE \E i \in Outputs : Skip(i) \/ Send(i) \/ Fail(i)
    BY <2>4, ServeType
  <2>5. CASE UNCHANGED vars
    BY <2>5 DEF vars, source, radio, flight, transmitter, TInv, TypeOK, TransmitTypeOK
  <2> QED
    BY <2>1, <2>2, <2>3, <2>4, <2>5 DEF Next
<1> QED
  BY <1>1, <1>2, PTL DEF Spec

\* Every variable of the receiver and of what feeds it keeps its type.
THEOREM TypeCorrect == Spec => []TypeOK
<1>1. TInv => TypeOK
  BY DEF TInv
<1> QED
  BY <1>1, TypesHold, PTL

-----------------------------------------------------------------------------
\* The path of the aircraft, unrolled: where it was at each time, counted on
\* past the seam of the circle.  It moves at most one place in a tick.
Continuous(u) ==
    \A s \in 0..now, t \in 0..now :
        s <= t => u[t] - u[s] <= t - s /\ u[s] - u[t] <= t - s

\* A frame that waits tells where the aircraft was.
Tells(u, f) == f.from = u[f.at] % Circle /\ f.y = cpr_encode(f.from, f.odd)

\* Either frame the receiver keeps tells where it was, not long before that
\* frame was heard unless that was late.
Recalls(u) ==
    /\ ac.even.at >= 0 =>
         /\ ac.even.at <= now
         /\ \E t \in 0..ac.even.at : /\ ~ac.even.late => ac.even.at - t <= Delay
                                    /\ ac.even.y = EvenFrame(u[t] % Circle)
    /\ ac.odd.at >= 0 =>
         /\ ac.odd.at <= now
         /\ \E t \in 0..ac.odd.at : /\ ~ac.odd.late => ac.odd.at - t <= Delay
                                   /\ ac.odd.y = OddFrame(u[t] % Circle)

\* The frames that were not heard yet, the oldest first.
Waiting == iq \o frames

\* Frames wait in the order they were sent, after those that were heard.
Ordered ==
    /\ heard.at \in -1..now
    /\ \A k \in 1..Len(Waiting) : heard.at <= Waiting[k].at /\ Waiting[k].at <= now
    /\ \A k, m \in 1..Len(Waiting) : k < m => Waiting[k].at <= Waiting[m].at

\* A trusted position is the place the last one heard was sent from.
Trusted(u) ==
    heard # NothingHeard =>
        /\ heard.at >= 0 /\ heard.from = u[heard.at] % Circle
        /\ \E p \in Int : ac.pos = {p} /\ p % Circle = heard.from

Follows(u) ==
    /\ Continuous(u) /\ place = u[now] % Circle
    /\ \A k \in 1..Len(Waiting) : Waiting[k].kind = "airborne_position" => Tells(u, Waiting[k])
    /\ Recalls(u) /\ Trusted(u)

Known == ac.even.at \in Int /\ ac.odd.at \in Int

PInv == Known /\ Ordered /\ \E u \in [Times -> Int] : Follows(u)

\* Two places less than half a unit apart on the unrolled path.
LEMMA PairOnPath ==
    ASSUME NEW x \in Int, NEW y \in Int, NEW b \in BOOLEAN,
           0 - Unit <= 2 * (x - y), 2 * (x - y) < Unit
    PROVE  cpr_global(EvenFrame(x % Circle), OddFrame(y % Circle), b)
             \in {NoPosition, {IF b THEN y % Circle ELSE x % Circle}}
<1>1. PICK z \in Nat \ {0} : z = Circle
  BY PlacesRound
<1> DEFINE p == x % z
           q == y % z
           c == (x \div z) - (y \div z)
<1>2. p \in 0..(z - 1) /\ x \div z \in Int /\ x = z * (x \div z) + p
  BY Division
<1>3. q \in 0..(z - 1) /\ y \div z \in Int /\ y = z * (y \div z) + q
  BY Division
<1>4. c \in Int /\ (p - q) + c * z = x - y
  BY <1>2, <1>3
<1>5. p \in Places /\ q \in Places
  BY <1>1, <1>2, <1>3 DEF Places
<1> HIDE DEF p, q, c
<1>6. Close(p, q)
  BY <1>1, <1>4 DEF Close
<1>7. cpr_global(EvenFrame(p), OddFrame(q), b) = IF nl[p] # nl[q] THEN NoPosition ELSE {IF b THEN q ELSE p}
  BY <1>5, <1>6, PairIsTrue
<1> QED
  BY <1>1, <1>7 DEF p, q

\* A place in reach lies in the nearer half of a zone of either kind.
LEMMA ReachBounded == LocalReach \in Nat /\ \A f \in BOOLEAN : 2 * LocalReach < Zone(f)
  BY AdsbAssumption, CprAssumption DEF AdsbAssumption, CprAssumption, Zone

\* A place any number of turns away has the same frame, and is found from a
\* reference near it.
LEMMA NearOnPath ==
    ASSUME NEW from \in Places, NEW k \in Int, NEW f \in BOOLEAN, NEW near \in Int,
           near - (from + Circle * k) \in (0 - LocalReach)..LocalReach
    PROVE  /\ cpr_local(cpr_encode(from, f), f, near) = from + Circle * k
           /\ (from + Circle * k) % Circle = from
<1>1. PICK z \in Nat \ {0} : z = Circle
  BY PlacesRound
<1>2. PICK s, n : s = Zone(f) /\ n = IF f THEN Zones - 1 ELSE Zones
  OBVIOUS
<1>3. s \in Nat \ {0} /\ n \in Nat \ {0} /\ Circle = s * n
  BY <1>2, CprAssumption DEF CprAssumption, Zone, Circle
<1>4. from \in 0..(z - 1)
  BY <1>1 DEF Places
<1>5. PICK p \in Int : p = from + Circle * k
  BY <1>1, <1>4
<1>6. p = from + s * (n * k) /\ n * k \in Int
  BY <1>3, <1>5
<1>7. cpr_encode(p, f) = cpr_encode(from, f)
  <2>1. PICK g \in Int : g = n * k
    BY <1>6
  <2>2. from \in Int
    BY <1>4
  <2>3. (from + s * g) % s = from % s
    BY <1>3, <2>2, Congruent
  <2> QED
    BY <1>2, <1>6, <2>1, <2>3 DEF cpr_encode
<1>8. LocalReach \in Nat /\ 2 * LocalReach < s
  BY <1>2, ReachBounded
<1>9. 0 - Zone(f) <= 2 * (near - p) /\ 2 * (near - p) < Zone(f)
  BY <1>2, <1>3, <1>5, <1>8
<1>10. cpr_local(cpr_encode(p, f), f, near) = p
  BY <1>9, NearestIsTrue
<1>11. (from + z * k) % z = from
  <2>1. from \in Int
    BY <1>4
  <2>2. (from + z * k) % z = from % z
    BY <2>1, Congruent
  <2>3. from % z = from
    BY <1>4
  <2> QED
    BY <2>2, <2>3
<1> QED
  BY <1>1, <1>5, <1>7, <1>10, <1>11

\* The frames that wait, and the two ways they are one less: the receiver takes
\* the first, the emulator drops the first of its own.
LEMMA Waits ==
    ASSUME TInv
    PROVE  /\ Waiting \in Seq(Frame) /\ iq \in Seq(Frame) /\ frames \in Seq(Frame)
           /\ Len(Waiting) = Len(iq) + Len(frames)
           /\ \A k \in 1..Len(Waiting) :
                Waiting[k] = IF k <= Len(iq) THEN iq[k] ELSE frames[k - Len(iq)]
  BY DEF TInv, TypeOK, TransmitTypeOK, Waiting

\* A frame that waits.
LEMMA FrameTyped ==
    ASSUME TInv, NEW k \in 1..Len(Waiting)
    PROVE  Waiting[k] \in Frame /\ Waiting[k].at \in Nat
<1>1. Waiting[k] \in Frame
  BY Waits
<1>2. Times \subseteq Nat
  BY SdrtxAssumption DEF Times, SdrtxAssumption
<1> QED
  BY <1>1, <1>2 DEF Frame

\* What the receiver takes is the frame that waits longest.
LEMMA FirstWaits ==
    ASSUME TInv, iq # <<>>
    PROVE  Head(iq) = Waiting[1] /\ 1 \in 1..Len(Waiting) /\ Head(iq) \in Frame
<1>1. iq \in Seq(Frame) /\ Len(iq) \in Nat \ {0} /\ Len(frames) \in Nat
  BY Waits
<1> QED
  BY <1>1, Waits

\* The position that a trusted frame gives is where it was sent from.
LEMMA PositionIsTrue ==
    ASSUME TInv, Known, Ordered, NEW u \in [Times -> Int], Follows(u), iq # <<>>,
           Head(iq).kind = "airborne_position",
           NEW a, a.pos = ac.pos, NEW frame,
           frame = [y |-> Head(iq).y, at |-> now, late |-> now - Head(iq).at > Delay],
           a.even = IF Head(iq).odd THEN ac.even ELSE frame,
           a.odd = IF Head(iq).odd THEN frame ELSE ac.odd,
           Trustworthy(a, Head(iq))
    PROVE  \E p \in Int : Position(a, Head(iq).odd, Head(iq).y) = {p}
                          /\ p % Circle = Head(iq).from
<1> DEFINE f == Head(iq)
<1>1. f = Waiting[1] /\ 1 \in 1..Len(Waiting) /\ f \in Frame
  BY FirstWaits
<1>2. /\ f.odd \in BOOLEAN /\ f.from \in Places /\ f.at \in 0..now /\ now \in Times /\ now \in Nat /\ f.at \in Times
      /\ f.from = u[f.at] % Circle /\ f.y = cpr_encode(f.from, f.odd)
      /\ Delay \in Nat
  <2>1. now \in Nat /\ MaxTime \in Nat /\ Delay \in Nat
    BY SdrtxAssumption, AdsbAssumption DEF SdrtxAssumption, AdsbAssumption, TInv, TypeOK, TransmitTypeOK, Times
  <2>2. Tells(u, f) /\ f.at <= now
    BY <1>1 DEF Follows, Ordered
  <2>3. f.odd \in BOOLEAN /\ f.from \in Places /\ f.at \in Times /\ now \in Times
    BY <1>1 DEF Frame, TInv, TypeOK, TransmitTypeOK
  <2>4. f.at \in 0..now
    BY <2>1, <2>2, <2>3 DEF Times
  <2> QED
    BY <2>1, <2>2, <2>3, <2>4 DEF Tells
<1>3. now \in Nat /\ Delay \in Nat /\ f.at \in Int
  BY <1>2
<1> HIDE DEF f
<1>4. \A t \in 0..now : t \in Times /\ u[t] \in Int
  BY <1>2, SdrtxAssumption DEF Times, SdrtxAssumption
<1>5. PICK z \in Nat \ {0} : z = Circle
  BY PlacesRound
<1>6. \A p \in Places : p % Circle = p
  BY <1>5 DEF Places
<1>7. CASE OfPair(a, f.odd) # NoPosition
  <2>1. Pairs(a) /\ a.even.at - a.odd.at \in (-PairSeconds)..PairSeconds
        /\ cpr_global(a.even.y, a.odd.y, f.odd) # NoPosition
        /\ ~a.even.late /\ ~a.odd.late
    BY <1>7 DEF OfPair, Pairs, Trustworthy, f
  <2>2. Position(a, f.odd, f.y) = cpr_global(a.even.y, a.odd.y, f.odd)
    BY <1>7, <2>1 DEF Position, OfPair
  <2>9. now - f.at <= Delay
    <3>1. ~frame.late
      BY <1>2, <2>1 DEF f
    <3>2. frame.late = (now - f.at > Delay)
      BY DEF f
    <3>3. ~(now - f.at > Delay)
      BY <3>1, <3>2, Zenon
    <3> QED
      BY <1>3, <3>3
  <2>3. PairSeconds \in Nat /\ Unit \in Nat /\ 2 * (PairSeconds + Delay) < Unit
    BY AdsbAssumption, CprAssumption DEF AdsbAssumption, CprAssumption
  <2>4. ASSUME NEW at \in Int, NEW t \in 0..at, at <= now, at - t <= Delay, now - at <= PairSeconds
        PROVE  /\ t \in 0..now /\ u[t] \in Int /\ u[f.at] \in Int
               /\ u[t] - u[f.at] <= PairSeconds + Delay
               /\ u[f.at] - u[t] <= PairSeconds + Delay
    <3>1. t \in 0..now /\ f.at \in 0..now
      BY <1>2, <2>4
    <3>2. t - f.at <= PairSeconds + Delay /\ f.at - t <= PairSeconds + Delay
      BY <1>2, <2>3, <2>4, <2>9
    <3>3. PICK x \in Int, y \in Int : x = u[t] /\ y = u[f.at]
      BY <1>4, <3>1
    <3>4. (t <= f.at => x - y <= f.at - t /\ y - x <= f.at - t)
          /\ (f.at <= t => x - y <= t - f.at /\ y - x <= t - f.at)
      BY <3>1, <3>3 DEF Follows, Continuous
    <3>5. x - y <= PairSeconds + Delay /\ y - x <= PairSeconds + Delay
      <4>1. PICK l \in Int, far \in Int : l = f.at /\ far = PairSeconds + Delay
        BY <1>3, <2>3
      <4>2. t \in Int /\ t - l <= far /\ l - t <= far
        BY <1>3, <3>1, <3>2, <4>1
      <4>3. (t <= l => x - y <= l - t /\ y - x <= l - t) /\ (l <= t => x - y <= t - l /\ y - x <= t - l)
        BY <3>4, <4>1
      <4>4. x - y <= far /\ y - x <= far
        BY <4>2, <4>3
      <4> QED
        BY <4>1, <4>4
    <3> QED
      BY <3>1, <3>3, <3>5
  <2>5. CASE f.odd
    <3>1. a.odd.y = f.y /\ a.odd.at = now /\ a.even = ac.even
      BY <2>5 DEF f
    <3>2. PICK t \in 0..ac.even.at : ac.even.at - t <= Delay /\ a.even.y = EvenFrame(u[t] % Circle)
      BY <2>1, <3>1 DEF Pairs, Follows, Recalls
    <3>3. ac.even.at \in Int /\ ac.even.at <= now /\ now - ac.even.at <= PairSeconds
      <4>1. ac.even.at \in Int /\ ac.even.at <= now
        BY <2>1, <3>1 DEF Pairs, Follows, Recalls, Known
      <4>2. ac.even.at - now \in (-PairSeconds)..PairSeconds
        BY <2>1, <3>1
      <4>3. PICK l \in Int : l = ac.even.at
        BY <4>1
      <4>4. l - now >= 0 - PairSeconds
        BY <1>3, <2>3, <4>2, <4>3
      <4>5. now - l <= PairSeconds
        BY <1>3, <2>3, <4>4
      <4> QED
        BY <4>1, <4>3, <4>5
    <3>4. /\ u[t] \in Int /\ u[f.at] \in Int
          /\ u[t] - u[f.at] <= PairSeconds + Delay /\ u[f.at] - u[t] <= PairSeconds + Delay
      BY <2>4, <3>2, <3>3
    <3>5. 0 - Unit <= 2 * (u[t] - u[f.at]) /\ 2 * (u[t] - u[f.at]) < Unit
      BY <1>2, <2>3, <3>4
    <3>6. cpr_global(EvenFrame(u[t] % Circle), OddFrame(u[f.at] % Circle), f.odd)
            \in {NoPosition, {IF f.odd THEN u[f.at] % Circle ELSE u[t] % Circle}}
      BY <1>2, <3>4, <3>5, PairOnPath
    <3>7. f.y = OddFrame(f.from)
      BY <1>2, <2>5 DEF OddFrame
    <3>8. cpr_global(a.even.y, a.odd.y, f.odd) \in {NoPosition, {f.from}}
      BY <1>2, <2>5, <3>1, <3>2, <3>6, <3>7
    <3>9. Position(a, f.odd, f.y) = {f.from} /\ f.from \in Int
      BY <1>2, <2>1, <2>2, <3>8 DEF Places
    <3> QED
      BY <1>2, <1>6, <3>9 DEF f
  <2>6. CASE ~f.odd
    <3>1. a.even.y = f.y /\ a.even.at = now /\ a.odd = ac.odd
      BY <2>6 DEF f
    <3>2. PICK t \in 0..ac.odd.at : ac.odd.at - t <= Delay /\ a.odd.y = OddFrame(u[t] % Circle)
      BY <2>1, <3>1 DEF Pairs, Follows, Recalls
    <3>3. ac.odd.at \in Int /\ ac.odd.at <= now /\ now - ac.odd.at <= PairSeconds
      <4>1. ac.odd.at \in Int /\ ac.odd.at <= now
        BY <2>1, <3>1 DEF Pairs, Follows, Recalls, Known
      <4>2. now - ac.odd.at \in (-PairSeconds)..PairSeconds
        BY <2>1, <3>1
      <4> QED
        BY <1>2, <2>3, <4>1, <4>2
    <3>4. /\ u[t] \in Int /\ u[f.at] \in Int
          /\ u[t] - u[f.at] <= PairSeconds + Delay /\ u[f.at] - u[t] <= PairSeconds + Delay
      BY <2>4, <3>2, <3>3
    <3>5. 0 - Unit <= 2 * (u[f.at] - u[t]) /\ 2 * (u[f.at] - u[t]) < Unit
      BY <1>2, <2>3, <3>4
    <3>6. cpr_global(EvenFrame(u[f.at] % Circle), OddFrame(u[t] % Circle), f.odd)
            \in {NoPosition, {IF f.odd THEN u[t] % Circle ELSE u[f.at] % Circle}}
      BY <1>2, <3>4, <3>5, PairOnPath
    <3>7. f.y = EvenFrame(f.from)
      BY <1>2, <2>6 DEF EvenFrame
    <3>8. cpr_global(a.even.y, a.odd.y, f.odd) \in {NoPosition, {f.from}}
      BY <1>2, <2>6, <3>1, <3>2, <3>6, <3>7
    <3>9. Position(a, f.odd, f.y) = {f.from} /\ f.from \in Int
      BY <1>2, <2>1, <2>2, <3>8 DEF Places
    <3> QED
      BY <1>2, <1>6, <3>9 DEF f
  <2> QED
    BY <1>2, <2>5, <2>6
<1>8. CASE OfPair(a, f.odd) = NoPosition
  <2>1. Position(a, f.odd, f.y) = {cpr_local(f.y, f.odd, near) : near \in IF ac.pos # NoPosition THEN ac.pos ELSE ref}
    BY <1>8 DEF Position
  <2>9. NearReference(f)
    BY <1>8 DEF Trustworthy, f
  <2>2. SUFFICES \E r \in Int, k \in Int :
                   /\ (IF ac.pos # NoPosition THEN ac.pos ELSE ref) = {r}
                   /\ r - (f.from + Circle * k) \in (0 - LocalReach)..LocalReach
    <3>1. PICK r \in Int, k \in Int :
                   /\ (IF ac.pos # NoPosition THEN ac.pos ELSE ref) = {r}
                   /\ r - (f.from + Circle * k) \in (0 - LocalReach)..LocalReach
      BY <2>2
    <3>2. cpr_local(f.y, f.odd, r) = f.from + Circle * k /\ (f.from + Circle * k) % Circle = f.from
      BY <1>2, <3>1, NearOnPath
    <3>3. f.from + Circle * k \in Int
      BY <1>2, <1>5 DEF Places
    <3>4. Position(a, f.odd, f.y) = {f.from + Circle * k}
      BY <2>1, <3>1, <3>2
    <3> QED
      BY <3>2, <3>3, <3>4 DEF f
  <2>3. CASE ac.pos # NoPosition
    <3>1. heard # NothingHeard /\ f.at - heard.at <= LocalReach
      BY <2>3, <2>9 DEF NearReference
    <3>2. heard.at \in 0..now /\ heard.at <= f.at /\ heard.from = u[heard.at] % Circle
      BY <1>1, <3>1 DEF Ordered, Follows, Trusted, f
    <3>3. PICK r \in Int : ac.pos = {r} /\ r % Circle = heard.from
      BY <3>1 DEF Follows, Trusted
    <3>4. PICK x \in Int, y \in Int : x = u[heard.at] /\ y = u[f.at]
      BY <1>2, <1>4, <3>2
    <3>5. y - x <= LocalReach /\ x - y <= LocalReach /\ LocalReach \in Nat
      <4>1. PICK l \in Int, m \in Int : l = f.at /\ m = heard.at
        BY <1>3, <3>2
      <4>2. y - x <= l - m /\ x - y <= l - m
        BY <1>2, <3>2, <3>4, <4>1 DEF Follows, Continuous
      <4>3. l - m <= LocalReach /\ LocalReach \in Nat
        BY <3>1, <4>1, ReachBounded
      <4> QED
        BY <4>1, <4>2, <4>3
    <3>6. r = z * (r \div z) + (r % z) /\ x = z * (x \div z) + (x % z) /\ y = z * (y \div z) + (y % z)
          /\ r \div z \in Int /\ x \div z \in Int /\ y \div z \in Int
          /\ r % z \in Int /\ x % z \in Int /\ y % z \in Int
      BY Division
    <3>7. r % z = x % z /\ f.from = y % z
      BY <1>2, <1>5, <3>2, <3>3, <3>4
    <3>8. PICK i \in Int, j \in Int, m \in Int : i = r \div z /\ j = x \div z /\ m = y \div z
      BY <3>6
    <3>9. PICK k \in Int : k = i - j + m
      OBVIOUS
    <3>10. z * k = z * (r \div z) - z * (x \div z) + z * (y \div z)
      BY <3>9, <3>8
    <3>11. r - (f.from + z * k) = x - y
      <4>1. PICK rz \in Int, xz \in Int, yz \in Int, g \in Int :
                rz = z * (r \div z) /\ xz = z * (x \div z) /\ yz = z * (y \div z) /\ g = z * k
        BY <3>6
      <4>2. g = rz - xz + yz /\ r = rz + (r % z) /\ x = xz + (r % z) /\ y = yz + f.from /\ f.from \in Int
        BY <3>6, <3>7, <3>10, <4>1
      <4>3. PICK w \in Int, e \in Int : w = f.from /\ e = r % z
        BY <3>6, <4>2
      <4>4. r - (w + g) = x - y
        BY <4>2, <4>3
      <4> QED
        BY <4>1, <4>3, <4>4
    <3>12. x - y \in (0 - LocalReach)..LocalReach
      BY <3>5
    <3>13. r - (f.from + Circle * k) \in (0 - LocalReach)..LocalReach
      BY <1>5, <3>11, <3>12
    <3> QED
      BY <2>3, <3>3, <3>13
  <2>4. CASE ac.pos = NoPosition
    <3>1. PICK d \in (-LocalReach)..LocalReach : ref = {(f.from + d) % Circle}
      BY <2>4, <2>9 DEF NearReference
    <3>2. LocalReach \in Nat /\ d \in Int /\ f.from \in Int
      BY <1>2, <3>1, AdsbAssumption DEF AdsbAssumption, Places
    <3>3. PICK x \in Int : x = f.from + d
      BY <3>2
    <3>4. x = z * (x \div z) + (x % z) /\ x \div z \in Int /\ x % z \in Int
      <4>1. x \div z \in Int /\ x % z \in 0..(z - 1) /\ x = z * (x \div z) + (x % z)
        BY Division
      <4> QED
        BY <4>1
    <3>5. PICK k \in Int : k = 0 - (x \div z)
      BY <3>4
    <3>6. z * k = 0 - z * (x \div z)
      BY <3>4, <3>5
    <3>7. PICK r \in Int, m \in Int, w \in Int, g \in Int :
              r = x % z /\ m = f.from /\ w = z * (x \div z) /\ g = z * k
      <4>1. z * (x \div z) \in Int /\ z * k \in Int
        BY <3>4
      <4> QED
        BY <3>2, <3>4, <4>1
    <3>8. x = w + r /\ g = 0 - w /\ x = m + d
      BY <3>3, <3>4, <3>6, <3>7
    <3>9. r - (m + g) = d
      <4>1. r \in Int /\ m \in Int /\ w \in Int /\ g \in Int /\ d \in Int
        BY <3>2, <3>7
      <4> QED
        BY <3>8, <4>1
    <3>10. r - (f.from + Circle * k) = d /\ ref = {r}
      BY <1>5, <3>1, <3>3, <3>7, <3>9
    <3>11. r - (f.from + Circle * k) \in (0 - LocalReach)..LocalReach
      BY <3>2, <3>10
    <3> QED
      BY <2>4, <3>10, <3>11
  <2> QED
    BY <2>3, <2>4
<1> QED
  BY <1>7, <1>8 DEF f

\* At the beginning the aircraft has been nowhere else.
LEMMA InitPInv == ASSUME Init, TInv PROVE PInv
<1>1. now = 0 /\ Len(Waiting) = 0 /\ heard = NothingHeard /\ heard.at = -1 /\ ac.even.at = -1 /\ ac.odd.at = -1
  BY DEF Init, TransmitInit, NoAircraft, NoFrame, NothingHeard, Waiting
<1>2. place \in Int /\ place % Circle = place
  <2>1. PICK z \in Nat \ {0} : z = Circle
    BY PlacesRound
  <2>2. place \in 0..(z - 1)
    BY <2>1 DEF TInv, TypeOK, TransmitTypeOK, Places
  <2> QED
    BY <2>1, <2>2
<1> DEFINE u == [t \in Times |-> place]
<1>3. u \in [Times -> Int] /\ 0 \in Times /\ u[0] = place
  BY <1>2, SdrtxAssumption DEF Times, SdrtxAssumption
<1> HIDE DEF u
<1>4. Continuous(u)
  BY <1>1, <1>3 DEF Continuous
<1>5. Follows(u)
  BY <1>1, <1>2, <1>3, <1>4 DEF Follows, Recalls, Trusted
<1>6. Known /\ Ordered
  BY <1>1 DEF Known, Ordered
<1> QED
  BY <1>3, <1>5, <1>6 DEF PInv

\* The aircraft flies on: its path is one place longer.
LEMMA FlyKeepsPath ==
    ASSUME TInv, PInv, Fly, UNCHANGED radio PROVE PInv'
<1>1. now' = now + 1 /\ now \in Nat /\ now \in Times /\ now + 1 \in Times
      /\ \A t \in 0..now : t \in Times /\ t \in Nat /\ t # now + 1
  BY SdrtxAssumption DEF Fly, SdrtxAssumption, TInv, TypeOK, TransmitTypeOK, Times
<1>2. Waiting' = Waiting /\ ac' = ac /\ heard' = heard
  BY DEF Fly, transmitter, radio, Waiting
<1>3. PICK d \in {0, track} : place' = (place + d) % Circle
  BY DEF Fly
<1>4. d \in -1..1
  BY <1>3 DEF TInv, TypeOK, TransmitTypeOK
<1>5. PICK u \in [Times -> Int] : Follows(u)
  BY DEF PInv
<1>6. PICK x \in Int : x = u[now]
  BY <1>1, <1>5
<1>7. PICK v : v = [u EXCEPT ![now + 1] = x + d]
  OBVIOUS
<1>8. v \in [Times -> Int] /\ v[now + 1] = x + d /\ \A t \in 0..now : v[t] = u[t] /\ u[t] \in Int
  BY <1>1, <1>4, <1>5, <1>6, <1>7
<1>9. Continuous(v)'
  <2> SUFFICES ASSUME NEW s \in 0..(now + 1), NEW t \in 0..(now + 1), s <= t
               PROVE  v[t] - v[s] <= t - s /\ v[s] - v[t] <= t - s
    BY <1>1 DEF Continuous
  <2>1. CASE t \in 0..now
    <3>1. s \in 0..now
      BY <1>1, <2>1
    <3> QED
      BY <1>5, <1>8, <2>1, <3>1 DEF Follows, Continuous
  <2>2. CASE t = now + 1 /\ s \in 0..now
    <3>1. PICK y \in Int : y = u[s]
      BY <1>8, <2>2
    <3>2. now \in 0..now /\ s <= now
      BY <1>1, <2>2
    <3>3. x - y <= now - s /\ y - x <= now - s
      BY <1>5, <1>6, <2>2, <3>1, <3>2 DEF Follows, Continuous
    <3>4. v[t] = x + d /\ v[s] = y
      BY <1>8, <2>2, <3>1
    <3> QED
      BY <1>1, <1>4, <2>2, <3>3, <3>4
  <2>3. CASE t = now + 1 /\ s = now + 1
    BY <1>4, <1>8, <2>3
  <2> QED
    BY <1>1, <2>1, <2>2, <2>3
<1>10. place' = v[now'] % Circle
  <2>1. PICK z \in Nat \ {0} : z = Circle
    BY PlacesRound
  <2>2. place = x % z
    BY <1>5, <1>6, <2>1 DEF Follows
  <2>3. x % z \in 0..(z - 1) /\ x \div z \in Int /\ x = z * (x \div z) + (x % z)
    BY Division
  <2>4. (x % z) + d \in Int
    BY <1>4, <2>3
  <2>5. (((x % z) + d) + z * (x \div z)) % z = ((x % z) + d) % z
    BY <2>3, <2>4, Congruent
  <2>6. x + d = ((x % z) + d) + z * (x \div z)
    BY <1>4, <2>3
  <2> QED
    BY <1>1, <1>3, <1>8, <2>1, <2>2, <2>5, <2>6
<1>11. \A k \in 1..Len(Waiting) : Waiting[k].kind = "airborne_position" => Tells(v, Waiting[k])
  <2> SUFFICES ASSUME NEW k \in 1..Len(Waiting), Waiting[k].kind = "airborne_position" PROVE Tells(v, Waiting[k])
    OBVIOUS
  <2>1. Tells(u, Waiting[k])
    BY <1>5 DEF Follows
  <2>2. Waiting[k].at \in 0..now
    <3>1. Waiting[k].at <= now
      BY DEF PInv, Ordered
    <3>2. Waiting[k].at \in Nat
      BY FrameTyped
    <3> QED
      BY <1>1, <3>1, <3>2
  <2> QED
    BY <1>8, <2>1, <2>2 DEF Tells
<1>12. Recalls(v)'
  <2>1. ASSUME ac.even.at >= 0
        PROVE  /\ ac.even.at <= now + 1
               /\ \E t \in 0..ac.even.at : (~ac.even.late => ac.even.at - t <= Delay) /\ ac.even.y = EvenFrame(v[t] % Circle)
    <3>1. PICK t \in 0..ac.even.at : (~ac.even.late => ac.even.at - t <= Delay) /\ ac.even.y = EvenFrame(u[t] % Circle)
      BY <1>5, <2>1 DEF Follows, Recalls
    <3>2. PICK at \in Int : at = ac.even.at
      BY DEF PInv, Known
    <3>3. at <= now /\ 0 <= at
      BY <1>5, <2>1, <3>2 DEF Follows, Recalls
    <3>4. t \in 0..now /\ at <= now + 1
      BY <1>1, <3>1, <3>2, <3>3
    <3> QED
      BY <1>8, <3>1, <3>2, <3>4
  <2>2. ASSUME ac.odd.at >= 0
        PROVE  /\ ac.odd.at <= now + 1
               /\ \E t \in 0..ac.odd.at : (~ac.odd.late => ac.odd.at - t <= Delay) /\ ac.odd.y = OddFrame(v[t] % Circle)
    <3>1. PICK t \in 0..ac.odd.at : (~ac.odd.late => ac.odd.at - t <= Delay) /\ ac.odd.y = OddFrame(u[t] % Circle)
      BY <1>5, <2>2 DEF Follows, Recalls
    <3>2. PICK at \in Int : at = ac.odd.at
      BY DEF PInv, Known
    <3>3. at <= now /\ 0 <= at
      BY <1>5, <2>2, <3>2 DEF Follows, Recalls
    <3>4. t \in 0..now /\ at <= now + 1
      BY <1>1, <3>1, <3>2, <3>3
    <3> QED
      BY <1>8, <3>1, <3>2, <3>4
  <2> QED
    BY <1>1, <1>2, <2>1, <2>2 DEF Recalls
<1>13. Trusted(v)'
  BY <1>2, <1>5, <1>8 DEF Follows, Trusted, PInv, Ordered
<1>14. Follows(v)'
  BY <1>2, <1>9, <1>10, <1>11, <1>12, <1>13 DEF Follows, Tells
<1>15. Ordered'
  <2>1. \A k \in 1..Len(Waiting) : Waiting[k].at <= now => Waiting[k].at <= now + 1
    <3> SUFFICES ASSUME NEW k \in 1..Len(Waiting), Waiting[k].at <= now PROVE Waiting[k].at <= now + 1
      OBVIOUS
    <3>1. Waiting[k].at \in Nat
      BY FrameTyped
    <3> QED
      BY <1>1, <3>1
  <2>2. heard.at \in -1..(now + 1)
    BY <1>1 DEF PInv, Ordered
  <2> QED
    BY <1>1, <1>2, <2>1, <2>2 DEF PInv, Ordered
<1> QED
  BY <1>2, <1>8, <1>14, <1>15 DEF PInv, Known

\* A frame is queued behind the others, or dropped.
LEMMA SendKeepsPath ==
    ASSUME TInv, PInv, NEW f \in Frame, Ingest(f), f.at = now, UNCHANGED radio,
           f.kind = "airborne_position" => f.from = place /\ f.y = cpr_encode(place, f.odd)
    PROVE  PInv'
<1>1. now' = now /\ place' = place /\ ac' = ac /\ heard' = heard /\ now \in Times /\ now \in Nat
  BY SdrtxAssumption DEF Ingest, radio, TInv, TypeOK, TransmitTypeOK, Times, SdrtxAssumption
<1>2. PICK u \in [Times -> Int] : Follows(u)
  BY DEF PInv
<1>3. CASE Waiting' = Waiting
  <2>1. Follows(u)'
    BY <1>1, <1>2, <1>3 DEF Follows, Continuous, Recalls, Trusted, Tells
  <2> QED
    BY <1>1, <1>3, <2>1 DEF PInv, Known, Ordered
<1>4. CASE Waiting' = Append(Waiting, f)
  <2>0. Waiting \in Seq(Frame)
    BY Waits
  <2>1. Waiting \in Seq(Frame) /\ Len(Waiting') = Len(Waiting) + 1 /\ Waiting'[Len(Waiting) + 1] = f
        /\ \A k \in 1..Len(Waiting) : Waiting'[k] = Waiting[k]
    BY <1>4, <2>0
  <2>2. Tells(u, f) \/ f.kind # "airborne_position"
    BY <1>2 DEF Tells, Follows
  <2>3. \A k \in 1..Len(Waiting') : k \in 1..Len(Waiting) \/ k = Len(Waiting) + 1
    BY <2>1
  <2>4. \A k \in 1..Len(Waiting') : Waiting'[k].kind = "airborne_position" => Tells(u, Waiting'[k])
    BY <1>2, <2>1, <2>2, <2>3 DEF Follows
  <2>5. Follows(u)'
    BY <1>1, <1>2, <2>4 DEF Follows, Continuous, Recalls, Trusted, Tells
  <2>6. heard.at <= now /\ now <= now /\ \A k \in 1..Len(Waiting) : Waiting[k].at <= now
    BY <1>1 DEF PInv, Ordered
  <2>7. \A k \in 1..Len(Waiting') : heard.at <= Waiting'[k].at /\ Waiting'[k].at <= now
    BY <2>1, <2>3, <2>6 DEF PInv, Ordered
  <2>8. \A k, m \in 1..Len(Waiting') : k < m => Waiting'[k].at <= Waiting'[m].at
    <3> SUFFICES ASSUME NEW k \in 1..Len(Waiting'), NEW m \in 1..Len(Waiting'), k < m PROVE Waiting'[k].at <= Waiting'[m].at
      OBVIOUS
    <3>1. k \in 1..Len(Waiting)
      BY <2>1
    <3>2. CASE m \in 1..Len(Waiting)
      BY <2>1, <3>1, <3>2 DEF PInv, Ordered
    <3>3. CASE m = Len(Waiting) + 1
      BY <2>1, <2>6, <3>1, <3>3
    <3> QED
      BY <2>3, <3>2, <3>3
  <2> QED
    BY <1>1, <2>5, <2>7, <2>8 DEF PInv, Known, Ordered
<1>5. frames \in Seq(Frame) /\ iq \in Seq(Frame) /\ iq' = iq
  BY Waits DEF Ingest
<1>6. CASE frames' = frames
  BY <1>3, <1>5, <1>6 DEF Waiting
<1>7. CASE frames' = Append(frames, f)
  <2>1. iq \o Append(frames, f) = Append(iq \o frames, f)
    BY <1>5
  <2> QED
    BY <1>4, <1>5, <1>7, <2>1 DEF Waiting
<1> QED
  BY <1>6, <1>7 DEF Ingest

\* One frame less waits.
Removed(i) ==
    /\ i \in 1..Len(Waiting) /\ Len(Waiting') = Len(Waiting) - 1
    /\ \A k \in 1..Len(Waiting') : Waiting'[k] = Waiting[IF k < i THEN k ELSE k + 1]

\* The receiver takes the first.
LEMMA TakenRemoved == ASSUME TInv, iq # <<>>, iq' = Tail(iq), frames' = frames PROVE Removed(1)
<1>1. iq \in Seq(Frame) /\ frames \in Seq(Frame) /\ Len(iq) \in Nat \ {0} /\ Len(frames) \in Nat
  BY Waits
<1>2. Waiting' = Tail(iq) \o frames
  BY DEF Waiting
<1>3. Len(Waiting) = Len(iq) + Len(frames) /\ Len(Waiting') = Len(iq) - 1 + Len(frames)
  BY <1>1, <1>2, Waits
<1>4. ASSUME NEW k \in 1..Len(Waiting') PROVE Waiting'[k] = Waiting[k + 1]
  <2>1. CASE k <= Len(iq) - 1
    <3>1. Waiting'[k] = iq[k + 1]
      BY <1>1, <1>2, <1>3, <2>1
    <3>2. Waiting[k + 1] = iq[k + 1]
      BY <1>1, <1>3, <2>1, Waits
    <3> QED
      BY <3>1, <3>2
  <2>2. CASE k > Len(iq) - 1
    <3>1. Waiting'[k] = frames[k - (Len(iq) - 1)]
      BY <1>1, <1>2, <1>3, <2>2
    <3>2. Waiting[k + 1] = frames[(k + 1) - Len(iq)]
      BY <1>1, <1>3, <2>2, Waits
    <3>3. k - (Len(iq) - 1) = (k + 1) - Len(iq)
      BY <1>1, <1>3
    <3> QED
      BY <3>1, <3>2, <3>3
  <2> QED
    BY <1>1, <1>3, <2>1, <2>2
<1>5. 1 \in 1..Len(Waiting) /\ Len(Waiting') = Len(Waiting) - 1
  BY <1>1, <1>3
<1>6. \A k \in 1..Len(Waiting') : Waiting'[k] = Waiting[IF k < 1 THEN k ELSE k + 1]
  <2> SUFFICES ASSUME NEW k \in 1..Len(Waiting') PROVE Waiting'[k] = Waiting[IF k < 1 THEN k ELSE k + 1]
    OBVIOUS
  <2>1. ~(k < 1)
    BY <1>1, <1>3
  <2> QED
    BY <1>4, <2>1
<1> QED
  BY <1>5, <1>6 DEF Removed

\* The emulator drops the first of its own.
LEMMA DroppedRemoved == ASSUME TInv, frames # <<>>, frames' = Tail(frames), iq' = iq PROVE Removed(Len(iq) + 1)
<1>1. iq \in Seq(Frame) /\ frames \in Seq(Frame) /\ Len(iq) \in Nat /\ Len(frames) \in Nat \ {0}
  BY Waits
<1>2. Waiting' = iq \o Tail(frames)
  BY DEF Waiting
<1>3. Len(Waiting) = Len(iq) + Len(frames) /\ Len(Waiting') = Len(iq) + Len(frames) - 1
  BY <1>1, <1>2, Waits
<1>4. ASSUME NEW k \in 1..Len(Waiting')
      PROVE  Waiting'[k] = Waiting[IF k < Len(iq) + 1 THEN k ELSE k + 1]
  <2>1. CASE k < Len(iq) + 1
    <3>1. Waiting'[k] = iq[k]
      BY <1>1, <1>2, <1>3, <2>1
    <3>2. Waiting[k] = iq[k]
      BY <1>1, <1>3, <2>1, Waits
    <3> QED
      BY <2>1, <3>1, <3>2
  <2>2. CASE ~(k < Len(iq) + 1)
    <3>1. Waiting'[k] = frames[(k - Len(iq)) + 1]
      BY <1>1, <1>2, <1>3, <2>2
    <3>2. Waiting[k + 1] = frames[(k + 1) - Len(iq)]
      BY <1>1, <1>3, <2>2, Waits
    <3>3. (k - Len(iq)) + 1 = (k + 1) - Len(iq)
      BY <1>1, <1>3
    <3> QED
      BY <2>2, <3>1, <3>2, <3>3
  <2> QED
    BY <2>1, <2>2
<1>5. Len(iq) + 1 \in 1..Len(Waiting) /\ Len(Waiting') = Len(Waiting) - 1
  BY <1>1, <1>3
<1> QED
  BY <1>4, <1>5 DEF Removed

\* A frame waits no longer; what was heard last is still older than the others,
\* also when it was that frame.
LEMMA TakeKeepsPath ==
    ASSUME TInv, Ordered, NEW u \in [Times -> Int], Follows(u), NEW i, Removed(i),
           now' = now, place' = place,
           heard'.at \in {-1, heard.at} \/ (i = 1 /\ heard'.at = Waiting[1].at),
           Recalls(u)', Trusted(u)'
    PROVE  Ordered' /\ Follows(u)'
<1>1. now \in Nat /\ Waiting \in Seq(Frame)
  BY SdrtxAssumption, Waits DEF TInv, TypeOK, TransmitTypeOK, Times, SdrtxAssumption
<1> DEFINE at(k) == IF k < i THEN k ELSE k + 1
<1>2. /\ Len(Waiting) \in Nat \ {0} /\ Len(Waiting') = Len(Waiting) - 1 /\ i \in 1..Len(Waiting)
      /\ 1 \in 1..Len(Waiting)
      /\ \A k \in 1..Len(Waiting') : Waiting'[k] = Waiting[at(k)] /\ at(k) \in 1..Len(Waiting)
      /\ \A k \in 1..Len(Waiting') : i = 1 => 1 < at(k)
      /\ \A k, m \in 1..Len(Waiting') : k < m => at(k) < at(m)
  BY <1>1 DEF Removed
<1> HIDE DEF at
<1>3. \A k \in 1..Len(Waiting') : Waiting'[k].kind = "airborne_position" => Tells(u, Waiting'[k])
  BY <1>2 DEF Follows
<1>4. Follows(u)'
  BY <1>3 DEF Follows, Continuous, Tells
<1>5. heard'.at \in -1..now'
  <2>1. Waiting[1].at \in Nat /\ Waiting[1].at <= now
    BY <1>2, FrameTyped DEF Ordered
  <2> QED
    BY <1>1, <2>1 DEF Ordered
<1>6. \A k \in 1..Len(Waiting') : heard'.at <= Waiting'[k].at /\ Waiting'[k].at <= now'
  <2> SUFFICES ASSUME NEW k \in 1..Len(Waiting') PROVE heard'.at <= Waiting'[k].at /\ Waiting'[k].at <= now'
    OBVIOUS
  <2>1. Waiting'[k] = Waiting[at(k)] /\ at(k) \in 1..Len(Waiting) /\ (i = 1 => 1 < at(k))
    BY <1>2
  <2>2. /\ heard.at <= Waiting[at(k)].at /\ Waiting[at(k)].at <= now /\ Waiting[at(k)].at \in Nat
        /\ i = 1 => Waiting[1].at <= Waiting[at(k)].at
    BY <1>2, <2>1, FrameTyped DEF Ordered
  <2> QED
    BY <2>1, <2>2
<1>7. \A k, m \in 1..Len(Waiting') : k < m => Waiting'[k].at <= Waiting'[m].at
  <2> SUFFICES ASSUME NEW k \in 1..Len(Waiting'), NEW m \in 1..Len(Waiting'), k < m PROVE Waiting'[k].at <= Waiting'[m].at
    OBVIOUS
  <2>1. at(k) \in 1..Len(Waiting) /\ at(m) \in 1..Len(Waiting) /\ at(k) < at(m)
    BY <1>2
  <2> QED
    BY <1>2, <2>1 DEF Ordered
<1> QED
  BY <1>4, <1>5, <1>6, <1>7 DEF Ordered

\* A position that is heard: the receiver keeps the frame, and where it was
\* sent from when it can be trusted.
LEMMA HearPositionKeepsPath == ASSUME TInv, PInv, HearPosition PROVE PInv'
<1> DEFINE f == Head(iq)
           frame == [y |-> f.y, at |-> now, late |-> now - f.at > Delay]
           framed == IF f.odd THEN [ac EXCEPT !.odd = frame, !.seen = now]
                     ELSE [ac EXCEPT !.even = frame, !.seen = now]
           found == Position(framed, f.odd, f.y)
<1>1. /\ iq # <<>> /\ f.kind = "airborne_position" /\ iq' = Tail(iq) /\ frames' = frames
      /\ now' = now /\ place' = place
      /\ ac' = IF found = NoPosition THEN framed ELSE [framed EXCEPT !.pos = found]
      /\ heard' = IF Trustworthy(framed, f) THEN [from |-> f.from, at |-> f.at] ELSE NothingHeard
  BY DEF HearPosition, Hear, flight
<1>2. PICK u \in [Times -> Int] : Follows(u)
  BY DEF PInv
<1>3. /\ framed.pos = ac.pos
      /\ framed.even = (IF f.odd THEN ac.even ELSE frame)
      /\ framed.odd = (IF f.odd THEN frame ELSE ac.odd)
      /\ framed = [seen |-> framed.seen, even |-> framed.even, odd |-> framed.odd, pos |-> framed.pos]
  BY DEF TInv
<1>4. /\ f \in Frame /\ f.odd \in BOOLEAN /\ f.at \in Nat /\ f.at <= now /\ now \in Nat /\ Delay \in Nat
      /\ f.from = u[f.at] % Circle /\ f.y = cpr_encode(f.from, f.odd)
      /\ frame.y = f.y /\ frame.at = now /\ (~frame.late => now - f.at <= Delay)
  <2>1. f = Waiting[1] /\ 1 \in 1..Len(Waiting) /\ f \in Frame
    BY <1>1, FirstWaits
  <2>2. Tells(u, f) /\ f.at <= now
    BY <1>1, <1>2, <2>1 DEF Follows, PInv, Ordered
  <2>3. f.at \in Nat /\ now \in Nat /\ Delay \in Nat /\ f.odd \in BOOLEAN
    <3>1. f.at \in Nat /\ f.odd \in BOOLEAN
      BY <2>1, FrameTyped DEF Frame
    <3> QED
      BY <3>1, SdrtxAssumption, AdsbAssumption DEF Times, SdrtxAssumption, AdsbAssumption, TInv, TypeOK, TransmitTypeOK
  <2>4. frame.y = f.y /\ frame.at = now /\ frame.late = (now - f.at > Delay)
    OBVIOUS
  <2> HIDE DEF frame
  <2>5. ~frame.late => ~(now - f.at > Delay)
    BY <2>4, Zenon
  <2>6. ~frame.late => now - f.at <= Delay
    BY <2>3, <2>5
  <2> QED
    BY <2>1, <2>2, <2>3, <2>4, <2>6 DEF Tells
<1>5. Trustworthy(framed, f) => \E p \in Int : found = {p} /\ p % Circle = f.from
  <2> SUFFICES ASSUME Trustworthy(framed, f)
               PROVE  \E p \in Int : found = {p} /\ p % Circle = f.from
    OBVIOUS
  <2> HIDE DEF framed
  <2> QED
    BY <1>1, <1>2, <1>3, PositionIsTrue DEF PInv
<1> HIDE DEF frame
<1> HIDE DEF framed, found, f
<1>6. ac'.even = (IF f.odd THEN ac.even ELSE frame) /\ ac'.odd = (IF f.odd THEN frame ELSE ac.odd)
      /\ (found # NoPosition => ac'.pos = found)
  BY <1>1, <1>3
<1>7. Known'
  BY <1>4, <1>6 DEF Known, PInv
<1>8. Recalls(u)'
  <2>1. CASE f.odd
    <3>1. f.at \in 0..now /\ f.y = OddFrame(u[f.at] % Circle)
      BY <1>4, <2>1 DEF OddFrame
    <3>2. ac'.even = ac.even /\ ac'.odd = frame /\ now <= now
      BY <1>4, <1>6, <2>1
    <3> QED
      BY <1>1, <1>2, <1>4, <3>1, <3>2 DEF Follows, Recalls
  <2>2. CASE ~f.odd
    <3>1. f.at \in 0..now /\ f.y = EvenFrame(u[f.at] % Circle)
      <4>1. f.y = EvenFrame(f.from)
        BY <1>4, <2>2 DEF EvenFrame
      <4> QED
        BY <1>4, <4>1
    <3>2. ac'.odd = ac.odd /\ ac'.even = frame /\ now <= now
      BY <1>4, <1>6, <2>2
    <3> QED
      BY <1>1, <1>2, <1>4, <3>1, <3>2 DEF Follows, Recalls
  <2> QED
    BY <2>1, <2>2
<1>9. Trusted(u)'
  <2> SUFFICES ASSUME heard' # NothingHeard
               PROVE  /\ heard'.at >= 0 /\ heard'.from = u[heard'.at] % Circle
                      /\ \E p \in Int : ac'.pos = {p} /\ p % Circle = heard'.from
    BY DEF Trusted
  <2>1. heard'.from = f.from /\ heard'.at = f.at /\ Trustworthy(framed, f)
    <3>1. Trustworthy(framed, f) /\ heard' = [from |-> f.from, at |-> f.at]
      BY <1>1
    <3> QED
      BY <3>1
  <2>2. f.at >= 0 /\ f.from = u[f.at] % Circle
    BY <1>4
  <2>3. PICK p \in Int : found = {p} /\ p % Circle = f.from
    BY <1>5, <2>1
  <2>4. ac'.pos = {p}
    BY <1>6, <2>3 DEF NoPosition
  <2> QED
    BY <2>1, <2>2, <2>3, <2>4
<1>10. Ordered' /\ Follows(u)'
  <2>1. heard'.at = -1 \/ heard'.at = f.at
    BY <1>1 DEF NothingHeard
  <2>2. f = Waiting[1] /\ Removed(1)
    BY <1>1, FirstWaits, TakenRemoved DEF f
  <2>3. TInv /\ Ordered /\ Follows(u) /\ now' = now /\ place' = place
    BY <1>1, <1>2 DEF PInv
  <2> QED
    BY <1>8, <1>9, <2>1, <2>2, <2>3, TakeKeepsPath
<1> QED
  BY <1>7, <1>10 DEF PInv

\* A frame is drained, is too old, is lost, or says nothing of the position.
LEMMA TakeOtherKeepsPath ==
    ASSUME TInv, PInv, NEW i, Removed(i), now' = now, place' = place,
           ac'.even = ac.even, ac'.odd = ac.odd, ac'.pos = ac.pos, heard' = heard
    PROVE  PInv'
<1>1. PICK u \in [Times -> Int] : Follows(u)
  BY DEF PInv
<1>2. Recalls(u)' /\ Trusted(u)'
  BY <1>1 DEF Follows, Recalls, Trusted
<1>3. Ordered' /\ Follows(u)'
  <2>1. TInv /\ Ordered /\ heard'.at \in {-1, heard.at}
    BY DEF PInv
  <2> QED
    BY <1>1, <1>2, <2>1, TakeKeepsPath
<1> QED
  BY <1>3 DEF PInv, Known

\* Nothing that concerns the path changes.
LEMMA StillKeepsPath ==
    ASSUME PInv, Waiting' = Waiting, now' = now, place' = place, ac' = ac, heard' = heard
    PROVE  PInv'
<1>1. PICK u \in [Times -> Int] : Follows(u)
  BY DEF PInv
<1>2. Follows(u)'
  BY <1>1 DEF Follows, Continuous, Recalls, Trusted, Tells
<1> QED
  BY <1>2 DEF PInv, Known, Ordered

\* A frame goes from the queue into the I/Q, or is too old.
LEMMA ModulateKeepsPath == ASSUME TInv, PInv, Modulate, UNCHANGED radio PROVE PInv'
<1>1. now' = now /\ place' = place /\ ac' = ac /\ heard' = heard /\ frames # <<>> /\ frames' = Tail(frames)
  BY DEF Modulate, flight, radio
<1>2. CASE Stale(Head(frames))
  <2>1. iq' = iq
    BY <1>2 DEF Modulate
  <2>2. Removed(Len(iq) + 1)
    BY <1>1, <2>1, DroppedRemoved
  <2> QED
    BY <1>1, <2>2, TakeOtherKeepsPath
<1>3. CASE ~Stale(Head(frames))
  <2>1. iq' = Append(iq, Head(frames))
    BY <1>3 DEF Modulate
  <2>2. Append(iq, Head(frames)) \o Tail(frames) = iq \o frames
    BY <1>1, Waits
  <2> QED
    BY <1>1, <2>1, <2>2, StillKeepsPath DEF Waiting
<1> QED
  BY <1>2, <1>3

\* A position that came from a pair heard in time, or from a near reference that
\* was right, is the place it was sent from, for any number and size of zones,
\* however late other frames are heard and whatever is lost.
THEOREM PositionHoldsTrue == Spec => []PositionTrue
<1>1. Init /\ TInv => PInv
  BY InitPInv
<1>2. TInv /\ PInv /\ [Next]_vars => PInv'
  <2> SUFFICES ASSUME TInv, PInv, [Next]_vars PROVE PInv'
    OBVIOUS
  <2>1. CASE Transmit
    <3>1. UNCHANGED radio /\ ac' = ac /\ heard' = heard
      BY <2>1 DEF Transmit, radio
    <3>2. CASE Fly
      BY <3>1, <3>2, FlyKeepsPath
    <3>3. CASE SendPosition
      <4>1. PICK f : f = [kind |-> "airborne_position", odd |-> odd, y |-> cpr_encode(place, odd),
                           at |-> now, from |-> place]
        OBVIOUS
      <4>2. f \in Frame
        BY <4>1, PlacesRound DEF TInv, TypeOK, TransmitTypeOK, Frame
      <4>3. Ingest(f) /\ f.at = now /\ f.from = place /\ f.y = cpr_encode(place, f.odd)
        BY <3>3, <4>1 DEF SendPosition
      <4> QED
        BY <3>1, <4>2, <4>3, SendKeepsPath
    <3>4. CASE SendOther
      <4>1. PICK f : f = [kind |-> "other", odd |-> FALSE, y |-> 0, at |-> now, from |-> 0]
        OBVIOUS
      <4>2. f \in Frame
        <5>1. 0 \in Places /\ now \in Times
          BY PlacesRound DEF Places, TInv, TypeOK, TransmitTypeOK
        <5> QED
          BY <4>1, <5>1 DEF Frame
      <4>3. Ingest(f) /\ f.at = now /\ f.kind # "airborne_position"
        BY <3>4, <4>1 DEF SendOther
      <4> QED
        BY <3>1, <4>2, <4>3, SendKeepsPath
    <3>5. CASE Connect \/ Leave
      BY <3>1, <3>5, StillKeepsPath DEF Connect, Leave, flight, Waiting
    <3>6. CASE Drain
      <4>1. now' = now /\ place' = place /\ iq' = iq
        BY <3>6 DEF Drain, flight
      <4>2. CASE frames = <<>>
        BY <3>1, <3>6, <4>1, <4>2, StillKeepsPath DEF Drain, Waiting
      <4>3. CASE frames # <<>>
        <5>1. Removed(Len(iq) + 1)
          BY <3>6, <4>1, <4>3, DroppedRemoved DEF Drain
        <5> QED
          BY <3>1, <4>1, <5>1, TakeOtherKeepsPath
      <4> QED
        BY <4>2, <4>3
    <3>7. CASE Modulate
      BY <3>1, <3>7, ModulateKeepsPath
    <3> QED
      BY <2>1, <3>2, <3>3, <3>4, <3>5, <3>6, <3>7 DEF Transmit
  <2>2. CASE Lose
    <3>1. Removed(1)
      BY <2>2, TakenRemoved DEF Lose
    <3> QED
      BY <2>2, <3>1, TakeOtherKeepsPath DEF Lose, flight, radio
  <2>3. CASE HearPosition
    BY <2>3, HearPositionKeepsPath
  <2>4. CASE HearOther
    <3>1. iq # <<>> /\ iq' = Tail(iq) /\ frames' = frames /\ now' = now /\ place' = place
          /\ ac' = [ac EXCEPT !.seen = now] /\ heard' = heard
      BY <2>4 DEF HearOther, Hear, flight
    <3>2. ac'.even = ac.even /\ ac'.odd = ac.odd /\ ac'.pos = ac.pos
      BY <3>1 DEF TInv
    <3>3. Removed(1)
      BY <3>1, TakenRemoved
    <3> QED
      BY <3>1, <3>2, <3>3, TakeOtherKeepsPath
  <2>5. CASE \E i \in Outputs : Skip(i) \/ Send(i) \/ Fail(i)
    <3>1. UNCHANGED <<source, radio>>
      BY <2>5 DEF Skip, Send, Fail
    <3> QED
      BY <3>1, StillKeepsPath DEF source, radio, flight, transmitter, Waiting
  <2>6. CASE UNCHANGED vars
    BY <2>6, StillKeepsPath DEF vars, source, radio, flight, transmitter, Waiting
  <2> QED
    BY <2>1, <2>2, <2>3, <2>4, <2>5, <2>6 DEF Next
<1>3. PInv => PositionTrue
  BY DEF PInv, Follows, Trusted, PositionTrue
<1> QED
  BY <1>1, <1>2, <1>3, TypesHold, PTL DEF Spec
=============================================================================
