-------------------------- MODULE WatchAlertsProofs --------------------------
(***************************************************************************)
(* Theorems about the watch list and the identities, for any batches, any  *)
(* spacing and any times.                                                  *)
(*                                                                         *)
(* What a transaction read when it began is out of date only beside        *)
(* another transaction or after the operator saved the entry; each part of *)
(* the invariant says this of one thing that it read.                      *)
(***************************************************************************)
EXTENDS WatchAlerts, TLAPS

Beside(t) == \E pair \in overlaps : t.txn \in pair

\* A caller between two batches remembers nothing.
Blank(t) == t.at = "idle" => t = NoTxn

\* While a message is dealt with it is in the batch.
InBatch(t) == t.at \in {"blocked", "insert", "match"} => t.rows # <<>>

\* No alert is from a transaction that runs.
Fresh(t) == t.at # "idle" => t.txn \in 1..txns /\ \A x \in alerts : x.txn # t.txn

\* A transaction waits, fails or inserts an identity that is there only beside
\* another one.
Waiting(t) ==
    t.at \in {"blocked", "failed"} \/ (t.at = "insert" /\ t.owns = "nothing" /\ identity # NoRow)
        => Beside(t)

\* Alone, a transaction knows the IMO number the database knows.
KnowsImo(t) ==
    t.at \notin {"idle", "known"} /\ identity = "known" /\ ~Beside(t) => t.known = "known"

\* A transaction gives one alert at most, at its time, for the entry it read.
OneAlert(t) ==
    /\ t.at = "known" => t.alerted = {} /\ ~t.muted
    /\ t.alerted = {} => ~t.wrote
    /\ t.alerted # {} =>
         /\ \A x \in t.alerted : x.at = t.now /\ x.txn = t.txn
         /\ \A x, y \in t.alerted : x = y
         /\ t.watched.last = t.now /\ t.watched.key # "none"
         /\ t.at # "failed" => t.wrote

\* The entry that it read is there until it is deleted.
SeesEntry(t) == t.at # "idle" /\ ~t.deleted /\ t.watched.key # "none" => watch.key # "none"

\* The time of the last alert that it read is that of an alert.
LastSeen(t) ==
    t.at # "idle" /\ ~t.saved /\ t.watched.last # Never
        => \E x \in alerts \cup t.alerted : x.at = t.watched.last

NotSilenced(t) ==
    t.muted /\ ~t.saved => \E x \in alerts \cup t.alerted : t.now - x.at < Spacing

\* After an alert of a transaction that ran alone the time of the last alert is
\* not set back.
Undisturbed(x) == \A pair \in overlaps : x.txn \notin pair
NotBefore(t) ==
    t.at # "idle" => \A x \in alerts : Undisturbed(x) =>
        /\ t.watched.last >= x.at
        /\ t.at # "known" => t.now >= x.at
        /\ \A y \in t.alerted : y.at - x.at >= Spacing

TxnInv(t) ==
    /\ t \in Transactions /\ t.now <= clock
    /\ Blank(t) /\ InBatch(t) /\ Fresh(t) /\ Waiting(t) /\ KnowsImo(t) /\ OneAlert(t)
    /\ SeesEntry(t) /\ LastSeen(t) /\ NotSilenced(t) /\ NotBefore(t)

\* Transactions that run are apart, and run at the same time.
Apart ==
    \A a, b \in Adders :
        a # b /\ Active(a) /\ Active(b)
            => adder[a].txn # adder[b].txn /\ {adder[a].txn, adder[b].txn} \in overlaps

EntryInv ==
    /\ watch.key = "none" => watch = NoEntry
    /\ watch.last # Never => \E x \in alerts : x.at = watch.last
    /\ \A x \in alerts : Undisturbed(x) => watch.last >= x.at

AlertInv == \A x \in alerts : x.txn <= txns /\ x.at <= clock

IInv ==
    /\ TypeOK /\ Apart /\ EntryInv /\ AlertInv /\ SpacedOneByOne
    /\ \A a \in Adders : TxnInv(adder[a])

-----------------------------------------------------------------------------
\* The times are numbers.
LEMMA Numbers ==
    /\ Spacing \in Nat \ {0} /\ MaxTime \in Nat /\ MaxTxns \in Nat /\ Never \in Int
    /\ Times \subseteq Int /\ 0..MaxTime \subseteq Times /\ Never \in Times
    /\ NoEntry \in Entries /\ NoEntry.key = "none" /\ NoEntry.last = Never
BY WatchAlertsAssumption DEF WatchAlertsAssumption, Never, Times, NoEntry, Entries

\* A caller that stores nothing is right, whatever the tables hold.
LEMMA BlankIsRight ==
    ASSUME clock \in Nat
    PROVE  NoTxn \in Transactions /\ TxnInv(NoTxn)
<1>1. NoTxn \in Transactions
  BY Numbers DEF NoTxn, Transactions, Identities
<1>2. NoTxn.at = "idle" /\ NoTxn.now = 0 /\ NoTxn.alerted = {} /\ ~NoTxn.wrote /\ ~NoTxn.muted
  BY DEF NoTxn
<1> HIDE DEF NoTxn
<1> QED
  BY <1>1, <1>2 DEF TxnInv, Blank, InBatch, Fresh, Waiting, KnowsImo, OneAlert, SeesEntry, LastSeen,
                    NotSilenced, NotBefore

\* The same of the next state.
LEMMA BlankStaysRight ==
    ASSUME clock' \in Nat
    PROVE  TxnInv(NoTxn)'
<1>1. NoTxn \in Transactions
  BY Numbers DEF NoTxn, Transactions, Identities
<1>2. NoTxn.at = "idle" /\ NoTxn.now = 0 /\ NoTxn.alerted = {} /\ ~NoTxn.wrote /\ ~NoTxn.muted
  BY DEF NoTxn
<1> HIDE DEF NoTxn
<1> QED
  BY <1>1, <1>2 DEF TxnInv, Blank, InBatch, Fresh, Waiting, KnowsImo, OneAlert, SeesEntry, LastSeen,
                    NotSilenced, NotBefore

\* The initial state satisfies the invariant.
LEMMA InitIInv == Init => IInv
<1> SUFFICES ASSUME Init PROVE IInv
  OBVIOUS
<1>1. clock = 0 /\ txns = 0 /\ alerts = {} /\ overlaps = {} /\ watch = NoEntry /\ identity = NoRow
      /\ adder = [a \in Adders |-> NoTxn]
  BY DEF Init
<1>2. NoTxn \in Transactions /\ TxnInv(NoTxn) /\ NoTxn.at = "idle"
  BY <1>1, BlankIsRight DEF NoTxn
<1>3. TypeOK
  BY <1>1, <1>2, Numbers DEF TypeOK, Identities
<1>4. \A a \in Adders : TxnInv(adder[a])
  BY <1>1, <1>2
<1>5. Apart /\ AlertInv /\ SpacedOneByOne
  BY <1>1, <1>2 DEF Apart, Active, AlertInv, SpacedOneByOne
<1>6. EntryInv
  BY <1>1, Numbers DEF EntryInv
<1> QED
  BY <1>3, <1>4, <1>5, <1>6 DEF IInv

\* A step of one transaction that changes nothing else.
LEMMA OwnStep ==
    ASSUME IInv, NEW a \in Adders, NEW t, adder' = [adder EXCEPT ![a] = t], TxnInv(t),
           t.at # "idle" => Active(a) /\ t.txn = adder[a].txn,
           UNCHANGED <<tables, clock, txns, overlaps>>
    PROVE  IInv'
<1>1. UNCHANGED <<watch, identity, alerts, clock, txns, overlaps>>
  BY DEF tables
<1>2. t \in Transactions /\ adder \in [Adders -> Transactions]
  BY DEF IInv, TypeOK, TxnInv
<1>3. TypeOK'
  BY <1>1, <1>2 DEF IInv, TypeOK
<1>4. \A b \in Adders : adder'[b] = IF b = a THEN t ELSE adder[b]
  BY <1>2
<1>5. Apart'
  <2>1. \A b \in Adders : adder'[b].at # "idle" => adder[b].at # "idle" /\ adder'[b].txn = adder[b].txn
    BY <1>4 DEF Active
  <2> QED
    BY <1>1, <2>1 DEF IInv, Apart, Active
<1>6. EntryInv' /\ AlertInv' /\ SpacedOneByOne'
  BY <1>1 DEF IInv, EntryInv, AlertInv, SpacedOneByOne, Undisturbed
<1>7. ASSUME NEW b \in Adders PROVE TxnInv(adder[b])'
  <2>1. PICK s : s = adder'[b]
    OBVIOUS
  <2>2. TxnInv(s)
    BY <1>4, <2>1 DEF IInv
  <2> QED
    BY <1>1, <2>1, <2>2 DEF TxnInv, Blank, InBatch, Fresh, Waiting, KnowsImo, OneAlert, SeesEntry,
                            LastSeen, NotSilenced, NotBefore, Beside, Undisturbed
<1> QED
  BY <1>3, <1>5, <1>6, <1>7 DEF IInv

-----------------------------------------------------------------------------
\* Store.add, statement by statement.
LEMMA SelectKnownStep ==
    ASSUME IInv, NEW a \in Adders, SelectKnown(a)
    PROVE  IInv'
<1>1. PICK s : s = adder[a]
  OBVIOUS
<1>2. PICK t : t = [s EXCEPT !.at = "row", !.known = identity, !.now = clock]
  OBVIOUS
<1>3. TxnInv(s) /\ s.at = "known" /\ identity \in Identities /\ clock \in 0..MaxTime
      /\ s \in Transactions /\ AlertInv /\ alerts \subseteq Alerts
  BY <1>1 DEF SelectKnown, IInv, TxnInv, TypeOK
<1>4. /\ t \in Transactions /\ t.at = "row" /\ t.known = identity /\ t.now = clock
      /\ t.txn = s.txn /\ t.alerted = {} /\ ~t.wrote /\ ~t.muted /\ t.watched = s.watched
      /\ t.saved = s.saved /\ t.deleted = s.deleted
  BY <1>2, <1>3 DEF Transactions, TxnInv, OneAlert
<1>5. adder' = [adder EXCEPT ![a] = t] /\ UNCHANGED <<tables, clock, txns, overlaps>>
  BY <1>1, <1>2 DEF SelectKnown, Change
<1>6. Blank(t) /\ InBatch(t) /\ Fresh(t) /\ Waiting(t) /\ KnowsImo(t) /\ OneAlert(t) /\ SeesEntry(t)
      /\ NotSilenced(t)
  BY <1>3, <1>4 DEF TxnInv, Blank, InBatch, Fresh, Waiting, KnowsImo, OneAlert, SeesEntry, NotSilenced
<1>7. LastSeen(t)
  BY <1>3, <1>4 DEF TxnInv, LastSeen, OneAlert
<1>8. NotBefore(t)
  <2>1. \A x \in alerts : x.at <= clock
    BY <1>3 DEF AlertInv
  <2> QED
    BY <1>3, <1>4, <2>1 DEF TxnInv, NotBefore
<1>9. t.now <= clock
  BY <1>3, <1>4
<1>10. TxnInv(t)
  BY <1>4, <1>6, <1>7, <1>8, <1>9 DEF TxnInv
<1> QED
  BY <1>1, <1>3, <1>4, <1>5, <1>10, OwnStep DEF Active

\* What may change of a transaction that goes on without giving an alert.
LEMMA PlainStep ==
    ASSUME IInv, NEW a \in Adders, NEW s, s = adder[a], Active(a), s.at # "known",
           NEW t \in Transactions, adder' = [adder EXCEPT ![a] = t],
           t.at \notin {"idle", "known"}, t.now = s.now, t.txn = s.txn, t.watched = s.watched,
           t.alerted = s.alerted, t.wrote = s.wrote, t.saved = s.saved, t.deleted = s.deleted,
           t.at = "failed" \/ s.at # "failed",
           InBatch(t), Waiting(t), KnowsImo(t), NotSilenced(t),
           UNCHANGED <<tables, clock, txns, overlaps>>
    PROVE  IInv'
<1>1. TxnInv(s)
  BY DEF IInv
<1>2. Blank(t) /\ Fresh(t) /\ OneAlert(t) /\ SeesEntry(t) /\ LastSeen(t) /\ NotBefore(t) /\ t.now <= clock
  BY <1>1 DEF TxnInv, Blank, Fresh, OneAlert, SeesEntry, LastSeen, NotBefore, Active
<1>3. TxnInv(t)
  BY <1>2 DEF TxnInv
<1> QED
  BY <1>3, OwnStep

LEMMA RowStep ==
    ASSUME IInv, NEW a \in Adders, Row(a)
    PROVE  IInv'
<1>1. PICK s : s = adder[a]
  OBVIOUS
<1>2. TxnInv(s) /\ s.at = "row" /\ s.rows # <<>> /\ s \in Transactions /\ Active(a)
      /\ UNCHANGED <<tables, clock, txns, overlaps>>
  BY <1>1 DEF Row, IInv, TxnInv, Active
<1>3. PICK at \in {"match", "blocked", "insert"}, owns \in {"nothing", "deleted", "inserted"} :
        /\ adder' = [adder EXCEPT ![a] = [s EXCEPT !.at = at, !.owns = owns]]
        /\ at = "blocked" => \E b \in Others(a) : HasWritten(b)
        /\ at = "insert" /\ owns = "nothing" => identity = NoRow
  <2>1. CASE Kind(a) = "position"
    <3>1. adder' = [adder EXCEPT ![a] = [s EXCEPT !.at = "match"]]
      BY <1>1, <2>1 DEF Row, Change
    <3>2. [s EXCEPT !.at = "match"] = [s EXCEPT !.at = "match", !.owns = s.owns]
      BY <1>2 DEF Transactions
    <3> QED
      BY <1>2, <3>1, <3>2 DEF Transactions
  <2>2. CASE Kind(a) # "position" /\ identity # NoRow /\ \E b \in Others(a) : HasWritten(b)
    <3>1. adder' = [adder EXCEPT ![a] = [s EXCEPT !.at = "blocked"]]
      BY <1>1, <2>2 DEF Row, Change
    <3>2. [s EXCEPT !.at = "blocked"] = [s EXCEPT !.at = "blocked", !.owns = s.owns]
      BY <1>2 DEF Transactions
    <3> QED
      BY <1>2, <2>2, <3>1, <3>2 DEF Transactions
  <2>3. CASE Kind(a) # "position" /\ ~(identity # NoRow /\ \E b \in Others(a) : HasWritten(b))
    <3>1. adder' = [adder EXCEPT ![a] = [s EXCEPT !.at = "insert",
            !.owns = IF identity = NoRow \/ s.owns # "nothing" THEN s.owns ELSE "deleted"]]
      BY <1>1, <2>3 DEF Row, Change
    <3> QED
      BY <1>2, <3>1 DEF Transactions
  <2> QED
    BY <2>1, <2>2, <2>3
<1>4. PICK t : t = [s EXCEPT !.at = at, !.owns = owns]
  OBVIOUS
<1>5. /\ t \in Transactions /\ t.at = at /\ t.owns = owns /\ t.known = s.known /\ t.now = s.now
      /\ t.txn = s.txn /\ t.alerted = s.alerted /\ t.wrote = s.wrote /\ t.muted = s.muted
      /\ t.watched = s.watched /\ t.saved = s.saved /\ t.deleted = s.deleted /\ t.rows = s.rows
  BY <1>2, <1>4 DEF Transactions
<1>6. at = "blocked" => Beside(t)
  <2> SUFFICES ASSUME at = "blocked" PROVE Beside(t)
    OBVIOUS
  <2>1. PICK b \in Others(a) : HasWritten(b)
    BY <1>3
  <2>2. b \in Adders /\ b # a /\ Active(b)
    BY <2>1 DEF Others, HasWritten, IInv, TxnInv, Blank, Active, NoTxn
  <2> QED
    BY <1>1, <1>2, <1>5, <2>2 DEF IInv, Apart, Beside
<1>7. InBatch(t) /\ Waiting(t) /\ KnowsImo(t) /\ NotSilenced(t)
  BY <1>2, <1>3, <1>5, <1>6 DEF TxnInv, InBatch, Waiting, KnowsImo, NotSilenced, Beside
<1>8. adder' = [adder EXCEPT ![a] = t]
  BY <1>3, <1>4
<1>9. t.at \notin {"idle", "known"} /\ s.at # "failed" /\ s.at # "known"
  BY <1>2, <1>5
<1> QED
  BY <1>1, <1>2, <1>5, <1>7, <1>8, <1>9, PlainStep

LEMMA InsertStep ==
    ASSUME IInv, NEW a \in Adders, Insert(a)
    PROVE  IInv'
<1>1. PICK s : s = adder[a]
  OBVIOUS
<1>2. TxnInv(s) /\ s.at = "insert" /\ s \in Transactions /\ Active(a)
      /\ UNCHANGED <<tables, clock, txns, overlaps>>
  BY <1>1 DEF Insert, IInv, TxnInv, Active
<1>3. CASE identity # NoRow /\ ~HasWritten(a)
  <2>1. PICK t : t = [s EXCEPT !.at = "failed"]
    OBVIOUS
  <2>2. adder' = [adder EXCEPT ![a] = t]
    BY <1>1, <1>3, <2>1 DEF Insert, Change
  <2>3. /\ t \in Transactions /\ t.at = "failed" /\ t.known = s.known /\ t.now = s.now
        /\ t.txn = s.txn /\ t.alerted = s.alerted /\ t.wrote = s.wrote /\ t.muted = s.muted
        /\ t.watched = s.watched /\ t.saved = s.saved /\ t.deleted = s.deleted /\ t.rows = s.rows
    BY <1>2, <2>1 DEF Transactions
  <2>4. Beside(t)
    BY <1>1, <1>2, <1>3, <2>3 DEF TxnInv, Waiting, HasWritten, Beside
  <2>5. InBatch(t) /\ Waiting(t) /\ KnowsImo(t) /\ NotSilenced(t)
    BY <1>2, <2>3, <2>4 DEF TxnInv, InBatch, Waiting, KnowsImo, NotSilenced
  <2> QED
    BY <1>1, <1>2, <2>2, <2>3, <2>5, PlainStep
<1>4. CASE ~(identity # NoRow /\ ~HasWritten(a))
  <2>1. PICK known \in {"known", "unknown"} : known = IF Imo(a) THEN "known" ELSE "unknown"
    OBVIOUS
  <2>2. PICK t : t = [s EXCEPT !.at = "match", !.owns = "inserted", !.known = known]
    OBVIOUS
  <2>3. adder' = [adder EXCEPT ![a] = t]
    BY <1>1, <1>4, <2>1, <2>2 DEF Insert, Change
  <2>4. /\ t \in Transactions /\ t.at = "match" /\ t.known = known /\ t.now = s.now
        /\ t.txn = s.txn /\ t.alerted = s.alerted /\ t.wrote = s.wrote /\ t.muted = s.muted
        /\ t.watched = s.watched /\ t.saved = s.saved /\ t.deleted = s.deleted /\ t.rows = s.rows
    BY <1>2, <2>2 DEF Transactions, Identities
  <2>5. s.known = "known" => known = "known"
    BY <1>1, <2>1 DEF Imo
  <2>6. InBatch(t) /\ Waiting(t) /\ KnowsImo(t) /\ NotSilenced(t)
    BY <1>2, <2>4, <2>5 DEF TxnInv, InBatch, Waiting, KnowsImo, NotSilenced, Beside
  <2> QED
    BY <1>1, <1>2, <2>3, <2>4, <2>6, PlainStep
<1> QED
  BY <1>3, <1>4

\* A message of the vessel that is watched, and the last alert is not recent.
LEMMA AlertStep ==
    ASSUME IInv, NEW a \in Adders, Alert(a)
    PROVE  IInv'
<1>1. PICK s : s = adder[a]
  OBVIOUS
<1>2. PICK alert : alert = [at |-> s.now, txn |-> s.txn, row |-> Len(s.rows)]
  OBVIOUS
<1>3. PICK t : t = [s EXCEPT !.at = "row", !.rows = Tail(s.rows), !.watched.last = s.now,
                             !.wrote = TRUE, !.alerted = s.alerted \cup {alert}]
  OBVIOUS
<1>4. TxnInv(s) /\ s.at = "match" /\ s \in Transactions /\ Active(a) /\ Matches(a) /\ ~Recent(a)
      /\ UNCHANGED <<tables, clock, txns, overlaps>> /\ adder' = [adder EXCEPT ![a] = t]
  BY <1>1, <1>2, <1>3 DEF Alert, Change, IInv, TxnInv, Active
<1>5. s.watched.key # "none" /\ ~(s.now - s.watched.last < Spacing)
  BY <1>1, <1>4 DEF Matches, Recent
<1>6. s.alerted = {}
  BY <1>4, <1>5, Numbers DEF TxnInv, OneAlert, Transactions
<1>7. alert \in Alerts /\ alert.at = s.now /\ alert.txn = s.txn
  <2>1. s.txn \in 1..MaxTxns
    BY <1>4, Numbers DEF TxnInv, Fresh, IInv, TypeOK
  <2>2. Len(s.rows) \in Nat
    BY <1>4 DEF Transactions
  <2> QED
    BY <1>2, <1>4, <2>1, <2>2 DEF Alerts, Transactions
<1>8. /\ t \in Transactions /\ t.at = "row" /\ t.known = s.known /\ t.now = s.now
      /\ t.txn = s.txn /\ t.alerted = {alert} /\ t.wrote /\ t.muted = s.muted
      /\ t.watched.key = s.watched.key /\ t.watched.last = s.now /\ t.saved = s.saved
      /\ t.deleted = s.deleted
  <2>1. [s.watched EXCEPT !.last = s.now] \in Entries
    BY <1>4, Numbers DEF Transactions, Entries
  <2>2. Tail(s.rows) \in Seq(Kinds)
    BY <1>4 DEF Transactions, TxnInv, InBatch
  <2> QED
    BY <1>3, <1>4, <1>6, <1>7, <2>1, <2>2 DEF Transactions, Entries
<1>9. Blank(t) /\ InBatch(t) /\ Fresh(t) /\ Waiting(t) /\ KnowsImo(t) /\ OneAlert(t) /\ SeesEntry(t)
  BY <1>4, <1>5, <1>7, <1>8 DEF TxnInv, Blank, InBatch, Fresh, Waiting, KnowsImo, OneAlert, SeesEntry, Beside
<1>10. LastSeen(t)
  BY <1>7, <1>8 DEF LastSeen
<1>11. NotSilenced(t)
  BY <1>4, <1>6, <1>8 DEF NotSilenced, TxnInv
<1>12. NotBefore(t)
  <2> SUFFICES ASSUME NEW x \in alerts, Undisturbed(x) PROVE s.now >= x.at /\ s.now - x.at >= Spacing
    BY <1>7, <1>8 DEF NotBefore
  <2>1. s.watched.last >= x.at /\ s.now >= x.at
    BY <1>4 DEF TxnInv, NotBefore
  <2>2. s.now \in Int /\ s.watched.last \in Int /\ x.at \in Int
    BY <1>4, Numbers DEF Transactions, Entries, IInv, TypeOK, Alerts
  <2> QED
    BY <1>5, <2>1, <2>2, Numbers
<1>13. TxnInv(t)
  BY <1>4, <1>8, <1>9, <1>10, <1>11, <1>12 DEF TxnInv
<1> QED
  BY <1>1, <1>4, <1>8, <1>13, OwnStep

\* A message that gives no alert.
LEMMA NoAlertStep ==
    ASSUME IInv, NEW a \in Adders, NoAlert(a)
    PROVE  IInv'
<1>1. PICK s : s = adder[a]
  OBVIOUS
<1>2. PICK muted \in BOOLEAN : muted = (s.muted \/ Matches(a))
  <2>1. (s.muted \/ Matches(a)) \in BOOLEAN
    OBVIOUS
  <2> QED
    BY <2>1
<1>3. PICK t : t = [s EXCEPT !.at = "row", !.rows = Tail(s.rows), !.muted = muted]
  OBVIOUS
<1>4. TxnInv(s) /\ s.at = "match" /\ s \in Transactions /\ Active(a)
      /\ UNCHANGED <<tables, clock, txns, overlaps>> /\ adder' = [adder EXCEPT ![a] = t]
  BY <1>1, <1>2, <1>3 DEF NoAlert, Change, IInv, TxnInv, Active
<1>5. /\ t \in Transactions /\ t.at = "row" /\ t.known = s.known /\ t.now = s.now
      /\ t.txn = s.txn /\ t.alerted = s.alerted /\ t.wrote = s.wrote /\ t.muted = muted
      /\ t.watched = s.watched /\ t.saved = s.saved /\ t.deleted = s.deleted
  <2>1. Tail(s.rows) \in Seq(Kinds)
    BY <1>4 DEF Transactions, TxnInv, InBatch
  <2> QED
    BY <1>3, <1>4, <2>1 DEF Transactions
<1>6. NotSilenced(t)
  <2> SUFFICES ASSUME muted, ~s.saved
               PROVE  \E x \in alerts \cup s.alerted : s.now - x.at < Spacing
    BY <1>5 DEF NotSilenced
  <2>1. CASE s.muted
    BY <1>4, <2>1 DEF TxnInv, NotSilenced
  <2>2. CASE Matches(a)
    <3>1. s.now - s.watched.last < Spacing
      BY <1>1, <2>2 DEF NoAlert, Recent
    <3>2. s.watched.last # Never
      BY <1>4, <3>1, Numbers DEF Transactions, Never
    <3>3. PICK x \in alerts \cup s.alerted : x.at = s.watched.last
      BY <1>4, <3>2 DEF TxnInv, LastSeen
    <3> QED
      BY <3>1, <3>3
  <2> QED
    BY <1>2, <2>1, <2>2
<1>7. InBatch(t) /\ Waiting(t) /\ KnowsImo(t)
  BY <1>4, <1>5 DEF TxnInv, InBatch, Waiting, KnowsImo, Beside
<1>8. t.at \notin {"idle", "known"} /\ s.at # "failed" /\ s.at # "known"
  BY <1>4, <1>5
<1> QED
  BY <1>1, <1>4, <1>5, <1>6, <1>7, <1>8, PlainStep

\* The caller forgets the batch that failed.
LEMMA LostStep ==
    ASSUME IInv, NEW a \in Adders, Lost(a)
    PROVE  IInv'
<1>1. adder' = [adder EXCEPT ![a] = NoTxn] /\ UNCHANGED <<tables, clock, txns, overlaps>>
  BY DEF Lost, Change
<1>2. clock \in Nat
  BY Numbers DEF IInv, TypeOK
<1>3. NoTxn.at = "idle" /\ TxnInv(NoTxn)
  BY <1>2, BlankIsRight DEF NoTxn
<1> QED
  BY <1>1, <1>3, OwnStep

-----------------------------------------------------------------------------
\* A transaction begins: from now on each that runs is beside another.
LEMMA BeginStep ==
    ASSUME IInv, NEW a \in Adders, NEW rows \in Batches, Begin(a, rows)
    PROVE  IInv'
<1>1. PICK t : t = [NoTxn EXCEPT !.at = "known", !.rows = rows, !.txn = txns + 1, !.watched = watch]
  OBVIOUS
<1>2. /\ ~Active(a) /\ txns < MaxTxns /\ txns' = txns + 1 /\ adder' = [adder EXCEPT ![a] = t]
      /\ overlaps' = overlaps \cup {{txns + 1, adder[b].txn} : b \in {o \in Adders : Active(o)}}
      /\ UNCHANGED <<watch, identity, alerts, clock>>
  BY <1>1 DEF Begin, Change, tables
<1>3. txns \in 0..MaxTxns /\ MaxTxns \in Nat /\ txns' \in 1..MaxTxns /\ clock \in 0..MaxTime
      /\ adder \in [Adders -> Transactions] /\ watch \in Entries /\ rows \in Seq(Kinds)
  BY <1>2, Numbers, WatchAlertsAssumption DEF IInv, TypeOK, WatchAlertsAssumption
<1>4. /\ t \in Transactions /\ t.at = "known" /\ t.now = 0 /\ t.txn = txns + 1 /\ t.watched = watch
      /\ t.alerted = {} /\ ~t.wrote /\ ~t.muted
  <2>1. /\ NoTxn \in Transactions /\ NoTxn.now = 0 /\ NoTxn.alerted = {} /\ ~NoTxn.wrote /\ ~NoTxn.muted
    BY <1>3, BlankIsRight, Numbers DEF NoTxn
  <2>2. txns + 1 \in 0..MaxTxns
    BY <1>2, <1>3
  <2> HIDE DEF NoTxn
  <2> QED
    BY <1>1, <1>3, <2>1, <2>2 DEF Transactions
<1>5. \A b \in Adders : adder'[b] = IF b = a THEN t ELSE adder[b]
  BY <1>2, <1>3
<1>6. \A b \in Adders : Active(b) => adder[b].txn \in 1..txns /\ adder[b].txn # txns + 1
  BY <1>3 DEF IInv, TxnInv, Fresh, Active
<1>7. \A x \in alerts : x.txn \in Nat /\ x.txn <= txns /\ x.at \in Nat /\ x.at <= clock
  BY Numbers DEF IInv, TypeOK, AlertInv, Alerts
<1>8. TypeOK'
  <2>1. overlaps' \subseteq SUBSET (1..txns')
    <3>1. 1..txns \subseteq 1..txns' /\ txns + 1 \in 1..txns'
      BY <1>2, <1>3
    <3>2. \A pair \in overlaps : pair \subseteq 1..txns'
      BY <3>1 DEF IInv, TypeOK
    <3>3. \A b \in Adders : Active(b) => {txns + 1, adder[b].txn} \subseteq 1..txns'
      BY <3>1, <1>6
    <3> QED
      BY <1>2, <3>2, <3>3
  <2>2. adder' \in [Adders -> Transactions]
    BY <1>2, <1>3, <1>4
  <2>3. txns' \in 0..MaxTxns /\ UNCHANGED <<watch, identity, alerts, clock>>
    BY <1>2, <1>3
  <2> QED
    BY <2>1, <2>2, <2>3 DEF IInv, TypeOK
<1>9. Apart'
  <2> SUFFICES ASSUME NEW b \in Adders, NEW c \in Adders, b # c, adder'[b].at # "idle", adder'[c].at # "idle"
               PROVE  adder'[b].txn # adder'[c].txn /\ {adder'[b].txn, adder'[c].txn} \in overlaps'
    BY DEF Apart, Active
  <2>1. CASE b # a /\ c # a
    BY <1>2, <1>5, <2>1 DEF IInv, Apart, Active
  <2>2. CASE b = a
    <3>1. adder'[b].txn = txns + 1 /\ adder'[c] = adder[c] /\ Active(c)
      BY <1>4, <1>5, <2>2 DEF Active
    <3> QED
      BY <1>2, <1>6, <3>1
  <2>3. CASE c = a
    <3>1. adder'[c].txn = txns + 1 /\ adder'[b] = adder[b] /\ Active(b)
      BY <1>4, <1>5, <2>3 DEF Active
    <3>2. {adder'[b].txn, adder'[c].txn} = {txns + 1, adder[b].txn}
      BY <3>1
    <3> QED
      BY <1>2, <1>6, <3>1, <3>2
  <2> QED
    BY <2>1, <2>2, <2>3
<1>10. overlaps \subseteq overlaps' /\ \A x \in alerts : Undisturbed(x)' => Undisturbed(x)
  BY <1>2 DEF Undisturbed
<1>11. EntryInv' /\ SpacedOneByOne'
  BY <1>2, <1>10 DEF IInv, EntryInv, SpacedOneByOne
<1>12. AlertInv'
  BY <1>2, <1>3, <1>7 DEF AlertInv
<1>13. ASSUME NEW b \in Adders PROVE TxnInv(adder[b])'
  <2>1. PICK s : s = adder'[b]
    OBVIOUS
  <2>2. CASE b = a
    <3>1. s = t
      BY <1>5, <2>1, <2>2
    <3>2. Fresh(s)'
      BY <1>2, <1>3, <1>4, <1>7, <3>1 DEF Fresh
    <3>3. LastSeen(s)' /\ SeesEntry(s)' /\ NotBefore(s)'
      BY <1>2, <1>4, <1>10, <3>1 DEF LastSeen, SeesEntry, NotBefore, IInv, EntryInv
    <3>4. Blank(s)' /\ InBatch(s)' /\ Waiting(s)' /\ KnowsImo(s)' /\ OneAlert(s)' /\ NotSilenced(s)'
      BY <1>4, <3>1 DEF Blank, InBatch, Waiting, KnowsImo, OneAlert, NotSilenced
    <3> QED
      BY <1>2, <1>3, <1>4, <2>1, <3>1, <3>2, <3>3, <3>4 DEF TxnInv
  <2>3. CASE b # a
    <3>1. s = adder[b] /\ TxnInv(s)
      BY <1>5, <2>1, <2>3 DEF IInv
    <3>2. Beside(s) => Beside(s)'
      BY <1>10 DEF Beside
    <3>3. Fresh(s)'
      BY <1>2, <1>3, <3>1 DEF TxnInv, Fresh
    <3>4. Blank(s)' /\ InBatch(s)' /\ Waiting(s)' /\ KnowsImo(s)' /\ OneAlert(s)' /\ NotSilenced(s)'
          /\ LastSeen(s)' /\ SeesEntry(s)'
      BY <1>2, <3>1, <3>2 DEF TxnInv, Blank, InBatch, Waiting, KnowsImo, OneAlert, NotSilenced, LastSeen, SeesEntry
    <3>5. NotBefore(s)'
      BY <1>2, <1>10, <3>1 DEF TxnInv, NotBefore
    <3> QED
      BY <1>2, <2>1, <3>1, <3>3, <3>4, <3>5 DEF TxnInv
  <2> QED
    BY <2>2, <2>3
<1> QED
  BY <1>8, <1>9, <1>11, <1>12, <1>13 DEF IInv

\* A transaction ends well: its alerts and the identity become visible.
LEMMA CommitStep ==
    ASSUME IInv, NEW a \in Adders, Commit(a)
    PROVE  IInv'
<1>1. PICK s : s = adder[a]
  OBVIOUS
<1>2. TxnInv(s) /\ s \in Transactions /\ s.at = "row" /\ Active(a)
  BY <1>1 DEF Commit, IInv, TxnInv, Active
<1>3. /\ alerts' = IF s.deleted THEN alerts ELSE alerts \cup s.alerted
      /\ watch' = IF s.wrote /\ ~s.deleted THEN [watch EXCEPT !.last = s.watched.last] ELSE watch
      /\ identity' \in {identity, s.known} /\ UNCHANGED <<clock, txns, overlaps>>
      /\ adder' = [b \in Adders |-> IF b = a THEN NoTxn
                     ELSE IF adder[b].at = "blocked" THEN [adder[b] EXCEPT !.at = "insert"] ELSE adder[b]]
  BY <1>1 DEF Commit, Release
<1>4. /\ watch \in Entries /\ identity \in Identities /\ alerts \subseteq Alerts
      /\ adder \in [Adders -> Transactions] /\ clock \in 0..MaxTime /\ EntryInv /\ AlertInv
  BY DEF IInv, TypeOK
<1>5. watch' \in Entries /\ watch'.key = watch.key
      /\ watch'.last = IF s.wrote /\ ~s.deleted THEN s.watched.last ELSE watch.last
  BY <1>2, <1>3, <1>4 DEF Entries, Transactions
<1>6. alerts \subseteq alerts' /\ alerts' \subseteq alerts \cup s.alerted /\ s.alerted \subseteq Alerts
  BY <1>2, <1>3 DEF Transactions
<1>7. \A x \in s.alerted :
        /\ x.at = s.now /\ x.txn = s.txn /\ \A y \in s.alerted : x = y
        /\ s.wrote /\ s.watched.last = s.now /\ s.watched.key # "none"
  BY <1>2 DEF TxnInv, OneAlert
<1>8. ASSUME NEW b \in Adders, b # a, Active(b)
      PROVE  adder[b].txn # s.txn /\ {s.txn, adder[b].txn} \in overlaps
  BY <1>1, <1>2, <1>8 DEF IInv, Apart
<1>9. NoTxn \in Transactions /\ NoTxn.at = "idle" /\ TxnInv(NoTxn)'
  BY <1>3, <1>4, BlankIsRight, BlankStaysRight, Numbers DEF NoTxn
<1>10. adder'[a] = NoTxn /\ \A b \in Adders \ {a} :
         adder'[b] = IF adder[b].at = "blocked" THEN [adder[b] EXCEPT !.at = "insert"] ELSE adder[b]
  BY <1>3
<1>11. ASSUME NEW b \in Adders, b # a
       PROVE  adder'[b] \in Transactions /\ TxnInv(adder[b])' /\ adder'[b].txn = adder[b].txn
              /\ (adder'[b].at = "idle" <=> adder[b].at = "idle")
  <2>1. PICK r : r = adder[b]
    OBVIOUS
  <2>2. PICK q : q = adder'[b]
    OBVIOUS
  <2>3. r \in Transactions /\ TxnInv(r) /\ q = IF r.at = "blocked" THEN [r EXCEPT !.at = "insert"] ELSE r
    BY <1>4, <1>10, <1>11, <2>1, <2>2 DEF IInv
  <2>4. /\ q \in Transactions /\ q.at = (IF r.at = "blocked" THEN "insert" ELSE r.at) /\ q.rows = r.rows
        /\ q.known = r.known /\ q.now = r.now /\ q.txn = r.txn /\ q.alerted = r.alerted
        /\ q.wrote = r.wrote /\ q.muted = r.muted /\ q.watched = r.watched /\ q.saved = r.saved
        /\ q.deleted = r.deleted
    BY <2>3 DEF Transactions
  <2>5. CASE r.at = "idle"
    BY <1>9, <2>1, <2>2, <2>3, <2>5 DEF TxnInv, Blank
  <2>6. CASE r.at # "idle"
    <3>1. r.txn # s.txn /\ {s.txn, r.txn} \in overlaps
      BY <1>8, <1>11, <2>1, <2>6 DEF Active
    <3>2. Beside(q)'
      BY <1>3, <2>4, <3>1 DEF Beside
    <3>3. Blank(q)' /\ InBatch(q)' /\ Waiting(q)' /\ KnowsImo(q)' /\ OneAlert(q)'
      BY <2>3, <2>4, <2>6, <3>2 DEF TxnInv, Blank, InBatch, Waiting, KnowsImo, OneAlert
    <3>4. Fresh(q)'
      BY <1>3, <1>6, <1>7, <2>3, <2>4, <3>1 DEF TxnInv, Fresh
    <3>5. SeesEntry(q)' /\ LastSeen(q)' /\ NotSilenced(q)'
      BY <1>5, <1>6, <2>3, <2>4 DEF TxnInv, SeesEntry, LastSeen, NotSilenced
    <3>6. NotBefore(q)'
      <4>1. \A x \in alerts' : Undisturbed(x)' => x \in alerts /\ Undisturbed(x)
        BY <1>3, <1>6, <1>7, <3>1 DEF Undisturbed
      <4> QED
        BY <2>3, <2>4, <4>1 DEF TxnInv, NotBefore
    <3>7. q.now <= clock'
      BY <1>3, <2>3, <2>4 DEF TxnInv
    <3> QED
      BY <2>1, <2>2, <2>4, <3>3, <3>4, <3>5, <3>6, <3>7 DEF TxnInv
  <2> QED
    BY <2>5, <2>6
<1>12. \A b \in Adders : TxnInv(adder[b])'
  <2>1. TxnInv(adder[a])'
    BY <1>9, <1>10
  <2> QED
    BY <1>11, <2>1
<1>13. TypeOK'
  <2>1. adder' \in [Adders -> Transactions]
    <3>1. \A b \in Adders : adder'[b] \in Transactions
      BY <1>9, <1>10, <1>11
    <3>2. adder' = [b \in Adders |-> adder'[b]]
      BY <1>3
    <3> QED
      BY <3>1, <3>2
  <2>2. identity' \in Identities
    BY <1>2, <1>3, <1>4 DEF Transactions
  <2>3. alerts' \subseteq Alerts
    BY <1>4, <1>6
  <2> QED
    BY <1>3, <1>5, <2>1, <2>2, <2>3 DEF IInv, TypeOK
<1>14. Apart'
  <2> SUFFICES ASSUME NEW b \in Adders, NEW c \in Adders, b # c, adder'[b].at # "idle", adder'[c].at # "idle"
               PROVE  adder'[b].txn # adder'[c].txn /\ {adder'[b].txn, adder'[c].txn} \in overlaps'
    BY DEF Apart, Active
  <2>1. b # a /\ c # a
    BY <1>9, <1>10
  <2> QED
    BY <1>3, <1>11, <2>1 DEF IInv, Apart, Active
<1>15. AlertInv'
  <2>1. \A x \in s.alerted : x.txn <= txns /\ x.at <= clock
    BY <1>2, <1>7 DEF TxnInv, Fresh, IInv, TypeOK
  <2> QED
    BY <1>3, <1>4, <1>6, <2>1 DEF AlertInv
<1>16. EntryInv'
  <2>1. watch'.key = "none" => watch' = NoEntry
    <3>1. s.wrote /\ ~s.deleted => watch.key # "none"
      BY <1>2 DEF TxnInv, OneAlert, SeesEntry
    <3> QED
      BY <1>3, <1>4, <1>5, <3>1 DEF EntryInv
  <2>2. CASE s.wrote /\ ~s.deleted
    <3>1. PICK x \in s.alerted : TRUE
      BY <1>2, <2>2 DEF TxnInv, OneAlert
    <3>2. x \in alerts' /\ x.at = s.now /\ watch'.last = s.now /\ s.watched.last = s.now /\ s.now \in Int
      BY <1>2, <1>3, <1>5, <1>7, <2>2, <3>1 DEF Transactions
    <3>3. \A y \in alerts : Undisturbed(y) => watch'.last >= y.at
      BY <1>2, <3>2 DEF TxnInv, NotBefore
    <3>4. \A y \in s.alerted : watch'.last >= y.at
      BY <1>7, <3>2
    <3>5. \A y \in alerts' : Undisturbed(y)' => watch'.last >= y.at
      BY <1>3, <1>6, <3>3, <3>4 DEF Undisturbed
    <3> QED
      BY <2>1, <3>2, <3>5 DEF EntryInv
  <2>3. CASE ~(s.wrote /\ ~s.deleted)
    <3>1. watch' = watch /\ alerts' = alerts
      BY <1>3, <1>7, <2>3
    <3> QED
      BY <1>3, <1>4, <2>1, <3>1 DEF EntryInv, Undisturbed
  <2> QED
    BY <2>2, <2>3
<1>17. SpacedOneByOne'
  <2> SUFFICES ASSUME NEW x \in alerts', NEW y \in alerts', x # y
               PROVE  \/ x.at - y.at >= Spacing \/ y.at - x.at >= Spacing
                      \/ x.txn # y.txn /\ \E pair \in overlaps : pair \cap {x.txn, y.txn} # {}
    BY <1>3 DEF SpacedOneByOne
  <2>1. CASE x \in alerts /\ y \in alerts
    BY <2>1 DEF IInv, SpacedOneByOne
  <2>2. ASSUME NEW v \in alerts, NEW w \in s.alerted
        PROVE  \/ w.at - v.at >= Spacing
               \/ v.txn # w.txn /\ \E pair \in overlaps : v.txn \in pair
    <3>1. v.txn # w.txn
      BY <1>2, <1>7 DEF TxnInv, Fresh
    <3>2. CASE Undisturbed(v)
      BY <1>2, <3>2 DEF TxnInv, NotBefore
    <3> QED
      BY <3>1, <3>2 DEF Undisturbed
  <2>3. CASE x \in alerts /\ y \in s.alerted
    BY <2>2, <2>3
  <2>4. CASE x \in s.alerted /\ y \in alerts
    BY <2>2, <2>4
  <2> QED
    BY <1>6, <1>7, <2>1, <2>3, <2>4
<1> QED
  BY <1>12, <1>13, <1>14, <1>15, <1>16, <1>17 DEF IInv

\* The database ends one of two that wait for each other, and the other goes on.
LEMMA DeadlockStep ==
    ASSUME IInv, NEW a \in Adders, Deadlock(a)
    PROVE  IInv'
<1>1. PICK s : s = adder[a]
  OBVIOUS
<1>2. PICK t : t = [s EXCEPT !.at = "failed", !.owns = "nothing", !.wrote = FALSE]
  OBVIOUS
<1>3. /\ adder' = [b \in Adders |-> IF b = a THEN t
                     ELSE IF adder[b].at = "blocked" THEN [adder[b] EXCEPT !.at = "row"] ELSE adder[b]]
      /\ UNCHANGED <<watch, identity, alerts, clock, txns, overlaps>>
  BY <1>1, <1>2 DEF Deadlock, Release, tables
<1>4. TxnInv(s) /\ s \in Transactions /\ adder \in [Adders -> Transactions]
  BY <1>1 DEF IInv, TypeOK
<1>5. PICK b \in Others(a) : Waits(a, b) /\ Waits(b, a)
  BY DEF Deadlock
<1>6. b \in Adders /\ b # a /\ Active(b) /\ Active(a) /\ s.at \notin {"idle", "known"}
  BY <1>1, <1>5 DEF Others, Waits, Active
<1>7. Beside(s)
  BY <1>1, <1>6 DEF IInv, Apart, Beside
<1>8. /\ t \in Transactions /\ t.at = "failed" /\ t.known = s.known /\ t.now = s.now
      /\ t.txn = s.txn /\ t.alerted = s.alerted /\ ~t.wrote /\ t.muted = s.muted
      /\ t.watched = s.watched /\ t.saved = s.saved /\ t.deleted = s.deleted
  BY <1>2, <1>4 DEF Transactions
<1>9. Blank(t) /\ InBatch(t) /\ Fresh(t) /\ Waiting(t) /\ KnowsImo(t) /\ OneAlert(t)
  BY <1>4, <1>6, <1>7, <1>8 DEF TxnInv, Blank, InBatch, Fresh, Waiting, KnowsImo, OneAlert, Beside
<1>10. SeesEntry(t) /\ LastSeen(t) /\ NotSilenced(t) /\ NotBefore(t) /\ t.now <= clock
  BY <1>4, <1>6, <1>8 DEF TxnInv, SeesEntry, LastSeen, NotSilenced, NotBefore
<1>11. TxnInv(t)
  BY <1>8, <1>9, <1>10 DEF TxnInv
<1>12. ASSUME NEW c \in Adders
       PROVE  \E q \in Transactions : /\ q = adder'[c] /\ TxnInv(q) /\ q.txn = adder[c].txn
                                      /\ (q.at = "idle" <=> adder[c].at = "idle")
  <2>1. PICK r : r = adder[c]
    OBVIOUS
  <2>2. PICK q : q = adder'[c]
    OBVIOUS
  <2>3. CASE c = a
    BY <1>1, <1>3, <1>6, <1>8, <1>11, <2>2, <2>3 DEF Active
  <2>4. CASE c # a
    <3>1. r \in Transactions /\ TxnInv(r) /\ q = IF r.at = "blocked" THEN [r EXCEPT !.at = "row"] ELSE r
      BY <1>3, <1>4, <2>1, <2>2, <2>4 DEF IInv
    <3>2. /\ q \in Transactions /\ q.at = (IF r.at = "blocked" THEN "row" ELSE r.at) /\ q.rows = r.rows
          /\ q.owns = r.owns
          /\ q.known = r.known /\ q.now = r.now /\ q.txn = r.txn /\ q.alerted = r.alerted
          /\ q.wrote = r.wrote /\ q.muted = r.muted /\ q.watched = r.watched /\ q.saved = r.saved
          /\ q.deleted = r.deleted
      BY <3>1 DEF Transactions
    <3>3. CASE r.at # "blocked"
      BY <2>1, <2>2, <3>1, <3>3
    <3>4. CASE r.at = "blocked"
      <4>1. Blank(q) /\ InBatch(q) /\ Fresh(q) /\ Waiting(q) /\ KnowsImo(q) /\ OneAlert(q)
        BY <3>1, <3>2, <3>4 DEF TxnInv, Blank, InBatch, Fresh, Waiting, KnowsImo, OneAlert, Beside
      <4>2. SeesEntry(q) /\ LastSeen(q) /\ NotSilenced(q) /\ NotBefore(q) /\ q.now <= clock
        BY <3>1, <3>2, <3>4 DEF TxnInv, SeesEntry, LastSeen, NotSilenced, NotBefore
      <4>3. TxnInv(q)
        BY <3>2, <4>1, <4>2 DEF TxnInv
      <4> QED
        BY <2>1, <2>2, <3>2, <3>4, <4>3
    <3> QED
      BY <3>3, <3>4
  <2> QED
    BY <2>3, <2>4
<1>13. TypeOK'
  <2>1. \A c \in Adders : adder'[c] \in Transactions
    BY <1>12
  <2>2. adder' = [c \in Adders |-> adder'[c]]
    BY <1>3
  <2>3. adder' \in [Adders -> Transactions]
    BY <2>1, <2>2
  <2> QED
    BY <1>3, <2>3 DEF IInv, TypeOK
<1>14. Apart'
  BY <1>3, <1>12 DEF IInv, Apart, Active
<1>15. EntryInv' /\ AlertInv' /\ SpacedOneByOne'
  BY <1>3 DEF IInv, EntryInv, AlertInv, SpacedOneByOne, Undisturbed
<1>16. ASSUME NEW c \in Adders PROVE TxnInv(adder[c])'
  <2>1. PICK q \in Transactions : q = adder'[c] /\ TxnInv(q)
    BY <1>12
  <2> QED
    BY <1>3, <2>1 DEF TxnInv, Blank, InBatch, Fresh, Waiting, KnowsImo, OneAlert, SeesEntry,
                      LastSeen, NotSilenced, NotBefore, Beside, Undisturbed
<1> QED
  BY <1>13, <1>14, <1>15, <1>16 DEF IInv

-----------------------------------------------------------------------------
\* The operator saves or deletes the entry: its alerts are gone, and what runs
\* is marked.
LEMMA TouchedStep ==
    ASSUME IInv, NEW gone \in BOOLEAN, Touched(gone), alerts' = {}, watch' \in Entries,
           watch'.last = Never, watch'.key = "none" => watch' = NoEntry /\ gone,
           UNCHANGED <<identity, clock, txns, overlaps>>
    PROVE  IInv'
<1>1. adder \in [Adders -> Transactions]
  BY DEF IInv, TypeOK
<1>2. ASSUME NEW b \in Adders
      PROVE  adder'[b] \in Transactions /\ TxnInv(adder[b])' /\ adder'[b].txn = adder[b].txn
             /\ (adder'[b].at = "idle" <=> adder[b].at = "idle")
  <2>1. PICK r : r = adder[b]
    OBVIOUS
  <2>2. PICK q : q = adder'[b]
    OBVIOUS
  <2>3. r \in Transactions /\ TxnInv(r)
        /\ q = IF r.at # "idle" THEN [r EXCEPT !.saved = TRUE, !.deleted = r.deleted \/ gone] ELSE r
    BY <1>1, <2>1, <2>2 DEF IInv, Touched, Active
  <2>4. CASE r.at = "idle"
    <3>1. q = NoTxn /\ q = r
      BY <2>3, <2>4 DEF TxnInv, Blank
    <3>2. TxnInv(NoTxn)'
      BY Numbers, BlankStaysRight DEF IInv, TypeOK
    <3> QED
      BY <2>1, <2>2, <2>3, <3>1, <3>2
  <2>5. CASE r.at # "idle"
    <3>1. PICK deleted \in BOOLEAN : deleted = (r.deleted \/ gone)
      <4>1. (r.deleted \/ gone) \in BOOLEAN
        OBVIOUS
      <4> QED
        BY <4>1
    <3>2. q = [r EXCEPT !.saved = TRUE, !.deleted = deleted]
      BY <2>3, <2>5, <3>1
    <3>3. /\ q \in Transactions /\ q.at = r.at /\ q.rows = r.rows /\ q.owns = r.owns
          /\ q.known = r.known /\ q.now = r.now /\ q.txn = r.txn /\ q.alerted = r.alerted
          /\ q.wrote = r.wrote /\ q.muted = r.muted /\ q.watched = r.watched /\ q.saved
          /\ q.deleted = deleted
      BY <2>3, <3>2 DEF Transactions
    <3>4. Blank(q)' /\ InBatch(q)' /\ Fresh(q)' /\ Waiting(q)' /\ KnowsImo(q)' /\ OneAlert(q)'
      BY <2>3, <2>5, <3>3 DEF TxnInv, Blank, InBatch, Fresh, Waiting, KnowsImo, OneAlert, Beside
    <3>5. LastSeen(q)' /\ NotSilenced(q)' /\ NotBefore(q)'
      BY <3>3 DEF LastSeen, NotSilenced, NotBefore
    <3>6. SeesEntry(q)'
      BY <3>1, <3>3 DEF SeesEntry
    <3>7. q.now <= clock'
      BY <2>3, <3>3 DEF TxnInv
    <3> QED
      BY <2>1, <2>2, <3>3, <3>4, <3>5, <3>6, <3>7 DEF TxnInv
  <2> QED
    BY <2>4, <2>5
<1>3. TypeOK'
  <2>1. \A c \in Adders : adder'[c] \in Transactions
    BY <1>2
  <2>2. adder' = [c \in Adders |-> adder'[c]]
    BY DEF Touched
  <2>3. adder' \in [Adders -> Transactions]
    BY <2>1, <2>2
  <2> QED
    BY <2>3 DEF IInv, TypeOK
<1>4. Apart'
  BY <1>2 DEF IInv, Apart, Active
<1>5. EntryInv' /\ AlertInv' /\ SpacedOneByOne'
  BY DEF EntryInv, AlertInv, SpacedOneByOne
<1> QED
  BY <1>2, <1>3, <1>4, <1>5 DEF IInv

LEMMA OperatorStep ==
    ASSUME IInv, NEW key \in Keys, Edit(key) \/ Register(key) \/ Delete
    PROVE  IInv'
<1>1. CASE Edit(key) \/ Register(key)
  <2>1. watch' = [key |-> key, last |-> Never] /\ alerts' = {} /\ Touched(FALSE)
        /\ UNCHANGED <<identity, clock, txns, overlaps>>
    BY <1>1 DEF Edit, Register
  <2>2. watch' \in Entries /\ watch'.last = Never /\ watch'.key # "none"
    BY <2>1, Numbers DEF Entries, Keys
  <2> QED
    BY <2>1, <2>2, TouchedStep
<1>2. CASE Delete
  <2>1. watch' = NoEntry /\ alerts' = {} /\ Touched(TRUE)
        /\ UNCHANGED <<identity, clock, txns, overlaps>>
    BY <1>2 DEF Delete
  <2> QED
    BY <2>1, Numbers, TouchedStep
<1> QED
  BY <1>1, <1>2

\* Everything is deleted, or time passes.
LEMMA OtherStep ==
    ASSUME IInv, Clear \/ Tick \/ UNCHANGED vars
    PROVE  IInv'
<1>1. adder \in [Adders -> Transactions] /\ watch \in Entries /\ clock \in Nat /\ MaxTime \in Nat
      /\ adder' = adder /\ txns' = txns /\ overlaps' = overlaps
  BY Numbers DEF IInv, TypeOK, Clear, Tick, vars
<1>2. CASE Clear
  <2>1. /\ identity' = NoRow /\ alerts' = {} /\ clock' = clock
        /\ \A a \in Adders : adder[a].at = "idle"
        /\ watch' = IF watch = NoEntry THEN NoEntry ELSE [watch EXCEPT !.last = Never]
    BY <1>2 DEF Clear, Active
  <2>2. watch' \in Entries /\ watch'.last = Never /\ watch'.key = watch.key
        /\ (watch' = NoEntry \/ watch # NoEntry)
    BY <1>1, <2>1, Numbers DEF Entries
  <2>3. TypeOK'
    BY <1>1, <2>1, <2>2 DEF IInv, TypeOK, Identities
  <2>4. \A a \in Adders : adder'[a] = NoTxn /\ TxnInv(NoTxn)'
    BY <1>1, <2>1, BlankStaysRight DEF IInv, TxnInv, Blank
  <2>5. \A a \in Adders : TxnInv(adder[a])'
    BY <2>4
  <2>6. EntryInv' /\ AlertInv' /\ SpacedOneByOne' /\ Apart'
    BY <1>1, <2>1, <2>2 DEF EntryInv, AlertInv, SpacedOneByOne, Apart, Active, IInv
  <2> QED
    BY <2>3, <2>5, <2>6 DEF IInv
<1>3. CASE Tick \/ UNCHANGED vars
  <2>1. clock' \in 0..MaxTime /\ clock <= clock' /\ UNCHANGED <<watch, identity, alerts>>
    BY <1>1, <1>3 DEF Tick, vars, tables, IInv, TypeOK
  <2>2. TypeOK'
    BY <1>1, <2>1 DEF IInv, TypeOK
  <2>3. EntryInv' /\ SpacedOneByOne' /\ Apart'
    BY <1>1, <2>1 DEF EntryInv, SpacedOneByOne, Apart, Active, IInv, Undisturbed
  <2>4. AlertInv'
    <3>1. \A x \in alerts : x.at \in Int /\ x.at <= clock /\ x.txn <= txns
      BY DEF IInv, AlertInv, TypeOK, Alerts
    <3> QED
      BY <1>1, <2>1, <3>1 DEF AlertInv
  <2>5. ASSUME NEW a \in Adders PROVE TxnInv(adder[a])'
    <3>1. PICK s : s = adder[a]
      OBVIOUS
    <3>2. TxnInv(s) /\ s \in Transactions /\ s.now \in Int /\ s.now <= clock
      BY <1>1, <3>1 DEF IInv, TxnInv, Transactions
    <3>3. s.now <= clock'
      BY <1>1, <2>1, <3>2
    <3> QED
      BY <1>1, <2>1, <3>1, <3>2, <3>3
         DEF TxnInv, Blank, InBatch, Fresh, Waiting, KnowsImo, OneAlert, SeesEntry, LastSeen,
             NotSilenced, NotBefore, Beside, Undisturbed
  <2> QED
    BY <2>2, <2>3, <2>4, <2>5 DEF IInv
<1> QED
  BY <1>2, <1>3

-----------------------------------------------------------------------------
\* Every step keeps the invariant.
LEMMA NextIInv == IInv /\ [Next]_vars => IInv'
<1> SUFFICES ASSUME IInv, [Next]_vars PROVE IInv'
  OBVIOUS
<1>1. ASSUME NEW a \in Adders, Add(a) PROVE IInv'
  BY <1>1, SelectKnownStep, RowStep, InsertStep, AlertStep, NoAlertStep, CommitStep, DeadlockStep,
     LostStep DEF Add
<1>2. ASSUME NEW a \in Adders, NEW rows \in Batches, Begin(a, rows) PROVE IInv'
  BY <1>2, BeginStep
<1>3. ASSUME NEW key \in Keys, Edit(key) \/ Register(key) PROVE IInv'
  BY <1>3, OperatorStep
<1>4. CASE Delete
  <2>1. "mmsi" \in Keys
    BY DEF Keys
  <2> QED
    BY <1>4, <2>1, OperatorStep
<1>5. CASE Clear \/ Tick \/ UNCHANGED vars
  BY <1>5, OtherStep
<1> QED
  BY <1>1, <1>2, <1>3, <1>4, <1>5 DEF Next

\* The invariant holds in every state.
LEMMA Invariant == Spec => []IInv
BY InitIInv, NextIInv, PTL DEF Spec

\* Every state is well typed.
THEOREM TypeCorrect == Spec => []TypeOK
<1>1. IInv => TypeOK
  BY DEF IInv
<1> QED
  BY Invariant, <1>1, PTL

\* Alerts of transactions that ran alone are 60 s apart, and so are those of one
\* batch (store.py:64-76).
THEOREM AlertsSpacedOneByOne == Spec => []SpacedOneByOne
<1>1. IInv => SpacedOneByOne
  BY DEF IInv
<1> QED
  BY Invariant, <1>1, PTL

\* No message of the watched vessel is passed over without an alert less than
\* 60 s before (store.py:68).
THEOREM NeverSilent == Spec => []NoSilence
<1>1. IInv => NoSilence
  BY DEF IInv, TxnInv, NotSilenced, NoSilence
<1> QED
  BY Invariant, <1>1, PTL

\* A batch is lost only beside another one (store.py:61-62).
THEOREM LostBesideAnother == Spec => []LostOnlyTogether
<1>1. IInv => LostOnlyTogether
  BY DEF IInv, TxnInv, Waiting, Beside, LostOnlyTogether, Overlapped
<1> QED
  BY Invariant, <1>1, PTL

\* A known IMO number is given up only by transactions beside each other, or
\* when everything is deleted (store.py:54-63): README.md:155 promises that it is
\* kept, and this is how far the code keeps it.
THEOREM ImoLostBesideAnother == Spec => ImoLostOnlyTogether
<1> DEFINE Kept == identity = "known" /\ identity' # "known"
                   => \/ \A a \in Adders : ~Active(a)
                      \/ \E a \in Adders : adder'[a] # adder[a] /\ Overlapped(a)
<1>1. IInv /\ [Next]_vars => [Kept]_vars
  <2> SUFFICES ASSUME IInv, Next, identity = "known", identity' # "known"
               PROVE  \/ \A a \in Adders : ~Active(a)
                      \/ \E a \in Adders : adder'[a] # adder[a] /\ Overlapped(a)
    OBVIOUS
  <2>1. CASE Clear
    BY <2>1 DEF Clear
  <2>2. ASSUME NEW a \in Adders, Commit(a)
        PROVE  adder'[a] # adder[a] /\ Overlapped(a)
    <3>1. adder[a].at = "row" /\ adder'[a] = NoTxn /\ adder[a].known # "known"
      BY <2>2 DEF Commit, Release
    <3>2. adder'[a] # adder[a]
      BY <3>1 DEF NoTxn
    <3>3. KnowsImo(adder[a])
      BY DEF IInv, TxnInv
    <3> QED
      BY <3>1, <3>2, <3>3 DEF KnowsImo, Beside, Overlapped
  <2>3. ASSUME NEW a \in Adders, Add(a), ~Commit(a) PROVE FALSE
    BY <2>3 DEF Add, SelectKnown, Row, Insert, Alert, NoAlert, Deadlock, Lost, tables
  <2>4. ASSUME NEW a \in Adders, NEW rows \in Batches, Begin(a, rows) PROVE FALSE
    BY <2>4 DEF Begin, tables
  <2>5. ASSUME NEW key \in Keys, Edit(key) \/ Register(key) PROVE FALSE
    BY <2>5 DEF Edit, Register
  <2>6. CASE Delete \/ Tick
    BY <2>6 DEF Delete, Tick, tables
  <2> QED
    BY <2>1, <2>2, <2>3, <2>4, <2>5, <2>6 DEF Next
<1> QED
  BY Invariant, <1>1, PTL DEF Spec, ImoLostOnlyTogether
=============================================================================
