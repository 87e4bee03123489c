----------------------------- MODULE WatchAlerts -----------------------------
(***************************************************************************)
(* The watch list, the identities of vessels and the alerts                *)
(* (src/app/store.py) under concurrent transactions: the live consumer and *)
(* the file imports each store batches with Store.add while the operator   *)
(* edits the watch list.  The database is PostgreSQL at its default level, *)
(* READ COMMITTED (compose.yaml:16): a statement sees what was committed   *)
(* when it began, a row written by a transaction is locked until it ends,  *)
(* and an insert of a key waits for an uncommitted one and then fails.     *)
(*                                                                         *)
(* One vessel and one entry of the watch list, that names the vessel by    *)
(* its MMSI or by its IMO number, or names another one.                    *)
(***************************************************************************)
EXTENDS Integers, Sequences, FiniteSets

CONSTANTS
    Adders,  \* callers of Store.add: the consumer and an import
    Batches, \* batches of rows they store, sequences of Kinds
    Spacing, \* 60 s in ticks of the clock
    MaxTime, \* bound: clock
    MaxTxns  \* bound: transactions of Store.add

\* Type 5 with an IMO number, type 19 or 24 (no IMO), any other message.
Kinds == {"static", "name", "position"}
Keys == {"mmsi", "imo", "other"}
NoRow == "no row"
Never == 0 - Spacing

ASSUME WatchAlertsAssumption ==
    /\ Cardinality(Adders) <= 2
    /\ Batches \subseteq Seq(Kinds) /\ Spacing \in Nat \ {0} /\ MaxTime \in Nat /\ MaxTxns \in Nat

VARIABLES
    watch,    \* watch_vessels, committed: [key, last]
    identity, \* ais_identities, committed: is the IMO number known?
    alerts,   \* watch_alerts of the entry, since it was saved: [at, txn, row]
    adder,    \* the transaction of each caller
    clock,
    txns,     \* history: transactions so far
    overlaps  \* history: pairs of transactions that ran at the same time

tables == <<watch, identity, alerts>>
vars == <<tables, adder, clock, txns, overlaps>>

Times == Never..MaxTime
Entries == [key : Keys \cup {"none"}, last : Times]
NoEntry == [key |-> "none", last |-> Never]
Identities == {NoRow, "known", "unknown"}

NoTxn ==
    [at |-> "idle", rows |-> <<>>, watched |-> NoEntry, known |-> NoRow, now |-> 0, txn |-> 0,
     owns |-> "nothing", wrote |-> FALSE, alerted |-> {}, saved |-> FALSE, deleted |-> FALSE,
     muted |-> FALSE]

Alerts == [at : 0..MaxTime, txn : 1..MaxTxns, row : Nat]
Transactions ==
    [at : {"idle", "known", "row", "blocked", "insert", "match", "failed"}, rows : Seq(Kinds),
     watched : Entries, known : Identities, now : 0..MaxTime, txn : 0..MaxTxns,
     owns : {"nothing", "deleted", "inserted"}, wrote : BOOLEAN, alerted : SUBSET Alerts,
     saved : BOOLEAN, deleted : BOOLEAN, muted : BOOLEAN]

TypeOK ==
    /\ watch \in Entries /\ identity \in Identities /\ alerts \subseteq Alerts
    /\ adder \in [Adders -> Transactions]
    /\ clock \in 0..MaxTime /\ txns \in 0..MaxTxns /\ overlaps \subseteq SUBSET (1..txns)

Init ==
    /\ watch = NoEntry /\ identity = NoRow /\ alerts = {} /\ overlaps = {}
    /\ adder = [a \in Adders |-> NoTxn] /\ clock = 0 /\ txns = 0

Active(a) == adder[a].at # "idle"
Others(a) == Adders \ {a}
HasWritten(a) == adder[a].owns # "nothing"
Change(a, record) == adder' = [adder EXCEPT ![a] = record]

-----------------------------------------------------------------------------
\* Store.add, statement by statement.
Begin(a, rows) ==
    /\ ~Active(a) /\ txns < MaxTxns
    /\ txns' = txns + 1
    /\ overlaps' = overlaps \cup {{txns + 1, adder[b].txn} : b \in {o \in Adders : Active(o)}}
    /\ Change(a, [NoTxn EXCEPT !.at = "known", !.rows = rows, !.txn = txns + 1, !.watched = watch])
    /\ UNCHANGED <<tables, clock>>

SelectKnown(a) ==
    /\ adder[a].at = "known"
    /\ Change(a, [adder[a] EXCEPT !.at = "row", !.known = identity, !.now = clock])
    /\ UNCHANGED <<tables, clock, txns, overlaps>>

Kind(a) == Head(adder[a].rows)

\* The IMO number of a row: its own, or the one known before.
Imo(a) == Kind(a) = "static" \/ adder[a].known = "known"

\* (Changed form: the identity is inserted without the old one being deleted.)
RowNoDelete(a) ==
    /\ adder[a].at = "row" /\ adder[a].rows # <<>>
    /\ Change(a, [adder[a] EXCEPT !.at = IF Kind(a) = "position" THEN "match" ELSE "insert"])
    /\ UNCHANGED <<tables, clock, txns, overlaps>>

\* The row is inserted as an event; only static data touch the identities.
\* A delete that meets the uncommitted work of another waits for its end.
Row(a) ==
    /\ adder[a].at = "row" /\ adder[a].rows # <<>>
    /\ IF Kind(a) = "position" THEN Change(a, [adder[a] EXCEPT !.at = "match"])
       ELSE IF identity # NoRow /\ \E b \in Others(a) : HasWritten(b)
       THEN Change(a, [adder[a] EXCEPT !.at = "blocked"])
       ELSE Change(a, [adder[a] EXCEPT !.at = "insert",
               !.owns = IF identity = NoRow \/ @ # "nothing" THEN @ ELSE "deleted"])
    /\ UNCHANGED <<tables, clock, txns, overlaps>>

Insert(a) ==
    /\ adder[a].at = "insert" /\ \A b \in Others(a) : ~HasWritten(b)
    /\ Change(a,
         IF identity # NoRow /\ ~HasWritten(a) THEN [adder[a] EXCEPT !.at = "failed"]
         ELSE [adder[a] EXCEPT !.at = "match", !.owns = "inserted",
                               !.known = IF Imo(a) THEN "known" ELSE "unknown"])
    /\ UNCHANGED <<tables, clock, txns, overlaps>>

Matches(a) ==
    adder[a].watched.key = "mmsi" \/ (adder[a].watched.key = "imo" /\ Imo(a))

Recent(a) == adder[a].now - adder[a].watched.last < Spacing

\* (Changed form: an alert is not remembered for the next rows of the batch.)
AlertForgotten(a) ==
    /\ adder[a].at = "match" /\ Matches(a) /\ ~Recent(a)
    /\ \A b \in Others(a) : ~adder[b].wrote
    /\ Change(a, [adder[a] EXCEPT !.at = "row", !.rows = Tail(@), !.wrote = TRUE,
           !.alerted = @ \cup {[at |-> adder[a].now, txn |-> adder[a].txn, row |-> Len(adder[a].rows)]}])
    /\ UNCHANGED <<tables, clock, txns, overlaps>>

\* The update of the entry waits while another transaction has updated it.
Alert(a) ==
    /\ adder[a].at = "match" /\ Matches(a) /\ ~Recent(a)
    /\ \A b \in Others(a) : ~adder[b].wrote
    /\ Change(a, [adder[a] EXCEPT !.at = "row", !.rows = Tail(@), !.watched.last = adder[a].now,
           !.wrote = TRUE,
           !.alerted = @ \cup {[at |-> adder[a].now, txn |-> adder[a].txn, row |-> Len(adder[a].rows)]}])
    /\ UNCHANGED <<tables, clock, txns, overlaps>>

NoAlert(a) ==
    /\ adder[a].at = "match" /\ (Matches(a) => Recent(a))
    /\ Change(a, [adder[a] EXCEPT !.at = "row", !.rows = Tail(@), !.muted = @ \/ Matches(a)])
    /\ UNCHANGED <<tables, clock, txns, overlaps>>

\* A transaction ends: a delete that waited for it goes on.
Release(a, record, at) ==
    adder' = [b \in Adders |-> IF b = a THEN record
                               ELSE IF adder[b].at = "blocked" THEN [adder[b] EXCEPT !.at = at]
                               ELSE adder[b]]

\* A waiting delete does not see the identity that is committed now.
Commit(a) ==
    /\ adder[a].at = "row" /\ adder[a].rows = <<>>
    /\ identity' = IF HasWritten(a) THEN adder[a].known ELSE identity
    /\ alerts' = IF adder[a].deleted THEN alerts ELSE alerts \cup adder[a].alerted
    /\ watch' = IF adder[a].wrote /\ ~adder[a].deleted
                THEN [watch EXCEPT !.last = adder[a].watched.last] ELSE watch
    /\ Release(a, NoTxn, "insert")
    /\ UNCHANGED <<clock, txns, overlaps>>

\* A waits for B and B for A: the database breaks the deadlock.
Waits(a, b) ==
    \/ adder[a].at \in {"blocked", "insert"} /\ HasWritten(b)
    \/ adder[a].at = "match" /\ Matches(a) /\ ~Recent(a) /\ adder[b].wrote
Deadlock(a) ==
    /\ \E b \in Others(a) : Waits(a, b) /\ Waits(b, a)
    /\ Release(a, [adder[a] EXCEPT !.at = "failed", !.owns = "nothing", !.wrote = FALSE], "row")
    /\ UNCHANGED <<tables, clock, txns, overlaps>>

\* The caller counts the rows as lost, or its import as failed.
Lost(a) ==
    adder[a].at = "failed" /\ Change(a, NoTxn) /\ UNCHANGED <<tables, clock, txns, overlaps>>

Add(a) ==
    \/ SelectKnown(a) \/ Row(a) \/ Insert(a) \/ Alert(a) \/ NoAlert(a)
    \/ Commit(a) \/ Deadlock(a) \/ Lost(a)

-----------------------------------------------------------------------------
\* The operator.  An edit waits for a transaction that has updated the entry.
Unlocked == \A a \in Adders : ~adder[a].wrote
Touched(gone) ==
    adder' = [a \in Adders |-> IF Active(a) THEN [adder[a] EXCEPT !.saved = TRUE, !.deleted = @ \/ gone]
                               ELSE adder[a]]

\* (Changed form: an edited entry keeps the time of its last alert.)
EditOnly(key) ==
    /\ watch # NoEntry /\ Unlocked
    /\ watch' = [watch EXCEPT !.key = key] /\ alerts' = {} /\ Touched(FALSE)
    /\ UNCHANGED <<identity, clock, txns, overlaps>>

Edit(key) ==
    /\ watch # NoEntry /\ Unlocked
    /\ watch' = [key |-> key, last |-> Never] /\ alerts' = {} /\ Touched(FALSE)
    /\ UNCHANGED <<identity, clock, txns, overlaps>>

Register(key) ==
    /\ watch = NoEntry
    /\ watch' = [key |-> key, last |-> Never] /\ alerts' = {} /\ Touched(FALSE)
    /\ UNCHANGED <<identity, clock, txns, overlaps>>

Delete ==
    /\ watch # NoEntry /\ Unlocked
    /\ watch' = NoEntry /\ alerts' = {} /\ Touched(TRUE)
    /\ UNCHANGED <<identity, clock, txns, overlaps>>

\* Deleting everything waits until nothing is being stored (main.py:283-296).
Clear ==
    /\ \A a \in Adders : ~Active(a)
    /\ identity' = NoRow /\ alerts' = {}
    /\ watch' = IF watch = NoEntry THEN NoEntry ELSE [watch EXCEPT !.last = Never]
    /\ UNCHANGED <<adder, clock, txns, overlaps>>

Tick == clock < MaxTime /\ clock' = clock + 1 /\ UNCHANGED <<tables, adder, txns, overlaps>>

Next ==
    \/ \E a \in Adders : Add(a) \/ \E rows \in Batches : Begin(a, rows)
    \/ \E key \in Keys : Edit(key) \/ Register(key)
    \/ Delete \/ Clear \/ Tick

Spec == Init /\ [][Next]_vars

-----------------------------------------------------------------------------
Overlapped(a) == \E pair \in overlaps : adder[a].txn \in pair

\* "The interval between the alerts of one entry is 60 seconds" (README.md:281).
AlertsSpaced == \A x, y \in alerts : x # y => x.at - y.at >= Spacing \/ y.at - x.at >= Spacing

\* Where the code keeps that: within one batch, and between transactions of
\* which none overlapped another, whatever is rolled back, edited or deleted in
\* between (store.py:64-76).  Those that overlap read the same time of the last
\* alert, and the one that ends last may set it back.
SpacedOneByOne ==
    \A x, y \in alerts :
        x # y => \/ x.at - y.at >= Spacing \/ y.at - x.at >= Spacing
                 \/ x.txn # y.txn /\ \E pair \in overlaps : pair \cap {x.txn, y.txn} # {}

\* A message of a watched vessel gives no alert only within 60 s of an alert
\* for the entry, whatever is edited, deleted or rolled back; unless the entry
\* itself was saved while the message was being stored.
NoSilence ==
    \A a \in Adders :
        adder[a].muted /\ ~adder[a].saved
            => \E x \in alerts \cup adder[a].alerted : adder[a].now - x.at < Spacing

\* Only a transaction that overlapped another, or deleting everything, makes a
\* known IMO number unknown again (store.py:53-63).  README.md:155 promises more:
\* that it is kept whenever a message without one follows.
ImoLostOnlyTogether ==
    [][identity = "known" /\ identity' # "known"
       => \/ \A a \in Adders : ~Active(a)
          \/ \E a \in Adders : adder'[a] # adder[a] /\ Overlapped(a)]_vars

\* A batch is lost only when another was stored at the same time, never by
\* what it contains (store.py:61-62 replaces the identity it finds).
LostOnlyTogether == \A a \in Adders : adder[a].at = "failed" => Overlapped(a)
=============================================================================
