----------------------------- MODULE ImportJobs -----------------------------
(***************************************************************************)
(* The life cycle of the import jobs as GET /api/jobs shows it, without    *)
(* coroutines, locks or threads: a job is received, waits, runs and ends   *)
(* once; the record a restart reads is a state the job has been in; and    *)
(* only a delete, while no job is active, or a restart changes what has    *)
(* ended.                                                                  *)
(* Runtime.tla implements this module.                                     *)
(***************************************************************************)
EXTENDS Naturals

CONSTANTS
    Jobs,
    Rows \* rows of an uploaded file

Active == {"uploading", "queued", "running"}
Results == {"completed", "cancelled", "failed"}

VARIABLES
    shown,  \* the status of a job; "new": not yet asked for, "removed": no longer listed
    record, \* its status in the jobs table, "none": no record
    left    \* rows of its file that are not committed

Unlisted == {"new", "removed"}

Init ==
    /\ shown = [j \in Jobs |-> "new"]
    /\ record = [j \in Jobs |-> "none"]
    /\ left = [j \in Jobs |-> Rows]

Becomes(j, old, new) == shown[j] = old /\ shown' = [shown EXCEPT ![j] = new]

Upload(j) == Becomes(j, "new", "uploading") /\ UNCHANGED <<record, left>>
Withdraw(j) == Becomes(j, "uploading", "removed") /\ UNCHANGED <<record, left>>
Accept(j) == Becomes(j, "uploading", "queued") /\ UNCHANGED <<record, left>>
Run(j) == Becomes(j, "queued", "running") /\ UNCHANGED <<record, left>>

\* Rows are committed while the job runs, some with its end.
Commit(j, rest) == rest <= left[j] /\ left' = [left EXCEPT ![j] = rest]

Store(j) ==
    /\ shown[j] = "running"
    /\ \E rest \in 0..Rows : Commit(j, rest)
    /\ UNCHANGED <<shown, record>>

End(j, result) ==
    /\ Becomes(j, "running", result)
    /\ \E rest \in 0..Rows : Commit(j, rest) /\ (result = "completed" => rest = 0)
    /\ UNCHANGED record

Save(j) ==
    /\ shown[j] \notin Unlisted \cup {"uploading"}
    /\ record' = [record EXCEPT ![j] = shown[j]]
    /\ UNCHANGED <<shown, left>>

\* A delete removes the records first and the list afterwards.
Erased == record = [j \in Jobs |-> "none"]
Idle == \A j \in Jobs : shown[j] \notin Active

Clear ==
    /\ Idle /\ Erased'
    /\ UNCHANGED <<shown, left>>

Forget ==
    /\ Idle /\ Erased
    /\ shown' = [j \in Jobs |-> IF shown[j] = "new" THEN "new" ELSE "removed"]
    /\ UNCHANGED <<record, left>>

Restart ==
    /\ record' = [j \in Jobs |-> IF record[j] \in Active THEN "interrupted" ELSE record[j]]
    /\ shown' = [j \in Jobs |-> IF record'[j] # "none" THEN record'[j]
                                ELSE IF shown[j] = "new" THEN "new" ELSE "removed"]
    /\ UNCHANGED left

vars == <<shown, record, left>>

\* Most of what the program does concerns no job at all.
Elsewhere == UNCHANGED vars

Next ==
    \/ Elsewhere
    \/ \E j \in Jobs : Save(j) \/ Store(j)
    \/ \E j \in Jobs : Upload(j) \/ Withdraw(j) \/ Accept(j) \/ Run(j)
    \/ \E j \in Jobs, result \in Results : End(j, result)
    \/ Clear \/ Forget \/ Restart

Spec == Init /\ [][Next]_vars
=============================================================================
