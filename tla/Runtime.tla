------------------------------ MODULE Runtime ------------------------------
(***************************************************************************)
(* The ingest runtime of the NMEA Observatory web application              *)
(* (src/app/main.py): UDP/TCP reception into a bounded queue, the single   *)
(* consumer that stores batches, file imports, the retention purge and the *)
(* destructive DELETE /api/data, all coroutines of one asyncio loop.       *)
(*                                                                         *)
(* A coroutine runs without interruption from one await to the next, so    *)
(* every action below is the code between two awaits.  Database calls run  *)
(* in threads (asyncio.to_thread): their commit is a step of its own       *)
(* wherever another coroutine can see the difference.  Rows are counted,   *)
(* not identified; text, metrics and authentication are left out.          *)
(***************************************************************************)
EXTENDS Naturals, Sequences, FiniteSets

CONSTANTS
    Deletes,     \* requests that may call DELETE /api/data
    Purgers,     \* coroutines that may call purge_expired
    Jobs,        \* identifiers uuid4 gives to uploads; never reused
    QueueSize,   \* maxsize of the reception queue (10000)
    BatchMax,    \* sentences the consumer takes at once (200)
    ImportBatch, \* rows an import writes at once (200)
    FileRows,    \* rows an uploaded file holds
    MaxActive,   \* imports accepted at once (2)
    Confirmable, \* totals a client may send as expected_total
    MaxRows,     \* bound: live rows stored, queued or in flight
    MaxCrashes,  \* bound: process crashes
    StorageFails \* whether database and disk calls may raise

ASSUME RuntimeAssumption ==
    /\ Deletes \cap Purgers = {}
    /\ QueueSize \in Nat \ {0} /\ BatchMax \in Nat \ {0}
    /\ ImportBatch \in Nat \ {0} /\ FileRows \in Nat
    /\ MaxActive \in Nat \ {0} /\ Confirmable \subseteq Nat
    /\ MaxRows \in Nat /\ MaxCrashes \in Nat /\ StorageFails \in BOOLEAN

VARIABLES
    queue,       \* sentences waiting in state.queue
    consumer,    \* where consume() is
    batch,       \* sentences taken by consume(), task_done() not yet called
    enabled,     \* state.enabled
    maintenance, \* state.maintenance
    lockQ,       \* reset_lock: its holder, then its waiters in FIFO order
    del,         \* progress of each DELETE /api/data
    purger,      \* progress of each purge_expired()
    jobs,        \* state.jobs: status and cancel flag, "none" when absent
    work,        \* the coroutine that serves a job: upload(), then import_file()
    stored,      \* rows of the events table
    jobsDb,      \* statuses in the jobs table, "none" when absent
    crashes      \* crashes so far, for the bound

ingest == <<queue, consumer, batch>>
switches == <<enabled, maintenance>>
files == <<jobs, work, jobsDb>>
resets == <<lockQ, del, purger>>
vars == <<ingest, switches, resets, files, stored, crashes>>

Active == {"uploading", "queued", "running"}
Final == {"completed", "cancelled", "failed", "interrupted"}
Status == Active \cup Final \cup {"none"}

Uploading == {"stream", "digest", "enqueue"}
Importing == {"ready", "reading", "adding", "saving", "addingLast", "finalSave"}

IdleDelete == [at |-> "idle", expected |-> 0, total |-> 0]
NoJob == [status |-> "none", cancel |-> FALSE]
NoWork == [at |-> "none", read |-> 0, buffered |-> 0]

DeleteState == [at : {"idle", "waiting", "join", "count", "check", "clear", "cleared"},
                expected : Nat, total : Nat]
JobState == [status : Status, cancel : BOOLEAN]
WorkAt == Uploading \cup Importing \cup {"none", "done"}
WorkState == [at : WorkAt, read : Nat, buffered : Nat]

TypeOK ==
    /\ queue \in 0..QueueSize
    /\ consumer \in {"idle", "adding", "added", "failed"}
    /\ batch \in 0..BatchMax
    /\ enabled \in BOOLEAN /\ maintenance \in BOOLEAN
    /\ lockQ \in Seq(Deletes \cup Purgers)
    /\ del \in [Deletes -> DeleteState]
    /\ purger \in [Purgers -> {"idle", "waiting", "purging"}]
    /\ jobs \in [Jobs -> JobState]
    /\ work \in [Jobs -> WorkState]
    /\ jobsDb \in [Jobs -> Status]
    /\ stored \in Nat
    /\ crashes \in 0..MaxCrashes

Init ==
    /\ queue = 0 /\ consumer = "idle" /\ batch = 0
    /\ enabled = TRUE /\ maintenance = FALSE
    /\ lockQ = <<>>
    /\ del = [d \in Deletes |-> IdleDelete]
    /\ purger = [p \in Purgers |-> "idle"]
    /\ jobs = [j \in Jobs |-> NoJob]
    /\ work = [j \in Jobs |-> NoWork]
    /\ jobsDb = [j \in Jobs |-> "none"]
    /\ stored = 0
    /\ crashes = 0

-----------------------------------------------------------------------------
(* Reception.  A datagram or a TCP line carries n sentences; those that do *)
(* not fit the queue are dropped.                                          *)

Enqueue(n) ==
    /\ enabled
    /\ stored + queue + batch + n <= MaxRows
    /\ queue' = IF queue + n <= QueueSize THEN queue + n ELSE QueueSize
    /\ UNCHANGED <<consumer, batch, switches, resets, files, stored, crashes>>

DatagramReceived == \E n \in 1..2 : Enqueue(n)
HandleTcp == Enqueue(1)

\* Mutant of UdpControl: reception may be started during maintenance.
UdpControlAnytime(on) ==
    /\ enabled' = on
    /\ UNCHANGED <<ingest, maintenance, resets, files, stored, crashes>>

UdpControl(on) ==
    /\ ~(maintenance /\ on)
    /\ enabled' = on
    /\ UNCHANGED <<ingest, maintenance, resets, files, stored, crashes>>

(* consume(): take what is there, decode it, store it in a thread, publish *)
(* it, and only then declare the sentences done.                           *)

Consume ==
    /\ consumer = "idle" /\ queue > 0
    /\ batch' = IF queue < BatchMax THEN queue ELSE BatchMax
    /\ queue' = queue - batch'
    /\ consumer' = "adding"
    /\ UNCHANGED <<switches, resets, files, stored, crashes>>

ConsumeAdd ==
    /\ consumer = "adding"
    /\ \/ consumer' = "added" /\ stored' = stored + batch
       \/ StorageFails /\ consumer' = "failed" /\ stored' = stored
    /\ UNCHANGED <<queue, batch, switches, resets, files, crashes>>

ConsumeDone ==
    /\ consumer \in {"added", "failed"}
    /\ consumer' = "idle" /\ batch' = 0
    /\ UNCHANGED <<queue, switches, resets, files, stored, crashes>>

-----------------------------------------------------------------------------
(* reset_lock is an asyncio.Lock: waiters get it in the order they came.   *)

Holds(p) == lockQ # <<>> /\ Head(lockQ) = p
\* Mutant of Acquire: the newest waiter is the next.
AcquireBarging(p) == lockQ' = IF lockQ = <<>> THEN <<p>> ELSE <<Head(lockQ), p>> \o Tail(lockQ)

Acquire(p) == lockQ' = Append(lockQ, p)
Release == lockQ' = Tail(lockQ)

\* Mutants: an upload being received does not count; task.done() is not asked.
ActiveJobsAccepted == {j \in Jobs : jobs[j].status \in {"queued", "running"}}
ImportTasksIgnored == {}

ActiveJobs == {j \in Jobs : jobs[j].status \in Active}
ImportTasks == {j \in Jobs : work[j].at \in Importing}

(* delete_data().                                                          *)

DeleteRequest(d, e) ==
    /\ del[d].at = "idle"
    /\ Acquire(d)
    /\ del' = [del EXCEPT ![d] = [at |-> "waiting", expected |-> e, total |-> 0]]
    /\ UNCHANGED <<ingest, switches, purger, files, stored, crashes>>

\* Every way out of the handler: the finally clause, then the lock.
DeleteLeave(d) ==
    /\ del' = [del EXCEPT ![d] = IdleDelete]
    /\ maintenance' = FALSE
    /\ Release

DeleteBegin(d) ==
    /\ del[d].at = "waiting" /\ Holds(d)
    /\ IF maintenance \/ ActiveJobs # {} \/ ImportTasks # {}
       THEN /\ del' = [del EXCEPT ![d] = IdleDelete]
            /\ Release
            /\ UNCHANGED switches
       ELSE /\ del' = [del EXCEPT ![d].at = "join"]
            /\ maintenance' = TRUE /\ enabled' = FALSE
            /\ UNCHANGED lockQ
    /\ UNCHANGED <<ingest, purger, files, stored, crashes>>

DeleteJoin(d) ==
    /\ del[d].at = "join"
    /\ \/ /\ queue + batch = 0
          /\ del' = [del EXCEPT ![d].at = "count"]
          /\ UNCHANGED <<lockQ, maintenance>>
       \/ queue + batch > 0 /\ DeleteLeave(d) \* 30 s are over
    /\ UNCHANGED <<ingest, enabled, purger, files, stored, crashes>>

DeleteCount(d) ==
    /\ del[d].at = "count"
    /\ \/ /\ del' = [del EXCEPT ![d].at = "check", ![d].total = stored]
          /\ UNCHANGED <<lockQ, maintenance>>
       \/ StorageFails /\ DeleteLeave(d)
    /\ UNCHANGED <<ingest, enabled, purger, files, stored, crashes>>

DeleteCheck(d) ==
    /\ del[d].at = "check"
    /\ IF del[d].total # del[d].expected
       THEN DeleteLeave(d)
       ELSE del' = [del EXCEPT ![d].at = "clear"] /\ UNCHANGED <<lockQ, maintenance>>
    /\ UNCHANGED <<ingest, enabled, purger, files, stored, crashes>>

DeleteClear(d) ==
    /\ del[d].at = "clear"
    /\ \/ /\ stored' = 0
          /\ jobsDb' = [j \in Jobs |-> "none"]
          /\ del' = [del EXCEPT ![d].at = "cleared"]
          /\ UNCHANGED <<lockQ, maintenance>>
       \/ StorageFails /\ DeleteLeave(d) /\ UNCHANGED <<stored, jobsDb>>
    /\ UNCHANGED <<ingest, enabled, purger, jobs, work, crashes>>

DeleteFinish(d) ==
    /\ del[d].at = "cleared"
    /\ jobs' = [j \in Jobs |-> NoJob]
    /\ DeleteLeave(d)
    /\ UNCHANGED <<ingest, enabled, purger, work, jobsDb, stored, crashes>>

(* purge_expired(), from the retention loop or from PUT /api/retention;    *)
(* the thread deletes expired rows in transactions of their own.           *)

PurgeRequest(p) ==
    /\ purger[p] = "idle"
    /\ Acquire(p)
    /\ purger' = [purger EXCEPT ![p] = "waiting"]
    /\ UNCHANGED <<ingest, switches, del, files, stored, crashes>>

\* Mutant of PurgeBegin: the purge does not wait for reset_lock.
PurgeBeginUnlocked(p) ==
    /\ purger[p] = "waiting" /\ ~maintenance
    /\ purger' = [purger EXCEPT ![p] = "purging"]
    /\ UNCHANGED <<ingest, switches, lockQ, del, files, stored, crashes>>

PurgeBegin(p) ==
    /\ purger[p] = "waiting" /\ Holds(p)
    /\ IF maintenance
       THEN purger' = [purger EXCEPT ![p] = "idle"] /\ Release
       ELSE purger' = [purger EXCEPT ![p] = "purging"] /\ UNCHANGED lockQ
    /\ UNCHANGED <<ingest, switches, del, files, stored, crashes>>

PurgeChunk(p) ==
    /\ purger[p] = "purging"
    /\ \E n \in 1..stored : stored' = stored - n
    /\ UNCHANGED <<ingest, switches, resets, files, crashes>>

\* Mutant of PurgeEnd: reset_lock is not released.
PurgeEndHoldingLock(p) ==
    /\ purger[p] = "purging"
    /\ purger' = [purger EXCEPT ![p] = "idle"]
    /\ UNCHANGED <<ingest, switches, lockQ, del, files, stored, crashes>>

PurgeEnd(p) ==
    /\ purger[p] = "purging"
    /\ purger' = [purger EXCEPT ![p] = "idle"]
    /\ Release
    /\ UNCHANGED <<ingest, switches, del, files, stored, crashes>>

-----------------------------------------------------------------------------
(* upload(): the checks and the entry in state.jobs have no await between  *)
(* them.  An interrupted stream removes the entry again; an error after    *)
(* the stream does not.                                                    *)

At(j, pc) == work' = [work EXCEPT ![j].at = pc]
SetStatus(j, s) == jobs' = [jobs EXCEPT ![j].status = s]

\* Mutant of UploadBegin: maintenance is not checked.
UploadBeginAnytime(j) ==
    /\ work[j].at = "none"
    /\ Cardinality(ActiveJobs) < MaxActive
    /\ SetStatus(j, "uploading")
    /\ At(j, "stream")
    /\ UNCHANGED <<ingest, switches, resets, jobsDb, stored, crashes>>

UploadBegin(j) ==
    /\ work[j].at = "none"
    /\ ~maintenance
    /\ Cardinality(ActiveJobs) < MaxActive
    /\ SetStatus(j, "uploading")
    /\ At(j, "stream")
    /\ UNCHANGED <<ingest, switches, resets, jobsDb, stored, crashes>>

\* Mutant of UploadStream: an interrupted upload is not taken off the list.
UploadStreamListed(j) ==
    /\ work[j].at = "stream"
    /\ At(j, "digest") \/ At(j, "done")
    /\ UNCHANGED <<ingest, switches, resets, jobs, jobsDb, stored, crashes>>

UploadStream(j) ==
    /\ work[j].at = "stream"
    /\ \/ At(j, "digest") /\ UNCHANGED jobs
       \/ At(j, "done") /\ jobs' = [jobs EXCEPT ![j] = NoJob]
    /\ UNCHANGED <<ingest, switches, resets, jobsDb, stored, crashes>>

UploadDigest(j) ==
    /\ work[j].at = "digest"
    /\ \/ At(j, "enqueue") /\ SetStatus(j, "queued")
       \/ StorageFails /\ At(j, "done") /\ UNCHANGED jobs
    /\ UNCHANGED <<ingest, switches, resets, jobsDb, stored, crashes>>

UploadEnqueue(j) ==
    /\ work[j].at = "enqueue"
    /\ \/ At(j, "ready") /\ jobsDb' = [jobsDb EXCEPT ![j] = "queued"]
       \/ StorageFails /\ At(j, "done") /\ UNCHANGED jobsDb
    /\ UNCHANGED <<ingest, switches, resets, jobs, stored, crashes>>

\* Mutant of CancelJob: the job is shown as cancelled while its coroutine runs.
CancelJobAtOnce(j) ==
    /\ jobs[j].status \in {"queued", "running"}
    /\ jobs' = [jobs EXCEPT ![j].status = "cancelled", ![j].cancel = TRUE]
    /\ UNCHANGED <<ingest, switches, resets, work, jobsDb, stored, crashes>>

CancelJob(j) ==
    /\ jobs[j].status \in {"queued", "running"}
    /\ jobs' = [jobs EXCEPT ![j].cancel = TRUE]
    /\ UNCHANGED <<ingest, switches, resets, work, jobsDb, stored, crashes>>

(* import_file(): reads a line at a time, stores every ImportBatch rows    *)
(* and the remainder, and saves the job after each batch and at the end.   *)

ImportStart(j) ==
    /\ work[j].at = "ready"
    /\ SetStatus(j, "running")
    /\ At(j, "reading")
    /\ UNCHANGED <<ingest, switches, resets, jobsDb, stored, crashes>>

ImportRead(j) ==
    /\ work[j].at = "reading" /\ ~jobs[j].cancel /\ work[j].read < FileRows
    /\ work' = [work EXCEPT ![j] = [at |-> IF @.buffered + 1 >= ImportBatch THEN "adding" ELSE "reading",
                                    read |-> @.read + 1, buffered |-> @.buffered + 1]]
    /\ UNCHANGED <<ingest, switches, resets, jobs, jobsDb, stored, crashes>>

\* Mutant of Outcome: a cancelled import ends as completed.
OutcomeIgnoringCancel(j) == "completed"
Outcome(j) == IF jobs[j].cancel THEN "cancelled" ELSE "completed"

ImportStop(j) ==
    /\ work[j].at = "reading" /\ (jobs[j].cancel \/ work[j].read = FileRows)
    /\ IF work[j].buffered > 0
       THEN At(j, "addingLast") /\ UNCHANGED jobs
       ELSE At(j, "finalSave") /\ SetStatus(j, Outcome(j))
    /\ UNCHANGED <<ingest, switches, resets, jobsDb, stored, crashes>>

ImportAdd(j) ==
    /\ work[j].at \in {"adding", "addingLast"}
    /\ stored' = stored + work[j].buffered
    /\ work' = [work EXCEPT ![j].buffered = 0,
                            ![j].at = IF @ = "adding" THEN "saving" ELSE "finalSave"]
    /\ IF work[j].at = "adding" THEN UNCHANGED jobs ELSE SetStatus(j, Outcome(j))
    /\ UNCHANGED <<ingest, switches, resets, jobsDb, crashes>>

SaveJob(j) == jobsDb' = [jobsDb EXCEPT ![j] = jobs[j].status]

ImportSave(j) ==
    /\ work[j].at = "saving"
    /\ SaveJob(j)
    /\ At(j, "reading")
    /\ UNCHANGED <<ingest, switches, resets, jobs, stored, crashes>>

ImportFail(j) ==
    /\ StorageFails
    /\ work[j].at \in {"reading", "adding", "saving", "addingLast"}
    /\ SetStatus(j, "failed")
    /\ At(j, "finalSave")
    /\ UNCHANGED <<ingest, switches, resets, jobsDb, stored, crashes>>

\* Mutant of ImportFinalSave: the final state is not saved.
ImportEndUnsaved(j) ==
    /\ work[j].at = "finalSave"
    /\ At(j, "done")
    /\ UNCHANGED <<ingest, switches, resets, jobs, jobsDb, stored, crashes>>

ImportFinalSave(j) ==
    /\ work[j].at = "finalSave"
    /\ SaveJob(j) \/ (StorageFails /\ UNCHANGED jobsDb)
    /\ At(j, "done")
    /\ UNCHANGED <<ingest, switches, resets, jobs, stored, crashes>>

-----------------------------------------------------------------------------
(* The process dies: memory is lost, uncommitted transactions roll back.   *)
(* lifespan() marks the jobs it finds active as interrupted, and saves     *)
(* them, before it opens a socket.                                         *)

\* Mutant of Restarted: active jobs come back as they were.
RestartedAsSaved(s) == s
Restarted(s) == IF s \in Active THEN "interrupted" ELSE s

CrashRestart ==
    /\ crashes < MaxCrashes
    /\ crashes' = crashes + 1
    /\ queue' = 0 /\ consumer' = "idle" /\ batch' = 0
    /\ enabled' = TRUE /\ maintenance' = FALSE
    /\ lockQ' = <<>>
    /\ del' = [d \in Deletes |-> IdleDelete]
    /\ purger' = [p \in Purgers |-> "idle"]
    /\ jobsDb' = [j \in Jobs |-> Restarted(jobsDb[j])]
    /\ jobs' = [j \in Jobs |-> [status |-> Restarted(jobsDb[j]), cancel |-> FALSE]]
    /\ work' = [j \in Jobs |-> IF work[j].at = "none" THEN work[j] ELSE [work[j] EXCEPT !.at = "done"]]
    /\ UNCHANGED stored

ConsumeStep == Consume \/ ConsumeAdd \/ ConsumeDone
DeleteStep(d) == DeleteBegin(d) \/ DeleteJoin(d) \/ DeleteCount(d) \/ DeleteCheck(d)
                 \/ DeleteClear(d) \/ DeleteFinish(d)
PurgeStep(p) == PurgeBegin(p) \/ PurgeEnd(p)
UploadArrived(j) == UploadDigest(j) \/ UploadEnqueue(j)
UploadStep(j) == UploadStream(j) \/ UploadArrived(j)
ImportStep(j) == ImportStart(j) \/ ImportRead(j) \/ ImportStop(j) \/ ImportAdd(j)
                 \/ ImportSave(j) \/ ImportFail(j) \/ ImportFinalSave(j)

Next ==
    \/ DatagramReceived \/ HandleTcp
    \/ \E on \in BOOLEAN : UdpControl(on)
    \/ ConsumeStep
    \/ \E d \in Deletes : DeleteStep(d) \/ \E e \in Confirmable : DeleteRequest(d, e)
    \/ \E p \in Purgers : PurgeRequest(p) \/ PurgeStep(p) \/ PurgeChunk(p)
    \/ \E j \in Jobs : UploadBegin(j) \/ UploadStep(j) \/ CancelJob(j) \/ ImportStep(j)
    \/ CrashRestart

Spec == Init /\ [][Next]_vars

\* The loop runs every ready coroutine and every thread returns; nothing
\* obliges a client to send or to ask, nor to go on with the body it began:
\* request.stream() has no timeout (main.py:431).
Fairness ==
    /\ WF_vars(ConsumeStep)
    /\ \A d \in Deletes : WF_vars(DeleteStep(d))
    /\ \A p \in Purgers : WF_vars(PurgeStep(p))
    /\ \A j \in Jobs : WF_vars(UploadArrived(j)) /\ WF_vars(ImportStep(j))

FairSpec == Spec /\ Fairness
-----------------------------------------------------------------------------
(***************************************************************************)
(* Properties                                                              *)
(***************************************************************************)

Resetting == {d \in Deletes : del[d].at \in {"join", "count", "check", "clear", "cleared"}}

\* While delete_data() is past its checks it holds reset_lock, reception is
\* off, no purge is running and no upload or import is under way.
ResetExclusive ==
    \A d \in Resetting :
        /\ Holds(d)
        /\ maintenance /\ ~enabled
        /\ \A p \in Purgers : purger[p] # "purging"
        /\ \A j \in Jobs : work[j].at \in {"none", "done"}

\* Once the queue was joined it stays empty, and the total that
\* store.stats() returned is still the number of rows when the transaction
\* of store.clear() runs, several awaits later.
CountStillTrue ==
    \A d \in Resetting :
        /\ del[d].at # "join" => queue + batch = 0
        /\ del[d].at \in {"check", "clear"} => stored = del[d].total

\* Between the commit of store.clear() and the moment the handler empties
\* state.jobs nothing comes back: no row is stored and no job is saved again.
ClearedStaysEmpty ==
    \A d \in Resetting :
        del[d].at = "cleared" => stored = 0 /\ \A j \in Jobs : jobsDb[j] = "none"

\* A job in the jobs table is also in state.jobs, so that GET /api/jobs shows
\* everything a restart would bring back.
SavedJobsKnown == \A j \in Jobs : jobsDb[j] # "none" => jobs[j].status # "none"

\* At most MaxActive uploads are being received or imported, however the
\* status of a job and the coroutine serving it drift apart.
ImportsBounded == Cardinality({j \in Jobs : work[j].at \notin {"none", "finalSave", "done"}}) <= MaxActive

\* "completed" is never saved or shown for a file of which a row was not
\* committed, whatever is cancelled, fails or crashes meanwhile.
CompletedMeansStored ==
    \A j \in Jobs :
        "completed" \in {jobs[j].status, jobsDb[j]} =>
            work[j].read = FileRows /\ work[j].buffered = 0

\* Where storage does not fail, the jobs table and state.jobs agree on every
\* job that no coroutine serves any more.
SettledJobsSaved ==
    (\A d \in Deletes : del[d].at # "cleared") =>
        \A j \in Jobs : work[j].at = "done" => jobsDb[j] = jobs[j].status

\* Every DELETE /api/data is answered: the lock reaches it, the queue drains
\* or the timeout strikes, and the handler returns.
DeleteAnswered == \A d \in Deletes : del[d].at = "waiting" ~> del[d].at = "idle"

\* Once its body has arrived, an upload does not keep its import slot, nor
\* block DELETE /api/data, for ever (main.py:438-443).  While the client goes on
\* with the body it may: nothing else ends an upload that is being received.
JobsSettle ==
    \A j \in Jobs :
        jobs[j].status \in Active /\ work[j].at # "stream" ~> jobs[j].status \notin Active

\* DELETE /api/data removes exactly the rows the user confirmed.
Pledged == {del[d].expected : d \in {c \in Deletes : del[c].at = "clear"}}

H == INSTANCE History WITH rows <- stored, pledge <- Pledged

DeletesTheConfirmedRows == H!Spec

\* What GET /api/jobs shows of a job over its whole life, and the rows of its
\* file that are not committed.
Listed(j) ==
    IF jobs[j].status # "none" THEN jobs[j].status
    ELSE IF work[j].at = "none" THEN "new" ELSE "removed"
RowsLeft(j) == FileRows - work[j].read + work[j].buffered

\* Whatever is cancelled, fails, is deleted or dies between two of its steps, a
\* job ends once, with the result of what was committed, and what a restart
\* brings back is a state it was in (main.py:140-155, 298-305, 368-443).
I == INSTANCE ImportJobs WITH
    Rows <- FileRows,
    shown <- [j \in Jobs |-> Listed(j)],
    record <- jobsDb,
    left <- [j \in Jobs |-> RowsLeft(j)]

JobsEndOnce == I!Spec

\* The line at reset_lock: where a request stands, and an upper bound of the
\* steps until it is answered - its own and those of the requests before it.
InLine(p) == \E i \in 1..Len(lockQ) : lockQ[i] = p
Place(p) == CHOOSE i \in 1..Len(lockQ) : lockQ[i] = p
DeleteTurn == [idle |-> 0, waiting |-> 6, join |-> 5, count |-> 4, check |-> 3, clear |-> 2, cleared |-> 1]
PurgeTurn == [idle |-> 0, waiting |-> 2, purging |-> 1]
Turn(p) == IF p \in Deletes THEN DeleteTurn[del[p].at] ELSE PurgeTurn[purger[p]]
Due(d) == 6 * Place(d) + Turn(Head(lockQ))

\* Nobody waits for reset_lock in vain or is overtaken: its holder is always at
\* a step of its own, each such step brings every delete that waits nearer to
\* its answer, and nothing takes it farther away (main.py:170-180, 283-305).
DeletesAdvance ==
    /\ [](\A d \in Deletes : del[d].at # "idle" => InLine(d))
    /\ [](lockQ # <<>> => Turn(Head(lockQ)) > 0)
    /\ [][\A d \in Deletes : InLine(d) /\ InLine(d)' =>
            /\ Due(d)' <= Due(d)
            /\ (\E c \in Deletes : DeleteStep(c)) \/ (\E p \in Purgers : PurgeStep(p)) => Due(d)' < Due(d)]_vars

\* An upper bound of the steps the coroutine of a job still takes.
JobTurn == [none |-> 10, stream |-> 9, digest |-> 8, enqueue |-> 7, ready |-> 6, adding |-> 5,
            saving |-> 4, reading |-> 3, addingLast |-> 2, finalSave |-> 1, done |-> 0]
JobDue(j) == 4 * (FileRows - work[j].read) + JobTurn[work[j].at]

\* Where storage works, a job is active only while a coroutine serves it, and
\* every step of that coroutine brings the job nearer to its end
\* (main.py:147-150, 375-443).
JobsAdvance ==
    /\ [](\A j \in Jobs : jobs[j].status \in Active => work[j].at \in Uploading \cup Importing)
    /\ [][\A j \in Jobs :
            /\ JobDue(j)' <= JobDue(j)
            /\ UploadStep(j) \/ ImportStep(j) => JobDue(j)' < JobDue(j)]_vars
=============================================================================
