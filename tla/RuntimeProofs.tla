--------------------------- MODULE RuntimeProofs ---------------------------
(***************************************************************************)
(* Proofs about Runtime, for any number of requests, purges and uploads,    *)
(* any capacities and any number of rows and crashes.                       *)
(***************************************************************************)
EXTENDS Runtime, FiniteSetTheorems, TLAPS

\* Whoever is inside "async with state.reset_lock" is its holder.
PurgeHoldsLock == \A p \in Purgers : purger[p] = "purging" => Holds(p)

\* upload() keeps its job active until the import task exists, which is why
\* delete_data() may look at statuses and tasks only.
UploadsActive == \A j \in Jobs : work[j].at \in Uploading => jobs[j].status \in Active

\* Past its comparison, the counted total is the one the user confirmed.
ConfirmedTotal == \A d \in Deletes : del[d].at = "clear" => del[d].total = del[d].expected

\* The inductive invariant.
IInv ==
    /\ TypeOK
    /\ PurgeHoldsLock
    /\ UploadsActive
    /\ ResetExclusive
    /\ CountStillTrue
    /\ ClearedStaysEmpty
    /\ ConfirmedTotal

LEMMA InitIInv == Init => IInv
  <1> SUFFICES ASSUME Init PROVE IInv
    OBVIOUS
  <1>1. TypeOK
    <2> USE RuntimeAssumption DEF RuntimeAssumption, Init
    <2>1. queue \in 0..QueueSize /\ batch \in 0..BatchMax /\ stored \in Nat /\ crashes \in 0..MaxCrashes
      OBVIOUS
    <2>2. enabled \in BOOLEAN /\ maintenance \in BOOLEAN
      OBVIOUS
    <2>8. lockQ \in Seq(Deletes \cup Purgers)
      OBVIOUS
    <2>3. del \in [Deletes -> DeleteState]
      BY DEF IdleDelete, DeleteState
    <2>4. jobs \in [Jobs -> JobState]
      BY DEF NoJob, JobState, Status
    <2>5. work \in [Jobs -> WorkState]
      BY DEF NoWork, WorkState, WorkAt
    <2>6. jobsDb \in [Jobs -> Status]
      BY DEF Status
    <2>7. purger \in [Purgers -> {"idle", "waiting", "purging"}]
      OBVIOUS
    <2>. QED  BY <2>1, <2>2, <2>3, <2>4, <2>5, <2>6, <2>7, <2>8, Zenon DEF TypeOK
  <1>2. Resetting = {}
    BY DEF Init, Resetting, IdleDelete
  <1>3. PurgeHoldsLock /\ UploadsActive /\ ConfirmedTotal
    BY DEF Init, PurgeHoldsLock, UploadsActive, ConfirmedTotal, NoWork, IdleDelete, Uploading
  <1>. QED  BY <1>1, <1>2, <1>3 DEF IInv, ResetExclusive, CountStillTrue, ClearedStaysEmpty

\* Every program counter and status an action assigns is of its type, and
\* none but those of upload() obliges the job to be active.
LEMMA ControlValues ==
  /\ {"stream", "digest", "enqueue", "ready", "reading", "adding", "saving", "addingLast",
      "finalSave", "done"} \subseteq WorkAt
  /\ {"uploading", "queued", "running", "completed", "cancelled", "failed", "none"} \subseteq Status
  /\ {"uploading", "queued", "running"} \subseteq Active
  /\ {"ready", "reading", "adding", "saving", "addingLast", "finalSave", "done"} \cap Uploading = {}
  BY DEF WorkAt, Uploading, Importing, Status, Active, Final

LEMMA ReceptionKeepsIInv ==
  ASSUME IInv, DatagramReceived \/ HandleTcp \/ ConsumeStep \/ (\E on \in BOOLEAN : UdpControl(on))
  PROVE  IInv'
  <1> USE RuntimeAssumption DEF RuntimeAssumption, IInv, TypeOK, PurgeHoldsLock, UploadsActive,
        ResetExclusive, CountStillTrue, ClearedStaysEmpty, ConfirmedTotal, Resetting, Holds,
        switches, resets, files, ingest
  <1>1. ASSUME NEW n \in Nat, Enqueue(n) PROVE IInv'
    BY <1>1 DEF Enqueue
  <1>2. ASSUME NEW on \in BOOLEAN, UdpControl(on) PROVE IInv'
    BY <1>2 DEF UdpControl
  <1>3. CASE Consume
    BY <1>3 DEF Consume
  <1>4. CASE ConsumeAdd
    BY <1>4 DEF ConsumeAdd
  <1>5. CASE ConsumeDone
    BY <1>5 DEF ConsumeDone
  <1>. QED  BY <1>1, <1>2, <1>3, <1>4, <1>5 DEF DatagramReceived, HandleTcp, ConsumeStep

-----------------------------------------------------------------------------
(* DELETE /api/data.                                                       *)

\* At most one handler is past its checks, because all of them hold the lock.
LEMMA OneReset ==
  ASSUME IInv, NEW d \in Resetting
  PROVE  /\ Resetting = {d} /\ d \in Deletes /\ lockQ # <<>> /\ Head(lockQ) = d
         /\ \A p \in Purgers : purger[p] # "purging"
         /\ \A j \in Jobs : work[j].at \notin Uploading
  BY DEF IInv, ResetExclusive, Holds, Resetting, Uploading

\* Leaving the handler ends the only reset and hands the lock on.
LEMMA LeaveKeepsIInv ==
  ASSUME IInv, NEW d \in Resetting, DeleteLeave(d), jobs' \in [Jobs -> JobState],
         UNCHANGED <<ingest, enabled, purger, work, jobsDb, stored, crashes>>
  PROVE  IInv'
  <1> USE DEF IInv
  <1>1. TypeOK'
    <2>1. lockQ' \in Seq(Deletes \cup Purgers)
      BY OneReset DEF DeleteLeave, Release, TypeOK
    <2>2. del' \in [Deletes -> DeleteState]
      BY DEF DeleteLeave, TypeOK, IdleDelete, DeleteState
    <2>3. maintenance' \in BOOLEAN
      BY DEF DeleteLeave
    <2>. QED  BY <2>1, <2>2, <2>3 DEF TypeOK, ingest
  <1>2. Resetting' = {} /\ \A c \in Deletes : del'[c].at # "clear"
    BY OneReset DEF DeleteLeave, Resetting, IdleDelete, TypeOK
  <1>3. PurgeHoldsLock' /\ UploadsActive'
    BY OneReset DEF PurgeHoldsLock, UploadsActive
  <1>. QED  BY <1>1, <1>2, <1>3 DEF ResetExclusive, CountStillTrue, ClearedStaysEmpty, ConfirmedTotal

\* A step from one await of the handler to the next.
LEMMA AdvanceKeepsIInv ==
  ASSUME IInv, NEW d \in Resetting, NEW state \in DeleteState,
         state.at \in {"count", "check", "clear", "cleared"},
         del' = [del EXCEPT ![d] = state],
         jobsDb' \in [Jobs -> Status], stored' \in Nat,
         UNCHANGED <<ingest, switches, lockQ, purger, jobs, work, crashes>>,
         queue + batch = 0,
         state.at \in {"check", "clear"} => stored' = state.total,
         state.at = "clear" => state.total = state.expected,
         state.at = "cleared" => stored' = 0 /\ \A j \in Jobs : jobsDb'[j] = "none"
  PROVE  IInv'
  <1> USE DEF IInv
  <1>1. /\ Resetting' = {d} /\ del'[d] = state /\ \A c \in Deletes \ {d} : del'[c].at # "clear"
    BY OneReset DEF Resetting, TypeOK
  <1>2. TypeOK'
    BY OneReset DEF TypeOK, ingest, switches
  <1>3. PurgeHoldsLock' /\ UploadsActive'
    BY OneReset DEF PurgeHoldsLock, UploadsActive
  <1>4. ResetExclusive'
    BY <1>1 DEF ResetExclusive, Holds, switches
  <1>. QED  BY <1>1, <1>2, <1>3, <1>4 DEF CountStillTrue, ClearedStaysEmpty, ConfirmedTotal, ingest

LEMMA DeleteKeepsIInv ==
  ASSUME IInv, NEW d \in Deletes,
         DeleteStep(d) \/ (\E e \in Confirmable : DeleteRequest(d, e))
  PROVE  IInv'
  <1> USE DEF IInv
  <1>1. ASSUME NEW e \in Confirmable, DeleteRequest(d, e) PROVE IInv'
    <2>1. TypeOK'
      BY <1>1, RuntimeAssumption
      DEF DeleteRequest, Acquire, RuntimeAssumption, TypeOK, DeleteState, ingest, switches, files
    <2>2. /\ Resetting' = Resetting
          /\ \A c \in Resetting : del'[c] = del[c]
          /\ \A c \in Deletes : del'[c].at = "clear" => del'[c] = del[c]
      BY <1>1 DEF DeleteRequest, Resetting, TypeOK
    <2>3. \A q \in Deletes \cup Purgers : Holds(q) => Holds(q)'
      BY <1>1 DEF DeleteRequest, Acquire, Holds, TypeOK
    <2>4. PurgeHoldsLock' /\ UploadsActive' /\ ConfirmedTotal'
      BY <1>1, <2>2, <2>3 DEF DeleteRequest, PurgeHoldsLock, UploadsActive, ConfirmedTotal, files
    <2>5. ResetExclusive'
      BY <1>1, <2>2, <2>3 DEF DeleteRequest, ResetExclusive, Resetting, files, switches
    <2>6. CountStillTrue' /\ ClearedStaysEmpty'
      BY <1>1, <2>2 DEF DeleteRequest, CountStillTrue, ClearedStaysEmpty, files, ingest
    <2>. QED  BY <2>1, <2>4, <2>5, <2>6
  <1>2. CASE DeleteBegin(d)
    <2>0. /\ d \notin Resetting /\ Resetting = {}
          /\ \A p \in Purgers : purger[p] # "purging"
      BY <1>2, RuntimeAssumption
      DEF DeleteBegin, Resetting, ResetExclusive, PurgeHoldsLock, Holds, RuntimeAssumption
    <2>1. CASE del' = [del EXCEPT ![d] = IdleDelete] /\ Release /\ UNCHANGED switches
      <3>1. Resetting' = {} /\ \A c \in Deletes : del'[c].at = "clear" => del'[c] = del[c]
        BY <2>0, <2>1 DEF Resetting, TypeOK, IdleDelete
      <3>2. TypeOK'
        BY <1>2, <2>1 DEF DeleteBegin, Holds, Release, TypeOK, IdleDelete, DeleteState, switches, ingest, files
      <3>3. PurgeHoldsLock' /\ UploadsActive' /\ ConfirmedTotal'
        BY <1>2, <2>0, <3>1 DEF DeleteBegin, PurgeHoldsLock, UploadsActive, ConfirmedTotal, files
      <3>. QED  BY <3>1, <3>2, <3>3 DEF ResetExclusive, CountStillTrue, ClearedStaysEmpty
    <2>2. CASE /\ ActiveJobs = {} /\ ImportTasks = {}
               /\ del' = [del EXCEPT ![d].at = "join"]
               /\ maintenance' = TRUE /\ enabled' = FALSE /\ UNCHANGED lockQ
      <3>1. /\ Resetting' = {d} /\ del'[d].at = "join"
            /\ \A c \in Deletes : del'[c].at = "clear" => del'[c] = del[c]
        BY <2>0, <2>2 DEF Resetting, TypeOK, DeleteState
      <3>2. TypeOK'
        BY <1>2, <2>2 DEF DeleteBegin, TypeOK, DeleteState, ingest, files
      <3>3. PurgeHoldsLock' /\ UploadsActive' /\ ConfirmedTotal'
        BY <1>2, <2>0, <3>1 DEF DeleteBegin, PurgeHoldsLock, UploadsActive, ConfirmedTotal, files
      <3>4. \A j \in Jobs : work[j].at \in {"none", "done"}
        BY <2>2 DEF ActiveJobs, ImportTasks, UploadsActive, TypeOK, WorkState, WorkAt
      <3>5. ResetExclusive'
        BY <1>2, <2>0, <2>2, <3>1, <3>4 DEF DeleteBegin, ResetExclusive, Holds, files
      <3>. QED  BY <3>1, <3>2, <3>3, <3>5 DEF CountStillTrue, ClearedStaysEmpty
    <2>. QED  BY <1>2, <2>1, <2>2 DEF DeleteBegin
  <1> DEFINE To(s) == del' = [del EXCEPT ![d].at = s]
  <1>a. ASSUME NEW s \in {"count", "clear", "cleared"}, To(s)
        PROVE  LET new == [del[d] EXCEPT !.at = s] IN
               /\ del' = [del EXCEPT ![d] = new] /\ new \in DeleteState /\ new.at = s
               /\ new.total = del[d].total /\ new.expected = del[d].expected
    BY <1>a DEF TypeOK, DeleteState
  <1>b. ASSUME d \in Resetting, DeleteLeave(d),
               UNCHANGED <<ingest, enabled, purger, work, jobs, jobsDb, stored, crashes>>
        PROVE  IInv'
    BY <1>b, LeaveKeepsIInv DEF TypeOK
  <1>3. CASE DeleteJoin(d)
    <2>1. d \in Resetting
      BY <1>3 DEF DeleteJoin, Resetting
    <2>2. CASE DeleteLeave(d)
      BY <1>3, <1>b, <2>1, <2>2 DEF DeleteJoin, files
    <2>3. CASE queue + batch = 0 /\ To("count") /\ UNCHANGED <<lockQ, maintenance>>
      BY <1>3, <1>a, <2>1, <2>3, AdvanceKeepsIInv DEF DeleteJoin, files, switches, TypeOK
    <2>. QED  BY <1>3, <2>2, <2>3 DEF DeleteJoin
  <1>4. CASE DeleteCount(d)
    <2>1. d \in Resetting /\ queue + batch = 0
      BY <1>4 DEF DeleteCount, Resetting, CountStillTrue
    <2>2. CASE DeleteLeave(d)
      BY <1>4, <1>b, <2>1, <2>2 DEF DeleteCount, files
    <2>3. CASE /\ del' = [del EXCEPT ![d].at = "check", ![d].total = stored]
               /\ UNCHANGED <<lockQ, maintenance>>
      <3> DEFINE new == [del[d] EXCEPT !.at = "check", !.total = stored]
      <3>1. del' = [del EXCEPT ![d] = new] /\ new \in DeleteState /\ new.at = "check" /\ new.total = stored
        BY <2>3 DEF TypeOK, DeleteState
      <3>. QED  BY <1>4, <2>1, <2>3, <3>1, AdvanceKeepsIInv DEF DeleteCount, files, switches, TypeOK
    <2>. QED  BY <1>4, <2>2, <2>3 DEF DeleteCount
  <1>5. CASE DeleteCheck(d)
    <2>1. d \in Resetting /\ queue + batch = 0 /\ stored = del[d].total
      BY <1>5 DEF DeleteCheck, Resetting, CountStillTrue
    <2>2. CASE DeleteLeave(d)
      BY <1>5, <1>b, <2>1, <2>2 DEF DeleteCheck, files
    <2>3. CASE /\ del[d].total = del[d].expected
               /\ To("clear") /\ UNCHANGED <<lockQ, maintenance>>
      BY <1>5, <1>a, <2>1, <2>3, AdvanceKeepsIInv DEF DeleteCheck, files, switches, TypeOK
    <2>. QED  BY <1>5, <2>2, <2>3 DEF DeleteCheck
  <1>6. CASE DeleteClear(d)
    <2>1. d \in Resetting /\ queue + batch = 0
      BY <1>6 DEF DeleteClear, Resetting, CountStillTrue
    <2>2. CASE DeleteLeave(d) /\ UNCHANGED <<stored, jobsDb>>
      BY <1>6, <1>b, <2>1, <2>2 DEF DeleteClear
    <2>3. CASE /\ stored' = 0 /\ jobsDb' = [j \in Jobs |-> "none"]
               /\ To("cleared") /\ UNCHANGED <<lockQ, maintenance>>
      <3>1. jobsDb' \in [Jobs -> Status] /\ \A j \in Jobs : jobsDb'[j] = "none"
        BY <2>3, ControlValues
      <3>. QED  BY <1>6, <1>a, <2>1, <2>3, <3>1, AdvanceKeepsIInv DEF DeleteClear, switches
    <2>. QED  BY <1>6, <2>2, <2>3 DEF DeleteClear
  <1>7. CASE DeleteFinish(d)
    <2>1. d \in Resetting
      BY <1>7 DEF DeleteFinish, Resetting
    <2>2. jobs' \in [Jobs -> JobState]
      BY <1>7, ControlValues DEF DeleteFinish, NoJob, JobState
    <2>. QED  BY <1>7, <2>1, <2>2, LeaveKeepsIInv DEF DeleteFinish
  <1>. QED  BY <1>1, <1>2, <1>3, <1>4, <1>5, <1>6, <1>7 DEF DeleteStep

LEMMA PurgeKeepsIInv ==
  ASSUME IInv, NEW p \in Purgers, PurgeRequest(p) \/ PurgeStep(p) \/ PurgeChunk(p)
  PROVE  IInv'
  <1> USE RuntimeAssumption DEF RuntimeAssumption, IInv, TypeOK, PurgeHoldsLock, UploadsActive,
        ResetExclusive, CountStillTrue, ClearedStaysEmpty, ConfirmedTotal, Resetting, Holds,
        switches, resets, files, ingest
  <1>1. CASE PurgeRequest(p)
    BY <1>1 DEF PurgeRequest, Acquire
  <1>2. CASE PurgeBegin(p)
    <2>1. CASE maintenance
      <3>1. Resetting = {} /\ \A q \in Purgers : purger[q] # "purging"
        BY <1>2, RuntimeAssumption DEF PurgeBegin, Holds, Resetting, RuntimeAssumption
      <3>2. TypeOK'
        <4>1. lockQ' \in Seq(Deletes \cup Purgers)
          BY <1>2, <2>1 DEF PurgeBegin, Release
        <4>2. purger' \in [Purgers -> {"idle", "waiting", "purging"}]
          BY <1>2, <2>1 DEF PurgeBegin
        <4>. QED  BY <1>2, <2>1, <4>1, <4>2 DEF PurgeBegin
      <3>3. purger' = [purger EXCEPT ![p] = "idle"] /\ UNCHANGED <<ingest, switches, del, files, stored, crashes>>
        BY <1>2, <2>1 DEF PurgeBegin
      <3>4. Resetting' = {}
        BY <3>1, <3>3 DEF Resetting
      <3>5. PurgeHoldsLock' /\ UploadsActive' /\ ConfirmedTotal'
        BY <3>1, <3>3 DEF PurgeHoldsLock, UploadsActive, ConfirmedTotal
      <3>. QED  BY <3>2, <3>4, <3>5 DEF ResetExclusive, CountStillTrue, ClearedStaysEmpty
    <2>2. CASE ~maintenance
      BY <1>2, <2>2 DEF PurgeBegin
    <2>. QED  BY <2>1, <2>2
  <1>3. CASE PurgeChunk(p)
    BY <1>3 DEF PurgeChunk
  <1>4. CASE PurgeEnd(p)
    BY <1>4 DEF PurgeEnd, Release
  <1>. QED  BY <1>1, <1>2, <1>3, <1>4 DEF PurgeStep

-----------------------------------------------------------------------------
(* Uploads and imports.                                                    *)

\* A step that leaves the handlers, the lock and the switches alone keeps
\* every conjunct about a reset when no reset is under way.
LEMMA NoResetFrame ==
  ASSUME IInv, Resetting = {}, UNCHANGED <<ingest, switches, resets>>
  PROVE  /\ PurgeHoldsLock' /\ ResetExclusive' /\ CountStillTrue'
         /\ ClearedStaysEmpty' /\ ConfirmedTotal'
  <1>1. Resetting' = {}
    BY DEF resets, Resetting
  <1>2. PurgeHoldsLock' /\ ConfirmedTotal'
    BY DEF IInv, resets, PurgeHoldsLock, ConfirmedTotal, Holds
  <1>. QED  BY <1>1, <1>2 DEF ResetExclusive, CountStillTrue, ClearedStaysEmpty

\* What At and SetStatus change.
LEMMA AtResult ==
  ASSUME work \in [Jobs -> WorkState], NEW j \in Jobs, NEW pc \in WorkAt, At(j, pc)
  PROVE  /\ work' \in [Jobs -> WorkState]
         /\ work'[j].at = pc
         /\ \A i \in Jobs \ {j} : work'[i] = work[i]
  BY DEF At, WorkState

LEMMA SetStatusResult ==
  ASSUME jobs \in [Jobs -> JobState], NEW j \in Jobs, NEW st \in Status, SetStatus(j, st)
  PROVE  /\ jobs' \in [Jobs -> JobState]
         /\ jobs'[j].status = st
         /\ \A i \in Jobs \ {j} : jobs'[i] = jobs[i]
  BY DEF SetStatus, JobState

LEMMA FilesKeepIInv ==
  ASSUME IInv, NEW j \in Jobs, UploadBegin(j) \/ UploadStep(j) \/ CancelJob(j) \/ ImportStep(j)
  PROVE  IInv'
  <1> USE ControlValues DEF IInv
  <1>0. ASSUME work[j].at \notin {"none", "done"} PROVE Resetting = {}
    BY <1>0 DEF ResetExclusive
  <1>1. CASE UploadBegin(j)
    <2>1. Resetting = {}
      BY <1>1 DEF UploadBegin, ResetExclusive
    <2>2. TypeOK'
      BY <1>1, AtResult, SetStatusResult DEF UploadBegin, TypeOK, JobState, ingest, switches, resets
    <2>3. UploadsActive'
      <3>1. jobs'[j].status = "uploading" /\ \A i \in Jobs \ {j} : jobs'[i] = jobs[i] /\ work'[i] = work[i]
        BY <1>1, AtResult, SetStatusResult DEF UploadBegin, TypeOK
      <3>. QED  BY <3>1 DEF UploadsActive
    <2>. QED  BY <1>1, <2>1, <2>2, <2>3, NoResetFrame DEF UploadBegin
  <1>2. CASE UploadStream(j)
    <2>1. Resetting = {}
      BY <1>0, <1>2 DEF UploadStream
    <2>2. TypeOK'
      <3>1. NoJob \in JobState
        BY DEF NoJob, JobState
      <3>2. jobs' \in [Jobs -> JobState]
        BY <1>2, <3>1 DEF UploadStream, TypeOK
      <3>3. work' \in [Jobs -> WorkState]
        BY <1>2, AtResult DEF UploadStream, TypeOK
      <3>. QED  BY <1>2, <3>2, <3>3 DEF UploadStream, TypeOK, ingest, switches, resets
    <2>3. UploadsActive'
      <3>1. CASE At(j, "digest") /\ UNCHANGED jobs
        BY <1>2, <3>1, AtResult DEF UploadStream, TypeOK, UploadsActive, Uploading
      <3>2. CASE At(j, "done") /\ jobs' = [jobs EXCEPT ![j] = NoJob]
        BY <3>2, AtResult DEF TypeOK, UploadsActive
      <3>. QED  BY <1>2, <3>1, <3>2 DEF UploadStream
    <2>. QED  BY <1>2, <2>1, <2>2, <2>3, NoResetFrame DEF UploadStream
  <1>3. CASE UploadDigest(j)
    <2>1. Resetting = {}
      BY <1>0, <1>3 DEF UploadDigest
    <2>2. TypeOK'
      BY <1>3, AtResult, SetStatusResult DEF UploadDigest, TypeOK, JobState, ingest, switches, resets
    <2>3. UploadsActive'
      BY <1>3, AtResult, SetStatusResult DEF UploadDigest, TypeOK, UploadsActive, JobState
    <2>. QED  BY <1>3, <2>1, <2>2, <2>3, NoResetFrame DEF UploadDigest
  <1>4. CASE UploadEnqueue(j)
    <2>1. Resetting = {}
      BY <1>0, <1>4 DEF UploadEnqueue
    <2>2. TypeOK'
      BY <1>4, AtResult, SetStatusResult DEF UploadEnqueue, TypeOK, JobState, ingest, switches, resets
    <2>3. UploadsActive'
      BY <1>4, AtResult, SetStatusResult DEF UploadEnqueue, TypeOK, UploadsActive, JobState
    <2>. QED  BY <1>4, <2>1, <2>2, <2>3, NoResetFrame DEF UploadEnqueue
  <1>5. CASE CancelJob(j)
    <2>2. TypeOK'
      <3>1. jobs' = [jobs EXCEPT ![j].cancel = TRUE] /\ jobs \in [Jobs -> JobState]
        BY <1>5 DEF CancelJob, TypeOK
      <3>2. jobs' \in [Jobs -> JobState]
        BY <3>1 DEF JobState
      <3>. QED  BY <1>5, <3>2 DEF CancelJob, TypeOK, ingest, switches, resets
    <2>3. UploadsActive'
      BY <1>5, AtResult, SetStatusResult DEF CancelJob, TypeOK, UploadsActive, JobState
    <2>4. /\ PurgeHoldsLock' /\ ResetExclusive' /\ CountStillTrue'
          /\ ClearedStaysEmpty' /\ ConfirmedTotal'
      BY <1>5 DEF CancelJob, PurgeHoldsLock, ResetExclusive, CountStillTrue, ClearedStaysEmpty,
            ConfirmedTotal, Resetting, Holds, ingest, switches, resets
    <2>. QED  BY <2>2, <2>3, <2>4
  <1>6. CASE ImportStart(j)
    <2>1. Resetting = {}
      BY <1>0, <1>6 DEF ImportStart
    <2>2. TypeOK'
      BY <1>6, AtResult, SetStatusResult DEF ImportStart, TypeOK, JobState, ingest, switches, resets
    <2>3. UploadsActive'
      BY <1>6, AtResult, SetStatusResult DEF ImportStart, TypeOK, UploadsActive, JobState
    <2>. QED  BY <1>6, <2>1, <2>2, <2>3, NoResetFrame DEF ImportStart
  <1>7. CASE ImportRead(j)
    <2>1. Resetting = {}
      BY <1>0, <1>7 DEF ImportRead
    <2>2. TypeOK'
      <3>1. work' \in [Jobs -> WorkState]
        <4> DEFINE new == [at |-> IF work[j].buffered + 1 >= ImportBatch THEN "adding" ELSE "reading",
                           read |-> work[j].read + 1, buffered |-> work[j].buffered + 1]
        <4>1. work[j] \in WorkState
          BY DEF TypeOK
        <4>2. new \in WorkState
          BY <4>1 DEF WorkState
        <4>3. work' = [work EXCEPT ![j] = new]
          BY <1>7 DEF ImportRead
        <4>. QED  BY <4>2, <4>3 DEF TypeOK
      <3>. QED  BY <1>7, <3>1 DEF ImportRead, TypeOK, ingest, switches, resets
    <2>3. UploadsActive'
      BY <1>7, AtResult, SetStatusResult DEF ImportRead, Importing, WorkState, TypeOK, UploadsActive, JobState
    <2>. QED  BY <1>7, <2>1, <2>2, <2>3, NoResetFrame DEF ImportRead
  <1>8. CASE ImportStop(j)
    <2>1. Resetting = {}
      BY <1>0, <1>8 DEF ImportStop
    <2>2. TypeOK'
      BY <1>8, AtResult, SetStatusResult DEF ImportStop, Outcome, TypeOK, JobState, ingest, switches, resets
    <2>3. UploadsActive'
      BY <1>8, AtResult, SetStatusResult DEF ImportStop, Outcome, TypeOK, UploadsActive, JobState
    <2>. QED  BY <1>8, <2>1, <2>2, <2>3, NoResetFrame DEF ImportStop
  <1>9. CASE ImportAdd(j)
    <2>1. Resetting = {}
      BY <1>0, <1>9 DEF ImportAdd
    <2>2. TypeOK'
      <3>1. work' \in [Jobs -> WorkState] /\ stored' \in Nat
        <4> DEFINE new == [at |-> IF work[j].at = "adding" THEN "saving" ELSE "finalSave",
                           read |-> work[j].read, buffered |-> 0]
        <4>1. work[j] \in WorkState
          BY DEF TypeOK
        <4>2. new \in WorkState /\ work[j].buffered \in Nat
          BY <4>1 DEF WorkState
        <4>3. work' = [work EXCEPT ![j] = new]
          BY <1>9, <4>1 DEF ImportAdd, WorkState, TypeOK
        <4>. QED  BY <1>9, <4>2, <4>3 DEF ImportAdd, TypeOK
      <3>2. jobs' \in [Jobs -> JobState]
        BY <1>9, SetStatusResult DEF ImportAdd, Outcome, TypeOK
      <3>. QED  BY <1>9, <3>1, <3>2 DEF ImportAdd, TypeOK, ingest, switches, resets
    <2>3. UploadsActive'
      BY <1>9, AtResult, SetStatusResult DEF ImportAdd, Outcome, Importing, TypeOK, UploadsActive, JobState
    <2>. QED  BY <1>9, <2>1, <2>2, <2>3, NoResetFrame DEF ImportAdd
  <1>10. CASE ImportSave(j)
    <2>1. Resetting = {}
      BY <1>0, <1>10 DEF ImportSave
    <2>2. TypeOK'
      BY <1>10, AtResult, SetStatusResult DEF ImportSave, SaveJob, TypeOK, JobState, ingest, switches, resets
    <2>3. UploadsActive'
      BY <1>10, AtResult, SetStatusResult DEF ImportSave, SaveJob, TypeOK, UploadsActive, JobState
    <2>. QED  BY <1>10, <2>1, <2>2, <2>3, NoResetFrame DEF ImportSave
  <1>11. CASE ImportFail(j)
    <2>1. Resetting = {}
      BY <1>0, <1>11 DEF ImportFail
    <2>2. TypeOK'
      BY <1>11, AtResult, SetStatusResult DEF ImportFail, TypeOK, JobState, ingest, switches, resets
    <2>3. UploadsActive'
      BY <1>11, AtResult, SetStatusResult DEF ImportFail, TypeOK, UploadsActive, JobState
    <2>. QED  BY <1>11, <2>1, <2>2, <2>3, NoResetFrame DEF ImportFail
  <1>12. CASE ImportFinalSave(j)
    <2>1. Resetting = {}
      BY <1>0, <1>12 DEF ImportFinalSave
    <2>2. TypeOK'
      BY <1>12, AtResult, SetStatusResult DEF ImportFinalSave, SaveJob, TypeOK, JobState, ingest, switches, resets
    <2>3. UploadsActive'
      BY <1>12, AtResult, SetStatusResult DEF ImportFinalSave, SaveJob, TypeOK, UploadsActive, JobState
    <2>. QED  BY <1>12, <2>1, <2>2, <2>3, NoResetFrame DEF ImportFinalSave
  <1>. QED  BY <1>1, <1>2, <1>3, <1>4, <1>5, <1>6, <1>7, <1>8, <1>9, <1>10, <1>11, <1>12
            DEF UploadStep, UploadArrived, ImportStep

LEMMA CrashKeepsIInv ==
  ASSUME IInv, CrashRestart
  PROVE  IInv'
  <1>1. TypeOK'
    <2> USE RuntimeAssumption DEF RuntimeAssumption, IInv, TypeOK, CrashRestart
    <2>1. jobsDb' \in [Jobs -> Status] /\ jobs' \in [Jobs -> JobState]
      BY DEF Restarted, JobState, Status, Final
    <2>2. work' \in [Jobs -> WorkState]
      BY ControlValues DEF WorkState
    <2>3. del' \in [Deletes -> DeleteState]
      BY DEF IdleDelete, DeleteState
    <2>4. lockQ' \in Seq(Deletes \cup Purgers)
      OBVIOUS
    <2>5. /\ queue' \in 0..QueueSize /\ batch' \in 0..BatchMax /\ crashes' \in 0..MaxCrashes
          /\ stored' \in Nat
      OBVIOUS
    <2>6. enabled' \in BOOLEAN /\ maintenance' \in BOOLEAN
      OBVIOUS
    <2>7. purger' \in [Purgers -> {"idle", "waiting", "purging"}]
      OBVIOUS
    <2>8. consumer' = "idle"
      OBVIOUS
    <2>. QED  BY <2>1, <2>2, <2>3, <2>4, <2>5, <2>6, <2>7, <2>8 DEF TypeOK
  <1>2. Resetting' = {} /\ ConfirmedTotal' /\ PurgeHoldsLock'
    BY DEF CrashRestart, Resetting, IdleDelete, ConfirmedTotal, PurgeHoldsLock
  <1>3. UploadsActive'
    BY DEF CrashRestart, UploadsActive, Uploading
  <1>. QED  BY <1>1, <1>2, <1>3 DEF IInv, ResetExclusive, CountStillTrue, ClearedStaysEmpty

-----------------------------------------------------------------------------
(* Theorems.                                                               *)

LEMMA NextKeepsIInv == IInv /\ [Next]_vars => IInv'
  <1> SUFFICES ASSUME IInv, [Next]_vars PROVE IInv'
    OBVIOUS
  <1>1. CASE DatagramReceived \/ HandleTcp \/ ConsumeStep \/ (\E on \in BOOLEAN : UdpControl(on))
    BY <1>1, ReceptionKeepsIInv
  <1>2. ASSUME NEW d \in Deletes, DeleteStep(d) \/ (\E e \in Confirmable : DeleteRequest(d, e))
        PROVE  IInv'
    BY <1>2, DeleteKeepsIInv
  <1>3. ASSUME NEW p \in Purgers, PurgeRequest(p) \/ PurgeStep(p) \/ PurgeChunk(p) PROVE IInv'
    BY <1>3, PurgeKeepsIInv
  <1>4. ASSUME NEW j \in Jobs, UploadBegin(j) \/ UploadStep(j) \/ CancelJob(j) \/ ImportStep(j)
        PROVE  IInv'
    BY <1>4, FilesKeepIInv
  <1>5. CASE CrashRestart
    BY <1>5, CrashKeepsIInv
  <1>6. CASE UNCHANGED vars
    BY <1>6 DEF vars, ingest, switches, resets, files, IInv, TypeOK, PurgeHoldsLock, UploadsActive,
                ResetExclusive, CountStillTrue, ClearedStaysEmpty, ConfirmedTotal, Resetting, Holds
  <1>. QED  BY <1>1, <1>2, <1>3, <1>4, <1>5, <1>6 DEF Next

\* The inductive invariant holds of every behaviour.
THEOREM Inductive == Spec => []IInv
  BY InitIInv, NextKeepsIInv, PTL DEF Spec

\* Every variable keeps its type: the queue and the batch stay within their
\* bounds, and reset_lock is never released by someone who does not hold it.
THEOREM TypeCorrect == Spec => []TypeOK
  <1>1. IInv => TypeOK
    BY DEF IInv
  <1>. QED  BY Inductive, <1>1, PTL

\* delete_data() past its checks excludes uploads, imports, purges and
\* reception, for any number of concurrent requests.
THEOREM ResetIsExclusive == Spec => []ResetExclusive
  <1>1. IInv => ResetExclusive
    BY DEF IInv
  <1>. QED  BY Inductive, <1>1, PTL

\* The total store.stats() returned is still true when store.clear() runs.
THEOREM CountIsStillTrue == Spec => []CountStillTrue
  <1>1. IInv => CountStillTrue
    BY DEF IInv
  <1>. QED  BY Inductive, <1>1, PTL

\* Nothing is stored or saved between the deletion and the end of the handler.
THEOREM ClearedIsEmpty == Spec => []ClearedStaysEmpty
  <1>1. IInv => ClearedStaysEmpty
    BY DEF IInv
  <1>. QED  BY Inductive, <1>1, PTL

\* The refinement, action by action.  Whoever stores or removes rows does so
\* while nothing is pledged.
LEMMA NothingPledged ==
  ASSUME IInv, Resetting = {} \/ batch > 0
  PROVE  Pledged = {}
  BY DEF IInv, TypeOK, Resetting, CountStillTrue, Pledged

LEMMA ReceptionRefines ==
  ASSUME IInv, DatagramReceived \/ HandleTcp \/ ConsumeStep \/ (\E on \in BOOLEAN : UdpControl(on))
  PROVE  [H!Next]_(H!vars)
  <1>1. CASE DatagramReceived \/ HandleTcp \/ (\E on \in BOOLEAN : UdpControl(on)) \/ Consume \/ ConsumeDone
    BY <1>1 DEF DatagramReceived, HandleTcp, Enqueue, UdpControl, Consume, ConsumeDone, resets, H!vars, Pledged
  <1>2. CASE ConsumeAdd
    <2>1. UNCHANGED Pledged /\ stored \in Nat /\ batch \in Nat
      BY <1>2, RuntimeAssumption DEF ConsumeAdd, resets, IInv, TypeOK, RuntimeAssumption, Pledged
    <2>2. CASE stored' = stored
      BY <2>1, <2>2 DEF H!vars
    <2>3. CASE stored' = stored + batch /\ batch > 0
      BY <2>1, <2>3, NothingPledged DEF H!Next, H!Record
    <2>. QED
      BY <1>2, <2>1, <2>2, <2>3 DEF ConsumeAdd
  <1>. QED  BY <1>1, <1>2 DEF ConsumeStep

LEMMA DeleteRefines ==
  ASSUME IInv, NEW d \in Deletes,
         DeleteStep(d) \/ (\E e \in Confirmable : DeleteRequest(d, e))
  PROVE  [H!Next]_(H!vars)
  <1>0. del \in [Deletes -> DeleteState] /\ stored \in Nat
    BY DEF IInv, TypeOK
  <1>1. CASE \E e \in Confirmable : DeleteRequest(d, e)
    BY <1>0, <1>1 DEF DeleteRequest, H!vars, Pledged
  <1>2. CASE DeleteBegin(d)
    BY <1>0, <1>2 DEF DeleteBegin, IdleDelete, H!vars, Pledged, DeleteState
  <1>3. CASE DeleteJoin(d) \/ DeleteCount(d) \/ DeleteFinish(d)
    <2>1. del[d].at # "clear" /\ del'[d].at # "clear" /\ stored' = stored
          /\ \A c \in Deletes \ {d} : del'[c] = del[c]
      BY <1>0, <1>3 DEF DeleteJoin, DeleteCount, DeleteFinish, DeleteLeave, IdleDelete, DeleteState
    <2>. QED  BY <2>1 DEF H!vars, Pledged
  <1>4. CASE DeleteCheck(d)
    <2>1. Resetting = {d} /\ stored = del[d].total /\ stored' = stored
      BY <1>4, OneReset DEF DeleteCheck, Resetting, IInv, CountStillTrue
    <2>2. Pledged = {}
      BY <1>4, <2>1 DEF DeleteCheck, Pledged, Resetting
    <2>3. CASE DeleteLeave(d)
      BY <1>0, <2>1, <2>2, <2>3 DEF DeleteLeave, IdleDelete, H!vars, Pledged
    <2>4. CASE del[d].total = del[d].expected /\ del' = [del EXCEPT ![d].at = "clear"]
      <3>1. Pledged' = {stored}
        <4>1. del'[d].at = "clear" /\ del'[d].expected = stored
          BY <1>0, <2>1, <2>4 DEF DeleteState
        <4>2. \A c \in Deletes \ {d} : del'[c].at # "clear"
          BY <1>0, <2>1, <2>4 DEF Resetting
        <4>. QED  BY <4>1, <4>2 DEF Pledged
      <3>. QED  BY <2>1, <2>2, <3>1 DEF H!Next, H!Pledge
    <2>. QED  BY <1>4, <2>3, <2>4 DEF DeleteCheck
  <1>5. CASE DeleteClear(d)
    <2>1. Resetting = {d} /\ del[d].expected = stored
      BY <1>5, OneReset DEF DeleteClear, Resetting, IInv, CountStillTrue, ConfirmedTotal
    <2>2. Pledged = {stored}
      BY <1>5, <2>1 DEF DeleteClear, Pledged, Resetting
    <2>3. Pledged' = {}
      <3>1. \A c \in Deletes : del'[c].at # "clear"
        BY <1>0, <1>5, <2>1 DEF DeleteClear, DeleteLeave, IdleDelete, Resetting, DeleteState
      <3>. QED  BY <3>1 DEF Pledged
    <2>. QED  BY <1>5, <2>2, <2>3 DEF DeleteClear, H!Next, H!Clear, H!Withdraw
  <1>. QED  BY <1>1, <1>2, <1>3, <1>4, <1>5 DEF DeleteStep

LEMMA PurgeRefines ==
  ASSUME IInv, NEW p \in Purgers, PurgeRequest(p) \/ PurgeStep(p) \/ PurgeChunk(p)
  PROVE  [H!Next]_(H!vars)
  <1>1. CASE PurgeRequest(p) \/ PurgeStep(p)
    BY <1>1 DEF PurgeRequest, PurgeStep, PurgeBegin, PurgeEnd, H!vars, Pledged
  <1>2. CASE PurgeChunk(p)
    <2>1. Pledged = {} /\ UNCHANGED Pledged
      <3>1. Resetting = {}
        BY <1>2 DEF PurgeChunk, IInv, ResetExclusive
      <3>. QED  BY <1>2, <3>1, NothingPledged DEF PurgeChunk, resets, Pledged
    <2>2. stored' \in 0..stored
      BY <1>2 DEF PurgeChunk, IInv, TypeOK
    <2>. QED  BY <2>1, <2>2 DEF H!Next, H!Expire
  <1>. QED  BY <1>1, <1>2

LEMMA FilesRefine ==
  ASSUME IInv, NEW j \in Jobs, UploadBegin(j) \/ UploadStep(j) \/ CancelJob(j) \/ ImportStep(j)
  PROVE  [H!Next]_(H!vars)
  <1>1. UNCHANGED Pledged
    BY DEF UploadBegin, UploadStep, UploadStream, UploadArrived, UploadDigest, UploadEnqueue, CancelJob, ImportStep,
           ImportStart, ImportRead, ImportStop, ImportAdd, ImportSave, ImportFail, ImportFinalSave,
           resets, Pledged
  <1>2. CASE ImportAdd(j)
    <2>1. Pledged = {}
      <3>1. Resetting = {}
        BY <1>2 DEF ImportAdd, IInv, ResetExclusive
      <3>. QED  BY <3>1, NothingPledged
    <2>2. stored \in Nat /\ work[j].buffered \in Nat /\ stored' = stored + work[j].buffered
      BY <1>2 DEF ImportAdd, IInv, TypeOK, WorkState
    <2>. QED  BY <1>1, <2>1, <2>2 DEF H!Next, H!Record, H!vars
  <1>3. CASE ~ImportAdd(j)
    <2>1. UNCHANGED stored
      BY <1>3 DEF UploadBegin, UploadStep, UploadStream, UploadArrived, UploadDigest, UploadEnqueue, CancelJob,
                  ImportStep, ImportStart, ImportRead, ImportStop, ImportSave, ImportFail,
                  ImportFinalSave
    <2>. QED  BY <1>1, <2>1 DEF H!vars
  <1>. QED  BY <1>2, <1>3

\* DELETE /api/data deletes exactly the confirmed rows: every step of Runtime
\* is a step of History or leaves its state unchanged.
THEOREM RuntimeImplementsHistory == Spec => DeletesTheConfirmedRows
  <1>1. Init => H!Init
    BY DEF Init, H!Init, IdleDelete, Pledged
  <1>2. IInv /\ [Next]_vars => [H!Next]_(H!vars)
    <2> SUFFICES ASSUME IInv, [Next]_vars PROVE [H!Next]_(H!vars)
      OBVIOUS
    <2>1. CASE DatagramReceived \/ HandleTcp \/ ConsumeStep \/ (\E on \in BOOLEAN : UdpControl(on))
      BY <2>1, ReceptionRefines
    <2>2. ASSUME NEW d \in Deletes, DeleteStep(d) \/ (\E e \in Confirmable : DeleteRequest(d, e))
          PROVE  [H!Next]_(H!vars)
      BY <2>2, DeleteRefines
    <2>3. ASSUME NEW p \in Purgers, PurgeRequest(p) \/ PurgeStep(p) \/ PurgeChunk(p)
          PROVE  [H!Next]_(H!vars)
      BY <2>3, PurgeRefines
    <2>4. ASSUME NEW j \in Jobs, UploadBegin(j) \/ UploadStep(j) \/ CancelJob(j) \/ ImportStep(j)
          PROVE  [H!Next]_(H!vars)
      BY <2>4, FilesRefine
    <2>5. CASE CrashRestart
      <3>1. Pledged' = {}
        BY <2>5 DEF CrashRestart, IdleDelete, Pledged
      <3>. QED  BY <2>5, <3>1 DEF CrashRestart, H!Next, H!Withdraw
    <2>6. CASE UNCHANGED vars
      BY <2>6 DEF vars, resets, H!vars, Pledged
    <2>. QED  BY <2>1, <2>2, <2>3, <2>4, <2>5, <2>6 DEF Next
  <1>. QED  BY <1>1, <1>2, Inductive, PTL DEF Spec, DeletesTheConfirmedRows, H!Spec

-----------------------------------------------------------------------------
(* The records of uploads and imports.                                     *)

\* What state.jobs says of a job, by where the coroutine that serves it is.
StatusFits(j) ==
    LET at == work[j].at  s == jobs[j].status IN
    /\ at = "none" => s = "none"
    /\ at \in {"stream", "digest"} => s = "uploading"
    /\ at \in {"enqueue", "ready"} => s = "queued"
    /\ at \in {"reading", "adding", "saving", "addingLast"} => s = "running"
    /\ at = "finalSave" => s \in {"completed", "cancelled", "failed"}

SomeCleared == \E d \in Deletes : del[d].at = "cleared"

\* What the jobs table says of it.
RecordFits(j) ==
    LET at == work[j].at  s == jobs[j].status  saved == jobsDb[j] IN
    /\ at \in {"none", "stream", "digest", "enqueue"} => saved = "none"
    /\ at \in Importing => saved \in {"queued", "running"}
    /\ at = "done" => saved = s \/ SomeCleared \/ (StorageFails /\ (saved # "none" => s # "none"))
    /\ saved # "none" => s # "none"

\* How much of its file was committed.
RowsFit(j) ==
    /\ "completed" \in {jobs[j].status, jobsDb[j]} => work[j].read = FileRows /\ work[j].buffered = 0
    /\ work[j].at = "addingLast" => jobs[j].cancel \/ work[j].read = FileRows

Tracked(j) == StatusFits(j) /\ RecordFits(j) /\ RowsFit(j)

\* The active jobs, not only the coroutines, respect the limit: a status
\* becomes active in upload() and nowhere else.
SlotsBounded == IsFiniteSet(ActiveJobs) /\ Cardinality(ActiveJobs) <= MaxActive

JobsInv == SlotsBounded /\ \A j \in Jobs : Tracked(j)

\* A job no step touches stays tracked.
LEMMA Untouched ==
  ASSUME NEW i \in Jobs, Tracked(i),
         work'[i] = work[i], jobs'[i] = jobs[i], jobsDb'[i] = jobsDb[i], SomeCleared => SomeCleared'
  PROVE  Tracked(i)'
  BY DEF Tracked, StatusFits, RecordFits, RowsFit

\* No status becomes active.
LEMMA FewerSlots ==
  ASSUME IInv, SlotsBounded, ActiveJobs' \subseteq ActiveJobs
  PROVE  SlotsBounded'
  <1>1. /\ IsFiniteSet(ActiveJobs') /\ Cardinality(ActiveJobs') <= Cardinality(ActiveJobs)
        /\ Cardinality(ActiveJobs) \in Nat /\ Cardinality(ActiveJobs') \in Nat
    BY FS_Subset, FS_CardinalityType DEF SlotsBounded
  <1>. QED  BY <1>1, RuntimeAssumption DEF SlotsBounded, RuntimeAssumption

\* Nothing is uploaded at first.
LEMMA InitJobsInv == Init => JobsInv
  <1> SUFFICES ASSUME Init PROVE JobsInv
    OBVIOUS
  <1>1. ActiveJobs = {}
    BY DEF Init, ActiveJobs, NoJob, Active
  <1>2. SlotsBounded
    BY <1>1, FS_EmptySet, RuntimeAssumption DEF SlotsBounded, RuntimeAssumption
  <1>3. ASSUME NEW j \in Jobs PROVE Tracked(j)
    <2>1. work[j] = NoWork /\ jobs[j] = NoJob /\ jobsDb[j] = "none"
      BY DEF Init
    <2>. QED  BY <2>1 DEF Tracked, StatusFits, RecordFits, RowsFit, NoWork, NoJob, Importing
  <1>. QED  BY <1>2, <1>3 DEF JobsInv

\* One step of the coroutine of job j, or a cancel: what it makes of the job
\* is tracked, and no other job is touched.
LEMMA OneJob ==
  ASSUME IInv, JobsInv, NEW j \in Jobs, Tracked(j)',
         \A i \in Jobs \ {j} : work'[i] = work[i] /\ jobs'[i] = jobs[i] /\ jobsDb'[i] = jobsDb[i],
         jobs'[j].status \in Active => jobs[j].status \in Active,
         UNCHANGED del
  PROVE  JobsInv'
  <1>1. ActiveJobs' \subseteq ActiveJobs
    BY DEF ActiveJobs
  <1>2. SomeCleared => SomeCleared'
    BY DEF SomeCleared
  <1>3. ASSUME NEW i \in Jobs PROVE Tracked(i)'
    BY <1>2, Untouched DEF JobsInv
  <1>. QED  BY <1>1, <1>3, FewerSlots DEF JobsInv

\* Uploads, imports and cancels.
LEMMA FilesKeepJobs ==
  ASSUME IInv, JobsInv, NEW j \in Jobs,
         UploadBegin(j) \/ UploadStep(j) \/ CancelJob(j) \/ ImportStep(j)
  PROVE  JobsInv'
  <1>0. /\ jobs \in [Jobs -> JobState] /\ work \in [Jobs -> WorkState] /\ jobsDb \in [Jobs -> Status]
        /\ jobs[j] \in JobState /\ work[j] \in WorkState
    BY DEF IInv, TypeOK
  <1>00. Tracked(j)
    BY DEF JobsInv
  <1>a. UNCHANGED del
    BY DEF UploadBegin, UploadStep, UploadStream, UploadArrived, UploadDigest, UploadEnqueue, CancelJob, ImportStep,
           ImportStart, ImportRead, ImportStop, ImportAdd, ImportSave, ImportFail, ImportFinalSave, resets
  <1>b. \A i \in Jobs \ {j} : work'[i] = work[i] /\ jobs'[i] = jobs[i] /\ jobsDb'[i] = jobsDb[i]
    BY <1>0 DEF UploadBegin, UploadStep, UploadStream, UploadArrived, UploadDigest, UploadEnqueue, CancelJob, ImportStep,
           ImportStart, ImportRead, ImportStop, ImportAdd, ImportSave, ImportFail, ImportFinalSave, At, SetStatus, SaveJob
  <1>c. "completed" \notin {"none", "uploading", "queued", "running", "cancelled", "failed"}
    OBVIOUS
  <1> DEFINE w == work[j]   s == jobs[j].status   b == jobsDb[j]
             w1 == work'[j] s1 == jobs'[j].status b1 == jobsDb'[j]
  <1> USE DEF Tracked, StatusFits, RecordFits, RowsFit, Importing
  <1>1. CASE UploadBegin(j)
    <2>1. /\ w.at = "none" /\ w1.at = "stream" /\ s1 = "uploading" /\ b1 = b
          /\ w1.read = w.read /\ w1.buffered = w.buffered
      BY <1>0, <1>1 DEF UploadBegin, At, SetStatus, JobState, WorkState
    <2>2. Tracked(j)'
      BY <1>00, <2>1
    <2>3. ActiveJobs' = ActiveJobs \cup {j} /\ j \notin ActiveJobs
      BY <1>00, <1>b, <2>1 DEF ActiveJobs, Active
    <2>4. SlotsBounded'
      <3>1. IsFiniteSet(ActiveJobs) /\ Cardinality(ActiveJobs) \in Nat /\ Cardinality(ActiveJobs) < MaxActive
        BY <1>1, FS_CardinalityType DEF UploadBegin, JobsInv, SlotsBounded
      <3>2. IsFiniteSet(ActiveJobs') /\ Cardinality(ActiveJobs') = Cardinality(ActiveJobs) + 1
        BY <2>3, <3>1, FS_AddElement
      <3>. QED  BY <3>1, <3>2, RuntimeAssumption DEF SlotsBounded, RuntimeAssumption
    <2>5. SomeCleared => SomeCleared'
      BY <1>a DEF SomeCleared
    <2>6. ASSUME NEW i \in Jobs PROVE Tracked(i)'
      BY <1>b, <2>2, <2>5, Untouched DEF JobsInv
    <2>. QED  BY <2>4, <2>6 DEF JobsInv
  <1>2. CASE UploadStream(j)
    <2>1. w.at = "stream"
      BY <1>2 DEF UploadStream
    <2>2. CASE At(j, "digest") /\ UNCHANGED jobs
      <3>1. w1.at = "digest" /\ s1 = s /\ b1 = b
        BY <1>0, <1>2, <2>2 DEF UploadStream, At, WorkState
      <3>2. Tracked(j)' /\ (s1 \in Active => s \in Active)
        BY <1>00, <2>1, <3>1
      <3>. QED  BY <1>a, <1>b, <3>2, OneJob
    <2>3. CASE At(j, "done") /\ jobs' = [jobs EXCEPT ![j] = NoJob]
      <3>1. w1.at = "done" /\ s1 = "none" /\ b1 = b
        BY <1>0, <1>2, <2>3 DEF UploadStream, At, WorkState, NoJob
      <3>2. Tracked(j)' /\ s1 \notin Active
        BY <1>00, <2>1, <3>1 DEF Active
      <3>. QED  BY <1>a, <1>b, <3>2, OneJob
    <2>. QED  BY <1>2, <2>2, <2>3 DEF UploadStream
  <1>3. CASE UploadDigest(j)
    <2>1. w.at = "digest" /\ b1 = b
      BY <1>3 DEF UploadDigest
    <2>2. \/ w1.at = "enqueue" /\ s1 = "queued"
          \/ StorageFails /\ w1.at = "done" /\ s1 = s
      BY <1>0, <1>3 DEF UploadDigest, At, SetStatus, JobState, WorkState
    <2>3. Tracked(j)' /\ s \in Active
      BY <1>00, <2>1, <2>2 DEF Active
    <2>. QED  BY <1>a, <1>b, <2>3, OneJob
  <1>4. CASE UploadEnqueue(j)
    <2>1. w.at = "enqueue" /\ s1 = s
      BY <1>4 DEF UploadEnqueue
    <2>2. \/ w1.at = "ready" /\ b1 = "queued"
          \/ StorageFails /\ w1.at = "done" /\ b1 = b
      BY <1>0, <1>4 DEF UploadEnqueue, At, WorkState
    <2>3. Tracked(j)'
      BY <1>00, <2>1, <2>2
    <2>. QED  BY <1>a, <1>b, <2>1, <2>3, OneJob
  <1>5. CASE CancelJob(j)
    <2>1. w1 = w /\ s1 = s /\ b1 = b /\ jobs'[j].cancel
      BY <1>0, <1>5 DEF CancelJob, JobState
    <2>2. SomeCleared' = SomeCleared
      BY <1>a DEF SomeCleared
    <2>3. Tracked(j)'
      BY <1>00, <2>1, <2>2
    <2>. QED  BY <1>a, <1>b, <2>1, <2>3, OneJob
  <1>6. CASE ImportStart(j)
    <2>1. w.at = "ready" /\ w1.at = "reading" /\ s1 = "running" /\ b1 = b
      BY <1>0, <1>6 DEF ImportStart, At, SetStatus, JobState, WorkState
    <2>2. Tracked(j)' /\ s \in Active
      BY <1>00, <2>1 DEF Active
    <2>. QED  BY <1>a, <1>b, <2>2, OneJob
  <1>7. CASE ImportRead(j)
    <2>1. w.at = "reading" /\ w1.at \in {"adding", "reading"} /\ s1 = s /\ b1 = b
      BY <1>0, <1>7 DEF ImportRead
    <2>2. Tracked(j)' /\ (s1 \in Active => s \in Active)
      BY <1>00, <2>1
    <2>. QED  BY <1>a, <1>b, <2>2, OneJob
  <1>8. CASE ImportStop(j)
    <2>1. w.at = "reading" /\ (jobs[j].cancel \/ w.read = FileRows) /\ b1 = b
          /\ w1.read = w.read /\ w1.buffered = w.buffered /\ jobs'[j].cancel = jobs[j].cancel
      BY <1>0, <1>8 DEF ImportStop, At, SetStatus, JobState, WorkState
    <2>2. CASE w.buffered > 0
      <3>1. w1.at = "addingLast" /\ s1 = s
        BY <1>0, <1>8, <2>2 DEF ImportStop, At, WorkState
      <3>2. Tracked(j)' /\ (s1 \in Active => s \in Active)
        BY <1>00, <2>1, <3>1
      <3>. QED  BY <1>a, <1>b, <3>2, OneJob
    <2>3. CASE ~(w.buffered > 0)
      <3>1. w1.at = "finalSave" /\ s1 = Outcome(j) /\ w.buffered = 0
        BY <1>0, <1>8, <2>3 DEF ImportStop, At, SetStatus, JobState, WorkState
      <3>2. Tracked(j)' /\ s1 \notin Active
        BY <1>00, <2>1, <3>1 DEF Outcome, Active
      <3>. QED  BY <1>a, <1>b, <3>2, OneJob
    <2>. QED  BY <2>2, <2>3
  <1>9. CASE ImportAdd(j)
    <2>1. /\ w.at \in {"adding", "addingLast"} /\ w1.read = w.read /\ w1.buffered = 0 /\ b1 = b
          /\ w.at = "adding" => w1.at = "saving" /\ s1 = s
          /\ w.at = "addingLast" => w1.at = "finalSave" /\ s1 = Outcome(j)
      BY <1>0, <1>9 DEF ImportAdd, SetStatus, JobState, WorkState
    <2>2. Tracked(j)' /\ (s1 \in Active => s \in Active)
      BY <1>00, <2>1 DEF Outcome, Active
    <2>. QED  BY <1>a, <1>b, <2>2, OneJob
  <1>10. CASE ImportSave(j)
    <2>1. w.at = "saving" /\ w1.at = "reading" /\ s1 = s /\ b1 = s
      BY <1>0, <1>10 DEF ImportSave, SaveJob, At, WorkState
    <2>2. Tracked(j)'
      BY <1>00, <2>1
    <2>. QED  BY <1>a, <1>b, <2>1, <2>2, OneJob
  <1>11. CASE ImportFail(j)
    <2>1. /\ w.at \in {"reading", "adding", "saving", "addingLast"}
          /\ w1.at = "finalSave" /\ s1 = "failed" /\ b1 = b
      BY <1>0, <1>11 DEF ImportFail, SetStatus, At, JobState, WorkState
    <2>2. Tracked(j)' /\ s1 \notin Active
      BY <1>00, <2>1 DEF Active
    <2>. QED  BY <1>a, <1>b, <2>2, OneJob
  <1>12. CASE ImportFinalSave(j)
    <2>1. /\ w.at = "finalSave" /\ w1.at = "done" /\ s1 = s /\ (b1 = s \/ (StorageFails /\ b1 = b))
          /\ w1.read = w.read /\ w1.buffered = w.buffered
      BY <1>0, <1>12 DEF ImportFinalSave, SaveJob, At, WorkState
    <2>2. Tracked(j)'
      BY <1>00, <2>1
    <2>. QED  BY <1>a, <1>b, <2>1, <2>2, OneJob
  <1>. QED  BY <1>1, <1>2, <1>3, <1>4, <1>5, <1>6, <1>7, <1>8, <1>9, <1>10, <1>11, <1>12
            DEF UploadStep, UploadArrived, ImportStep

\* A deletion leaves the jobs alone until it clears the table, and then finds
\* no coroutine at work.
LEMMA DeleteKeepsJobs ==
  ASSUME IInv, JobsInv, NEW d \in Deletes, DeleteStep(d) \/ (\E e \in Confirmable : DeleteRequest(d, e))
  PROVE  JobsInv'
  <1>0. del \in [Deletes -> DeleteState] /\ jobsDb \in [Jobs -> Status]
    BY DEF IInv, TypeOK
  <1>1. CASE DeleteClear(d) /\ stored' = 0 /\ jobsDb' = [j \in Jobs |-> "none"] /\ del' = [del EXCEPT ![d].at = "cleared"]
    <2>1. \A j \in Jobs : work[j].at \in {"none", "done"}
      BY <1>1 DEF DeleteClear, Resetting, IInv, ResetExclusive
    <2>2. SomeCleared' /\ jobs' = jobs /\ work' = work
      BY <1>0, <1>1 DEF DeleteClear, SomeCleared, DeleteState
    <2>3. ASSUME NEW j \in Jobs PROVE Tracked(j)'
      BY <1>1, <2>1, <2>2 DEF JobsInv, Tracked, StatusFits, RecordFits, RowsFit, Importing
    <2>4. ActiveJobs' \subseteq ActiveJobs
      BY <2>2 DEF ActiveJobs
    <2>. QED  BY <2>3, <2>4, FewerSlots DEF JobsInv
  <1>2. CASE DeleteFinish(d)
    <2>1. \A j \in Jobs : work[j].at \in {"none", "done"} /\ jobsDb[j] = "none"
      BY <1>2 DEF DeleteFinish, Resetting, IInv, ResetExclusive, ClearedStaysEmpty
    <2>2. work' = work /\ jobsDb' = jobsDb /\ \A j \in Jobs : jobs'[j] = NoJob
      BY <1>2 DEF DeleteFinish
    <2>3. ASSUME NEW j \in Jobs PROVE Tracked(j)'
      BY <2>1, <2>2 DEF Tracked, StatusFits, RecordFits, RowsFit, Importing, NoJob
    <2>4. ActiveJobs' \subseteq ActiveJobs
      BY <2>2 DEF ActiveJobs, NoJob, Active
    <2>. QED  BY <2>3, <2>4, FewerSlots DEF JobsInv
  <1>3. CASE UNCHANGED <<jobs, work, jobsDb>> /\ (SomeCleared => SomeCleared')
    <2>1. ASSUME NEW j \in Jobs PROVE Tracked(j)'
      BY <1>3, Untouched DEF JobsInv
    <2>2. ActiveJobs' \subseteq ActiveJobs
      BY <1>3 DEF ActiveJobs
    <2>. QED  BY <2>1, <2>2, FewerSlots DEF JobsInv
  <1>4. ASSUME DeleteBegin(d) \/ DeleteJoin(d) \/ DeleteCount(d) \/ DeleteCheck(d)
               \/ (\E e \in Confirmable : DeleteRequest(d, e))
        PROVE  UNCHANGED <<jobs, work, jobsDb>> /\ (SomeCleared => SomeCleared')
    <2>1. UNCHANGED <<jobs, work, jobsDb>>
      BY <1>4 DEF DeleteBegin, DeleteJoin, DeleteCount, DeleteCheck, DeleteRequest, files
    <2>2. del[d].at # "cleared" /\ \A c \in Deletes \ {d} : del'[c] = del[c]
      BY <1>0, <1>4 DEF DeleteBegin, DeleteJoin, DeleteCount, DeleteCheck, DeleteRequest, DeleteLeave
    <2>. QED  BY <2>1, <2>2 DEF SomeCleared
  <1>5. ASSUME DeleteClear(d), DeleteLeave(d), UNCHANGED <<stored, jobsDb>>
        PROVE  UNCHANGED <<jobs, work, jobsDb>> /\ (SomeCleared => SomeCleared')
    BY <1>0, <1>5 DEF DeleteClear, DeleteLeave, SomeCleared
  <1>. QED  BY <1>1, <1>2, <1>3, <1>4, <1>5 DEF DeleteStep, DeleteClear

\* lifespan() makes jobs and table agree again.
LEMMA CrashKeepsJobs ==
  ASSUME IInv, JobsInv, CrashRestart
  PROVE  JobsInv'
  <1>1. ASSUME NEW j \in Jobs PROVE Tracked(j)'
    <2>1. /\ jobsDb'[j] = Restarted(jobsDb[j]) /\ jobs'[j].status = Restarted(jobsDb[j])
          /\ IF work[j].at = "none" THEN work'[j] = work[j] ELSE work'[j] = [work[j] EXCEPT !.at = "done"]
      BY DEF CrashRestart
    <2>2. work[j] \in WorkState /\ Tracked(j)
      BY DEF IInv, TypeOK, JobsInv
    <2>3. /\ work'[j].at \in {"none", "done"} /\ (work'[j].at = "none" => work[j].at = "none")
          /\ work'[j].read = work[j].read /\ work'[j].buffered = work[j].buffered
      BY <2>1, <2>2 DEF WorkState
    <2>. QED  BY <2>1, <2>2, <2>3 DEF Tracked, StatusFits, RecordFits, RowsFit, Importing, Restarted, Active
  <1>2. ActiveJobs' \subseteq ActiveJobs
    BY DEF CrashRestart, ActiveJobs, Restarted, Active
  <1>. QED  BY <1>1, <1>2, FewerSlots DEF JobsInv

\* Every step keeps the jobs tracked.
LEMMA NextKeepsJobs == IInv /\ JobsInv /\ [Next]_vars => JobsInv'
  <1> SUFFICES ASSUME IInv, JobsInv, [Next]_vars PROVE JobsInv'
    OBVIOUS
  <1>1. ASSUME NEW d \in Deletes, DeleteStep(d) \/ (\E e \in Confirmable : DeleteRequest(d, e))
        PROVE  JobsInv'
    BY <1>1, DeleteKeepsJobs
  <1>2. ASSUME NEW j \in Jobs, UploadBegin(j) \/ UploadStep(j) \/ CancelJob(j) \/ ImportStep(j)
        PROVE  JobsInv'
    BY <1>2, FilesKeepJobs
  <1>3. CASE UNCHANGED <<del, files>>
    <2>1. ASSUME NEW j \in Jobs PROVE Tracked(j)'
      <3>1. SomeCleared => SomeCleared'
        BY <1>3 DEF SomeCleared
      <3>. QED  BY <1>3, <3>1, Untouched DEF JobsInv, files
    <2>2. ActiveJobs' \subseteq ActiveJobs
      BY <1>3 DEF ActiveJobs, files
    <2>. QED  BY <2>1, <2>2, FewerSlots DEF JobsInv
  <1>4. ASSUME DatagramReceived \/ HandleTcp \/ ConsumeStep \/ (\E on \in BOOLEAN : UdpControl(on))
        PROVE  UNCHANGED <<del, files>>
    BY <1>4 DEF DatagramReceived, HandleTcp, Enqueue, ConsumeStep, Consume, ConsumeAdd, ConsumeDone, UdpControl, resets
  <1>5. ASSUME NEW p \in Purgers, PurgeRequest(p) \/ PurgeStep(p) \/ PurgeChunk(p)
        PROVE  UNCHANGED <<del, files>>
    BY <1>5 DEF PurgeRequest, PurgeStep, PurgeBegin, PurgeEnd, PurgeChunk, resets
  <1>6. CASE UNCHANGED vars
    BY <1>3, <1>6 DEF vars, resets
  <1>. QED  BY <1>1, <1>2, <1>3, <1>4, <1>5, <1>6, CrashKeepsJobs DEF Next

\* The invariant of the jobs holds of every behaviour.
THEOREM JobsInductive == Spec => []JobsInv
  BY Inductive, InitJobsInv, NextKeepsJobs, PTL DEF Spec

\* A job in the jobs table is also in state.jobs, whatever fails or crashes.
THEOREM SavedAreKnown == Spec => []SavedJobsKnown
  <1>1. JobsInv => SavedJobsKnown
    BY DEF JobsInv, Tracked, RecordFits, SavedJobsKnown
  <1>. QED  BY JobsInductive, <1>1, PTL

\* At most MaxActive coroutines receive or import a file.
THEOREM ImportsAreBounded == Spec => []ImportsBounded
  <1>1. IInv /\ JobsInv => ImportsBounded
    <2> SUFFICES ASSUME IInv, JobsInv PROVE ImportsBounded
      OBVIOUS
    <2> DEFINE Running == {j \in Jobs : work[j].at \notin {"none", "finalSave", "done"}}
    <2>1. Running \subseteq ActiveJobs
      BY DEF JobsInv, Tracked, StatusFits, ActiveJobs, Active, IInv, TypeOK, WorkState, WorkAt, Uploading, Importing
    <2>2. Cardinality(Running) <= Cardinality(ActiveJobs) /\ IsFiniteSet(Running)
      BY <2>1, FS_Subset DEF JobsInv, SlotsBounded
    <2>3. Cardinality(Running) \in Nat /\ Cardinality(ActiveJobs) \in Nat /\ Cardinality(ActiveJobs) <= MaxActive
      BY <2>2, FS_CardinalityType DEF JobsInv, SlotsBounded
    <2>. QED  BY <2>2, <2>3, RuntimeAssumption DEF ImportsBounded, RuntimeAssumption
  <1>. QED  BY Inductive, JobsInductive, <1>1, PTL

\* "completed" means every row of the file was committed.
THEOREM CompletedIsStored == Spec => []CompletedMeansStored
  <1>1. JobsInv => CompletedMeansStored
    BY DEF JobsInv, Tracked, RowsFit, CompletedMeansStored
  <1>. QED  BY JobsInductive, <1>1, PTL

\* Where storage does not fail, a job that ended is saved as it is shown.
THEOREM SettledAreSaved ==
  ASSUME ~StorageFails
  PROVE  Spec => []SettledJobsSaved
  <1>1. JobsInv => SettledJobsSaved
    BY DEF JobsInv, Tracked, RecordFits, SomeCleared, SettledJobsSaved
  <1>. QED  BY JobsInductive, <1>1, PTL
-----------------------------------------------------------------------------
(* The life cycle of the jobs: Runtime implements ImportJobs.              *)

\* No more of a file waits for its commit than was read.
ReadFits == \A j \in Jobs : work[j].buffered <= work[j].read /\ work[j].read <= FileRows

\* A delete past its checks finds no active job, and none becomes active.
ResetIdle == Resetting # {} => ActiveJobs = {}

CycleInv == ReadFits /\ ResetIdle

\* Reading, storing and failing keep to the rows of the file.
LEMMA FilesKeepReadFits ==
  ASSUME IInv, ReadFits, NEW j \in Jobs, UploadBegin(j) \/ UploadStep(j) \/ CancelJob(j) \/ ImportStep(j)
  PROVE  ReadFits'
  <1>0. work \in [Jobs -> WorkState] /\ work[j] \in WorkState /\ FileRows \in Nat
    BY RuntimeAssumption DEF IInv, TypeOK, RuntimeAssumption
  <1>1. \/ work'[j].read = work[j].read /\ work'[j].buffered \in {work[j].buffered, 0}
        \/ work[j].read < FileRows /\ work'[j].read = work[j].read + 1 /\ work'[j].buffered = work[j].buffered + 1
    <2>1. CASE ImportRead(j)
      BY <1>0, <2>1 DEF ImportRead, WorkState
    <2>2. CASE ImportAdd(j)
      BY <1>0, <2>2 DEF ImportAdd, WorkState
    <2>3. CASE CancelJob(j)
      BY <2>3 DEF CancelJob
    <2>4. ASSUME \E pc : At(j, pc)
          PROVE  work'[j].read = work[j].read /\ work'[j].buffered = work[j].buffered
      BY <1>0, <2>4 DEF At, WorkState
    <2>. QED  BY <2>1, <2>2, <2>3, <2>4 DEF UploadBegin, UploadStep, UploadStream, UploadArrived, UploadDigest, UploadEnqueue,
                 ImportStep, ImportStart, ImportStop, ImportSave, ImportFail, ImportFinalSave
  <1>2. \A i \in Jobs \ {j} : work'[i] = work[i]
    BY <1>0 DEF UploadBegin, UploadStep, UploadStream, UploadArrived, UploadDigest, UploadEnqueue, CancelJob, ImportStep,
         ImportStart, ImportRead, ImportStop, ImportAdd, ImportSave, ImportFail, ImportFinalSave, At
  <1>3. work'[j].buffered <= work'[j].read /\ work'[j].read <= FileRows
    <2>1. /\ work[j].read \in Nat /\ work[j].buffered \in Nat
          /\ work[j].buffered <= work[j].read /\ work[j].read <= FileRows
      BY <1>0 DEF ReadFits, WorkState
    <2>. QED  BY <1>0, <1>1, <2>1
  <1>. QED  BY <1>2, <1>3 DEF ReadFits

\* A step that makes no job active and begins no reset keeps both facts.
LEMMA CycleFrame ==
  ASSUME IInv, CycleInv, ActiveJobs' \subseteq ActiveJobs, Resetting' # {} => Resetting # {},
         \A j \in Jobs : work'[j].read = work[j].read /\ work'[j].buffered = work[j].buffered
  PROVE  CycleInv'
  BY DEF CycleInv, ReadFits, ResetIdle

\* Every step keeps the invariant of the life cycle.
LEMMA NextKeepsCycle == IInv /\ JobsInv /\ CycleInv /\ [Next]_vars => CycleInv'
  <1> SUFFICES ASSUME IInv, JobsInv, CycleInv, [Next]_vars PROVE CycleInv'
    OBVIOUS
  <1>0. /\ del \in [Deletes -> DeleteState] /\ work \in [Jobs -> WorkState]
        /\ jobs \in [Jobs -> JobState]
    BY DEF IInv, TypeOK
  <1>1. ASSUME NEW j \in Jobs, UploadBegin(j) \/ UploadStep(j) \/ CancelJob(j) \/ ImportStep(j)
        PROVE  CycleInv'
    <2>1. ReadFits'
      BY <1>1, FilesKeepReadFits DEF CycleInv
    <2>2. Resetting' = Resetting /\ maintenance' = maintenance
      BY <1>1 DEF UploadBegin, UploadStep, UploadStream, UploadArrived, UploadDigest, UploadEnqueue, CancelJob, ImportStep,
           ImportStart, ImportRead, ImportStop, ImportAdd, ImportSave, ImportFail, ImportFinalSave,
           resets, switches, Resetting
    <2>3. CASE Resetting # {}
      <3>1. maintenance /\ work[j].at \in {"none", "done"}
        BY <2>3 DEF IInv, ResetExclusive, Resetting
      <3>2. CancelJob(j)
        BY <1>1, <3>1 DEF UploadBegin, UploadStep, UploadStream, UploadArrived, UploadDigest, UploadEnqueue, ImportStep,
             ImportStart, ImportRead, ImportStop, ImportAdd, ImportSave, ImportFail, ImportFinalSave
      <3>3. ActiveJobs' = ActiveJobs
        BY <1>0, <3>2 DEF CancelJob, ActiveJobs, JobState
      <3>. QED  BY <2>1, <2>2, <3>3 DEF CycleInv, ResetIdle
    <2>. QED  BY <2>1, <2>2, <2>3 DEF CycleInv, ResetIdle
  <1>2. ASSUME NEW d \in Deletes, DeleteStep(d) \/ (\E e \in Confirmable : DeleteRequest(d, e))
        PROVE  CycleInv'
    <2>1. work' = work
      BY <1>2 DEF DeleteStep, DeleteBegin, DeleteJoin, DeleteCount, DeleteCheck, DeleteClear, DeleteFinish,
           DeleteRequest, files
    <2>2. ActiveJobs' \subseteq ActiveJobs
      BY <1>2 DEF DeleteStep, DeleteBegin, DeleteJoin, DeleteCount, DeleteCheck, DeleteClear, DeleteFinish,
           DeleteRequest, files, ActiveJobs, NoJob, Active
    <2>3. CASE DeleteBegin(d)
      <3>1. ActiveJobs = {} \/ Resetting' \subseteq Resetting
        BY <1>0, <2>3 DEF DeleteBegin, Resetting, IdleDelete, DeleteState
      <3>. QED  BY <2>1, <2>2, <3>1 DEF CycleInv, ReadFits, ResetIdle
    <2>4. ASSUME ~DeleteBegin(d) PROVE Resetting' \subseteq Resetting
      BY <1>0, <1>2, <2>4 DEF DeleteStep, DeleteJoin, DeleteCount, DeleteCheck, DeleteClear, DeleteFinish,
           DeleteRequest, DeleteLeave, Resetting, IdleDelete, DeleteState
    <2>. QED  BY <2>1, <2>2, <2>3, <2>4, CycleFrame
  <1>3. CASE CrashRestart
    <2>1. Resetting' = {}
      BY <1>3 DEF CrashRestart, Resetting, IdleDelete
    <2>2. \A j \in Jobs : work'[j].read = work[j].read /\ work'[j].buffered = work[j].buffered
      BY <1>0, <1>3 DEF CrashRestart, WorkState
    <2>3. ActiveJobs' = {}
      BY <1>3 DEF CrashRestart, ActiveJobs, Restarted, Active
    <2>. QED  BY <2>1, <2>2, <2>3, CycleFrame
  <1>4. CASE UNCHANGED <<del, files>>
    BY <1>4, CycleFrame DEF files, Resetting, ActiveJobs
  <1>5. ASSUME DatagramReceived \/ HandleTcp \/ ConsumeStep \/ (\E on \in BOOLEAN : UdpControl(on))
        PROVE  UNCHANGED <<del, files>>
    BY <1>5 DEF DatagramReceived, HandleTcp, Enqueue, ConsumeStep, Consume, ConsumeAdd, ConsumeDone, UdpControl, resets
  <1>6. ASSUME NEW p \in Purgers, PurgeRequest(p) \/ PurgeStep(p) \/ PurgeChunk(p)
        PROVE  UNCHANGED <<del, files>>
    BY <1>6 DEF PurgeRequest, PurgeStep, PurgeBegin, PurgeEnd, PurgeChunk, resets
  <1>7. CASE UNCHANGED vars
    BY <1>4, <1>7 DEF vars, resets
  <1>. QED  BY <1>1, <1>2, <1>3, <1>4, <1>5, <1>6, <1>7 DEF Next

\* The rows that are left are a number of rows of the file.
LEMMA LeftInRange ==
  ASSUME IInv, CycleInv, NEW j \in Jobs
  PROVE  /\ RowsLeft(j) \in 0..FileRows /\ FileRows - work[j].read \in 0..FileRows
         /\ FileRows - work[j].read <= RowsLeft(j)
         /\ work[j].buffered = 0 => RowsLeft(j) = FileRows - work[j].read
  <1>1. FileRows \in Nat /\ work[j].read \in Nat /\ work[j].buffered \in Nat
    BY RuntimeAssumption DEF IInv, TypeOK, WorkState, RuntimeAssumption
  <1>. QED  BY <1>1 DEF CycleInv, ReadFits, RowsLeft

\* A step of one job is seen at that job only.
LEMMA OneShown ==
  ASSUME NEW j \in Jobs, \A i \in Jobs \ {j} : work'[i] = work[i] /\ jobs'[i] = jobs[i]
  PROVE  /\ [i \in Jobs |-> Listed(i)]' = [[i \in Jobs |-> Listed(i)] EXCEPT ![j] = Listed(j)']
         /\ [i \in Jobs |-> RowsLeft(i)]' = [[i \in Jobs |-> RowsLeft(i)] EXCEPT ![j] = RowsLeft(j)']
         /\ Listed(j)' = Listed(j) => [i \in Jobs |-> Listed(i)]' = [i \in Jobs |-> Listed(i)]
         /\ RowsLeft(j)' = RowsLeft(j) => [i \in Jobs |-> RowsLeft(i)]' = [i \in Jobs |-> RowsLeft(i)]
  BY DEF Listed, RowsLeft

\* The steps of an upload or an import, and a cancel, are steps of the life cycle.
LEMMA FilesLive ==
  ASSUME IInv, JobsInv, CycleInv, NEW j \in Jobs,
         UploadBegin(j) \/ UploadStep(j) \/ CancelJob(j) \/ ImportStep(j)
  PROVE  [I!Next]_(I!vars)
  <1>0. /\ jobs \in [Jobs -> JobState] /\ work \in [Jobs -> WorkState] /\ jobsDb \in [Jobs -> Status]
        /\ jobs[j] \in JobState /\ work[j] \in WorkState
    BY DEF IInv, TypeOK
  <1>00. Tracked(j)
    BY DEF JobsInv
  <1>b. \A i \in Jobs \ {j} : work'[i] = work[i] /\ jobs'[i] = jobs[i]
    BY <1>0 DEF UploadBegin, UploadStep, UploadStream, UploadArrived, UploadDigest, UploadEnqueue, CancelJob, ImportStep,
           ImportStart, ImportRead, ImportStop, ImportAdd, ImportSave, ImportFail, ImportFinalSave, At, SetStatus, SaveJob
  <1> DEFINE w == work[j]   s == jobs[j].status   l == Listed(j)
             w1 == work'[j] s1 == jobs'[j].status l1 == Listed(j)'
             shown == [i \in Jobs |-> Listed(i)]
             left == [i \in Jobs |-> RowsLeft(i)]
  <1>c. /\ shown' = [shown EXCEPT ![j] = l1] /\ left' = [left EXCEPT ![j] = RowsLeft(j)']
        /\ (l1 = l => shown' = shown) /\ (RowsLeft(j)' = RowsLeft(j) => left' = left)
        /\ shown[j] = l /\ left[j] = RowsLeft(j)
    BY <1>b, OneShown
  <1>d. ASSUME w1.read = w.read, w1.buffered = w.buffered PROVE RowsLeft(j)' = RowsLeft(j)
    BY <1>d DEF RowsLeft
  <1>e. ASSUME NEW old, NEW new, l = old, l1 = new, RowsLeft(j)' = RowsLeft(j), jobsDb' = jobsDb,
               <<old, new>> \in {<<"new", "uploading">>, <<"uploading", "removed">>,
                                 <<"uploading", "queued">>, <<"queued", "running">>}
        PROVE  I!Next
    <2>1. I!Becomes(j, old, new) /\ UNCHANGED <<jobsDb, left>>
      BY <1>c, <1>e DEF I!Becomes
    <2>2. I!Upload(j) \/ I!Withdraw(j) \/ I!Accept(j) \/ I!Run(j)
      BY <1>e, <2>1 DEF I!Upload, I!Withdraw, I!Accept, I!Run
    <2>. QED  BY <2>2 DEF I!Next
  <1>f. ASSUME l = "running", l1 \in {"completed", "cancelled", "failed"}, jobsDb' = jobsDb,
               RowsLeft(j)' \in 0..FileRows, RowsLeft(j)' <= RowsLeft(j), l1 = "completed" => RowsLeft(j)' = 0
        PROVE  I!Next
    <2>1. I!Becomes(j, "running", l1) /\ I!Commit(j, RowsLeft(j)')
      BY <1>c, <1>f DEF I!Becomes, I!Commit
    <2>2. I!End(j, l1)
      BY <1>f, <2>1 DEF I!End
    <2>. QED  BY <1>f, <2>2 DEF I!Next, I!Results
  <1>g. ASSUME l1 = l, RowsLeft(j)' = RowsLeft(j), jobsDb' = jobsDb PROVE I!Next
    BY <1>c, <1>g DEF I!Next, I!Elsewhere, I!vars
  <1>h. ASSUME l1 = l, RowsLeft(j)' = RowsLeft(j), l \notin {"new", "removed", "uploading"},
               jobsDb' = [jobsDb EXCEPT ![j] = l]
        PROVE  I!Next
    <2>1. I!Save(j)
      BY <1>c, <1>h DEF I!Save, I!Unlisted
    <2>. QED  BY <2>1 DEF I!Next
  <1>i. RowsLeft(j) \in 0..FileRows /\ RowsLeft(j) <= RowsLeft(j)
    BY LeftInRange
  <1> HIDE DEF shown, left
  <1> USE DEF StatusFits
  <1>1. CASE UploadBegin(j)
    <2>1. /\ w.at = "none" /\ w1.at = "stream" /\ s1 = "uploading" /\ jobsDb' = jobsDb
          /\ w1.read = w.read /\ w1.buffered = w.buffered /\ s = "none"
      BY <1>0, <1>00, <1>1 DEF UploadBegin, At, SetStatus, JobState, WorkState, Tracked
    <2>2. l = "new" /\ l1 = "uploading"
      BY <2>1 DEF Listed
    <2>. QED  BY <1>d, <1>e, <2>1, <2>2
  <1>2. CASE UploadStream(j)
    <2>1. /\ w.at = "stream" /\ s = "uploading" /\ jobsDb' = jobsDb
          /\ w1.read = w.read /\ w1.buffered = w.buffered
          /\ (w1.at = "digest" /\ s1 = s) \/ (w1.at = "done" /\ s1 = "none")
      BY <1>0, <1>00, <1>2 DEF UploadStream, At, WorkState, Tracked, NoJob
    <2>2. l = "uploading" /\ l1 \in {"uploading", "removed"}
      BY <2>1 DEF Listed
    <2>. QED  BY <1>d, <1>e, <1>g, <2>1, <2>2
  <1>3. CASE UploadDigest(j)
    <2>1. /\ w.at = "digest" /\ s = "uploading" /\ jobsDb' = jobsDb
          /\ w1.read = w.read /\ w1.buffered = w.buffered /\ s1 \in {"queued", s}
      BY <1>0, <1>00, <1>3 DEF UploadDigest, At, SetStatus, WorkState, JobState, Tracked
    <2>2. l = "uploading" /\ l1 \in {"uploading", "queued"}
      BY <2>1 DEF Listed
    <2>. QED  BY <1>d, <1>e, <1>g, <2>1, <2>2
  <1>4. CASE UploadEnqueue(j)
    <2>1. /\ w.at = "enqueue" /\ s = "queued" /\ s1 = s
          /\ w1.read = w.read /\ w1.buffered = w.buffered
          /\ jobsDb' = jobsDb \/ jobsDb' = [jobsDb EXCEPT ![j] = "queued"]
      BY <1>0, <1>00, <1>4 DEF UploadEnqueue, At, WorkState, Tracked
    <2>2. l = "queued" /\ l1 = "queued"
      BY <2>1 DEF Listed
    <2>. QED  BY <1>d, <1>g, <1>h, <2>1, <2>2
  <1>5. CASE CancelJob(j)
    <2>1. w1 = w /\ s1 = s /\ jobsDb' = jobsDb
      BY <1>0, <1>5 DEF CancelJob, JobState
    <2>2. l1 = l
      BY <2>1 DEF Listed
    <2>. QED  BY <1>d, <1>g, <2>1, <2>2
  <1>6. CASE ImportStart(j)
    <2>1. /\ w.at = "ready" /\ s = "queued" /\ s1 = "running" /\ jobsDb' = jobsDb
          /\ w1.read = w.read /\ w1.buffered = w.buffered
      BY <1>0, <1>00, <1>6 DEF ImportStart, At, SetStatus, JobState, WorkState, Tracked
    <2>2. l = "queued" /\ l1 = "running"
      BY <2>1 DEF Listed
    <2>. QED  BY <1>d, <1>e, <2>1, <2>2
  <1>7. CASE ImportRead(j)
    <2>1. /\ w.at = "reading" /\ s = "running" /\ s1 = s /\ jobsDb' = jobsDb
          /\ w1.read = w.read + 1 /\ w1.buffered = w.buffered + 1
      BY <1>0, <1>00, <1>7 DEF ImportRead, Tracked
    <2>2. l1 = l
      BY <2>1 DEF Listed
    <2>3. RowsLeft(j)' = RowsLeft(j)
      BY <1>0, <2>1, RuntimeAssumption DEF RowsLeft, WorkState, RuntimeAssumption
    <2>. QED  BY <1>g, <2>1, <2>2, <2>3
  <1>8. CASE ImportStop(j)
    <2>1. /\ w.at = "reading" /\ s = "running" /\ jobsDb' = jobsDb
          /\ w1.read = w.read /\ w1.buffered = w.buffered
          /\ s1 = s \/ (s1 = Outcome(j) /\ w.buffered = 0 /\ (jobs[j].cancel \/ w.read = FileRows))
      BY <1>0, <1>00, <1>8 DEF ImportStop, At, SetStatus, WorkState, JobState, Tracked
    <2>2. l = "running" /\ l1 = s1
      BY <2>1 DEF Listed, Outcome
    <2>3. CASE s1 = s
      BY <1>d, <1>g, <2>1, <2>2, <2>3
    <2>4. CASE s1 = Outcome(j) /\ w.buffered = 0 /\ (jobs[j].cancel \/ w.read = FileRows)
      <3>1. s1 \in {"completed", "cancelled"} /\ (s1 = "completed" => w.read = FileRows)
        BY <2>4 DEF Outcome
      <3>2. s1 = "completed" => RowsLeft(j) = 0
        BY <2>4, <3>1, LeftInRange, RuntimeAssumption DEF RuntimeAssumption
      <3>. QED  BY <1>d, <1>f, <1>i, <2>1, <2>2, <3>1, <3>2
    <2>. QED  BY <2>1, <2>3, <2>4
  <1>9. CASE ImportAdd(j)
    <2>1. /\ w.at \in {"adding", "addingLast"} /\ s = "running" /\ jobsDb' = jobsDb
          /\ w1.read = w.read /\ w1.buffered = 0
          /\ (w.at = "adding" /\ s1 = s) \/ (w.at = "addingLast" /\ s1 = Outcome(j))
      BY <1>0, <1>00, <1>9 DEF ImportAdd, SetStatus, JobState, WorkState, Tracked
    <2>2. l = "running" /\ l1 = s1
      BY <2>1 DEF Listed, Outcome
    <2>3. /\ RowsLeft(j)' = FileRows - w.read
          /\ RowsLeft(j)' \in 0..FileRows /\ RowsLeft(j)' <= RowsLeft(j)
      <3>1. RowsLeft(j)' = FileRows - w.read
        BY <1>0, <2>1, RuntimeAssumption DEF RowsLeft, RuntimeAssumption, WorkState
      <3>. QED  BY <3>1, LeftInRange
    <2>4. CASE s1 = s
      <3>1. I!Commit(j, RowsLeft(j)') /\ UNCHANGED <<shown, jobsDb>>
        BY <1>c, <2>1, <2>2, <2>3, <2>4 DEF I!Commit, shown, left
      <3>2. I!Store(j)
        BY <1>c, <2>2, <2>3, <2>1, <3>1 DEF I!Store, shown
      <3>. QED  BY <3>2 DEF I!Next
    <2>5. CASE w.at = "addingLast" /\ s1 = Outcome(j)
      <3>1. s1 \in {"completed", "cancelled"} /\ (s1 = "completed" => w.read = FileRows)
        BY <1>00, <2>5 DEF Outcome, Tracked, RowsFit
      <3>2. s1 = "completed" => RowsLeft(j)' = 0
        BY <2>3, <3>1, RuntimeAssumption DEF RuntimeAssumption
      <3>. QED  BY <1>f, <2>1, <2>2, <2>3, <3>1, <3>2
    <2>. QED  BY <2>1, <2>4, <2>5
  <1>10. CASE ImportSave(j)
    <2>1. /\ w.at = "saving" /\ s = "running" /\ s1 = s /\ jobsDb' = [jobsDb EXCEPT ![j] = s]
          /\ w1.read = w.read /\ w1.buffered = w.buffered
      BY <1>0, <1>00, <1>10 DEF ImportSave, SaveJob, At, WorkState, Tracked
    <2>2. l = s /\ l1 = s
      BY <2>1 DEF Listed
    <2>. QED  BY <1>d, <1>h, <2>1, <2>2
  <1>11. CASE ImportFail(j)
    <2>1. /\ s = "running" /\ s1 = "failed" /\ jobsDb' = jobsDb
          /\ w1.read = w.read /\ w1.buffered = w.buffered
      BY <1>0, <1>00, <1>11 DEF ImportFail, SetStatus, At, JobState, WorkState, Tracked
    <2>2. l = "running" /\ l1 = "failed"
      BY <2>1 DEF Listed
    <2>. QED  BY <1>d, <1>f, <1>i, <2>1, <2>2
  <1>12. CASE ImportFinalSave(j)
    <2>1. /\ w.at = "finalSave" /\ s \in {"completed", "cancelled", "failed"} /\ s1 = s
          /\ jobsDb' = jobsDb \/ jobsDb' = [jobsDb EXCEPT ![j] = s]
          /\ w1.read = w.read /\ w1.buffered = w.buffered
      BY <1>0, <1>00, <1>12 DEF ImportFinalSave, SaveJob, At, WorkState, Tracked
    <2>2. l = s /\ l1 = s
      BY <2>1 DEF Listed
    <2>. QED  BY <1>d, <1>g, <1>h, <2>1, <2>2
  <1>. QED  BY <1>1, <1>2, <1>3, <1>4, <1>5, <1>6, <1>7, <1>8, <1>9, <1>10, <1>11, <1>12
            DEF UploadStep, UploadArrived, ImportStep

\* So are those of a delete, which changes what is shown or recorded only
\* while no job is active.
LEMMA DeleteLives ==
  ASSUME IInv, JobsInv, CycleInv, NEW d \in Deletes, DeleteStep(d) \/ (\E e \in Confirmable : DeleteRequest(d, e))
  PROVE  [I!Next]_(I!vars)
  <1>0. del \in [Deletes -> DeleteState] /\ jobsDb \in [Jobs -> Status]
    BY DEF IInv, TypeOK
  <1>1. ASSUME del[d].at \in {"clear", "cleared"} PROVE I!Idle
    <2>1. ActiveJobs = {}
      BY <1>1 DEF CycleInv, ResetIdle, Resetting
    <2>. QED  BY <2>1 DEF I!Idle, I!Active, ActiveJobs, Active, Listed
  <1>2. CASE DeleteClear(d) /\ jobsDb' = [j \in Jobs |-> "none"]
    <2>1. UNCHANGED <<jobs, work>> /\ del[d].at = "clear"
      BY <1>2 DEF DeleteClear
    <2>2. I!Clear
      BY <1>1, <1>2, <2>1 DEF I!Clear, I!Erased, Listed, RowsLeft
    <2>. QED  BY <2>2 DEF I!Next
  <1>3. CASE DeleteFinish(d)
    <2>1. \A j \in Jobs : jobsDb[j] = "none"
      BY <1>3 DEF DeleteFinish, Resetting, IInv, ClearedStaysEmpty
    <2>2. work' = work /\ jobsDb' = jobsDb /\ (\A j \in Jobs : jobs'[j].status = "none") /\ del[d].at = "cleared"
      BY <1>3 DEF DeleteFinish, NoJob
    <2>3. ASSUME NEW j \in Jobs PROVE Listed(j)' = IF Listed(j) = "new" THEN "new" ELSE "removed"
      <3>1. work[j].at = "none" => jobs[j].status = "none"
        BY DEF JobsInv, Tracked, StatusFits
      <3>2. jobs[j] \in JobState
        BY DEF IInv, TypeOK
      <3>. QED  BY <2>2, <3>1, <3>2 DEF Listed, JobState, Status, Active, Final
    <2>4. I!Erased
      BY <1>0, <2>1 DEF I!Erased
    <2>5. I!Forget
      BY <1>1, <2>2, <2>3, <2>4 DEF I!Forget, RowsLeft
    <2>. QED  BY <2>5 DEF I!Next
  <1>4. ASSUME ~(DeleteClear(d) /\ jobsDb' = [j \in Jobs |-> "none"]), ~DeleteFinish(d)
        PROVE  UNCHANGED <<jobs, work, jobsDb>>
    BY <1>4 DEF DeleteStep, DeleteBegin, DeleteJoin, DeleteCount, DeleteCheck, DeleteClear, DeleteRequest, files
  <1>5. CASE UNCHANGED <<jobs, work, jobsDb>>
    BY <1>5 DEF I!vars, Listed, RowsLeft
  <1>. QED  BY <1>2, <1>3, <1>4, <1>5

\* And a restart, which shows the recorded states.
LEMMA CrashLives == ASSUME IInv, JobsInv, CrashRestart PROVE I!Next
  <1>0. work \in [Jobs -> WorkState]
    BY DEF IInv, TypeOK
  <1>1. jobsDb' = [j \in Jobs |-> IF jobsDb[j] \in I!Active THEN "interrupted" ELSE jobsDb[j]]
    BY DEF CrashRestart, Restarted, Active, I!Active
  <1>2. ASSUME NEW j \in Jobs
        PROVE  /\ Listed(j)' = IF jobsDb'[j] # "none" THEN jobsDb'[j]
                               ELSE IF Listed(j) = "new" THEN "new" ELSE "removed"
               /\ RowsLeft(j)' = RowsLeft(j)
    <2>1. /\ jobs'[j].status = jobsDb'[j]
          /\ IF work[j].at = "none" THEN work'[j] = work[j] ELSE work'[j] = [work[j] EXCEPT !.at = "done"]
      BY DEF CrashRestart
    <2>2. /\ work'[j].read = work[j].read /\ work'[j].buffered = work[j].buffered
          /\ work'[j].at = "none" <=> work[j].at = "none"
      BY <1>0, <2>1 DEF WorkState
    <2>3. Listed(j) = "new" <=> work[j].at = "none"
      <3>1. work[j].at = "none" => jobs[j].status = "none"
        BY DEF JobsInv, Tracked, StatusFits
      <3>2. jobs[j] \in JobState
        BY DEF IInv, TypeOK
      <3>. QED  BY <3>1, <3>2 DEF Listed, JobState, Status, Active, Final
    <2>. QED  BY <2>1, <2>2, <2>3 DEF Listed, RowsLeft
  <1>3. I!Restart
    BY <1>1, <1>2 DEF I!Restart
  <1>. QED  BY <1>3 DEF I!Next

\* The runtime implements the life cycle of ImportJobs: jobs end once, records
\* are states they were in, and only a delete without active jobs, or a
\* restart, takes back what was shown (main.py:140-155, 298-305, 368-443).
THEOREM JobsAreImplemented == Spec => JobsEndOnce
  <1>1. Init => I!Init
    BY RuntimeAssumption DEF Init, I!Init, Listed, RowsLeft, NoJob, NoWork, RuntimeAssumption
  <1>2. Init => CycleInv
    BY RuntimeAssumption DEF Init, CycleInv, ReadFits, ResetIdle, NoWork, Resetting, IdleDelete, RuntimeAssumption
  <1>3. IInv /\ JobsInv /\ CycleInv /\ [Next]_vars => [I!Next]_(I!vars)
    <2> SUFFICES ASSUME IInv, JobsInv, CycleInv, [Next]_vars PROVE [I!Next]_(I!vars)
      OBVIOUS
    <2>1. ASSUME NEW j \in Jobs, UploadBegin(j) \/ UploadStep(j) \/ CancelJob(j) \/ ImportStep(j)
          PROVE  [I!Next]_(I!vars)
      BY <2>1, FilesLive
    <2>2. ASSUME NEW d \in Deletes, DeleteStep(d) \/ (\E e \in Confirmable : DeleteRequest(d, e))
          PROVE  [I!Next]_(I!vars)
      BY <2>2, DeleteLives
    <2>3. CASE UNCHANGED files
      BY <2>3 DEF files, I!vars, Listed, RowsLeft
    <2>4. ASSUME DatagramReceived \/ HandleTcp \/ ConsumeStep \/ (\E on \in BOOLEAN : UdpControl(on))
          PROVE  UNCHANGED files
      BY <2>4 DEF DatagramReceived, HandleTcp, Enqueue, ConsumeStep, Consume, ConsumeAdd, ConsumeDone, UdpControl
    <2>5. ASSUME NEW p \in Purgers, PurgeRequest(p) \/ PurgeStep(p) \/ PurgeChunk(p)
          PROVE  UNCHANGED files
      BY <2>5 DEF PurgeRequest, PurgeStep, PurgeBegin, PurgeEnd, PurgeChunk
    <2>6. CASE UNCHANGED vars
      BY <2>3, <2>6 DEF vars
    <2>. QED  BY <2>1, <2>2, <2>3, <2>4, <2>5, <2>6, CrashLives DEF Next
  <1>. QED  BY <1>1, <1>2, <1>3, Inductive, JobsInductive, NextKeepsCycle, PTL DEF Spec, JobsEndOnce, I!Spec

-----------------------------------------------------------------------------
(* The line at reset_lock moves on, and so do the jobs.                    *)

Users == Deletes \cup Purgers

\* Who is in line is there once, and is whoever waits for the lock or has it.
LineInv ==
    /\ \A i, k \in 1..Len(lockQ) : lockQ[i] = lockQ[k] => i = k
    /\ \A p \in Users : Turn(p) > 0 <=> InLine(p)

\* A place in a sequence without repetition.
LEMMA OnePlace ==
  ASSUME NEW q, NEW p, NEW i \in 1..Len(q), q[i] = p, \A a, b \in 1..Len(q) : q[a] = q[b] => a = b
  PROVE  (CHOOSE k \in 1..Len(q) : q[k] = p) = i
  OBVIOUS

\* What a step does in line: somebody joins it, its holder leaves it or goes
\* on, or nothing.
Joins(p) == Turn(p) = 0 /\ Turn(p)' > 0 /\ lockQ' = Append(lockQ, p)
Leaves(p) == Holds(p) /\ Turn(p) > 0 /\ Turn(p)' = 0 /\ lockQ' = Tail(lockQ)
GoesOn(p) == Holds(p) /\ Turn(p)' > 0 /\ Turn(p)' < Turn(p) /\ lockQ' = lockQ
OthersStay(p) == \A r \in Users \ {p} : Turn(r)' = Turn(r)
AllStay == lockQ' = lockQ /\ \A r \in Users : Turn(r)' = Turn(r)

\* Turns are numbers, before and after a step.
LEMMA TurnType ==
  ASSUME IInv, IInv'
  PROVE  /\ \A p \in Users : Turn(p) \in 0..6 /\ Turn(p)' \in 0..6
         /\ \A d \in Deletes : Turn(d) = DeleteTurn[del[d].at] /\ (Turn(d) > 0 <=> del[d].at # "idle")
         /\ \A p \in Purgers : Turn(p) = PurgeTurn[purger[p]]
  <1>1. /\ \A d \in Deletes : del[d].at \in {"idle", "waiting", "join", "count", "check", "clear", "cleared"}
        /\ \A d \in Deletes : del'[d].at \in {"idle", "waiting", "join", "count", "check", "clear", "cleared"}
    BY DEF IInv, TypeOK, DeleteState
  <1>2. /\ \A p \in Purgers : purger[p] \in {"idle", "waiting", "purging"}
        /\ \A p \in Purgers : purger'[p] \in {"idle", "waiting", "purging"}
    BY DEF IInv, TypeOK
  <1>. QED  BY <1>1, <1>2, RuntimeAssumption DEF Turn, DeleteTurn, PurgeTurn, Users, RuntimeAssumption

\* The steps of delete_data().
LEMMA DeleteInLine ==
  ASSUME IInv, IInv', NEW d \in Deletes
  PROVE  /\ (\E e \in Confirmable : DeleteRequest(d, e)) => Joins(d) /\ OthersStay(d)
         /\ DeleteStep(d) => (Leaves(d) \/ GoesOn(d)) /\ OthersStay(d)
  <1>0. del \in [Deletes -> DeleteState] /\ Deletes \cap Purgers = {} /\ d \in Users
    BY RuntimeAssumption DEF IInv, TypeOK, RuntimeAssumption, Users
  <1>1. ASSUME \E x : del' = [del EXCEPT ![d] = x], purger' = purger
        PROVE  Turn(d)' = DeleteTurn[del'[d].at] /\ OthersStay(d)
    BY <1>0, <1>1 DEF Turn, OthersStay, Users
  <1>2. Turn(d) = DeleteTurn[del[d].at]
    BY DEF Turn
  <1>3. d \in Resetting => Holds(d)
    BY DEF IInv, ResetExclusive
  <1>4. ASSUME NEW e \in Confirmable, DeleteRequest(d, e) PROVE Joins(d) /\ OthersStay(d)
    <2>1. /\ del[d].at = "idle" /\ purger' = purger /\ lockQ' = Append(lockQ, d)
          /\ del' = [del EXCEPT ![d] = [at |-> "waiting", expected |-> e, total |-> 0]]
      BY <1>4 DEF DeleteRequest, Acquire
    <2>2. del'[d].at = "waiting"
      BY <1>0, <2>1
    <2>3. Turn(d)' = DeleteTurn[del'[d].at] /\ OthersStay(d)
      BY <1>1, <2>1
    <2>. QED  BY <1>2, <2>1, <2>2, <2>3 DEF Joins, DeleteTurn
  <1>5. ASSUME DeleteStep(d) PROVE (Leaves(d) \/ GoesOn(d)) /\ OthersStay(d)
    <2>1. /\ Holds(d) /\ purger' = purger
          /\ \/ del'[d] = IdleDelete /\ del' = [del EXCEPT ![d] = IdleDelete] /\ lockQ' = Tail(lockQ)
             \/ /\ lockQ' = lockQ /\ del' = [del EXCEPT ![d] = del'[d]]
                /\ <<del[d].at, del'[d].at>> \in {<<"waiting", "join">>, <<"join", "count">>, <<"count", "check">>,
                                                  <<"check", "clear">>, <<"clear", "cleared">>}
          /\ del[d].at \in {"waiting", "join", "count", "check", "clear", "cleared"}
      <3>1. CASE DeleteBegin(d)
        BY <1>0, <3>1 DEF DeleteBegin, Release, DeleteState
      <3>2. CASE DeleteJoin(d)
        BY <1>0, <1>3, <3>2 DEF DeleteJoin, DeleteLeave, Release, Resetting, DeleteState
      <3>3. CASE DeleteCount(d)
        BY <1>0, <1>3, <3>3 DEF DeleteCount, DeleteLeave, Release, Resetting, DeleteState
      <3>4. CASE DeleteCheck(d)
        BY <1>0, <1>3, <3>4 DEF DeleteCheck, DeleteLeave, Release, Resetting, DeleteState
      <3>5. CASE DeleteClear(d)
        BY <1>0, <1>3, <3>5 DEF DeleteClear, DeleteLeave, Release, Resetting, DeleteState
      <3>6. CASE DeleteFinish(d)
        BY <1>0, <1>3, <3>6 DEF DeleteFinish, DeleteLeave, Release, Resetting, DeleteState
      <3>. QED  BY <1>5, <3>1, <3>2, <3>3, <3>4, <3>5, <3>6 DEF DeleteStep
    <2>2. CASE del'[d] = IdleDelete /\ del' = [del EXCEPT ![d] = IdleDelete] /\ lockQ' = Tail(lockQ)
      <3>1. IdleDelete.at = "idle"
        BY DEF IdleDelete
      <3>2. Turn(d)' = DeleteTurn["idle"] /\ OthersStay(d)
        BY <1>1, <2>1, <2>2, <3>1
      <3>. QED  BY <1>2, <2>1, <2>2, <3>2 DEF Leaves, DeleteTurn
    <2>3. CASE /\ lockQ' = lockQ /\ del' = [del EXCEPT ![d] = del'[d]]
               /\ <<del[d].at, del'[d].at>> \in {<<"waiting", "join">>, <<"join", "count">>, <<"count", "check">>,
                                                 <<"check", "clear">>, <<"clear", "cleared">>}
      <3>1. Turn(d)' = DeleteTurn[del'[d].at] /\ OthersStay(d)
        BY <1>1, <2>1, <2>3
      <3>. QED  BY <1>2, <2>1, <2>3, <3>1 DEF GoesOn, DeleteTurn
    <2>. QED  BY <2>1, <2>2, <2>3
  <1>. QED  BY <1>4, <1>5

\* The steps of purge_expired().
LEMMA PurgeInLine ==
  ASSUME IInv, IInv', NEW p \in Purgers
  PROVE  /\ PurgeRequest(p) => Joins(p) /\ OthersStay(p)
         /\ PurgeStep(p) => (Leaves(p) \/ GoesOn(p)) /\ OthersStay(p)
  <1>0. purger \in [Purgers -> {"idle", "waiting", "purging"}] /\ Deletes \cap Purgers = {} /\ p \in Users
    BY RuntimeAssumption DEF IInv, TypeOK, RuntimeAssumption, Users
  <1>1. ASSUME NEW x, purger' = [purger EXCEPT ![p] = x], del' = del
        PROVE  Turn(p)' = PurgeTurn[x] /\ OthersStay(p)
    BY <1>0, <1>1 DEF Turn, OthersStay, Users
  <1>2. Turn(p) = PurgeTurn[purger[p]]
    BY <1>0 DEF Turn
  <1>3. ASSUME PurgeRequest(p) PROVE Joins(p) /\ OthersStay(p)
    <2>1. /\ purger[p] = "idle" /\ purger' = [purger EXCEPT ![p] = "waiting"] /\ del' = del
          /\ lockQ' = Append(lockQ, p)
      BY <1>3 DEF PurgeRequest, Acquire
    <2>2. Turn(p)' = PurgeTurn["waiting"] /\ OthersStay(p)
      BY <1>1, <2>1
    <2>. QED  BY <1>2, <2>1, <2>2 DEF Joins, PurgeTurn
  <1>4. ASSUME PurgeBegin(p) PROVE (Leaves(p) \/ GoesOn(p)) /\ OthersStay(p)
    BY <1>1, <1>2, <1>4 DEF PurgeBegin, Leaves, GoesOn, PurgeTurn, Release
  <1>5. ASSUME PurgeEnd(p) PROVE Leaves(p) /\ OthersStay(p)
    <2>1. purger[p] = "purging" /\ purger' = [purger EXCEPT ![p] = "idle"] /\ del' = del /\ lockQ' = Tail(lockQ)
      BY <1>5 DEF PurgeEnd, Release
    <2>2. Holds(p)
      BY <2>1 DEF IInv, PurgeHoldsLock
    <2>3. Turn(p)' = PurgeTurn["idle"] /\ OthersStay(p)
      BY <1>1, <2>1
    <2>. QED  BY <1>2, <2>1, <2>2, <2>3 DEF Leaves, PurgeTurn
  <1>. QED  BY <1>3, <1>4, <1>5 DEF PurgeStep

\* Every step, in line.
HolderStep == (\E d \in Deletes : DeleteStep(d)) \/ (\E p \in Purgers : PurgeStep(p))

LEMMA NextInLine ==
  ASSUME IInv, IInv', [Next]_vars
  PROVE  /\ \/ lockQ' = <<>> /\ \A p \in Users : Turn(p)' = 0
            \/ \E p \in Users : (Joins(p) \/ Leaves(p) \/ GoesOn(p)) /\ OthersStay(p)
            \/ AllStay
         /\ HolderStep => \E p \in Users : (Leaves(p) \/ GoesOn(p)) /\ OthersStay(p)
  <1>1. HolderStep => \E p \in Users : (Leaves(p) \/ GoesOn(p)) /\ OthersStay(p)
    BY DeleteInLine, PurgeInLine DEF HolderStep, Users
  <1>2. CASE UNCHANGED resets
    BY <1>1, <1>2 DEF resets, AllStay, Turn
  <1>3. ASSUME NEW d \in Deletes, \E e \in Confirmable : DeleteRequest(d, e)
        PROVE  \E p \in Users : Joins(p) /\ OthersStay(p)
    BY <1>3, DeleteInLine DEF Users
  <1>4. ASSUME NEW q \in Purgers, PurgeRequest(q)
        PROVE  \E p \in Users : Joins(p) /\ OthersStay(p)
    BY <1>4, PurgeInLine DEF Users
  <1>5. ASSUME CrashRestart PROVE lockQ' = <<>> /\ \A p \in Users : Turn(p)' = 0
    BY <1>5 DEF CrashRestart, Users, Turn, IdleDelete, DeleteTurn, PurgeTurn
  <1>6. ASSUME NEW j \in Jobs, UploadBegin(j) \/ UploadStep(j) \/ CancelJob(j) \/ ImportStep(j)
        PROVE  UNCHANGED resets
    BY <1>6 DEF UploadBegin, UploadStep, UploadStream, UploadArrived, UploadDigest, UploadEnqueue, CancelJob, ImportStep,
         ImportStart, ImportRead, ImportStop, ImportAdd, ImportSave, ImportFail, ImportFinalSave
  <1>7. ASSUME DatagramReceived \/ HandleTcp \/ ConsumeStep \/ (\E on \in BOOLEAN : UdpControl(on))
        PROVE  UNCHANGED resets
    BY <1>7 DEF DatagramReceived, HandleTcp, Enqueue, ConsumeStep, Consume, ConsumeAdd, ConsumeDone, UdpControl
  <1>8. ASSUME NEW p \in Purgers, PurgeChunk(p) PROVE UNCHANGED resets
    BY <1>8 DEF PurgeChunk
  <1>9. CASE UNCHANGED vars
    BY <1>2, <1>9 DEF vars
  <1>. QED  BY <1>1, <1>2, <1>3, <1>4, <1>5, <1>6, <1>7, <1>8, <1>9 DEF Next, HolderStep

\* Joining and leaving keep the line a line.
LEMMA NextKeepsLine == IInv /\ IInv' /\ LineInv /\ [Next]_vars => LineInv'
  <1> SUFFICES ASSUME IInv, IInv', LineInv, [Next]_vars PROVE LineInv'
    OBVIOUS
  <1>0. lockQ \in Seq(Users)
    BY DEF IInv, TypeOK, Users
  <1>1. CASE lockQ' = <<>> /\ \A p \in Users : Turn(p)' = 0
    BY <1>1 DEF LineInv, InLine
  <1>2. ASSUME NEW p \in Users, Joins(p), OthersStay(p) PROVE LineInv'
    <2>1. /\ lockQ' = Append(lockQ, p) /\ Len(lockQ') = Len(lockQ) + 1 /\ Len(lockQ) \in Nat
          /\ \A i \in 1..Len(lockQ) : lockQ'[i] = lockQ[i]
          /\ lockQ'[Len(lockQ) + 1] = p
      BY <1>0, <1>2 DEF Joins
    <2>2. \A i \in 1..Len(lockQ) : lockQ[i] # p
      BY <1>2 DEF Joins, LineInv, InLine
    <2>3. \A i, k \in 1..Len(lockQ') : lockQ'[i] = lockQ'[k] => i = k
      BY <2>1, <2>2 DEF LineInv
    <2>4. ASSUME NEW r \in Users PROVE InLine(r)' <=> r = p \/ InLine(r)
      BY <2>1 DEF InLine
    <2>. QED  BY <1>2, <2>3, <2>4 DEF LineInv, Joins, OthersStay
  <1>3. ASSUME NEW p \in Users, Leaves(p), OthersStay(p) PROVE LineInv'
    <2>1. /\ lockQ' = Tail(lockQ) /\ lockQ # <<>> /\ lockQ[1] = p
          /\ Len(lockQ) \in Nat \ {0} /\ Len(lockQ') = Len(lockQ) - 1
          /\ \A i \in 1..Len(lockQ') : lockQ'[i] = lockQ[i + 1]
      BY <1>0, <1>3 DEF Leaves, Holds
    <2>2. \A i, k \in 1..Len(lockQ') : lockQ'[i] = lockQ'[k] => i = k
      BY <2>1 DEF LineInv
    <2>3. ASSUME NEW r \in Users PROVE InLine(r)' <=> r # p /\ InLine(r)
      <3>1. ASSUME NEW i \in 1..Len(lockQ'), lockQ'[i] = r PROVE r # p /\ InLine(r)
        <4>1. i + 1 \in 1..Len(lockQ) /\ i + 1 # 1 /\ 1 \in 1..Len(lockQ) /\ lockQ[i + 1] = r
          BY <2>1, <3>1
        <4>. QED  BY <2>1, <4>1 DEF LineInv, InLine
      <3>2. ASSUME NEW i \in 1..Len(lockQ), lockQ[i] = r, r # p PROVE InLine(r)'
        <4>1. i - 1 \in 1..Len(lockQ') /\ lockQ'[i - 1] = r
          BY <2>1, <3>2
        <4>. QED  BY <4>1 DEF InLine
      <3>. QED  BY <3>1, <3>2 DEF InLine
    <2>. QED  BY <1>3, <2>2, <2>3 DEF LineInv, Leaves, OthersStay
  <1>4. ASSUME NEW p \in Users, GoesOn(p), OthersStay(p) PROVE LineInv'
    <2>1. Turn(p) > 0
      BY <1>4, TurnType DEF GoesOn
    <2>. QED  BY <1>4, <2>1 DEF LineInv, GoesOn, OthersStay, InLine
  <1>5. CASE AllStay
    BY <1>5 DEF LineInv, AllStay, InLine
  <1>. QED  BY <1>1, <1>2, <1>3, <1>4, <1>5, NextInLine

\* The holder's steps bring everybody in line nearer, and no step takes
\* anybody farther away.
LEMMA LineComesNearer ==
  ASSUME IInv, IInv', LineInv, LineInv', [Next]_vars, NEW d \in Users, InLine(d), InLine(d)'
  PROVE  Due(d)' <= Due(d) /\ (HolderStep => Due(d)' < Due(d))
  <1>0. lockQ \in Seq(Users) /\ lockQ' \in Seq(Users)
    BY DEF IInv, TypeOK, Users
  <1>1. PICK i \in 1..Len(lockQ) : lockQ[i] = d
    BY DEF InLine
  <1>2. PICK k \in 1..Len(lockQ') : lockQ'[k] = d
    BY DEF InLine
  <1>3. Place(d) = i /\ Place(d)' = k
    BY <1>1, <1>2, OnePlace DEF Place, LineInv
  <1>4. i \in Nat /\ k \in Nat /\ lockQ # <<>> /\ lockQ' # <<>> /\ Head(lockQ) \in Users /\ Head(lockQ') \in Users
    BY <1>0, <1>1, <1>2
  <1> DEFINE h == Turn(Head(lockQ))
             h1 == Turn(Head(lockQ))'
  <1>5. h \in 0..6 /\ h1 \in 0..6
    BY <1>4, TurnType
  <1>6. Due(d) = 6 * i + h /\ Due(d)' = 6 * k + h1
    BY <1>3 DEF Due
  <1>7. ASSUME NEW p \in Users, Leaves(p), OthersStay(p) PROVE Due(d)' < Due(d)
    <2>1. /\ lockQ' = Tail(lockQ) /\ Len(lockQ) \in Nat \ {0} /\ Len(lockQ') = Len(lockQ) - 1
          /\ lockQ'[k] = lockQ[k + 1] /\ k + 1 \in 1..Len(lockQ) /\ Head(lockQ) = p
      BY <1>0, <1>2, <1>7 DEF Leaves, Holds
    <2>2. i = k + 1
      BY <1>1, <1>2, <2>1 DEF LineInv
    <2>3. h > 0
      BY <1>7, <2>1 DEF Leaves
    <2>. QED  BY <1>4, <1>5, <1>6, <2>2, <2>3
  <1>8. ASSUME NEW p \in Users, GoesOn(p), OthersStay(p) PROVE Due(d)' < Due(d)
    <2>1. lockQ' = lockQ /\ Head(lockQ) = p /\ h1 < h
      BY <1>8 DEF GoesOn, Holds
    <2>2. i = k
      BY <1>1, <1>2, <2>1 DEF LineInv
    <2>. QED  BY <1>4, <1>5, <1>6, <2>1, <2>2
  <1>9. ASSUME NEW p \in Users, Joins(p), OthersStay(p) PROVE Due(d)' <= Due(d)
    <2>1. lockQ'[i] = d /\ i \in 1..Len(lockQ') /\ Head(lockQ') = Head(lockQ)
      BY <1>0, <1>1, <1>4, <1>9 DEF Joins
    <2>2. i = k
      BY <1>2, <2>1 DEF LineInv
    <2>3. Head(lockQ) # p
      <3>1. lockQ[1] = Head(lockQ) /\ 1 \in 1..Len(lockQ)
        BY <1>0, <1>4
      <3>. QED  BY <1>9, <3>1 DEF Joins, LineInv, InLine
    <2>4. h1 = h
      BY <1>4, <1>9, <2>1, <2>3 DEF OthersStay
    <2>. QED  BY <1>4, <1>5, <1>6, <2>2, <2>4
  <1>10. ASSUME AllStay PROVE Due(d)' <= Due(d)
    <2>1. i = k /\ h1 = h
      BY <1>1, <1>2, <1>4, <1>10 DEF AllStay, LineInv
    <2>. QED  BY <1>4, <1>5, <1>6, <2>1
  <1>11. Due(d) \in Int /\ Due(d)' \in Int
    BY <1>4, <1>5, <1>6
  <1>. QED  BY <1>4, <1>7, <1>8, <1>9, <1>10, <1>11, NextInLine

\* Nobody waits for reset_lock in vain or is overtaken: the holder is always at
\* a step of its own, and each of them brings every delete nearer to its answer.
THEOREM DeletesComeToTheirTurn == Spec => DeletesAdvance
  <1>1. Init => LineInv
    BY RuntimeAssumption DEF Init, LineInv, InLine, Turn, Users, IdleDelete, DeleteTurn, PurgeTurn, RuntimeAssumption
  <1>2. IInv /\ LineInv => \A d \in Deletes : del[d].at # "idle" => InLine(d)
    <2> SUFFICES ASSUME IInv, LineInv, NEW d \in Deletes, del[d].at # "idle" PROVE InLine(d)
      OBVIOUS
    <2>1. del[d].at \in {"waiting", "join", "count", "check", "clear", "cleared"}
      BY DEF IInv, TypeOK, DeleteState
    <2>2. Turn(d) > 0
      BY <2>1 DEF Turn, DeleteTurn
    <2>. QED  BY <2>2 DEF LineInv, Users
  <1>3. IInv /\ LineInv => (lockQ # <<>> => Turn(Head(lockQ)) > 0)
    <2> SUFFICES ASSUME IInv, LineInv, lockQ # <<>> PROVE Turn(Head(lockQ)) > 0
      OBVIOUS
    <2>1. 1 \in 1..Len(lockQ) /\ lockQ[1] = Head(lockQ) /\ Head(lockQ) \in Users
      BY DEF IInv, TypeOK, Users
    <2>. QED  BY <2>1 DEF LineInv, InLine
  <1>4. IInv /\ IInv' /\ LineInv /\ LineInv' /\ [Next]_vars =>
          [\A d \in Deletes : InLine(d) /\ InLine(d)' =>
            /\ Due(d)' <= Due(d)
            /\ (\E c \in Deletes : DeleteStep(c)) \/ (\E p \in Purgers : PurgeStep(p)) => Due(d)' < Due(d)]_vars
    BY LineComesNearer DEF HolderStep, Users
  <1>. QED  BY <1>1, <1>2, <1>3, <1>4, NextKeepsLine, Inductive, PTL DEF Spec, DeletesAdvance

\* Where storage works an active job is served: no coroutine ends before it.
Served == \A j \in Jobs : jobs[j].status \in Active => work[j].at # "done"

\* A step that leaves all but one job as it is keeps the others served.
LEMMA OneServed ==
  ASSUME Served, NEW j \in Jobs, \A i \in Jobs \ {j} : work'[i] = work[i] /\ jobs'[i] = jobs[i],
         jobs'[j].status \in Active => work'[j].at # "done"
  PROVE  Served'
  BY DEF Served

\* What a step of a job does to it: it comes nearer to its end, or it is only
\* marked as cancelled.
LEMMA JobStepDue ==
  ASSUME IInv, JobsInv, NEW j \in Jobs, UploadBegin(j) \/ UploadStep(j) \/ CancelJob(j) \/ ImportStep(j)
  PROVE  /\ \A i \in Jobs \ {j} : work'[i] = work[i] /\ jobs'[i] = jobs[i]
         /\ work'[j] = work[j] \/ JobDue(j)' < JobDue(j)
         /\ UploadStep(j) \/ ImportStep(j) => JobDue(j)' < JobDue(j)
         /\ ~StorageFails /\ work'[j].at = "done" => work[j].at \in {"stream", "finalSave", "done"}
         /\ ~StorageFails /\ work[j].at = "stream" /\ work'[j].at = "done" => jobs'[j].status = "none"
         /\ work[j].at = "finalSave" => jobs'[j].status = jobs[j].status
         /\ work[j].at = "done" => work'[j] = work[j] /\ jobs'[j].status = jobs[j].status
  <1>0. /\ jobs \in [Jobs -> JobState] /\ work \in [Jobs -> WorkState]
        /\ jobs[j] \in JobState /\ work[j] \in WorkState
    BY DEF IInv, TypeOK
  <1>1. \A i \in Jobs \ {j} : work'[i] = work[i] /\ jobs'[i] = jobs[i]
    BY <1>0 DEF UploadBegin, UploadStep, UploadStream, UploadArrived, UploadDigest, UploadEnqueue, CancelJob, ImportStep,
           ImportStart, ImportRead, ImportStop, ImportAdd, ImportSave, ImportFail, ImportFinalSave, At, SetStatus, SaveJob
  <1> DEFINE a == work[j].at
             b == work'[j].at
             SameRead == work'[j].read = work[j].read
             Nearer == /\ a # "done" /\ (a = "finalSave" => jobs'[j].status = jobs[j].status)
                       /\ b = "done" => (a = "stream" /\ jobs'[j].status = "none") \/ a = "finalSave" \/ StorageFails
                       /\ \/ SameRead /\ JobTurn[b] \in 0..10 /\ JobTurn[a] \in 0..10 /\ JobTurn[b] < JobTurn[a]
                          \/ /\ a = "reading" /\ b \in {"adding", "reading"}
                             /\ work'[j].read = work[j].read + 1
  <1>2. ASSUME UploadBegin(j) \/ UploadStep(j) \/ ImportStep(j) PROVE Nearer
    <2>1. CASE UploadBegin(j)
      BY <1>0, <2>1 DEF UploadBegin, At, WorkState, JobTurn
    <2>2. CASE UploadStream(j)
      BY <1>0, <2>2 DEF UploadStream, At, WorkState, JobTurn, NoJob
    <2>3. CASE UploadDigest(j)
      BY <1>0, <2>3 DEF UploadDigest, At, WorkState, JobTurn
    <2>4. CASE UploadEnqueue(j)
      BY <1>0, <2>4 DEF UploadEnqueue, At, WorkState, JobTurn
    <2>6. CASE ImportStart(j)
      BY <1>0, <2>6 DEF ImportStart, At, WorkState, JobTurn
    <2>7. CASE ImportRead(j)
      <3>1. a = "reading" /\ b \in {"adding", "reading"} /\ work'[j].read = work[j].read + 1
        BY <1>0, <2>7 DEF ImportRead
      <3>. QED  BY <3>1
    <2>8. CASE ImportStop(j)
      BY <1>0, <2>8 DEF ImportStop, At, WorkState, JobTurn
    <2>9. CASE ImportAdd(j)
      <3>1. (a = "adding" /\ b = "saving") \/ (a = "addingLast" /\ b = "finalSave")
        BY <1>0, <2>9 DEF ImportAdd, WorkState
      <3>2. SameRead
        BY <1>0, <2>9 DEF ImportAdd, WorkState
      <3>. QED  BY <3>1, <3>2 DEF JobTurn
    <2>10. CASE ImportSave(j)
      BY <1>0, <2>10 DEF ImportSave, At, WorkState, JobTurn
    <2>11. CASE ImportFail(j)
      BY <1>0, <2>11 DEF ImportFail, At, WorkState, JobTurn
    <2>12. CASE ImportFinalSave(j)
      BY <1>0, <2>12 DEF ImportFinalSave, At, WorkState, JobTurn
    <2>. QED  BY <1>2, <2>1, <2>2, <2>3, <2>4, <2>6, <2>7, <2>8, <2>9, <2>10, <2>11, <2>12 DEF UploadStep, UploadArrived, ImportStep
  <1>3. ASSUME Nearer PROVE JobDue(j)' < JobDue(j)
    <2>1. FileRows \in Nat /\ work[j].read \in Nat
      BY <1>0, RuntimeAssumption DEF WorkState, RuntimeAssumption
    <2>2. JobDue(j) = 4 * (FileRows - work[j].read) + JobTurn[a] /\ JobDue(j)' = 4 * (FileRows - work'[j].read) + JobTurn[b]
      BY DEF JobDue, JobTurn
    <2>3. CASE SameRead /\ JobTurn[b] \in 0..10 /\ JobTurn[a] \in 0..10 /\ JobTurn[b] < JobTurn[a]
      BY <2>1, <2>2, <2>3
    <2>4. CASE a = "reading" /\ b \in {"adding", "reading"} /\ work'[j].read = work[j].read + 1
      <3>1. JobTurn[a] = 3 /\ JobTurn[b] \in {5, 3}
        BY <2>4 DEF JobTurn
      <3>. QED  BY <2>1, <2>2, <2>4, <3>1
    <2>. QED  BY <1>3, <2>3, <2>4
  <1>4. CancelJob(j) => work'[j] = work[j] /\ jobs'[j].status = jobs[j].status
    BY <1>0 DEF CancelJob, JobState
  <1>5. ~StorageFails /\ b = "done" => a \in {"stream", "finalSave", "done"}
    BY <1>2, <1>4
  <1>6. ~StorageFails /\ a = "stream" /\ b = "done" => jobs'[j].status = "none"
    BY <1>2, <1>4, <1>5
  <1>7. a = "finalSave" => jobs'[j].status = jobs[j].status
    BY <1>2, <1>4
  <1>8. UploadBegin(j) \/ UploadStep(j) \/ ImportStep(j) => a # "done" /\ JobDue(j)' < JobDue(j)
    BY <1>2, <1>3
  <1>. QED  BY <1>1, <1>4, <1>5, <1>6, <1>7, <1>8

\* The steps that have nothing to do with uploads and imports.
OtherStep ==
    \/ DatagramReceived \/ HandleTcp \/ ConsumeStep \/ (\E on \in BOOLEAN : UdpControl(on))
    \/ \E p \in Purgers : PurgeRequest(p) \/ PurgeStep(p) \/ PurgeChunk(p)
    \/ UNCHANGED vars

\* They leave every job and its coroutine alone.
LEMMA OtherStepsKeepFiles == OtherStep => UNCHANGED <<jobs, work>>
  <1>1. DatagramReceived \/ HandleTcp \/ ConsumeStep \/ (\E on \in BOOLEAN : UdpControl(on)) => UNCHANGED <<jobs, work>>
    BY DEF DatagramReceived, HandleTcp, Enqueue, ConsumeStep, Consume, ConsumeAdd, ConsumeDone, UdpControl, files
  <1>2. ASSUME NEW p \in Purgers, PurgeRequest(p) \/ PurgeStep(p) \/ PurgeChunk(p) PROVE UNCHANGED <<jobs, work>>
    BY <1>2 DEF PurgeRequest, PurgeStep, PurgeBegin, PurgeEnd, PurgeChunk, files
  <1>3. UNCHANGED vars => UNCHANGED <<jobs, work>>
    BY DEF vars, files
  <1>. QED  BY <1>1, <1>2, <1>3 DEF OtherStep

\* DELETE /api/data waits for no coroutine of a job and stops none.
LEMMA DeleteKeepsFiles ==
  ASSUME NEW d \in Deletes, DeleteStep(d) \/ (\E e \in Confirmable : DeleteRequest(d, e))
  PROVE  work' = work /\ (jobs' = jobs \/ jobs' = [j \in Jobs |-> NoJob])
  BY DEF DeleteStep, DeleteBegin, DeleteJoin, DeleteCount, DeleteCheck, DeleteClear, DeleteFinish, DeleteRequest, files

\* Every step keeps the active jobs served.
LEMMA NextKeepsServed ==
  ASSUME ~StorageFails, IInv, JobsInv, JobsInv', Served, [Next]_vars
  PROVE  Served'
  <1>0. /\ jobs \in [Jobs -> JobState] /\ work \in [Jobs -> WorkState]
    BY DEF IInv, TypeOK
  <1>1. ASSUME NEW j \in Jobs, UploadBegin(j) \/ UploadStep(j) \/ CancelJob(j) \/ ImportStep(j)
        PROVE  Served'
    <2>1. ASSUME work'[j].at = "done" PROVE jobs'[j].status \notin Active
      <3>1. CASE work[j].at = "stream"
        BY <1>1, <2>1, <3>1, JobStepDue DEF Active
      <3>2. CASE work[j].at = "finalSave"
        <4>1. jobs'[j].status = jobs[j].status /\ jobs[j].status \in {"completed", "cancelled", "failed"}
          BY <1>1, <3>2, JobStepDue DEF JobsInv, Tracked, StatusFits
        <4>. QED  BY <4>1 DEF Active
      <3>3. CASE work[j].at = "done"
        BY <1>1, <3>3, JobStepDue DEF Served
      <3>. QED  BY <1>1, <2>1, <3>1, <3>2, <3>3, JobStepDue
    <2>. QED  BY <1>1, <2>1, OneServed, JobStepDue
  <1>2. CASE UNCHANGED <<jobs, work>>
    BY <1>2 DEF Served
  <1>4. ASSUME NEW d \in Deletes, DeleteStep(d) \/ (\E e \in Confirmable : DeleteRequest(d, e))
        PROVE  Served'
    BY <1>4, DeleteKeepsFiles DEF Served, NoJob, Active
  <1>5. CASE CrashRestart
    BY <1>5 DEF CrashRestart, Restarted, Active, Served
  <1>6. ASSUME OtherStep PROVE UNCHANGED <<jobs, work>>
    BY <1>6, OtherStepsKeepFiles
  <1>. QED  BY <1>1, <1>2, <1>4, <1>5, <1>6 DEF Next, OtherStep

\* No step takes a job away from its end, and the steps of its coroutine bring
\* it nearer.
LEMMA JobComesNearer ==
  ASSUME IInv, IInv', JobsInv, [Next]_vars, NEW j \in Jobs
  PROVE  /\ JobDue(j)' <= JobDue(j)
         /\ UploadStep(j) \/ ImportStep(j) => JobDue(j)' < JobDue(j)
  <1>0. /\ work \in [Jobs -> WorkState] /\ work[j] \in WorkState /\ FileRows \in Nat
    BY RuntimeAssumption DEF IInv, TypeOK, RuntimeAssumption
  <1>1. JobDue(j) \in Int /\ JobDue(j)' \in Int
    <2>1. work'[j] \in WorkState
      BY DEF IInv, TypeOK
    <2>2. \A w \in WorkState : 4 * (FileRows - w.read) + JobTurn[w.at] \in Int
      BY <1>0 DEF WorkState, WorkAt, Uploading, Importing, JobTurn
    <2>3. JobDue(j)' = 4 * (FileRows - work'[j].read) + JobTurn[work'[j].at]
      BY DEF JobDue, JobTurn
    <2>. QED  BY <1>0, <2>1, <2>2, <2>3 DEF JobDue
  <1>2. UploadStep(j) \/ ImportStep(j) => JobDue(j)' < JobDue(j)
    BY JobStepDue
  <1>3. ASSUME work'[j] = work[j] PROVE JobDue(j)' <= JobDue(j)
    BY <1>1, <1>3 DEF JobDue, JobTurn
  <1>4. ASSUME NEW i \in Jobs, UploadBegin(i) \/ UploadStep(i) \/ CancelJob(i) \/ ImportStep(i)
        PROVE  JobDue(j)' <= JobDue(j)
    <2>1. work'[j] = work[j] \/ JobDue(j)' < JobDue(j)
      BY <1>4, JobStepDue
    <2>. QED  BY <1>1, <1>3, <2>1
  <1>5. ASSUME NEW d \in Deletes, DeleteStep(d) \/ (\E e \in Confirmable : DeleteRequest(d, e))
        PROVE  work'[j] = work[j]
    BY <1>5, DeleteKeepsFiles
  <1>6. CASE CrashRestart
    <2>1. work'[j] = work[j] \/ (work'[j].read = work[j].read /\ work'[j].at = "done")
      BY <1>0, <1>6 DEF CrashRestart, WorkState
    <2>2. ASSUME work'[j].read = work[j].read, work'[j].at = "done" PROVE JobDue(j)' <= JobDue(j)
      <3>1. JobTurn[work[j].at] \in 0..10 /\ JobTurn[work'[j].at] = 0
        BY <1>0, <2>2 DEF WorkState, WorkAt, Uploading, Importing, JobTurn
      <3>2. JobDue(j)' = 4 * (FileRows - work'[j].read) + JobTurn[work'[j].at]
        BY DEF JobDue, JobTurn
      <3>. QED  BY <1>0, <2>2, <3>1, <3>2 DEF JobDue, WorkState
    <2>. QED  BY <1>2, <1>3, <2>1, <2>2
  <1>7. OtherStep => work'[j] = work[j]
    BY OtherStepsKeepFiles
  <1>8. JobDue(j)' <= JobDue(j)
    BY <1>3, <1>4, <1>5, <1>6, <1>7 DEF Next, OtherStep
  <1>. QED  BY <1>2, <1>8

\* Where storage works an active job has a coroutine that serves it, and each
\* step of it brings the job nearer to its end.
THEOREM JobsComeToTheirEnd ==
  ASSUME ~StorageFails
  PROVE  Spec => JobsAdvance
  <1>1. Init => Served
    BY DEF Init, Served, NoJob, Active
  <1>2. IInv /\ JobsInv /\ JobsInv' /\ Served /\ [Next]_vars => Served'
    BY NextKeepsServed
  <1>3. IInv /\ JobsInv /\ Served => \A j \in Jobs : jobs[j].status \in Active => work[j].at \in Uploading \cup Importing
    <2> SUFFICES ASSUME IInv, JobsInv, Served, NEW j \in Jobs, jobs[j].status \in Active
                 PROVE  work[j].at \in Uploading \cup Importing
      OBVIOUS
    <2>1. work[j].at \in WorkAt
      BY DEF IInv, TypeOK, WorkState
    <2>2. work[j].at # "none"
      BY DEF JobsInv, Tracked, StatusFits, Active
    <2>3. work[j].at # "done"
      BY DEF Served
    <2>. QED  BY <2>1, <2>2, <2>3 DEF WorkAt
  <1>4. IInv /\ IInv' /\ JobsInv /\ [Next]_vars =>
          [\A j \in Jobs :
            /\ JobDue(j)' <= JobDue(j)
            /\ UploadStep(j) \/ ImportStep(j) => JobDue(j)' < JobDue(j)]_vars
    BY JobComesNearer
  <1>. QED  BY <1>1, <1>2, <1>3, <1>4, Inductive, JobsInductive, PTL DEF Spec, JobsAdvance

=============================================================================
