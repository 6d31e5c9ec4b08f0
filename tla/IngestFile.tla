------------------------------ MODULE IngestFile ------------------------------
(***************************************************************************)
(* One uploaded document on its way into the index: its files row, the    *)
(* ingestion jobs that cover it (background_tasks.py, lease mode), the     *)
(* attempts that parse, embed and index it (document_processor.py), and    *)
(* the routes that upload, cancel, retry and delete it (documents.py).     *)
(*                                                                         *)
(* A step is one transaction, one write to the vector store, or a read     *)
(* that decides what comes next.  One process serves the routes and runs   *)
(* the workers; a job is leased as in JobLease, here without generations.  *)
(* What a failing write leaves undone is kept in "lost", by name.          *)
(***************************************************************************)
EXTENDS Integers, FiniteSets

CONSTANTS
    Workers,     \* ingestion worker loops (settings.ingestion_worker_count)
    Requests,    \* which of the routes "cancel", "retry" and "delete" are called
    MaxAttempts, \* settings.jobs_max_attempts, and the max_retries of an item
                 \* that is queued in memory
    MaxJobs,     \* bound: job rows of the file that are open or failed
    MaxFaults,   \* bound: crashes, stops, leases that expire under a live
                 \* worker, and writes that fail; a file also has at most one
                 \* item in memory at a time
    Nobody

Routes == {"cancel", "retry", "delete"}

ASSUME RequestsAssumption == Requests \subseteq Routes
ASSUME NobodyAssumption == Nobody \notin Workers
ASSUME BoundAssumption ==
    /\ {MaxAttempts, MaxJobs} \subseteq Nat \ {0}
    /\ MaxFaults \in Nat

VARIABLES
    status,  \* files.status, or "none" without a row
    vec,     \* the vector store has chunks of the file
    jobs,    \* its rows in the jobs table
    marked,  \* the file is in the processor's cancel registry
    item,    \* its task in the in-memory queue, and the attempts that task has had
    work,    \* what each worker loop does
    upload,  \* the request that uploads the file
    cancel,  \* the request that cancels it, and the jobs it picked, then cancelled
    retry,   \* the request that retries it; late once it follows an accepted cancel
    del,     \* the request that deletes it
    tomb,    \* vector_delete_pending has a row for the file
    boot,    \* the process: down, before its first sync, before its second, done
    faults,  \* faults so far
    lost     \* history: what failures have left undone

vars == <<status, vec, jobs, marked, item, work, upload, cancel, retry, del, tomb,
          boot, faults, lost>>

\* "indexed" stands for partial too: no guard below tells them apart.
Live == {"pending", "processing"}
Statuses == Live \cup {"none", "indexed", "error", "cancelled"}
Tries == 0..(MaxAttempts + MaxFaults)

JobIds == 1..MaxJobs
Job == [st : {"pending", "running", "failed", "over"},
        by : Workers \cup {Nobody}, tries : Tries]
NoJob == [st |-> "over", by |-> Nobody, tries |-> 0]
NoItem == [st |-> "none", tries |-> 0]

InFile == {"parsing", "embedding", "writing", "written", "committing", "restoring"}
Unwinding == {"unwinding", "dropping"}
AtJob == {"claimed", "failed", "capped", "settling", "cancelling"}

\* job: its job, or 0 for the item in memory; last: the attempt is the last one
\* allowed; keeps: a failure restores the status "indexed"; jam: it failed on the
\* vector store's lock
Idle == [pc |-> "idle", job |-> 0, last |-> FALSE, keeps |-> FALSE, jam |-> FALSE]

CancelSteps == {"seen", "marked", "swept"}

\* What a process may leave a waiting file without, until the next boot sync:
\* a retry whose lease was gone ("late"), the write of its error ("unmarked"), the
\* deletion of a refused upload ("kept"), the cancelled status ("unwound"), a
\* place in the retry backlog ("backlog")
Strandings == {"late", "unmarked", "kept", "unwound", "backlog"}

\* What a restart does not mend: chunks that nothing will delete, and chunks
\* deleted under a row that is not cancelled
Damages == {"chunks", "torn"}

TypeOK ==
    /\ status \in Statuses
    /\ vec \in BOOLEAN
    /\ jobs \in [JobIds -> Job]
    /\ marked \in BOOLEAN
    /\ item \in [st : {"none", "queued", "taken"}, tries : Tries]
    /\ work \in [Workers -> [pc : InFile \cup Unwinding \cup AtJob \cup {"idle"},
                             job : 0..MaxJobs, last : BOOLEAN,
                             keeps : BOOLEAN, jam : BOOLEAN]]
    /\ upload \in {"due", "registered", "inserted", "fallback", "undoing", "over"}
    /\ cancel \in [pc : CancelSteps \cup {"due", "accepted", "refused", "failed", "over"},
                   picked : SUBSET JobIds]
    /\ retry \in [pc : {"due", "inserted", "fallback", "over"}, late : BOOLEAN]
    /\ del \in {"due", "purged", "unpurged", "broken", "over"}
    /\ tomb \in BOOLEAN
    /\ boot \in {"down", "due", "again", "done"}
    /\ faults \in 0..MaxFaults
    /\ lost \subseteq Strandings \cup Damages

\* The process has served for a while.
Init ==
    /\ status = "none"
    /\ vec = FALSE
    /\ jobs = [j \in JobIds |-> NoJob]
    /\ marked = FALSE
    /\ item = NoItem
    /\ work = [w \in Workers |-> Idle]
    /\ upload = "due"
    /\ cancel = [pc |-> "due", picked |-> {}]
    /\ retry = [pc |-> "due", late |-> FALSE]
    /\ del = "due"
    /\ tomb = FALSE
    /\ boot = "done"
    /\ faults = 0
    /\ lost = {}

Calls == <<upload, cancel, retry, del>>

-------------------------------------------------------------------------------
(* The jobs table.                                                         *)

Open(j) == jobs[j].st \in {"pending", "running"}
Covered == \E j \in JobIds : Open(j)
Capped(j) == jobs[j].st = "failed" /\ jobs[j].tries >= MaxAttempts
Queued(js) == \E j \in JobIds : js[j].st = "pending"

\* A row for a new job; a completed or cancelled row is never read again.
Spare == {j \in JobIds : jobs[j].st = "over"}
Inserted == [jobs EXCEPT ![CHOOSE j \in Spare : TRUE] =
                 [st |-> "pending", by |-> Nobody, tries |-> 0]]

Owns(w) ==
    LET j == work[w].job
    IN j # 0 /\ jobs[j].st = "running" /\ jobs[j].by = w

Fault == faults < MaxFaults /\ faults' = faults + 1
Fine == UNCHANGED faults

\* A settlement is fenced by the worker's id; one that fails leaves the row running.
Settle(w, row) ==
    \/ Fine /\ jobs' = IF Owns(w) THEN [jobs EXCEPT ![work[w].job] = row] ELSE jobs
    \/ Fault /\ UNCHANGED jobs

Settled(w) == Owns(w) /\ Fine

Requeued(j) == [jobs[j] EXCEPT !.st = "pending", !.by = Nobody]
Failed(j) == [jobs[j] EXCEPT !.st = "failed", !.by = Nobody]

\* The reset of a processing row whose file has a pending job
ResetFor(js) == IF status = "processing" /\ Queued(js) THEN "pending" ELSE status

Up == boot # "down"

\* request_ingest_cancel holds the event loop from its mark to its sweep; only
\* the transactions on other threads come between.
Loop == Up /\ cancel.pc # "marked"

-------------------------------------------------------------------------------
(* Starting, stopping and crashing.                                        *)

\* _sync_missing_ingest_job_rows; the migration and the recovery phase run it.
Sync ==
    /\ boot \in {"due", "again"}
    /\ boot' = IF boot = "due" THEN "again" ELSE "done"
    /\ LET capped == \E j \in JobIds : Capped(j)
       IN /\ jobs' = IF status \in Live /\ ~Covered /\ ~capped THEN Inserted ELSE jobs
          /\ status' = IF status \in Live /\ ~Covered /\ capped
                       THEN "error" ELSE ResetFor(jobs')
    /\ UNCHANGED <<vec, marked, item, work, Calls, tomb, faults, lost>>

\* What the requests in flight come to when their process goes; a delete that
\* broke off may be asked for again.
Dropped ==
    /\ upload' = IF upload = "due" THEN "due" ELSE "over"
    /\ cancel' = [pc |-> IF cancel.pc \in CancelSteps THEN "over" ELSE cancel.pc,
                  picked |-> {}]
    /\ retry' = IF retry.pc = "due" THEN retry ELSE [retry EXCEPT !.pc = "over"]
    /\ del' = IF del \in {"purged", "unpurged"} THEN "broken" ELSE del

Gone ==
    /\ boot' = "down"
    /\ marked' = FALSE
    /\ item' = NoItem
    /\ work' = [w \in Workers |-> Idle]
    /\ Fault
    /\ lost' = (lost \cap Damages) \cup
               (IF vec /\ status # "indexed" THEN {"chunks"} ELSE {})

Crash ==
    /\ Up
    /\ Gone /\ Dropped
    /\ UNCHANGED <<status, vec, jobs, tomb>>

\* A parse or an embedding that was cut short leaves a served row as it found it.
Undisturbed(w) == work[w].pc \in {"parsing", "embedding"} /\ work[w].keeps

\* BackgroundProcessor.stop, once its drain has timed out: the workers are
\* cancelled, an item parked for its retry is handed to the next boot, and
\* _release_all_ingest_leases refunds the attempts of the leased ones.
Stop ==
    /\ Up
    /\ upload \in {"due", "over"} /\ cancel.pc \notin CancelSteps
    /\ retry.pc \in {"due", "over"} /\ del \notin {"purged", "unpurged"}
    /\ Gone /\ Dropped
    /\ status' = IF status # "processing" THEN status
                 ELSE IF \E w \in Workers : Undisturbed(w) THEN "indexed"
                 ELSE IF item.st = "queued" THEN "pending" ELSE status
    /\ jobs' = [j \in JobIds |->
                  IF jobs[j].st # "running" THEN jobs[j]
                  ELSE [Requeued(j) EXCEPT !.tries =
                            IF jobs[j].tries > 0 THEN jobs[j].tries - 1 ELSE 0]]
    /\ UNCHANGED <<vec, tomb>>

Restart ==
    /\ boot = "down"
    /\ boot' = "due"
    /\ UNCHANGED <<status, vec, jobs, marked, item, work, Calls, tomb, faults, lost>>

\* Deviation, for a mutant: the sweep settles the job and leaves its file
JanitorRowOnly(j) ==
    /\ boot \in {"again", "done"}
    /\ jobs[j].st = "running"
    /\ ~\E w \in Workers : work[w].job = j /\ jobs[j].by = w
    /\ jobs' = [jobs EXCEPT ![j] = IF jobs[j].tries >= MaxAttempts
                                   THEN Failed(j) ELSE Requeued(j)]
    /\ UNCHANGED <<status, vec, marked, item, work, Calls, tomb, boot, faults, lost>>

\* _janitor_sweep_ingestion, for one lease that expired: its worker has died, or
\* its heartbeats are late.
Janitor(j) ==
    /\ boot \in {"again", "done"}
    /\ jobs[j].st = "running"
    /\ LET held == \E w \in Workers : work[w].job = j /\ jobs[j].by = w
       IN IF held THEN Fault ELSE Fine
    /\ LET row == IF jobs[j].tries >= MaxAttempts
                  THEN Failed(j) ELSE Requeued(j)
       IN /\ jobs' = [jobs EXCEPT ![j] = row]
          /\ status' = IF row.st = "failed" /\ status \in Live
                       THEN "error" ELSE ResetFor(jobs')
    /\ UNCHANGED <<vec, marked, item, work, Calls, tomb, boot, lost>>

-------------------------------------------------------------------------------
(* The routes.                                                             *)

\* upload_document: the row is committed before its job.
Register ==
    /\ Loop /\ upload = "due"
    /\ status' = "pending"
    /\ upload' = "registered"
    /\ UNCHANGED <<vec, jobs, marked, item, work, cancel, retry, del, tomb, boot,
                   faults, lost>>

\* A second item would be one too many for the bound.
RoomInMemory == item.st = "none" /\ "fallback" \notin {upload, retry.pc}

\* enqueue, the insert; maintenance mode refuses it, and one that fails falls
\* back to the queue in memory.
InsertUploaded ==
    /\ Up /\ upload = "registered"
    /\ \/ Spare # {} /\ jobs' = Inserted /\ upload' = "inserted"
       \/ upload' = "undoing" /\ UNCHANGED jobs
       \/ RoomInMemory /\ upload' = "fallback" /\ UNCHANGED jobs
    /\ UNCHANGED <<status, vec, marked, item, work, cancel, retry, del, tomb, boot,
                   faults, lost>>

\* _compensate_failed_registration; where the DELETE fails it keeps the row.
Undo ==
    /\ Up /\ upload = "undoing"
    /\ \/ status' = "none" /\ Fine /\ UNCHANGED lost
       \/ Fault /\ lost' = lost \cup {"kept"} /\ UNCHANGED status
    /\ upload' = "over"
    /\ UNCHANGED <<vec, jobs, marked, item, work, cancel, retry, del, tomb, boot>>

\* enqueue, once its job is in, or as it puts the item: the stale cancel of an
\* earlier generation goes.
ClearUploaded ==
    /\ Loop /\ upload \in {"inserted", "fallback"}
    /\ marked' = FALSE
    /\ item' = IF upload = "fallback" THEN [st |-> "queued", tries |-> 1] ELSE item
    /\ upload' = "over"
    /\ UNCHANGED <<status, vec, jobs, work, cancel, retry, del, tomb, boot, faults, lost>>

Retries(pc) == retry' = [pc |-> pc, late |-> cancel.pc = "accepted"]

\* retry_document: one job at a time covers a retried file, whatever its status.
InsertRetried ==
    /\ "retry" \in Requests
    /\ Up /\ retry.pc = "due" /\ status # "none"
    /\ \/ ~Covered /\ Spare # {} /\ jobs' = Inserted /\ Retries("inserted")
       \/ Covered /\ UNCHANGED jobs /\ retry' = [retry EXCEPT !.pc = "over"]
       \/ RoomInMemory /\ UNCHANGED jobs /\ Retries("fallback")
    /\ UNCHANGED <<status, vec, marked, item, work, upload, cancel, del, tomb, boot,
                   faults, lost>>

ClearRetried ==
    /\ Loop /\ retry.pc \in {"inserted", "fallback"}
    /\ marked' = FALSE
    /\ item' = IF retry.pc = "fallback" THEN [st |-> "queued", tries |-> 1] ELSE item
    /\ retry' = [retry EXCEPT !.pc = "over"]
    /\ UNCHANGED <<status, vec, jobs, work, upload, cancel, del, tomb, boot, faults, lost>>

\* cancel_document_ingest: the status decides whether there is work to cancel.
ReadForCancel ==
    /\ "cancel" \in Requests
    /\ Loop /\ cancel.pc = "due" /\ status \in Live
    /\ cancel' = [cancel EXCEPT !.pc = "seen"]
    /\ UNCHANGED <<status, vec, jobs, marked, item, work, upload, retry, del, tomb,
                   boot, faults, lost>>

\* request_cancel, and the read of the pending jobs
Mark ==
    /\ Loop /\ cancel.pc = "seen"
    /\ marked' = TRUE
    /\ cancel' = [pc |-> "marked", picked |-> {j \in JobIds : jobs[j].st = "pending"}]
    /\ UNCHANGED <<status, vec, jobs, item, work, upload, retry, del, tomb, boot,
                   faults, lost>>

\* _cancel_pending_jobs_rows: by id, whatever became of the job; it may fail.
SweepPicked ==
    /\ Up /\ cancel.pc = "marked"
    /\ \/ /\ jobs' = [j \in JobIds |-> IF j \in cancel.picked
                                       THEN NoJob ELSE jobs[j]]
          /\ cancel' = [pc |-> "swept", picked |-> {j \in cancel.picked : Open(j)}]
       \/ UNCHANGED jobs /\ cancel' = [pc |-> "swept", picked |-> {}]
    /\ UNCHANGED <<status, vec, marked, item, work, upload, retry, del, tomb, boot,
                   faults, lost>>

\* The guarded flip: 200 when the row is cancelled, 409 otherwise, or a
\* database error; only an accepted cancel keeps its mark.
Flip ==
    /\ Loop /\ cancel.pc = "swept"
    /\ \/ /\ status \in Live \cup {"cancelled"}
          /\ status' = "cancelled"
          /\ cancel' = [pc |-> "accepted", picked |-> {}]
          /\ UNCHANGED marked
       \/ /\ status \notin Live \cup {"cancelled"}
          /\ cancel' = [cancel EXCEPT !.pc = "refused"]
          /\ marked' = FALSE
          /\ UNCHANGED status
       \/ /\ cancel' = [cancel EXCEPT !.pc = "failed"]
          /\ marked' = FALSE
          /\ UNCHANGED status
    /\ UNCHANGED <<vec, jobs, item, work, upload, retry, del, tomb, boot, faults, lost>>

\* _delete_file_record: the chunks, then the row; a tombstone goes with the row
\* where the chunks stayed.
Purge ==
    /\ "delete" \in Requests
    /\ Loop /\ del \in {"due", "broken"} /\ status # "none"
    /\ \/ vec' = FALSE /\ del' = "purged" /\ Fine
       \/ Fault /\ del' = "unpurged" /\ UNCHANGED vec
    /\ UNCHANGED <<status, jobs, marked, item, work, upload, cancel, retry, tomb, boot, lost>>

DeleteRow ==
    /\ Up /\ del \in {"purged", "unpurged"}
    /\ \/ /\ status' = "none"
          /\ tomb' = (tomb \/ (del = "unpurged" /\ status # "none"))
          /\ del' = "over" /\ Fine
       \/ Fault /\ del' = "broken" /\ UNCHANGED <<status, tomb>>
    /\ UNCHANGED <<vec, jobs, marked, item, work, upload, cancel, retry, boot, lost>>

Route ==
    \/ Register \/ InsertUploaded \/ Undo \/ ClearUploaded
    \/ InsertRetried \/ ClearRetried
    \/ ReadForCancel \/ Mark \/ SweepPicked \/ Flip
    \/ Purge \/ DeleteRow

-------------------------------------------------------------------------------
(* An attempt at the file.                                                 *)

At(w, pc) == Loop /\ work[w].pc = pc
Goes(w, pc) == work' = [work EXCEPT ![w].pc = pc]
Rests(w) == work' = [work EXCEPT ![w] = Idle]

\* JobLease.claim, once the migration has run
Claim(w, j) ==
    /\ boot \in {"again", "done"}
    /\ work[w].pc = "idle" /\ jobs[j].st = "pending"
    /\ jobs' = [jobs EXCEPT ![j] = [st |-> "running", by |-> w, tries |-> @.tries + 1]]
    /\ work' = [work EXCEPT ![w] = [Idle EXCEPT !.pc = "claimed", !.job = j,
                                      !.last = jobs[j].tries + 1 >= MaxAttempts]]
    /\ UNCHANGED <<status, vec, marked, item, Calls, tomb, boot, faults, lost>>

\* The loop takes the item before it polls the jobs table.  A refused admission
\* parks it again, or with a full backlog fails the task.
Take(w) ==
    /\ Loop /\ work[w].pc = "idle" /\ item.st = "queued"
    /\ work' = [work EXCEPT ![w].pc = "claimed", ![w].last = item.tries >= MaxAttempts]
    /\ item' = [item EXCEPT !.st = "taken"]
    /\ UNCHANGED <<status, vec, jobs, marked, Calls, tomb, boot, faults, lost>>

TakeInVain(w) ==
    /\ Loop /\ work[w].pc = "idle" /\ item.st = "queued"
    /\ work' = [work EXCEPT ![w].pc = "capped"]
    /\ item' = NoItem
    /\ UNCHANGED <<status, vec, jobs, marked, Calls, tomb, boot, faults, lost>>

\* Deviation, for a mutant: the flip to processing is unguarded
BeginUnguarded(w) ==
    /\ At(w, "claimed") /\ status # "none"
    /\ status' = "processing"
    /\ work' = [work EXCEPT ![w].pc = "parsing", ![w].keeps = (status = "indexed")]
    /\ UNCHANGED <<vec, jobs, marked, item, Calls, tomb, boot, faults, lost>>

\* Admission may refuse the attempt; a deleted row's bytes are gone, or about to
\* go.  The flip to processing spares a cancelled row.
Begin(w) ==
    /\ At(w, "claimed")
    /\ \/ Goes(w, "failed") /\ UNCHANGED status
       \/ /\ status \in {"none", "cancelled"}
          /\ Goes(w, "unwinding") /\ UNCHANGED status
       \/ /\ status \notin {"none", "cancelled"}
          /\ status' = "processing"
          /\ work' = [work EXCEPT ![w].pc = "parsing", ![w].keeps = (status = "indexed")]
    /\ UNCHANGED <<vec, jobs, marked, item, Calls, tomb, boot, faults, lost>>

\* A step of process_existing_file raised: a cancel wins, a lock timeout leaves
\* the row to the retry, anything else is to be written down.
Fails(w) ==
    work' = [work EXCEPT ![w].pc = IF marked THEN "unwinding" ELSE "restoring"]

\* Parsing and chunking, up to cancel gate A
Parse(w) ==
    /\ At(w, "parsing")
    /\ Fails(w) \/ Goes(w, IF marked THEN "unwinding" ELSE "embedding")
    /\ UNCHANGED <<status, vec, jobs, marked, item, Calls, tomb, boot, faults, lost>>

\* Embedding, up to cancel gate B and the row check; from here on a failure
\* cannot restore what was served.
Embed(w) ==
    /\ At(w, "embedding")
    /\ \/ Fails(w)
       \/ marked /\ Goes(w, "unwinding")
       \/ /\ ~marked /\ status # "none"
          /\ work' = [work EXCEPT ![w].pc = "writing", ![w].keeps = FALSE]
    /\ UNCHANGED <<status, vec, jobs, marked, item, Calls, tomb, boot, faults, lost>>

\* add_chunks; it may fail before or after the chunks are in, and in particular
\* time out on the store's lock.
Write(w) ==
    /\ At(w, "writing")
    /\ \/ vec' = TRUE /\ Goes(w, "written") /\ Fine /\ UNCHANGED lost
       \/ /\ Fault /\ vec' \in {vec, TRUE} /\ lost' = lost \cup {"chunks"}
          /\ \/ Fails(w)
             \/ work' = [work EXCEPT ![w].pc = IF marked THEN "unwinding" ELSE "failed",
                                     ![w].jam = TRUE]
    /\ UNCHANGED <<status, jobs, marked, item, Calls, tomb, boot>>

\* _discard_vectors_if_row_gone, the publication of the artifacts, and the look
\* at the registry with which _finalize_indexed_success begins
Publish(w) ==
    /\ At(w, "written")
    /\ \/ status = "none" /\ vec' = FALSE /\ Fails(w) /\ Fine /\ UNCHANGED lost
       \/ /\ status # "none" /\ UNCHANGED <<vec, lost>>
          /\ Goes(w, IF marked THEN "unwinding" ELSE "committing") /\ Fine
       \/ /\ status # "none" /\ UNCHANGED vec
          /\ Fault /\ Fails(w) /\ lost' = lost \cup {"chunks"}
    /\ UNCHANGED <<status, jobs, marked, item, Calls, tomb, boot>>

\* Deviation, for a mutant: an outcome that lost to a cancel is void like any other
CommitVoided(w) ==
    /\ At(w, "committing")
    /\ status' = IF status \in Live THEN "indexed" ELSE status
    /\ Goes(w, "settling")
    /\ UNCHANGED <<vec, jobs, marked, item, Calls, tomb, boot, faults, lost>>

\* The guarded write of _finalize_indexed_success: lost to a cancel it is
\* unwound, lost to anything else the attempt is void, and so it is where the
\* row cannot be read again.  A write that fails is a failed attempt.
Commit(w) ==
    /\ At(w, "committing")
    /\ \/ /\ status \in Live /\ status' = "indexed" /\ Goes(w, "settling")
          /\ Fine /\ UNCHANGED <<marked, lost>>
       \/ /\ status = "cancelled" /\ Goes(w, "unwinding")
          /\ Fine /\ UNCHANGED <<status, marked, lost>>
       \/ /\ status \notin Live
          /\ IF status = "cancelled" THEN Fault /\ lost' = lost \cup {"chunks"}
                                     ELSE Fine /\ UNCHANGED lost
          /\ marked' = FALSE
          /\ Goes(w, "settling") /\ UNCHANGED status
       \/ /\ Fault /\ lost' = lost \cup {"chunks"}
          /\ Goes(w, "failed") /\ UNCHANGED <<status, marked>>
    /\ UNCHANGED <<vec, jobs, item, Calls, tomb, boot>>

\* The failure handler's guarded write; a restore that finds the row settled
\* falls through to the write of the error.  Either write may fail.  A cancel that
\* came after the look at the registry is spared, and its chunks with it.
Restore(w) ==
    /\ At(w, "restoring")
    /\ \/ /\ work[w].keeps /\ status \notin Live
          /\ work' = [work EXCEPT ![w].keeps = FALSE] /\ Fine /\ UNCHANGED <<status, lost>>
       \/ /\ work[w].keeps => status \in Live
          /\ status' = IF status \notin Live THEN status
                       ELSE IF work[w].keeps THEN "indexed" ELSE "error"
          /\ lost' = IF status = "cancelled" THEN lost \cup {"chunks"} ELSE lost
          /\ Goes(w, "failed") /\ Fine
       \/ Fault /\ lost' = lost \cup {"chunks"} /\ Goes(w, "failed") /\ UNCHANGED status
    /\ UNCHANGED <<vec, jobs, marked, item, Calls, tomb, boot>>

-------------------------------------------------------------------------------
(* rollback_cancelled_ingest, by the transport; where the processor has    *)
(* run it already the second run finds nothing left to do.                 *)

\* Deviation, for a mutant: the chunks go whatever the row has become
RollBackRegardless(w) ==
    /\ At(w, "unwinding")
    /\ status' = IF status \in Live THEN "cancelled" ELSE status
    /\ Goes(w, "dropping")
    /\ UNCHANGED <<vec, jobs, marked, item, Calls, tomb, boot, faults, lost>>

\* The chunks are to go where the row is cancelled, or becomes it.  The read or
\* the guarded write may fail, and the row and its chunks stay; or the commit may,
\* and the row stays while the chunks are still to go.
Unwound(damage) == IF status \in Live THEN {"unwound", damage} ELSE {damage}

RollBack(w) ==
    /\ At(w, "unwinding")
    /\ \/ /\ status \in Live \cup {"cancelled"}
          /\ status' = "cancelled" /\ Goes(w, "dropping")
          /\ Fine /\ UNCHANGED <<marked, lost>>
       \/ /\ status \notin Live \cup {"cancelled"}
          /\ marked' = FALSE /\ Goes(w, "cancelling")
          /\ Fine /\ UNCHANGED <<status, lost>>
       \/ /\ Fault /\ status \in Live \cup {"cancelled"}
          /\ marked' = FALSE /\ Goes(w, "cancelling")
          /\ lost' = lost \cup Unwound("chunks") /\ UNCHANGED status
       \/ /\ Fault /\ status \in Live
          /\ Goes(w, "dropping")
          /\ lost' = lost \cup Unwound("torn") /\ UNCHANGED <<status, marked>>
    /\ UNCHANGED <<vec, jobs, item, Calls, tomb, boot>>

\* A delete that fails leaves a tombstone, or not even that; where the row has
\* gone, there is none to leave.
DropVectors(w) ==
    /\ At(w, "dropping")
    /\ \/ vec' = FALSE /\ Fine /\ UNCHANGED <<tomb, lost>>
       \/ /\ Fault /\ UNCHANGED vec
          /\ \/ tomb' = (tomb \/ status # "none") /\ UNCHANGED lost
             \/ UNCHANGED tomb /\ lost' = lost \cup {"chunks"}
    /\ marked' = FALSE
    /\ Goes(w, "cancelling")
    /\ UNCHANGED <<status, jobs, item, Calls, boot>>

\* retry_pending_vector_deletes, for this file: whatever its row has become; a
\* delete that has failed too often is left to an operator.
Redelete ==
    /\ Loop /\ tomb
    /\ \/ vec' = FALSE /\ UNCHANGED lost
       \/ lost' = lost \cup {"chunks"} /\ UNCHANGED vec
    /\ tomb' = FALSE
    /\ UNCHANGED <<status, jobs, marked, item, work, Calls, boot, faults>>

-------------------------------------------------------------------------------
(* _process_ingest_job_row settles the job.                                *)

\* Not settled, the cancel is marked again for whoever has the job now.
SettleCancel(w) ==
    /\ Up /\ work[w].pc = "cancelling" /\ work[w].job # 0
    /\ Settle(w, NoJob)
    /\ marked' = (marked \/ ~Settled(w))
    /\ Rests(w)
    /\ UNCHANGED <<status, vec, item, Calls, tomb, boot, lost>>

SettleSuccess(w) ==
    /\ Up /\ work[w].pc = "settling" /\ work[w].job # 0
    /\ Settle(w, NoJob)
    /\ Rests(w)
    /\ UNCHANGED <<status, vec, marked, item, Calls, tomb, boot, lost>>

\* Deviation, for a mutant: at the cap a lock timeout fails the job, and marks no file
SettleFailureUnmarked(w) ==
    /\ Up /\ work[w].pc = "failed" /\ work[w].job # 0
    /\ IF ~work[w].last THEN Settle(w, Requeued(work[w].job)) /\ Rests(w)
       ELSE /\ Settle(w, Failed(work[w].job))
            /\ IF work[w].jam THEN Rests(w) ELSE Goes(w, "capped")
    /\ lost' = IF ~Owns(w) /\ status \in Live /\ (~work[w].last \/ work[w].jam)
                THEN lost \cup {"late"} ELSE lost
    /\ UNCHANGED <<status, vec, marked, item, Calls, tomb, boot>>

\* A failure is retried below the cap; a lock timeout is retried always.  Without
\* its lease neither is, and a file that waits by then is left to wait: after a lock
\* timeout, or where the write of its error failed.
SettleFailure(w) ==
    /\ Up /\ work[w].pc = "failed" /\ work[w].job # 0
    /\ IF ~work[w].last \/ work[w].jam
       THEN Settle(w, Requeued(work[w].job)) /\ Rests(w)
       ELSE Settle(w, Failed(work[w].job)) /\ Goes(w, "capped")
    /\ lost' = IF ~Owns(w) /\ status \in Live /\ (~work[w].last \/ work[w].jam)
                THEN lost \cup {"late"} ELSE lost
    /\ UNCHANGED <<status, vec, marked, item, Calls, tomb, boot>>

\* _mark_task_permanently_failed, fenced off or not; a write that fails is swallowed.
MarkFailed(w) ==
    /\ At(w, "capped")
    /\ \/ /\ status' = IF status \in Live THEN "error" ELSE status
          /\ Fine /\ UNCHANGED lost
       \/ Fault /\ lost' = lost \cup {"unmarked"} /\ UNCHANGED status
    /\ Rests(w)
    /\ UNCHANGED <<vec, jobs, marked, item, Calls, tomb, boot>>

-------------------------------------------------------------------------------
(* _process_task ends an attempt at the item in memory, which nothing fences. *)

FinishItem(w) ==
    /\ Loop /\ work[w].pc \in {"settling", "cancelling"} /\ work[w].job = 0
    /\ item' = NoItem
    /\ Rests(w)
    /\ UNCHANGED <<status, vec, jobs, marked, Calls, tomb, boot, faults, lost>>

\* _handle_failure: below the cap, and after a lock timeout always, the item waits
\* for its next attempt.  With a full retry backlog the failure is final, but for a
\* lock timeout, whose row is left to a recovery sweep.
FailItem(w) ==
    /\ At(w, "failed") /\ work[w].job = 0
    /\ \/ /\ ~work[w].last \/ work[w].jam
          /\ item' = [st |-> "queued", tries |-> item.tries + 1]
          /\ Rests(w) /\ UNCHANGED <<status, lost>>
       \/ /\ ~work[w].jam
          /\ item' = NoItem
          /\ Goes(w, "capped") /\ UNCHANGED <<status, lost>>
       \/ /\ work[w].jam
          /\ item' = NoItem
          /\ status' = IF status \in Live THEN "pending" ELSE status
          /\ Rests(w) /\ lost' = lost \cup {"backlog"}
    /\ UNCHANGED <<vec, jobs, marked, Calls, tomb, boot, faults>>

Attempt(w) ==
    \/ Begin(w) \/ Parse(w) \/ Embed(w) \/ Write(w) \/ Publish(w)
    \/ Commit(w) \/ Restore(w) \/ RollBack(w) \/ DropVectors(w)
    \/ SettleCancel(w) \/ SettleSuccess(w) \/ SettleFailure(w) \/ MarkFailed(w)
    \/ FinishItem(w) \/ FailItem(w)

Next ==
    \/ Sync \/ Restart \/ Crash \/ Stop \/ Redelete
    \/ \E j \in JobIds : Janitor(j)
    \/ Route
    \/ \E w \in Workers :
           Attempt(w) \/ Take(w) \/ TakeInVain(w) \/ \E j \in JobIds : Claim(w, j)

Spec == Init /\ [][Next]_vars

\* The janitor's sweep of a lease whose worker has died
Sweep == \E j \in JobIds : Janitor(j) /\ UNCHANGED faults

\* What runs once begun: the process is started again and boots; the janitor, the
\* sweep of the tombstones and the worker loops poll; an attempt's calls time out,
\* and so do a request's.
Duty ==
    \/ Restart \/ Sync \/ Sweep \/ Redelete
    \/ InsertUploaded \/ Undo \/ ClearUploaded \/ ClearRetried
    \/ Mark \/ SweepPicked \/ Flip
    \/ DeleteRow
    \/ \E w \in Workers : Take(w) \/ Attempt(w) \/ \E j \in JobIds : Claim(w, j)

\* Faults and attempts are bounded, so every behaviour comes to a last step: that
\* no duty is open for ever says as much as one condition for each of them.
FairSpec == Spec /\ WF_vars(Duty)

-------------------------------------------------------------------------------
(* What the routes and the processor promise.                              *)

\* A cancel that answered 200 holds until the file is retried or deleted: no
\* attempt, sweep, restart or failing write takes it out of "cancelled", nor does a
\* retry that was called before it (cancel_document_ingest, the guarded writes of
\* document_processor.py).
AcceptedCancelHolds ==
    cancel.pc = "accepted" /\ ~retry.late => status \in {"cancelled", "none"}

\* A retry whose job is inserted after an accepted cancel takes the file out of
\* "cancelled", or its attempt is refused or fails (retry_document and enqueue, as
\* the release note of the cancel route says).
RetryAfterCancelWorks ==
    retry = [pc |-> "inserted", late |-> TRUE] ~>
        \/ status # "cancelled"
        \/ \E w \in Workers : work[w].pc \in {"failed", "capped"}

\* A file served as indexed has its chunks, whichever attempt, rollback, restore
\* or tombstone touched it, until its deletion begins, and but for a rollback that
\* deleted the chunks and could not commit the status
\* (_finalize_indexed_success, rollback_cancelled_ingest, the failure handler).
IndexedHasChunks ==
    status = "indexed" /\ del = "due" /\ "torn" \notin lost => vec

\* In this process a cancel swept jobs away and then did not cancel the file.
SweptInVain == cancel.pc \in {"refused", "failed"} /\ cancel.picked # {}

\* In this process a failure left the file to a recovery that only a boot runs.
Stranded == lost \cap Strandings # {}

\* A file that waits to be ingested, or is being ingested, has an open job, an
\* item in memory, or a worker, a request or the boot sync still to decide about
\* it, but for a cancel refused after its sweep and the failures Strandings
\* names; the next boot finds those files (enqueue, _settle_ingest_job,
\* _handle_failure, _sync_missing_ingest_job_rows).
NoFileIsForgotten ==
    status \in Live =>
        \/ Covered
        \/ item.st # "none"
        \/ boot # "done"
        \/ \E w \in Workers : work[w].pc # "idle"
        \/ upload \in {"registered", "fallback", "undoing"}
        \/ cancel.pc = "swept" /\ cancel.picked # {}
        \/ SweptInVain
        \/ Stranded

\* The type invariant and the cover of every waiting file, in one
Inv == TypeOK /\ NoFileIsForgotten

\* An upload or a reindexed file does not stay pending or processing for ever,
\* but for the losses NoFileIsForgotten names (the janitor, the boot sync, the
\* retries of both queues and the routes' compensation together).
FilesSettle == status \in Live ~> status \notin Live \/ SweptInVain \/ Stranded

\* A cancelled file comes to rest: no job or item of it stays open, no worker
\* stays on it, and no chunk of it is left but by a failing write or delete, or
\* an attempt that its process cut short (rollback_cancelled_ingest, the
\* settlement of its job, the sweep of the tombstones).
CancelledWorkEnds ==
    status = "cancelled" ~>
        /\ ~Covered /\ item.st = "none"
        /\ \A w \in Workers : work[w].pc = "idle"
        /\ status = "cancelled" /\ vec => "chunks" \in lost

===============================================================================
