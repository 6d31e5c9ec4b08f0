------------------------------ MODULE DraftInputs ------------------------------
(***************************************************************************)
(* One uploaded input of a Draft Room project, from its upload to its      *)
(* deletion: the draft_inputs row and its parse jobs (draft_store.py), the *)
(* processor that parses it (draft_job_processor.py), the file and its     *)
(* tombstone (draft_input_storage.py, draft_deletion.py), the requests     *)
(* that upload, retry, cancel and delete (draft_room.py), and what the     *)
(* next start makes of a crash.                                            *)
(*                                                                         *)
(* A step is one transaction, one change of the file system, or a read     *)
(* that decides what comes next.  One process serves the requests and runs *)
(* the jobs; it recovers before it serves.                                 *)
(***************************************************************************)
EXTENDS Integers, Sequences

CONSTANTS
    InputDeletes, \* requests that delete the input
    DraftDeletes, \* requests that delete the whole draft
    MaxAttempts,  \* settings.jobs_max_attempts
    MaxJobs,      \* bound: parse jobs of the input
    MaxCrashes,   \* bound: crashes
    MaxLate       \* bound: leases that expire while their job is worked on

ASSUME DeletesAssumption == InputDeletes \cap DraftDeletes = {}
ASSUME BoundAssumption ==
    /\ {MaxAttempts, MaxJobs} \subseteq Nat \ {0}
    /\ {MaxCrashes, MaxLate} \subseteq Nat

VARIABLES
    draft,   \* the drafts row exists
    input,   \* draft_inputs.parse_status, or "none" without a row
    jobs,    \* the input's parse jobs, oldest first; they go with the row
    bytes,   \* where the file is: nowhere, .incoming, in place, or in .trash
    upload,  \* the request that uploads it
    del,     \* the requests that delete it
    run,     \* what the process does
    expired, \* the job the janitor found expired at the attempts cap, or 0
    crashes, \* crashes so far
    late     \* leases lost by a live worker so far

vars == <<draft, input, jobs, bytes, upload, del, run, expired, crashes, late>>

Deletes == InputDeletes \cup DraftDeletes

InputStatuses == {"pending", "parsing", "ready", "failed", "cancelled"}
JobStatuses == {"pending", "running", "completed", "failed", "cancelled"}

Job == [st : JobStatuses, cancel : BOOLEAN, tries : 0..MaxAttempts]
NewJob == [st |-> "pending", cancel |-> FALSE, tries |-> 0]

UploadSteps == {"staged", "reserved", "finalized", "unlinking", "unrowing"}
DeleteSteps == {"cancelled", "checked", "trashed", "restoring", "discarding"}
StartSteps == {"down", "reconciling", "requeueing"}
JobSteps == {"checking", "moving", "parsing", "extracted", "committing",
             "failing", "failing_job", "cancelling", "cancelling_job"}

\* In .trash the file has the token of the delete that put it there.
TypeOK ==
    /\ draft \in BOOLEAN
    /\ input \in InputStatuses \cup {"none"}
    /\ jobs \in Seq(Job) /\ Len(jobs) <= MaxJobs
    /\ bytes \in {"none", "incoming", "stored"} \cup Deletes
    /\ upload \in UploadSteps \cup {"done", "refused", "lost"}
    /\ del \in [Deletes -> DeleteSteps \cup {"due", "over"}]
    /\ run \in [pc : StartSteps \cup JobSteps \cup {"idle"}, job : 0..MaxJobs]
    /\ expired \in 0..MaxJobs
    /\ crashes \in 0..MaxCrashes
    /\ late \in 0..MaxLate

\* stage_upload has written the file to .incoming.
Init ==
    /\ draft = TRUE
    /\ input = "none"
    /\ jobs = <<>>
    /\ bytes = "incoming"
    /\ upload = "staged"
    /\ del = [d \in Deletes |-> "due"]
    /\ run = [pc |-> "idle", job |-> 0]
    /\ expired = 0
    /\ crashes = 0
    /\ late = 0

Faults == <<crashes, late>>
Rows == <<draft, input, jobs>>

-------------------------------------------------------------------------------
Active(j) == jobs[j].st \in {"pending", "running"}
Parsing == \E j \in DOMAIN jobs : Active(j)
Serving == run.pc \notin StartSteps

\* _INPUT_TRANSITIONS, as _check_transition reads them
LegalInput(from, to) ==
    \/ from = to
    \/ from = "pending" /\ to \in {"parsing", "failed", "cancelled"}
    \/ from = "parsing" /\ to \in {"ready", "failed", "cancelled"}
    \/ from \in {"failed", "cancelled"} /\ to = "pending"

\* The row goes and its jobs with it (ON DELETE CASCADE).
DropRow == input' = "none" /\ jobs' = <<>>

-------------------------------------------------------------------------------
(* The upload.                                                             *)

\* DraftStore.reserve_input; a refusal discards the staged file.
Reserve ==
    /\ Serving /\ upload = "staged"
    /\ IF draft
       THEN input' = "pending" /\ upload' = "reserved" /\ UNCHANGED bytes
       ELSE bytes' = "none" /\ upload' = "refused" /\ UNCHANGED input
    /\ UNCHANGED <<draft, jobs, del, run, expired, Faults>>

\* DraftInputStorage.finalize; an error discards the staged file.
Finalize ==
    /\ Serving /\ upload = "reserved"
    /\ \/ bytes' = "stored" /\ upload' = "finalized"
       \/ bytes' = "none" /\ upload' = "unrowing"
    /\ UNCHANGED <<Rows, del, run, expired, Faults>>

\* DraftStore.enqueue_parse_job; the row may be gone, or the database locked.
Enqueue ==
    /\ Serving /\ upload = "finalized"
    /\ \/ /\ input # "none" /\ ~Parsing /\ Len(jobs) < MaxJobs
          /\ jobs' = Append(jobs, NewJob)
          /\ upload' = "done"
       \/ upload' = "unlinking" /\ UNCHANGED jobs
    /\ UNCHANGED <<draft, input, bytes, del, run, expired, Faults>>

\* _compensate_enqueue_phase, the file
Unlink ==
    /\ Serving /\ upload = "unlinking"
    /\ bytes' = IF bytes = "stored" THEN "none" ELSE bytes
    /\ upload' = "unrowing"
    /\ UNCHANGED <<Rows, del, run, expired, Faults>>

\* _delete_input_row_best_effort
Unrow ==
    /\ Serving /\ upload = "unrowing"
    /\ DropRow
    /\ upload' = "refused"
    /\ UNCHANGED <<draft, bytes, del, run, expired, Faults>>

UploadStep == Reserve \/ Finalize \/ Enqueue \/ Unlink \/ Unrow

-------------------------------------------------------------------------------
(* The owner cancels and retries a parse.                                  *)

\* DraftStore.request_job_cancel: the input of a pending job stays pending.
CancelParse(j) ==
    /\ Serving /\ Active(j)
    /\ jobs' = [jobs EXCEPT ![j].cancel = TRUE,
                            ![j].st = IF @ = "pending" THEN "cancelled" ELSE @]
    /\ UNCHANGED <<draft, input, bytes, upload, del, run, expired, Faults>>

\* DraftStore.retry_parse_job
RetryParse(j) ==
    /\ Serving
    /\ jobs[j].st \in {"failed", "cancelled"}
    /\ LegalInput(input, "pending") /\ ~Parsing /\ Len(jobs) < MaxJobs
    /\ input' = "pending"
    /\ jobs' = Append(jobs, NewJob)
    /\ UNCHANGED <<draft, bytes, upload, del, run, expired, Faults>>

-------------------------------------------------------------------------------
(* The deletes.                                                            *)

Advance(d, step) == del' = [del EXCEPT ![d] = step]

\* DraftDeletionService.delete_input, its first checks
CheckInput(d) ==
    /\ Serving /\ d \in InputDeletes /\ del[d] = "due"
    /\ input # "none" /\ ~Parsing
    /\ Advance(d, "checked")
    /\ UNCHANGED <<Rows, bytes, upload, run, expired, Faults>>

\* delete_draft: cancel_pending_jobs, then count_active_jobs
CancelPending(d) ==
    /\ Serving /\ d \in DraftDeletes /\ del[d] = "due"
    /\ draft
    /\ jobs' = [j \in DOMAIN jobs |->
                   IF jobs[j].st = "pending"
                   THEN [jobs[j] EXCEPT !.st = "cancelled", !.cancel = TRUE] ELSE jobs[j]]
    /\ Advance(d, "cancelled")
    /\ UNCHANGED <<draft, input, bytes, upload, run, expired, Faults>>

CountActive(d) ==
    /\ Serving /\ del[d] = "cancelled"
    /\ Advance(d, IF Parsing THEN "over" ELSE "checked")
    /\ UNCHANGED <<Rows, bytes, upload, run, expired, Faults>>

\* Deviation, for a mutant: the file is deleted before its row.
TombstoneForGood(d) ==
    /\ Serving /\ del[d] = "checked"
    /\ bytes' = IF bytes = "stored" /\ (d \in DraftDeletes => input # "none")
                THEN "none" ELSE bytes
    /\ Advance(d, "trashed")
    /\ UNCHANGED <<Rows, upload, run, expired, Faults>>

\* DraftInputStorage.tombstone; a missing file is tolerated.
Tombstone(d) ==
    /\ Serving /\ del[d] = "checked"
    /\ bytes' = IF bytes = "stored" /\ (d \in DraftDeletes => input # "none")
                THEN d ELSE bytes
    /\ Advance(d, "trashed")
    /\ UNCHANGED <<Rows, upload, run, expired, Faults>>

\* DraftStore.delete_input_row: refused while a parse is active.
DeleteInputRow(d) ==
    /\ Serving /\ d \in InputDeletes /\ del[d] = "trashed"
    /\ IF input # "none" /\ Parsing
       THEN Advance(d, "restoring") /\ UNCHANGED <<input, jobs>>
       ELSE Advance(d, "discarding") /\ DropRow
    /\ UNCHANGED <<draft, bytes, upload, run, expired, Faults>>

\* DraftStore.delete_draft_row
DeleteDraftRow(d) ==
    /\ Serving /\ d \in DraftDeletes /\ del[d] = "trashed"
    /\ IF draft
       THEN draft' = FALSE /\ DropRow /\ Advance(d, "discarding")
       ELSE Advance(d, "restoring") /\ UNCHANGED Rows
    /\ UNCHANGED <<bytes, upload, run, expired, Faults>>

\* restore_tombstone
RestoreTombstone(d) ==
    /\ Serving /\ del[d] = "restoring"
    /\ bytes' = IF bytes = d THEN "stored" ELSE bytes
    /\ Advance(d, "over")
    /\ UNCHANGED <<Rows, upload, run, expired, Faults>>

\* commit_tombstone; delete_draft then removes the project's directory.
CommitTombstone(d) ==
    /\ Serving /\ del[d] = "discarding"
    /\ bytes' = IF bytes = d \/ (d \in DraftDeletes /\ bytes = "stored")
                THEN "none" ELSE bytes
    /\ Advance(d, "over")
    /\ UNCHANGED <<Rows, upload, run, expired, Faults>>

DeleteStep(d) ==
    \/ CountActive(d) \/ Tombstone(d) \/ DeleteInputRow(d) \/ DeleteDraftRow(d)
    \/ RestoreTombstone(d) \/ CommitTombstone(d)

-------------------------------------------------------------------------------
(* The processor: _poll_loop and _dispatch_job.                            *)

Goto(pc) == run' = [run EXCEPT !.pc = pc]
Finish == run' = [pc |-> "idle", job |-> 0]

\* The row, if it is still there, is the lease of the worker's own claim.
Owns == run.job \in DOMAIN jobs /\ jobs[run.job].st = "running"

CancelRequested == run.job \in DOMAIN jobs /\ jobs[run.job].cancel

\* The claim; an admission that is rejected leaves the row running.
Claim(j) ==
    /\ run.pc = "idle"
    /\ jobs[j].st = "pending"
    /\ jobs' = [jobs EXCEPT ![j].st = "running",
                            ![j].tries = IF @ < MaxAttempts THEN @ + 1 ELSE @]
    /\ run' = [pc |-> "checking", job |-> j] \/ UNCHANGED run
    /\ UNCHANGED <<draft, input, bytes, upload, del, expired, Faults>>

\* The permission, and the input's row
CheckPermission ==
    /\ run.pc = "checking"
    /\ Goto("failing") \/ Goto(IF input = "none" THEN "failing_job" ELSE "moving")
    /\ UNCHANGED <<Rows, bytes, upload, del, expired, Faults>>

\* _move_input_to_parsing: this write knows no lease.
MoveToParsing ==
    /\ run.pc = "moving"
    /\ IF LegalInput(input, "parsing")
       THEN input' = "parsing" /\ Goto("parsing")
       ELSE Goto("failing_job") /\ UNCHANGED input
    /\ UNCHANGED <<draft, jobs, bytes, upload, del, expired, Faults>>

\* The first look at the cancellation, and the extraction
Extract ==
    /\ run.pc = "parsing"
    /\ IF CancelRequested THEN Goto("cancelling")
       ELSE \/ Goto("failing")
            \/ bytes = "stored" /\ Goto("extracted")
    /\ UNCHANGED <<Rows, bytes, upload, del, expired, Faults>>

\* The second look, the limit and the permission
Review ==
    /\ run.pc = "extracted"
    /\ IF CancelRequested THEN Goto("cancelling") ELSE Goto("committing") \/ Goto("failing")
    /\ UNCHANGED <<Rows, bytes, upload, del, expired, Faults>>

\* Deviation, for a mutant: the cancellation is not read again.
CommitUnchecked ==
    /\ run.pc = "committing"
    /\ IF Owns
       THEN /\ input' = "ready"
            /\ jobs' = [jobs EXCEPT ![run.job].st = "completed"]
            /\ Finish
       ELSE Goto("failing") /\ UNCHANGED <<input, jobs>>
    /\ UNCHANGED <<draft, bytes, upload, del, expired, Faults>>

\* _commit_success: a cancellation settles both rows without the fence, and a
\* lost lease comes back to _dispatch_job as any other error.
Commit ==
    /\ run.pc = "committing"
    /\ IF CancelRequested
       THEN /\ input' = "cancelled"
            /\ jobs' = [jobs EXCEPT ![run.job].st = "cancelled"]
            /\ Finish
       ELSE IF Owns
       THEN /\ input' = "ready"
            /\ jobs' = [jobs EXCEPT ![run.job].st = "completed"]
            /\ Finish
       ELSE Goto("failing") /\ UNCHANGED <<input, jobs>>
    /\ UNCHANGED <<draft, bytes, upload, del, expired, Faults>>

\* The input's half of _fail_input_and_job_sync and _cancel_job_and_input_sync;
\* a refused transition ends in _fail_job.
SettleInput(pc, outcome, next) ==
    /\ run.pc = pc
    /\ IF LegalInput(input, outcome)
       THEN input' = outcome /\ Goto(next)
       ELSE Goto("failing_job") /\ UNCHANGED input
    /\ UNCHANGED <<draft, jobs, bytes, upload, del, expired, Faults>>

\* The job's half, which is fenced
SettleJob(pc, outcome) ==
    /\ run.pc = pc
    /\ jobs' = IF Owns THEN [jobs EXCEPT ![run.job].st = outcome] ELSE jobs
    /\ Finish
    /\ UNCHANGED <<draft, input, bytes, upload, del, expired, Faults>>

JobStep ==
    \/ CheckPermission \/ MoveToParsing \/ Extract \/ Review \/ Commit
    \/ SettleInput("failing", "failed", "failing_job")
    \/ SettleJob("failing_job", "failed")
    \/ SettleInput("cancelling", "cancelled", "cancelling_job")
    \/ SettleJob("cancelling_job", "cancelled")

-------------------------------------------------------------------------------
(* Recovery.                                                               *)

\* The outcome a running job takes over from its input.
Outcome(status) == IF status = "ready" THEN "completed" ELSE status

\* Deviation, for a mutant: only the jobs are reset.
RecoverJobsOnly(js) ==
    /\ jobs' = [j \in DOMAIN jobs |->
                   IF j \in js
                   THEN [jobs[j] EXCEPT !.st = IF jobs[j].cancel THEN "cancelled" ELSE "pending"]
                   ELSE jobs[j]]
    /\ UNCHANGED input

\* recover_orphaned_parse_jobs on the given running jobs: at most one.
Recover(js) ==
    LET back == IF \E j \in js : jobs[j].cancel THEN "cancelled" ELSE "pending"
        st == IF input \in {"ready", "failed", "cancelled"} THEN Outcome(input) ELSE back
    IN  /\ jobs' = [j \in DOMAIN jobs |->
                       IF j \in js THEN [jobs[j] EXCEPT !.st = st] ELSE jobs[j]]
        /\ input' = IF js # {} /\ input = "parsing" THEN back ELSE input

\* _recover_on_startup, its three parts
StartRecover ==
    /\ run.pc = "down"
    /\ Recover({j \in DOMAIN jobs : jobs[j].st = "running"})
    /\ Goto("reconciling")
    /\ UNCHANGED <<draft, bytes, upload, del, expired, Faults>>

\* DraftInputStorage.reconcile: a tombstone owed to a row is restored; what
\* else is in .trash and .incoming goes when it is old enough.
Reconcile ==
    /\ run.pc = "reconciling"
    /\ IF bytes \in Deletes /\ input # "none" THEN bytes' = "stored"
       ELSE IF bytes \in {"incoming"} \cup Deletes THEN bytes' \in {bytes, "none"}
       ELSE bytes' = IF bytes = "stored" /\ ~draft THEN "none" ELSE bytes
    /\ Goto("requeueing")
    /\ UNCHANGED <<Rows, upload, del, expired, Faults>>

\* Deviation, for a mutant: an input without its file is left waiting.
RequeueStored ==
    /\ run.pc = "requeueing"
    /\ IF /\ input = "pending" /\ bytes = "stored"
          /\ \A j \in DOMAIN jobs : jobs[j].st = "failed"
       THEN jobs' = Append(jobs, NewJob) ELSE UNCHANGED jobs
    /\ Goto("idle")
    /\ UNCHANGED <<draft, input, bytes, upload, del, expired, Faults>>

\* _recover_orphaned_input, unless the owner cancelled a parse of it
Requeue ==
    /\ run.pc = "requeueing"
    /\ IF \/ input # "pending"
          \/ \E j \in DOMAIN jobs : Active(j) \/ jobs[j].st = "cancelled"
       THEN UNCHANGED <<input, jobs>>
       ELSE IF bytes = "stored" THEN jobs' = Append(jobs, NewJob) /\ UNCHANGED input
       ELSE input' = "failed" /\ UNCHANGED jobs
    /\ Goto("idle")
    /\ UNCHANGED <<draft, bytes, upload, del, expired, Faults>>

StartStep == StartRecover \/ Reconcile \/ Requeue

\* Deviation, for a mutant: the sweep takes a row in any status for a lease.
ReclaimAnyStatus(j) ==
    /\ Serving /\ expired = 0
    /\ IF run.job # j THEN UNCHANGED late ELSE late < MaxLate /\ late' = late + 1
    /\ IF jobs[j].tries >= MaxAttempts
       THEN expired' = j /\ UNCHANGED <<jobs, input>>
       ELSE Recover({j}) /\ UNCHANGED expired
    /\ UNCHANGED <<draft, bytes, upload, del, run, crashes>>

\* _reclaim_expired_leases: of a job that nobody works on, or whose worker is
\* late; the cap is judged on rows read before the settlement.
Reclaim(j) ==
    /\ Serving /\ expired = 0
    /\ jobs[j].st = "running"
    /\ IF run.job # j THEN UNCHANGED late ELSE late < MaxLate /\ late' = late + 1
    /\ IF jobs[j].tries >= MaxAttempts
       THEN expired' = j /\ UNCHANGED <<jobs, input>>
       ELSE Recover({j}) /\ UNCHANGED expired
    /\ UNCHANGED <<draft, bytes, upload, del, run, crashes>>

\* settle_expired_job_at_lease_cap: the input's row is written whatever it and
\* the job have become.
SettleAtCap ==
    /\ Serving /\ expired > 0
    /\ IF expired \in DOMAIN jobs
       THEN /\ jobs' = IF jobs[expired].st = "running"
                       THEN [jobs EXCEPT ![expired].st = "failed"] ELSE jobs
            /\ input' = "failed"
       ELSE UNCHANGED <<jobs, input>>
    /\ expired' = 0
    /\ UNCHANGED <<draft, bytes, upload, del, run, Faults>>

Crash ==
    /\ run.pc # "down" /\ crashes < MaxCrashes
    /\ crashes' = crashes + 1
    /\ upload' = IF upload \in UploadSteps THEN "lost" ELSE upload
    /\ del' = [d \in Deletes |-> IF del[d] \in DeleteSteps THEN "over" ELSE del[d]]
    /\ run' = [pc |-> "down", job |-> 0]
    /\ expired' = 0
    /\ UNCHANGED <<Rows, bytes, late>>

Next ==
    \/ UploadStep \/ JobStep \/ StartStep \/ SettleAtCap \/ Crash
    \/ \E j \in DOMAIN jobs : CancelParse(j) \/ RetryParse(j) \/ Claim(j) \/ Reclaim(j)
    \/ \E d \in Deletes : CheckInput(d) \/ CancelPending(d) \/ DeleteStep(d)

Spec == Init /\ [][Next]_vars

\* The process is restarted, its requests end, it polls and sweeps.
FairSpec ==
    /\ Spec
    /\ WF_vars(UploadStep) /\ WF_vars(JobStep) /\ WF_vars(StartStep)
    /\ WF_vars(SettleAtCap)
    /\ WF_vars(\E j \in DOMAIN jobs : Claim(j))
    /\ WF_vars(\E j \in DOMAIN jobs : run.job # j /\ Reclaim(j))
    /\ \A d \in Deletes : WF_vars(DeleteStep(d))

-------------------------------------------------------------------------------
(* Properties.                                                             *)

\* The owner cancelled the parse and may retry it.
ParseCancelled == input = "pending" /\ \E j \in DOMAIN jobs : jobs[j].st = "cancelled"

\* A worker whose lease was lost marked the input and died.
Stranded == input = "parsing" /\ late > 0

\* Bytes and rows never disagree for good: while a row lives, its file is in
\* place or in a tombstone the next start restores, whatever deletes fail or
\* crash on the way (delete_input_row, draft_deletion.py).
RowsKeepTheirBytes ==
    input # "none" /\ upload = "done" => bytes \in {"stored"} \cup Deletes

\* The output of a job whose cancellation was asked for is never kept, however
\* late the request comes (_commit_success, recover_orphaned_parse_jobs).
CancelledNeverCompletes ==
    \A j \in DOMAIN jobs : jobs[j].cancel => jobs[j].st # "completed"

\* A parsed input stays parsed until it is deleted: a recovered or retried
\* parse, a cancellation or the janitor never takes the text back.  A worker
\* that lost its lease to a late heartbeat may still finish, and then does.
ReadyIsFinal == [][input = "ready" /\ late = 0 => input' \in {"ready", "none"}]_vars

\* An input waits only for something that will come: its upload, a job, the
\* worker, a start; or its owner cancelled the parse and may retry it.  A
\* disowned worker that marks the input and dies strands it at "parsing".
WaitingHasACause ==
    input \in {"pending", "parsing"} =>
        \/ upload \in UploadSteps
        \/ Parsing
        \/ run.pc # "idle"
        \/ ParseCancelled
        \/ Stranded

\* The type invariant and the cause of every wait, in one
Inv == TypeOK /\ WaitingHasACause

\* An uploaded input gets its outcome, through rejected admissions, cancelled
\* deletes, the attempts cap and crashes, unless its owner cancels the parse.
InputsSettle ==
    input \in {"pending", "parsing"} ~>
        input \notin {"pending", "parsing"} \/ ParseCancelled \/ Stranded

===============================================================================
