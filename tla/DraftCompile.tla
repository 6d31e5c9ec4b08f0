----------------------------- MODULE DraftCompile -----------------------------
(***************************************************************************)
(* One Draft Room project between its owner's requests and its compile     *)
(* jobs: the drafts row (draft_store.py, draft_room.py), the compile jobs  *)
(* and the processors that run them (draft_job_processor.py), the stages   *)
(* of a run that write (draft_pipeline.py), and the freshness of the       *)
(* evidence behind the current revision (draft_evidence_freshness.py).     *)
(*                                                                         *)
(* A step is one database transaction, or the code between two of them.    *)
(***************************************************************************)
EXTENDS Integers, Sequences

CONSTANTS
    Workers,     \* draft job processors, one in each process
    Nobody,      \* no worker
    MaxAttempts, \* settings.jobs_max_attempts
    RetryLimit,  \* settings.draft_transient_retry_limit
    MaxJobs,     \* bound: compile jobs of the draft
    MaxFaults    \* bound: crashes, and leases that expire on a live worker

ASSUME WorkerAssumption == Nobody \notin Workers
ASSUME LimitAssumption == MaxAttempts \in Nat \ {0} /\ RetryLimit \in Nat
ASSUME BoundAssumption == MaxJobs \in Nat \ {0} /\ MaxFaults \in Nat

VARIABLES
    status,  \* drafts.status
    ready,   \* the revision drafts.ready_revision_id names
    current, \* the revision with is_current = 1
    jobs,    \* its compile jobs, oldest first
    run,     \* what each worker is doing
    expired, \* the job a janitor found expired at the attempts cap, or 0
    faults,  \* such faults so far
    cut      \* ghost: what parted a job's outcome from its draft's

vars == <<status, ready, current, jobs, run, expired, faults, cut>>

DraftStatuses == {"draft", "queued", "running", "needs_review", "ready",
                  "failed", "cancelled", "archived"}
JobStatuses == {"pending", "running", "completed", "failed", "cancelled"}

\* evidence: the job's evidence rows against the vault as it is now.  Misdated
\* rows hold a passage of an older source under the hash of the present one.
Job == [st : JobStatuses, by : Workers \cup {Nobody}, cancel : BOOLEAN,
        tries : 0..MaxAttempts, retry : 0..RetryLimit,
        evidence : {"none", "fresh", "misdated", "stale"}]

\* A job that is not running has no lease; an ended one needs no attempts.
Idle(job, st) == [job EXCEPT !.st = st, !.by = Nobody]
Ended(job, st) == [Idle(job, st) EXCEPT !.tries = 0]

NewJob(retry) == [st |-> "pending", by |-> Nobody, cancel |-> FALSE, tries |-> 0,
                  retry |-> retry, evidence |-> "none"]

\* Ghost: the passages a text was written from.  They are of the sources as they
\* are; or as they were; or as they were while the rows came to hold a later
\* hash; or as they were before a change of which a Ready draft was not told.
Passages == {"none", "new", "old", "misdated", "untold"}

\* A revision: the job that wrote it (0: the owner), the outcome of its fact
\* check, whether its claims and findings are stored, and its passages.
Revision == [job : 0..MaxJobs, fact : {"not_run", "checked", "invalidated"},
             ledger : BOOLEAN, text : Passages]
NoRevision == [job |-> 0, fact |-> "none", ledger |-> FALSE, text |-> "none"]
ManualRevision == [job |-> 0, fact |-> "not_run", ledger |-> TRUE, text |-> "none"]
NewRevision(j) == [job |-> j, fact |-> "checked", ledger |-> FALSE, text |-> "none"]

Stages == {"idle", "down", "checking", "research", "retrieved", "editing", "cleared",
           "committed", "ledgered", "published", "settling", "moving", "retrying"}

\* goal: the outcome being settled; strict: by _persist_failure or
\* _persist_cancelled, which stop when the lease is lost; again: retryable;
\* rev: the revision not yet published; text: the passages it is written from.
Run == [pc : Stages, job : 0..MaxJobs, rev : Revision \cup {NoRevision}, text : Passages,
        goal : {"none", "failed", "cancelled"}, strict : BOOLEAN, again : BOOLEAN]
At(pc) == [pc |-> pc, job |-> 0, rev |-> NoRevision, text |-> "none", goal |-> "none",
           strict |-> FALSE, again |-> FALSE]

TypeOK ==
    /\ status \in DraftStatuses
    /\ ready \in {"none", "current", "superseded"}
    /\ current \in Revision \cup {NoRevision}
    /\ jobs \in Seq(Job) /\ Len(jobs) <= MaxJobs
    /\ run \in [Workers -> Run]
    /\ expired \in 0..MaxJobs
    /\ faults \in 0..MaxFaults
    /\ cut \in BOOLEAN

Init ==
    /\ status = "draft"
    /\ ready = "none"
    /\ current = NoRevision
    /\ jobs = <<>>
    /\ run = [w \in Workers |-> At("idle")]
    /\ expired = 0
    /\ faults = 0
    /\ cut = FALSE

-------------------------------------------------------------------------------
Live(j) == jobs[j].st \in {"pending", "running"}
Compiling == \E j \in DOMAIN jobs : Live(j)
Parked(s) == s \in {"queued", "running"}

\* The row is still the lease of the worker's own claim.
Owns(w) == jobs[run[w].job].st = "running" /\ jobs[run[w].job].by = w

\* _JOB_TRANSITIONS
Legal(from, to) ==
    \/ from = to
    \/ from = "pending" /\ to \in {"running", "cancelled"}
    \/ from = "running" /\ to \in {"completed", "failed", "cancelled"}

\* DraftStore.set_job_status: the transition check, then the fenced UPDATE.
Verdict(w, to) ==
    IF ~Legal(jobs[run[w].job].st, to) THEN "illegal"
    ELSE IF Owns(w) THEN "written" ELSE "lost"

\* The hashes behind a compiled revision are not those of the vault; the
\* passages themselves are never compared.
Stale(rev) == rev.job > 0 /\ jobs[rev.job].evidence = "stale"

DraftRow == <<status, ready, current>>
Faults == <<faults, cut>>

-------------------------------------------------------------------------------
(* The owner's requests.  A request that is refused changes nothing.       *)

\* _sync_enqueue_compile: also a retry of a failed or cancelled job.
RequestCompile ==
    /\ status \in {"draft", "needs_review", "failed", "cancelled", "ready"}
    /\ ~Compiling
    /\ Len(jobs) < MaxJobs
    /\ status' = "queued"
    /\ ready' = "none"
    /\ jobs' = Append(jobs, NewJob(0))
    /\ UNCHANGED <<current, run, expired, Faults>>

\* Deviation, for a mutant: a cancelled pending job leaves the draft alone.
CancelJobRowOnly(j) ==
    /\ Live(j)
    /\ jobs' = [jobs EXCEPT ![j].cancel = TRUE,
                            ![j].st = IF @ = "pending" THEN "cancelled" ELSE @]
    /\ UNCHANGED <<status, ready, current, run, expired, Faults>>

\* DraftStore.request_job_cancel
CancelCompile(j) ==
    /\ Live(j)
    /\ IF jobs[j].st = "pending"
       THEN /\ jobs' = [jobs EXCEPT ![j] = Ended([@ EXCEPT !.cancel = TRUE], "cancelled")]
            /\ status' = IF Parked(status) THEN "cancelled" ELSE status
       ELSE jobs' = [jobs EXCEPT ![j].cancel = TRUE] /\ UNCHANGED status
    /\ UNCHANGED <<ready, current, run, expired, Faults>>

\* Deviation, for a mutant: a manual revision leaves the approval in place.
EditKeepingApproval ==
    /\ status # "archived" /\ ~Compiling /\ ~Parked(status)
    /\ current' = ManualRevision
    /\ status' = IF ready = "none" THEN "needs_review" ELSE status
    /\ ready' = IF ready = "none" THEN "none" ELSE "superseded"
    /\ UNCHANGED <<jobs, run, expired, Faults>>

\* DraftStore.create_manual_revision, _sync_apply_finding
EditByHand ==
    /\ status # "archived" /\ ~Compiling /\ ~Parked(status)
    /\ current' = ManualRevision
    /\ status' = "needs_review"
    /\ ready' = "none"
    /\ UNCHANGED <<jobs, run, expired, Faults>>

\* The effects of apply_evidence_invalidation on the current revision, which
\* can never be approved again.
Invalidate ==
    /\ current' = [current EXCEPT !.fact = "invalidated", !.text = "none"]
    /\ status' = IF status = "ready" THEN "needs_review" ELSE status
    /\ ready' = IF status = "ready" THEN "none" ELSE ready

\* The conditions of the Ready gate before the evidence.
Approvable ==
    /\ status = "needs_review"
    /\ ~Compiling
    /\ current.job > 0
    /\ current.fact = "checked"

\* Deviation, for a mutant: the gate trusts the hooks.
ApproveOnHooks ==
    /\ Approvable
    /\ status' = "ready" /\ ready' = "current"
    /\ UNCHANGED <<current, jobs, run, expired, Faults>>

\* _sync_mark_ready; enforce_evidence_freshness commits what it found.
MarkReady ==
    /\ Approvable
    /\ IF Stale(current) THEN Invalidate
       ELSE status' = "ready" /\ ready' = "current"
            /\ UNCHANGED current
    /\ UNCHANGED <<jobs, run, expired, Faults>>

\* DraftStore.archive_draft
Archive ==
    /\ status \in {"draft", "needs_review", "ready", "failed", "cancelled"}
    /\ ~Compiling
    /\ status' = "archived" /\ ready' = "none"
    /\ UNCHANGED <<current, jobs, run, expired, Faults>>

\* DraftStore.restore_draft
Restore ==
    /\ status = "archived"
    /\ status' = IF current = NoRevision THEN "draft" ELSE "needs_review"
    /\ ready' = "none"
    /\ UNCHANGED <<current, jobs, run, expired, Faults>>

\* DraftStore._invalidate_ready_on_material_change: an upload, or a change of
\* the brief, of the tier or of an input's metadata.
ChangeMaterial ==
    /\ ~Compiling /\ ready # "none"
    /\ status' = "needs_review" /\ ready' = "none"
    /\ UNCHANGED <<current, jobs, run, expired, Faults>>

\* DraftStore.cancel_pending_jobs, called by a delete that is then refused
\* because a parse job runs.
DeleteRefused ==
    /\ \E j \in DOMAIN jobs : jobs[j].st = "pending"
    /\ jobs' = [j \in DOMAIN jobs |->
                   IF jobs[j].st = "pending"
                   THEN Ended([jobs[j] EXCEPT !.cancel = TRUE], "cancelled") ELSE jobs[j]]
    /\ cut' = (cut \/ Parked(status))
    /\ UNCHANGED <<status, ready, current, run, expired, faults>>

Aged(text, as) == IF text = "new" THEN as ELSE text

\* A cited source changes or is deleted.  Its service calls the invalidation
\* hook of draft_evidence_freshness, which may fail and is then only logged.
SourceChanges(hooked) ==
    /\ jobs' = [j \in DOMAIN jobs |->
                   IF jobs[j].evidence = "none" THEN jobs[j]
                   ELSE [jobs[j] EXCEPT !.evidence = "stale"]]
    /\ run' = [w \in Workers |-> [run[w] EXCEPT !.text = Aged(@, "old")]]
    /\ IF hooked /\ current.job > 0
       THEN Invalidate
       ELSE /\ current' = [current EXCEPT !.text =
                              Aged(@, IF status = "ready" THEN "untold" ELSE "old")]
            /\ UNCHANGED <<status, ready>>
    /\ UNCHANGED <<expired, Faults>>

-------------------------------------------------------------------------------
(* The worker: claim_next_compile_job, _dispatch_compile_job, run_compile. *)

Goto(w, pc) == run' = [run EXCEPT ![w].pc = pc]

\* Settle the job and then the draft on an outcome.
Settling(w, goal, strict, again) ==
    run' = [run EXCEPT ![w] = [At("settling") EXCEPT !.job = run[w].job, !.goal = goal,
                                  !.strict = strict, !.again = again]]

Finish(w) == run' = [run EXCEPT ![w] = At("idle")]

Claim(w, j) ==
    /\ run[w].pc = "idle"
    /\ jobs[j].st = "pending"
    /\ jobs' = [jobs EXCEPT ![j].st = "running", ![j].by = w,
                            ![j].tries = IF @ < MaxAttempts THEN @ + 1 ELSE @]
    /\ status' = IF status = "queued" THEN "running" ELSE status
    /\ run' = [run EXCEPT ![w] = [At("checking") EXCEPT !.job = j]]
    /\ UNCHANGED <<ready, current, expired, Faults>>

\* The permission check; a refusal goes to _fail_compile_job_sync.
CheckPermission(w) ==
    /\ run[w].pc = "checking"
    /\ Settling(w, "failed", FALSE, FALSE) \/ Goto(w, "research")
    /\ UNCHANGED <<DraftRow, jobs, expired, Faults>>

\* run_research up to the model call it awaits: the facets are retrieved.
Retrieve(w) ==
    /\ run[w].pc = "research"
    /\ run' = [run EXCEPT ![w].pc = "retrieved", ![w].text = "new"]
    /\ UNCHANGED <<DraftRow, jobs, expired, Faults>>

\* _inherit_parent_checkpoints: a retry takes over the research of the job it
\* retries, with a copy of its evidence rows.
Inherit(w) ==
    /\ run[w].pc = "research"
    /\ LET j == run[w].job IN
       /\ jobs[j].evidence = "none"
       /\ \E i \in 1..(j - 1) :
             /\ jobs[i].st \in {"failed", "cancelled"} /\ jobs[i].evidence # "none"
             /\ jobs' = [jobs EXCEPT ![j].evidence = jobs[i].evidence]
    /\ UNCHANGED <<DraftRow, run, expired, Faults>>

\* _stage_research: the checkpoint of an earlier attempt, or of the parent.
ReuseCheckpoint(w) ==
    /\ run[w].pc = "research"
    /\ LET rows == jobs[run[w].job].evidence IN
       /\ rows # "none"
       /\ run' = [run EXCEPT ![w].pc = "editing",
                             ![w].text = CASE rows = "fresh" -> "new"
                                           [] rows = "misdated" -> "misdated"
                                           [] OTHER -> "old"]
    /\ UNCHANGED <<DraftRow, jobs, expired, Faults>>

\* The passages of older rows come to stand under a hash of now.
Redated(text) == IF text \in {"old", "untold"} THEN "misdated" ELSE text

\* _db_snapshot_evidence, without a fence: the job's rows are replaced, under
\* the hash of the source as it is now; a source that is gone leaves the hash
\* of its passage, which no check accepts.
Snapshot(w) ==
    /\ run[w].pc = "retrieved"
    /\ LET j == run[w].job
           next == [run EXCEPT ![w].pc = "editing"] IN
       \/ /\ jobs' = [jobs EXCEPT ![j].evidence =
                          IF run[w].text = "new" THEN "fresh" ELSE "misdated"]
          /\ run' = [v \in Workers |-> IF next[v].job = j /\ next[v].pc # "retrieved"
                          THEN [next[v] EXCEPT !.text = Redated(@)] ELSE next[v]]
          /\ current' = IF current.job = j
                        THEN [current EXCEPT !.text = Redated(@)] ELSE current
       \/ /\ run[w].text # "new"
          /\ jobs' = [jobs EXCEPT ![j].evidence = "stale"]
          /\ run' = next
          /\ UNCHANGED current
    /\ UNCHANGED <<status, ready, expired, Faults>>

\* A provider fault or an exhausted budget; the fault may be transient.
Stumble(w) ==
    /\ run[w].pc \in {"research", "retrieved", "editing"}
    /\ \E again \in BOOLEAN : Settling(w, "failed", TRUE, again)
    /\ UNCHANGED <<DraftRow, jobs, expired, Faults>>

\* _db_set_active_stage finds the row no longer this worker's.
NoticeLoss(w) ==
    /\ run[w].pc \in {"research", "retrieved", "editing"}
    /\ ~Owns(w)
    /\ Settling(w, "failed", TRUE, FALSE)
    /\ UNCHANGED <<DraftRow, jobs, expired, Faults>>

\* _check_cancel
ObserveCancel(w) ==
    /\ run[w].pc \in {"research", "retrieved", "editing"}
    /\ jobs[run[w].job].cancel
    /\ Settling(w, "cancelled", TRUE, FALSE)
    /\ UNCHANGED <<DraftRow, jobs, expired, Faults>>

\* _stage_assemble before its commit: the fenced heartbeat, the evidence, the
\* cancellation and the permission.
Verify(w) ==
    /\ run[w].pc = "editing"
    /\ Owns(w)
    /\ \/ /\ jobs[run[w].job].evidence # "stale" /\ ~jobs[run[w].job].cancel
          /\ Goto(w, "cleared")
       \/ Settling(w, "failed", TRUE, FALSE)
    /\ UNCHANGED <<DraftRow, jobs, expired, Faults>>

\* Deviation, for a mutant: the commit demotes the revision it replaces.
CommitDemoting(w) ==
    /\ run[w].pc = "cleared"
    /\ status \in {"queued", "running", "needs_review"}
    /\ current' = NoRevision
    /\ run' = [run EXCEPT ![w].pc = "committed", ![w].rev = NewRevision(run[w].job)]
    /\ UNCHANGED <<status, ready, jobs, expired, Faults>>

\* _db_commit_revision: the new revision is not the current one yet.
Commit(w) ==
    /\ run[w].pc = "cleared"
    /\ IF status \in {"queued", "running", "needs_review"}
       THEN run' = [run EXCEPT ![w].pc = "committed", ![w].rev = NewRevision(run[w].job)]
       ELSE Settling(w, "failed", TRUE, FALSE)
    /\ UNCHANGED <<DraftRow, jobs, expired, Faults>>

\* _db_write_ledger: claims and findings of the new revision.
WriteLedger(w) ==
    /\ run[w].pc = "committed"
    /\ run' = [run EXCEPT ![w].pc = "ledgered", ![w].rev.ledger = TRUE]
    /\ UNCHANGED <<DraftRow, jobs, expired, Faults>>

\* Deviation, for a mutant: publication does not wait for the ledger.
PublishEarly(w) ==
    /\ run[w].pc \in {"committed", "ledgered"}
    /\ current' = [run[w].rev EXCEPT !.text = run[w].text]
    /\ status' = "needs_review"
    /\ ready' = "none"
    /\ run' = [run EXCEPT ![w] = [At("published") EXCEPT !.job = run[w].job]]
    /\ UNCHANGED <<jobs, expired, Faults>>

\* _db_publish_revision
Publish(w) ==
    /\ run[w].pc = "ledgered"
    /\ current' = [run[w].rev EXCEPT !.text = run[w].text]
    /\ status' = "needs_review"
    /\ ready' = "none"
    /\ run' = [run EXCEPT ![w] = [At("published") EXCEPT !.job = run[w].job]]
    /\ UNCHANGED <<jobs, expired, Faults>>

\* _persist_completed; _run_job drops the error of a lost lease.
Complete(w) ==
    /\ run[w].pc = "published"
    /\ jobs' = IF Verdict(w, "completed") = "written"
               THEN [jobs EXCEPT ![run[w].job] = Ended(@, "completed")] ELSE jobs
    /\ Finish(w)
    /\ UNCHANGED <<DraftRow, expired, Faults>>

\* The job's transaction of _persist_failure, _persist_cancelled and
\* _fail_compile_job_sync.  A refused transition is logged and passed over.
SettleJob(w) ==
    /\ run[w].pc = "settling"
    /\ LET verdict == Verdict(w, run[w].goal) IN
       /\ jobs' = IF verdict = "written"
                  THEN [jobs EXCEPT ![run[w].job] = Ended(@, run[w].goal)] ELSE jobs
       /\ IF verdict = "lost" /\ run[w].strict THEN Finish(w)
          ELSE run' = [run EXCEPT ![w].pc = "moving", ![w].strict = FALSE]
    /\ UNCHANGED <<DraftRow, expired, Faults>>

\* Deviation, for a mutant: a job cancelled while it ran leaves the draft alone.
MoveDraftOnFailure(w) ==
    /\ run[w].pc = "moving"
    /\ status' = IF Parked(status) /\ run[w].goal = "failed" THEN "failed" ELSE status
    /\ Finish(w)
    /\ UNCHANGED <<ready, current, jobs, expired, Faults>>

\* The draft's transaction: _move_draft.
MoveDraft(w) ==
    /\ run[w].pc = "moving"
    /\ status' = IF Parked(status) THEN run[w].goal ELSE status
    /\ IF run[w].again /\ jobs[run[w].job].retry < RetryLimit
       THEN Goto(w, "retrying") ELSE Finish(w)
    /\ UNCHANGED <<ready, current, jobs, expired, Faults>>

\* _schedule_compile_retry_sync; a second active compile breaks a unique
\* index, which the caller logs.
ScheduleRetry(w) ==
    /\ run[w].pc = "retrying"
    /\ IF status = "failed" /\ ~Compiling /\ Len(jobs) < MaxJobs
       THEN /\ status' = "queued"
            /\ jobs' = Append(jobs, NewJob(jobs[run[w].job].retry + 1))
       ELSE UNCHANGED <<status, jobs>>
    /\ Finish(w)
    /\ UNCHANGED <<ready, current, expired, Faults>>

WorkerStep(w) ==
    \/ CheckPermission(w) \/ Inherit(w) \/ Retrieve(w) \/ ReuseCheckpoint(w)
    \/ Snapshot(w) \/ Stumble(w) \/ NoticeLoss(w)
    \/ ObserveCancel(w) \/ Verify(w) \/ Commit(w) \/ WriteLedger(w)
    \/ Publish(w) \/ Complete(w) \/ SettleJob(w) \/ MoveDraft(w) \/ ScheduleRetry(w)

-------------------------------------------------------------------------------
(* Recovery: a process starts, a lease expires, a process stops.           *)

\* recover_orphaned_compile_jobs on the given running jobs.
Recover(js) ==
    LET gone == {j \in js : jobs[j].cancel} IN
    /\ jobs' = [j \in DOMAIN jobs |->
                   IF j \in gone THEN Ended(jobs[j], "cancelled")
                   ELSE IF j \in js THEN Idle(jobs[j], "pending") ELSE jobs[j]]
    /\ status' = IF js = {} \/ ~Parked(status) THEN status
                 ELSE IF gone # {} THEN "cancelled" ELSE "queued"

\* A process starts: reconcile_ready_evidence and DraftJobProcessor's
\* _recover_on_startup, which takes every running row, whoever runs it.
Start(w) ==
    /\ run[w].pc = "down"
    /\ run' = [run EXCEPT ![w] = At("idle")]
    /\ IF status = "ready" /\ Stale(current)
       THEN Invalidate /\ UNCHANGED jobs
       ELSE Recover({j \in DOMAIN jobs : jobs[j].st = "running"})
            /\ UNCHANGED <<ready, current>>
    /\ UNCHANGED <<expired, Faults>>

\* The worker that holds the job's lease does not work on it any more.
Abandoned(j) == \A w \in Workers : jobs[j].by = w => run[w].job # j

Serving == \E w \in Workers : run[w].pc # "down"

\* A lease expires: its worker is gone, or its heartbeats are late.
Lapse(j) == IF Abandoned(j) THEN UNCHANGED faults
            ELSE faults < MaxFaults /\ faults' = faults + 1

\* _reclaim_expired_leases: the cap is judged on rows read before the
\* settlement; the other rows are recovered in one transaction.
Reclaim(j) ==
    /\ Serving
    /\ jobs[j].st = "running"
    /\ expired = 0
    /\ Lapse(j)
    /\ IF jobs[j].tries >= MaxAttempts
       THEN expired' = j /\ UNCHANGED <<jobs, status>>
       ELSE Recover({j}) /\ UNCHANGED expired
    /\ UNCHANGED <<ready, current, run, cut>>

\* settle_expired_job_at_lease_cap
SettleAtCap ==
    /\ Serving
    /\ expired > 0
    /\ jobs' = IF jobs[expired].st = "running"
               THEN [jobs EXCEPT ![expired] = Ended(@, "failed")] ELSE jobs
    /\ status' = IF Parked(status) THEN "failed" ELSE status
    /\ expired' = 0
    /\ UNCHANGED <<ready, current, run, Faults>>

\* stop(): the task is cancelled, and a compile settles as cancelled.  That
\* the process then ends is a crash of an idle worker.
Stop(w) ==
    /\ run[w].pc \in {"research", "retrieved", "editing", "cleared", "committed", "ledgered"}
    /\ Settling(w, "cancelled", TRUE, FALSE)
    /\ UNCHANGED <<DraftRow, jobs, expired, Faults>>

Crash(w) ==
    /\ faults < MaxFaults
    /\ run[w].pc # "down"
    /\ faults' = faults + 1
    /\ cut' = (cut \/ (run[w].pc = "moving" /\ Parked(status)))
    /\ run' = [run EXCEPT ![w] = At("down")]
    /\ expired' = IF \A v \in Workers \ {w} : run[v].pc = "down" THEN 0 ELSE expired
    /\ UNCHANGED <<DraftRow, jobs>>

Next ==
    \/ RequestCompile \/ EditByHand \/ MarkReady \/ Archive \/ Restore
    \/ ChangeMaterial \/ DeleteRefused \/ SettleAtCap
    \/ \E hooked \in BOOLEAN : SourceChanges(hooked)
    \/ \E j \in DOMAIN jobs : CancelCompile(j) \/ Reclaim(j)
    \/ \E w \in Workers : \/ WorkerStep(w) \/ Start(w) \/ Stop(w) \/ Crash(w)
                          \/ \E j \in DOMAIN jobs : Claim(w, j)

Spec == Init /\ [][Next]_vars

\* Processes are restarted and keep polling, a run goes on, and
\* the janitor's sweep comes round to a job that nobody runs.
FairSpec ==
    /\ Spec
    /\ \A w \in Workers :
          WF_vars(WorkerStep(w) \/ Start(w) \/ \E j \in DOMAIN jobs : Claim(w, j))
    /\ WF_vars(SettleAtCap \/ \E j \in DOMAIN jobs : Abandoned(j) /\ Reclaim(j))

-------------------------------------------------------------------------------
(* Properties.                                                             *)

\* What the owner reads as the current revision has its claims and blockers
\* stored: wherever a run is cut, a revision is published only after its
\* ledger (_stage_assemble, _db_publish_revision).
PublishedIsComplete == current # NoRevision => current.ledger

\* A draft that has a current revision keeps one, through failed, cancelled
\* and recovered compiles (_db_commit_revision leaves the demotion to
\* _db_publish_revision).
NoTextIsLost == [][current # NoRevision => current' # NoRevision]_vars

\* The Ready pointer is set exactly when the draft is Ready; it then names the
\* current revision, which was compiled and checked and has no open blocker,
\* and no compile is under way ("set iff status='ready'", archive_draft).
ReadyIsApproved ==
    /\ (status = "ready") = (ready # "none")
    /\ status = "ready" => /\ ready = "current"
                           /\ current.job > 0 /\ current.fact = "checked"
                           /\ ~Compiling

\* A Ready draft was written from its sources as they are, whenever they changed
\* while the compile or the review went on, unless a hook failed since the
\* approval.  No check can see a misdated text: its source was edited between
\* retrieval and snapshot, or another attempt renewed its rows since
\* (_db_snapshot_evidence, enforce_evidence_freshness).
ReadyIsFresh == status = "ready" => current.text # "old"

\* A draft is parked on a compile only while a job is active or a worker is
\* about to move the draft; otherwise a crash parted the two transactions, or
\* a refused delete cancelled the job alone.
ParkedHasAJob ==
    Parked(status) => \/ Compiling
                      \/ \E w \in Workers : run[w].pc = "moving"
                      \/ cut

\* The type invariant and the cover of every parked draft, in one
Inv == TypeOK /\ ParkedHasAJob

\* A requested compile gets an answer: the draft leaves queued and running,
\* with the same exceptions.
CompilesAreAnswered == Parked(status) ~> (~Parked(status) \/ cut)

===============================================================================
