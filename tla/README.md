# Specifications of the RAGAPP server's coordination code

RAGAPP is a FastAPI server (`backend/app`) that ingests documents into a vector
store, answers chat requests over them, and runs background jobs that compile
wiki and knowledge pages.  Almost all of its state lives in one SQLite database;
its concurrency is a mixture of asyncio tasks on one event loop, worker threads
behind `asyncio.to_thread`, and several server processes that share the database
and, for inference admission, a store such as Redis.

The specifications here cover the parts of that system whose correctness rests on
the order in which several actors take their steps.  Each module is a translation
of the code named in the `map` of `PROJECT.json`; TLC checks it on small
instances, and the safety properties that matter most are proved with TLAPS for
every value of the constants.

## 1. Inventory

| component | code | state | operations | modelled by |
|---|---|---|---|---|
| job lease | `services/job_lease.py` | rows of `jobs`: status, worker_id, lease_generation, attempts, heartbeat_at, progress_at, run_after | enqueue, claim, heartbeat, progress, complete, fail, cancel, requeue, release, reclaim_expired | `JobLease`, `LeaseContract` |
| background processor | `services/background_tasks.py` | worker loops, in-flight attempts, `files` rows, the in-memory queue | process a leased job, settle it, retry or fail, watchdog, janitor, release on stop, cancel, boot sync of a queue | `JobLease` (use of the lease), `IngestFile` (ingestion), `IndexRebuild` (reindex) |
| wiki job rows | `services/wiki_store.py` | the same `jobs` rows | cancel_job, retry_job | `JobLease` |
| circuit breaker | `services/circuit_breaker.py` | state, failure and success counters, time of opening, trial flag | acquire_trial_or_raise, release_trial, record_success, record_failure, call, reset | `CircuitBreaker` |
| LLM client | `services/llm_client.py` | one breaker per endpoint | streams and calls behind the breaker, reconfiguration | as callers in `CircuitBreaker` |
| maintenance flag | `services/maintenance.py`, `middleware/maintenance.py` | row of `system_flags`, audit log, per-process cache and cache generation | set_flag, get_flag_cached, invalidation, the request gate | `MaintenanceFlag` |
| connection pool | `models/database.py` | queue of idle connections, count of created ones, closed flag | get_connection, get_connection_async, release_connection, close_all | `ConnectionPool` |
| admission control | `services/admission.py` | waiter lanes, pump, leases with renewers, holders in a shared store | admit, pump, eviction, release, renewal, shutdown | `AdmissionControl` |
| compile processors | `wiki_compile_processor.py`, `kms_compile_processor.py`, `kms_store.py` | claimed compile job | claim, compile, shielded settlement, stop | planned |
| draft room, compiles | `draft_store.py`, `draft_pipeline.py`, `draft_job_processor.py`, `draft_evidence_freshness.py`, `routes/draft_room.py` | drafts, revisions, claims and findings, compile jobs, evidence | compile, cancel, edit, approve, archive, run the stages, settle, recover | `DraftCompile` |
| draft room, inputs | `draft_input_storage.py`, `draft_deletion.py` and the same | input rows, their files and tombstones, parse jobs | upload, parse, retry, cancel, delete, reconcile | `DraftInputs` |
| draft room, the rest | `draft_promotion.py`, exports, styles | promotion records, documents | promote, export, purge | promotion planned |
| document processing | `document_processor.py`, `routes/documents.py`, `enrichment_state.py`, `artifact_store.py` | `files` rows, chunks, cancel registry | process an uploaded or existing file, finalize, roll back; upload, cancel, retry, delete | `IngestFile`; re-embedding in `IndexRebuild` |
| vector store, embeddings | `vector_store.py`, `embeddings.py`, `routes/settings.py`, `api/deps.py` | live and staged table, recorded identity, draining snapshot, readiness flags | save an identity, begin, stage, commit, abort a rebuild, boot, admit a query | `IndexRebuild` |
| task drain | `task_drain.py` | a shielded unit and its waiter | drain_await, drain_audit, drained units | planned |
| migration journal, atomic writes | `models/migration_journal.py`, `atomic_write.py` | journal records, temporary files | begin, step, finish, recover | planned |
| authentication, authorization | `auth_service.py`, `authz_policy.py` | refresh tokens, grants | rotation, policy evaluation | rotation planned; policies are a large pure function |
| chat and retrieval | `rag_engine.py`, `memory_store.py`, chat routes | turns, memories | rank, stream, persist | not modelled: ranking and prompting are data |
| events, lifespan, watchers, toggles, telemetry | `wiki_events.py`, `lifespan.py`, `file_watcher.py`, ... | wake-up flags, configuration | notify, start, stop | not modelled: no protocol of their own |
| frontend, evaluation, scripts | `frontend/`, `scripts/` | | | outside the server's core |

How they interact.  Every component that writes the database takes a connection
from the pool and runs its statement in a transaction; `job_lease.py` opens its
own with `BEGIN IMMEDIATE`.  The background processor claims ingestion and
reindex rows through the lease, renews them from a heartbeat task, and settles
them with fenced writes; the compile processors do the same for the wiki and kms
queues, and the draft room has jobs and a processor of its own, fenced by worker
id in the same way.  An upload inserts a `files` row and a job in two
transactions; the attempt moves the row's status, writes chunks to the vector
store and finalizes under a guard, while the routes cancel, retry and delete the
document through the row, the jobs and an in-memory registry of cancelled files.
Saving another embedding model or prefix closes the readiness gate; a reindex job
re-embeds every document into a staged table and swaps it in, and queries are
meanwhile embedded with the old identity as long as the store serves its pin.  A
change to a document in a vault reaches the drafts that cite it through hooks that
mark evidence stale and withdraw an approval.  The janitor, the administrator's
cancel and retry, and a stopping process write the same rows from outside.  Work that calls a model first asks
admission control for a slot and then goes through the breaker of its endpoint.
The maintenance gate runs before every mutating request.

What is hard: rows are claimed, reclaimed, handed back and cancelled under a
worker that does not notice until its next fenced write; the event loop
interleaves at every `await`, so a count read before one is stale after it; a
cancellation may arrive at any `await`, the ones in `finally` clauses included;
threads share the pool without one lock around a checkout; caches in other
processes are refreshed by time only; a process may die between any two writes.
`PROJECT.json` lists each of these hazards at its line, with the properties that
would expose it.

## 2. The modules and the code

Each module states at its head what one step is.  Clock comparisons are reduced
to what they decide (lapsed or not, late or not, elapsed or not), and the passing
of time is an action of the environment that may happen whenever the clock could
have advanced.

### JobLease and LeaseContract

`row` is the `jobs` table of one queue, `kind` says which: ingestion, a compile queue
(wiki and kms share their code) or reindex.  The kinds differ in who may write: the
retry of a failed row is a compile queue's, the bulk hand-back is ingestion's and
reindex's, the stall arm watches every queue but ingestion, only a reindex attempt
stamps the watermark it watches (`FinishUnit`).  `held` is what each worker loop
carries: the row `claim()` returned.  An SQL statement is one action.  A row's worker
column is the fence: `Owns(w, j)` is the WHERE clause of every fenced write, and
`FencedWrite` ends the attempt whether or not the statement matched, as the
processors do.  `held` also keeps the generation the claim got, which the code
returns but never compares; the properties use it to tell attempts apart.

Two cancels exist.  `CancelJob` is `cancel_job` of the compile and reindex rows, one
UPDATE guarded by the status.  The ingestion queue is cancelled by a pass
(`_cancel_pending_jobs_rows`) that reads the pending rows, `PickForCancel`, and then
updates them by id with no guard and clears the worker, `WriteCancels`: whatever a
row has become by then, running, completed or failed, it ends up cancelled.  One pass
at a time is modelled.  `BeginFailure` is a failing attempt that decides between
retry and failure on the attempt count it claimed with or on a fresh read;
`SettleFailure` also requeues an ingestion row past the cap after a lock timeout, which
the code does as often as it happens (`MaxContention` bounds the model, not the code).
`ReleaseAll` and `ReclaimExpired` move many rows in one statement; `Release`, the
hand-back of one row, has no caller today.  A restarted process comes back under a
fresh worker id, so a crashed id never acts again.

`LeaseContract` is what a caller may rely on: numbered tickets, of which at most
the newest is live and decides the job; a job may be withdrawn while it is open, and
one that was recalled while it waited may be withdrawn whatever it has become, which is
all the unguarded pass leaves of a final outcome.  `Contract` in `JobLease`
instantiates it with the rows' status and generation, the attempts' generations and
the rows picked.

Properties: two attempts in flight at one job have a hand-over between them, which a
double claim would not (`ClaimsAreHandovers`); attempts stay within the cap but for the
recorded lock timeouts; a stale attempt moves no row; a settled row moves again only
by a retry or by a cancel pass that had read it while it waited; the contract is
implemented.  The code does not promise that every job ends, since lock timeouts and
stops put it back without a limit; `JobsSettleBetweenPutBacks` says that it ends or
meets the next of those.  Only proved: a row is owned exactly while it runs; passing
the worker-id fence implies holding the current generation (the ABA the fence does not
test for); the attempt count a retry decision rests on is current.

### CircuitBreaker

`state`, `fails`, `succs`, `clock` and `trial` are the fields of the breaker;
`phase` says where each caller is.  `holder` is the set of callers that were
admitted as trials, a fact each caller keeps in a local variable.  `call()` runs from
the outcome to the release without an await, so `Fail` is one step; a token stream awaits between
recording the failure and its `finally` clause, so `FailStream` and
`EndUnrecorded` are two.  Neutral errors, cancellations and abandoned generators
end a call without an outcome.  Once the service is `answering`, calls succeed and none is
abandoned; recovery is claimed for that case only.

Properties: a taken trial slot always has a caller that will release it; there is
one trial at a time unless the outcome of an older call or a reset overtook it
(`overtaken` records that); once the service answers, the breaker closes and stays
closed.  Proved only: counters never reach the threshold in the state that counts
them, and an open breaker knows when it opened.

### MaintenanceFlag

`flag` and `audit` are the committed rows, `lock` is SQLite's write lock, `draft` the
audit rows its holder's transaction has inserted, `cache` and `generation` belong to
a process.  `set_flag` is a read, then a transaction of three steps, the update on the
version (`Write`), the insert of the audit row (`Audit`) and the commit, and then the
invalidation; a version miss reads again.  The statements or the commit may fail
(`RollBack`) and the process may die (`Crash`) between any two of these, and what the
transaction had written goes with it.  Every caller passes an audit row
(`routes/admin.py:190-201`).  `get_flag_cached` is a hit, or a miss that snapshots the
generation, a read, and a conditional populate.  `floor` and `since` are history: the
version of the newest toggle that had returned in the process when a request came.

Properties: the committed log is the history of the committed flag, wherever a toggle
is cut; a toggle is immediate in its own process; elsewhere it arrives by expiry.
`Inv` joins the types, that a toggle replaces the row its setter read
(`WriterIsCurrent`), and that what is cached or served was committed
(`ServedFlagsWereCommitted`).

### ConnectionPool

`idle` is the queue, `open` the connections not closed, `created` the counter,
`thread` what each caller is doing.  The queue has a lock of its own, so a get or
a put interleaves with everything; steps that touch the counter wait for the
pool's lock, which `close_all` holds while it drains.  A checkout that found the
queue empty decides later, on the count; a discarded connection gives its slot
back before it is closed.  `late` and `cancelled` are the deadline of a checkout
and the cancellation of its awaiting task: a worker that has begun goes on and the
done-callback releases what it obtained, a checkout still queued in the executor
may never begin.  One assumption is the database driver's: a connection whose
rollback fails (`broken`) also fails its next validation.

Properties: while the pool is open the counter equals the connections it keeps
(open and not being discarded) plus the creations in flight; every open connection is in the queue or with exactly
one caller; nobody inherits an open transaction; every checkout ends.

### AdmissionControl

One process with several requests on one budget key; other processes appear as
holders `Remotes` of the shared store.  A step is the code between two awaits.
`task` is where a request is, `lane` the hub's two waiter lanes (chat waiters
foreground, background jobs background), `pump` the one pump task with the
waiter it tries and the result it got, `lease` the lease object with its renewer
and its registrations, `store` the live holders.  An unreachable store admits
(`up`, `outages`).  `Cancel` delivers a cancellation wherever `Cancellable` allows
one, with the effect the `except` and `finally` clauses give it there;
`Reraises` is the test on `cancelling()` in `_stop_renewal`.  A live renewer is
assumed to refresh its slot within the TTL as long as the store answers: the event
loop does not stall for two thirds of it.

Properties: the store never exceeds the budget, and as long as it was reachable
every lease that was neither evicted nor released has its slot (`OneBudget`, which
`Inv` joins with the types); a waiting request is in its lane and a withdrawn one is
not; every slot has an owner that will give it back; no wakeup is lost.

### IngestFile

One uploaded document in the lease mode of the ingestion queue.  `status` is
`files.status`, `vec` says whether the vector store has chunks of it, `tomb` whether a
tombstone asks for their deletion, `jobs` are its rows in the `jobs` table (without
generations: the fence itself is `JobLease`'s subject), `item` is its task in the
in-memory queue, which nothing leases, `marked` its entry in the processor's cancel
registry, `work` what each worker loop does, `boot` whether the process is down, between
the two syncs of its start, or serving.  Each route is a small state machine over the
awaits of its handler: the upload inserts the row, then the job, and undoes the row if
that is refused; where the insert of a job fails, the file goes to the queue in memory
instead (`RoomInMemory`); a cancel reads the row, marks, sweeps the pending jobs it
picked by id, and flips the row under a guard; a retry inserts a job unless one is
open; a delete purges the chunks and then the row.

An attempt goes through `Begin` (the gates and the guarded move to processing),
`Parse`, `Embed`, `Write`, `Publish`, `Commit` (the finalize guard), or leaves it
through `Restore` (the failure handler's write, which gives a failed re-ingestion
"indexed" back), `RollBack` and `DropVectors` (a cancelled one).  Its job is settled
afterwards in a transaction of its own: `SettleSuccess`, `SettleCancel`,
`SettleFailure` with the retry it may leave, `MarkFailed` after the last one;
`FinishItem` and `FailItem` end an attempt at the item in memory.  `Janitor` reclaims
one expired lease with the file's row, `Redelete` is the sweep of the tombstones,
`Sync` the boot sync, `Stop`, `Crash` and `Restart` the process's.

The error paths fail too.  Each write of an attempt, of a compensation and of a
settlement has an outcome where it raises, which the code mostly swallows, and the
file keeps what was written before.  `lost` is history and names what such a failure
leaves behind.  `Strandings` are files left waiting until the next boot sync, which is
the only recovery sweep of the lease mode: a retry fenced off because the lease had
gone ("late"), the error of a failed job not written ("unmarked"), the deletion of a
refused upload ("kept"), the cancelled status ("unwound"), a lock timeout that met a
full retry backlog ("backlog").  `Damages` are what a restart does not mend either:
chunks that nothing will delete ("chunks"), and chunks deleted although the commit of
the cancelled status failed ("torn").

Properties: a cancel that answered 200 is never undone; a file served as indexed has
its chunks, unless torn; a waiting file has an open job, an item, or somebody still to
decide about it, but for `SweptInVain` and the strandings (`NoFileIsForgotten`, joined
with the types in `Inv`); it does not wait for ever, with the same exceptions; cancelled
work comes to rest with no chunk in the index but for a recorded loss.  A sixth,
`RetryAfterCancelWorks`, is what a release note says of the cancel route; its run finds
it violated.

Left out or merged: refreshing an existing row of the same name (uploads of new names
only), the phase column, `_mark_sweep_eligible` failing, the watcher's path
`process_file`, the legacy transport a queue without leases uses, deletion of a whole
vault; the two rollbacks of a cancelled attempt are one; `partial` counts as `indexed`,
since no guard tells them apart; the janitor takes one lease at a time; at most one
item of the file is in memory.

### IndexRebuild

`model` is the embedding identity in the settings and `save` a settings request
between its two writes; `kv` holds the recorded identity of the index (the sidecar)
and the draining snapshot; `chunks` and `temp` are the live table and
`chunks_dim_rebuild`, each a map from documents to the identity their chunks were
embedded with.  An identity is a model with its prefixes; `Name` maps it to its model's
name, which is all that `Pin` compares when a rebuild opens, as the code does, so two
identities of one name are told apart everywhere but there.  `gate` is the store's readiness, its serving flag and its pin; `job` the
reindex row, with its scope, the files a failed attempt narrowed it to, and its
attempts; `run` the attempt.  `past` is history for the properties.

An attempt decides between a staged rebuild, an in-place one and a partial one
(`Open`, `DecideOther`), visits documents (`Visit`, `Embed`, `Write`, `Finalize`, or
`Skip`, `FileFails`), and then aborts, ends in place, or commits: `Drop`, `Create`,
`DropTemp` and `Record` are the swap, each a write that may fail
(`CommitFails`).  `Judge`, `Lift` and `Clear` are what the worker makes of the
result: readiness is lifted only if the identity did not change since the start,
but in a step after that test.  `Stall` is the watchdog, `Boot` the recomputation of
the gate from what is stored, `Reclaim` the janitor, `Ingest` and `CancelMark` /
`CancelFlip` other requests in between.

Properties: while the live table is out, no query is admitted; a query a ready store
admits is embedded under the identity the live generation was built under, and one
admitted to a pinned rebuild by a model of its name (both in `Inv`, with the types); no reindex makes an indexed document
unsearchable; an open rebuild ends.  The exceptions are facts of the history:
`overtaken` (readiness lifted over a save made since its guard), `flipped` (an
identity saved and saved back within one attempt, a documented limit),
`unrecorded` and `torn` (a commit that broke off before the record, or with no live
table), `lost` (documents ingested or skipped while a rebuild was open, which its
swap drops).  Section 5 says which of them the documentation knows.

Left out: identities of different dimension, which the code refuses more of; deletion
of documents and vaults during a rebuild; the in-memory mode; a failing write of
the snapshot; a change of the identity by the environment file; the admission slot
around embedding; a graceful stop; the text and vector indices; `partial` results
of one file, whose writes are one step.

### DraftCompile

`status`, `ready` and `current` are the draft row and the revision it shows, `jobs`
its compile jobs, oldest first, `run` what each process's worker does, `expired` a job
the janitor found at the cap and settles in a second transaction.  A revision
keeps which job wrote it, what its fact check said and whether its ledger of claims
and findings is stored.  Owner requests are one transaction each (`RequestCompile`,
`CancelCompile`, `EditByHand`, `MarkReady`, `Archive`, ...); `DeleteRefused` is a delete
that cancelled the job and was then refused.  The stages of a run are
`CheckPermission`, research, `Verify`, `Commit`, `WriteLedger`, `Publish` and `Complete`,
with the failures of each; a job and its draft are settled in two transactions
(`SettleJob`, `MoveDraft`).

Research takes three steps because the vault may change between them: `Retrieve` reads
the passages, the model is awaited, and `Snapshot` replaces the job's evidence rows under
the hash the source has by then, without a fence, so that a worker that lost its lease
does it too.  Alternatively a run reuses a checkpoint, its own or one that `Inherit`
copied from the job it retries.  A job's evidence is absent, fresh, stale, or
misdated: passages of an older source under the hash of the present one.  What
passages a text really holds is history (`Passages`), which no step of the code reads;
`SourceChanges` is a change of a cited document, seen by the hook or not.

Properties: what is current is complete; an owner never loses the current text;
Ready is approved and still names the checked revision; a Ready draft is not written
from old passages (`ReadyIsFresh`), where two cases are excused because no check can
see them: misdated evidence, and a change that no hook told the Ready draft of; a draft
parked on a compile has a job or a worker about to move it (`ParkedHasAJob`, in `Inv`
with the types), and a compile is answered, unless a fault parted the two transactions
(`cut`).

Left out: blockers, dispositions and waivers as data (an approval may be refused);
acknowledgement of sources; the model gate; promotion, exports and styles; a vault of
more than one source, which changes as one here.

### DraftInputs

One input from upload to deletion.  `input` is its parse status, `jobs` its parse
jobs, `bytes` where the file is: in `.incoming`, in place, in `.trash` under the
token of a delete, or nowhere; `upload` and `del` are the requests, `run` the process.
The upload reserves the row, renames the file and admits a job, and undoes both when
it is refused.  A delete cancels the pending parses, counts the active ones, renames
the file to its tombstone, deletes the row (or the draft's row), and then removes or
restores the file.  A start recovers jobs, reconciles tombstones and requeues
inputs.

Properties: a row that lives has its file in place or in a tombstone the next
start restores; a job whose cancel was asked for never completes; a parsed input
stays parsed; an input waits only for something that will come (`WaitingHasACause`,
in `Inv` with the types), and a parse settles.

Left out: a second input under the same name; a second process (this one recovers
before it serves); the compile's refusal of deletes; a failing unlink or statement in
the compensations, a failing restore at start; the purge of a vault or a user.  A
rejected admission leaves the claimed row running for the janitor, as the code does.

## 3. The runs

| run | instance | shows |
|---|---|---|
| `joblease_queues` | the three kinds of queue, 1 job, 2 workers, cap 2, one lock timeout past the cap, hand-back, retry, crash; cancels by status and by pass | hand-overs, contract, cap, void stale attempts, final outcomes, jobs settle between put-backs |
| `circuit_slot` | 2 calls, 2 streams, thresholds 2, one reset | trial slot, overlap, recovery |
| `maintenance_home` | 2 setters and a request in one process, a request in another, 3 toggles, a crash | the transaction of flag and audit, lock, cache, expiry |
| `pool_checkout` | 2 callers, four checkouts, two waits each, a pool of 1, 2 connection identities, close_all | count, places, transactions, every checkout ends |
| `admission_storm` | a chat request, a background job, a remote holder, one slot; cancellation anywhere, outage, shutdown | budget, lanes |
| `admission_live` | a chat request, two background jobs, one slot; waiters may be cancelled or expire | slots have owners, no lost wakeup |
| `ingest_file` | 1 document, 2 workers, 1 job and 1 item in memory, 1 attempt each, cancel and a retry or a delete, one fault or failed write | accepted cancels, chunks of indexed files, no forgotten file; files settle, cancelled work ends |
| `ingest_retry` | 2 jobs, cancel and retry, no fault | **violation**: a retried file stays cancelled |
| `index_rebuild` | 2 documents (one in the scoped vault), 3 identities, two of one model, 2 saves, 1 reindex of 2 attempts, one fault | gate, pin, searchability, rebuilds end |
| `index_cancel` | the same with 1 save and no fault | **violation**: a skipped document loses its chunks |
| `draft_compile` | 2 processors, 1 attempt and 1 transient retry a job, 2 compile jobs, a vault that changes between any two steps, one fault | completeness, approval, freshness, an answer |
| `draft_inputs` | 1 input delete and 1 draft delete, 2 attempts a job, 2 parse jobs, 2 crashes, one late heartbeat | bytes and rows, cancels, causes of waiting, parses settle |

Bounds.  Two workers are enough for one to lose its lease to the other and settle late,
and for a reclaimed row to come back to its first owner (a worker id that stays the same
is what the fence must survive).  The caps of 2 are the smallest at which both the retry
and the failing arm happen.  One lock timeout past the cap, hand-back, retry or crash
suffices to interleave each with every other step, and the proofs hold for all bounds
and for any number of jobs.  Every kind of queue is an initial state of the run.  The
breaker needs two callers beside an overtaking one and thresholds of 2 so that counting
and not only the first outcome matters.  Two setters can miss each other's version;
three toggles let a second miss happen.  Two callers on a pool of one put one in the
wait at capacity, and the second identity lets a replacement open before the connection
it replaces is closed; larger pools and more callers are covered by the proofs.  In
admission two background jobs and a chat request give a holder, a victim and a waiter on
one slot; storm adds a remote holder instead.

For a document, `ingest_file` has one job with one attempt, an item in memory beside it,
and one fault: a crash, a stop, a lost lease, or any one write that fails.  Two attempts
meet on the file all the same, one at the job, whose lease it may have lost, and one at
the item that a failed insert left in memory; a retry and a delete of one file are not
combined (`OneRoute`).  This keeps the space small enough for all the error paths to be
there.  A second attempt of one job, several jobs, several faults and both routes are
left to the proofs, which set no bound; a loss that takes two faults, as "late" does at
the cap, is met only there.  `ingest_retry` needs a second job for the retry and no
fault.  The rebuild needs two documents so that one can be skipped, fail or be out of
scope while the other is indexed, two saves so that an identity can come back or be
followed by a third, of which two differ in their prefixes alone, and two attempts so
that the second meets what the first left.  Two compile jobs let a new compile follow a
cancelled or failed one whose worker still runs, one transient retry requeues a job, and
one fault is a crash or a heartbeat that comes late.  For an input, a delete of it and
one of its draft race; the second crash meets what the start after the first has
recovered halfway.  Every bound is a constant named `Max...` with its meaning beside it.

Deadlock is checked for `CircuitBreaker` and `MaintenanceFlag` only; in the others a
behaviour may end: all jobs settled, all checkouts used, all requests done, the
document, the draft or the index at rest.

Fairness.  *JobLease*: poll loops claim and the janitor sweeps, both on timers; an
attempt ends, because its calls have timeouts; orphaned rows' heartbeats lapse and
`run_after` passes.  Crashes, cancels, retries and hand-backs are never owed.
*CircuitBreaker*: calls end (HTTP timeouts), callers keep coming, the reset timeout
elapses; the service is not obliged to recover.  *MaintenanceFlag*: a started read ends,
a cached flag expires; no setter is obliged to do anything. *ConnectionPool*: each
checkout's worker advances, since its wait, probe and creation are bounded, the deadline
passes, and a drain that began ends; borrowers need not release.  *AdmissionControl*:
the event loop runs ready tasks, store calls return and admitted work ends; deadlines,
cancellations and evictions are never owed. *IngestFile*: workers poll, attempts end,
the janitor sweeps orphaned rows and the tombstone sweep its rows on their timers, a
process that went down is started again and syncs, and a request that began runs to its
end.  One weak fairness condition over all of these (`Duty`) is as strong as one for
each, since every behaviour there is finite: with its faults and attempts used up it
ends, and it may not end while a duty is open.  *IndexRebuild*: the attempt advances
(its calls have timeouts, and the watchdog cancels the rest), a save and a cancel that
began end, a crashed process boots, the janitor reclaims.  *DraftCompile* and
*DraftInputs*: the same, with the second transaction of the janitor; a processor polls
and runs one thing at a time, so its steps share one condition.  In these four no user
request, save, source change or fault is ever owed, and a lease lost under a live worker
is a fault.  All of it is weak fairness.

## 4. The proofs

The safety properties of every module are proved, in `<Module>Proofs`, for every
set of jobs, workers, callers, documents, identities and requests and every cap,
threshold and bound, from the assumptions named in the modules.  The two gates of a
model call, `AdmissionControl` and `CircuitBreaker`, share `InferenceProofs`, which
extends both; the breaker's `Init`, `Next` and specification carry the prefix
`Breaker` so that it can.

| module | theorems |
|---|---|
| `JobLeaseProofs` | `TypeCorrect`, `OwnershipHolds`, `FenceHolds`, `ClaimsNeverCollide`, `CapHolds`, `StaleAttemptsAreVoid`, `TerminalJobsAreFinal`, `LeaseImplementsContract` |
| `InferenceProofs` | `AdmissionHolds`, `WaitersStayQueued`, `SlotsAreOwned`; `BreakerTyped`, `SlotNeverWedges`, `SingleTrial`, `CountersBounded` |
| `MaintenanceFlagProofs` | `ReadersSeeCommits`, `AuditHolds`, `HomeSeesToggles` |
| `ConnectionPoolProofs` | `TypeCorrect`, `CountExact`, `OneHolder`, `TransactionsStayHome` |
| `IngestFileProofs` | `CancelIsKept`, `ServedFilesHaveChunks`, `NoWaitingFileIsForgotten` |
| `IndexRebuildProofs` | `QueriesMeetTheirIndex`, `ReindexKeepsDocuments` |
| `DraftCompileProofs` | `ParkedDraftsAreCovered`, `PublishedRevisionsAreComplete`, `ReadyDraftsAreApproved`, `ReadyDraftsAreFresh`, `TextSurvives` |
| `DraftInputsProofs` | `WaitsHaveCauses`, `BytesFollowRows`, `CancellationsHold`, `ParsedInputsStay` |

*JobLease.*  `TypeCorrect` comes first.  The other invariants are not inductive one
by one: that a worker-id fence identifies the attempt needs that no other attempt
carries the row's generation, which needs that generations only grow, which at a
claim needs that the row was owned by nobody.  `IInv` is the conjunction of type
correctness, `Exclusion` and the cap.  `Exclusion` joins that unborn rows are fresh,
ownership, the fence, the hand-over between two attempts, the current count, and what
makes the hand-over inductive: an attempt that has lost its row lies a generation
behind a pending one and two behind one that runs for another (`SupersededByTwo`), so
that the next claim finds room for it.  Every action but `Claim` only moves a row's
generation up, keeps or ends attempts, and keeps the owner of a running row or clears
it; `StepWithoutClaim` states that once, with the one way a row returns to the queue in
its generation, by its owner (`PutBackByOwner`).  The lemmas under it prove what it
preserves, and each action is shown to be such a step.  `Claim` has a lemma of its
own.  The action properties follow from `IInv`, and the refinement from a case analysis
of the same actions: each is one action of `LeaseContract` or a stutter under the
mapping.

*AdmissionControl.*  The budget in the store is what `HasRoom` tests; that a lease that
counts has its slot there needs most of the invariant.  Such a lease is renewed
(`LeasesFit`), so its entry does not lapse; a victim is marked before its slot is
given back (`VictimsAreRevoked`), so no counted lease loses it to an eviction; and
the slot acquired for a waiter stays until the pump resumes (`PumpFits`), which needs
that nobody else grants the waiter meanwhile.  `LeaseStep` states once that only the
pump makes a lease and every other step moves one on; `StoreStep` lists the reasons
for which an entry may leave the store.  `WaitersAreQueued` is inductive with
`LanesFit`: a waiter is in its lane at most once, so `lane.remove` takes it out
altogether, and it is out once it is answered.  Three lemmas say what appending to
a lane, dropping its head and removing from it do.

`SlotsAreOwned` assumes `Quiet`, as its run does: no outage, and cancellation of
waiters only.  `Calm` gives every entry of this process its owner by the
state of the waiter's future: without a lease it is the one the pump is trying; with
one, the lease is not over unless it was evicted, and an evicted one has an evictor
that has yet to give the slot back.  The evictor may hold a lease itself by then,
since the pump can grant it in mid-eviction; `ReleasersLeave` is what keeps a release
of that lease from ending the eviction.

*CircuitBreaker.*  The invariant joins the types, that every trial of the present
episode holds the slot or was overtaken, and that a taken slot has a holder among
the calls in flight.

*MaintenanceFlag.*  The audit log and the setter's row (`History`) are inductive
together over the steps of the transaction.  The holder of the write lock replaces the
row it read, and what its transaction has inserted is nothing before the audit step and
exactly its own toggle after it (`DraftFits`), however an earlier holder of the lock
came to its end; so each commit adds the toggle that follows the last one.  A toggle is
immediate at home because a cached flag is never older than the process's floor
(`CacheIsAboveFloor`), which a late populate could break: `ReadIsTimely` adds that a
read whose generation is still current has fetched at least the floor, and the
invalidation raises the generation in the step that raises the floor.

*ConnectionPool.*  `EveryConnectionHasOnePlace` is inductive with the types.
`CountIsExact` needs it, and cardinalities of the kept connections and of the
creators, which change by one in the steps that move the counter; when the pool
is closed the count is no longer meaningful, and the invariant says only what
keeps it within its bounds.  `NoInheritedTransaction` rests on `CleanQueue`: a
connection on its way through the queue is in a transaction only if it is broken,
and a broken one fails validation.

*IngestFile.*  Three properties of an uploaded document, for any number of workers,
attempts, faults and calls.  `CancelIsKept`: after the accepted flip, a file is only
ever deleted.  Every later write tests the status in the statement that changes it; the
invariant adds that until the upload begins nobody has touched the file
(`Untouched`), so that its insertion follows no accepted cancel.
`ServedFilesHaveChunks`: whoever may still write "indexed" has chunks in the store
as long as the row stands (`ServersHaveChunks`), a rollback drops chunks only of a row
that is cancelled, or whose cancelled status failed to commit, which is on record
(`DropsCancelledOnly`), and no tombstone stands for a file that may still be served
(`TombsAreDue`).  `AttemptStep` says once what a step of an attempt may do, and each
action is shown to be one.

`NoWaitingFileIsForgotten` has an invariant of its own.  Being covered is not
inductive, because an open job only covers its file while somebody will move it:
`LiveIsMinded` names who minds a waiting file from the first sync of a process on (a
pending job, or one whose outcome its worker is about to write; an item queued or in an
attempt; a worker in an attempt or about to mark the file; an upload not yet answered; a
cancel between its sweep and its flip; or one of the named losses).  `Holders` and
`ItemFits` tie running jobs and the item to their workers, and `TriesFit` keeps a job
that may be retried below its cap.

*IndexRebuild.*  The invariant has four parts.  `AttemptFits` and `DocumentFits` say
what each step of an attempt implies of its job, its staged table and the statuses of
its documents: a swap is only reached by a full attempt none of whose documents
failed, and what is still to visit is indexed or in error.  `Gating`: a ready store
serves the recorded identity, so an attempt that stages, which it does where the
two differ, finds the store not ready and keeps it so until `Lift`; only an open
rebuild serves.  `Identity`: what is recorded is what the live table was built under,
except in the last two steps of a swap, and then it is what the attempt will
record; the pin's name is checked against it when the rebuild opens, so that the pin has
the name of what the live table was built under (`PinIsBuilt`).  `Documents`: a
document that waits for an attempt, or is in its hands, has chunks (`Searchable`); a
swap keeps this because everything the staged table lacks is still to visit,
failed, skipped or late (`Staged`), and at the swap nothing is left of the first two.
A full attempt that skipped nothing also repairs a torn table (`Rewritten`,
`Swapped`), which is why `Judge` may forget the tear.

*DraftCompile.*  The five safety properties are inductive together with three more
facts: what a worker carries at its stage exists (`HandsFull`); a worker that has
published and still owns its job has moved the draft out of queued and running
(`PublishedIsReviewable`), so that its completion cannot leave a draft parked on a job
that is over; and a text that is being written or is current has evidence rows, which
show a stale source wherever its passages are old and not misdated (`TextsShow`).  The
last is what lets the checks before the commit and at the approval answer for passages
they never look at.  It has to be kept through every way rows and texts come apart: a
source edited during the model's answer, a snapshot taken by a worker that lost the
job, rows inherited or reused.  Job rows are a sequence that only grows; lemmas state
what replacing and appending a row do to it, and what an action does to every other row.

*DraftInputs.*  A few structural facts carry the proof: a row goes with its jobs
(`RowsHang`), nothing runs before the upload is done (`UploadIsFirst`), one job at a
time is active and a parsed input has none (`Settlement`), a delete discards the file
only once the row is gone (`DiscardsAreOwed`).  That the file of a living row is in
place or in a tombstone (`BytesAreKept`) is then inductive.

Only model-checked: the liveness properties, since the prover has no ENABLED.  One
theorem has a hypothesis that its run shares: `SlotsAreOwned` (`Quiet`), without which
the code does not promise the property.

## 5. Where the code and its documentation part

The first two are runs of their own; the rest are properties' exceptions, or
disagreements met while modelling.  Where the module states an exception, its name is
given.

* *A cancelled re-embedding* (`index_cancel`).  The commit of a staged rebuild asks
  only that no file failed.  A file whose cancel made the loop skip it gets its
  status "indexed" back, is not in the staged table, and loses its chunks with the
  live table, which `background_tasks.py:4996` and `:5076` exclude.

* *Retry after cancel* (`ingest_retry`).  A retry of a cancelled file answers "scheduled"
  and queues a job, whatever the status of the file; the first write of its attempt
  spares the cancelled row (`document_processor.py:4980`), and the job is cancelled.
  Release note 783 (`783-kms-jobhandle-ingest-cancel.md:32`) says that retry after
  cancel works.

Jobs and shared resources:

* *The cancel pass of ingestion.*  "Matching applies only to items still QUEUED: one
  already claimed by a worker is past cancellation" (`background_tasks.py:3840`); in
  lease mode the pass selects the pending rows and updates them by id
  (`background_tasks.py:3761`), so a row claimed, completed or failed in between becomes
  cancelled.  `TerminalIsFinal` and `LeaseContract` state what is left.
* *No end in sight.*  A lock timeout is requeued past the attempt cap every time
  (`background_tasks.py:1757`), and a job that meets one each time stays open for ever.
* *Compile jobs and the stall arm.*  The janitor arms the stall watchdog for every
  queue, but only reindex stamps progress.  A wiki or kms compile that beats but takes
  longer than the stall budget is reclaimed from a live worker; its result is void
  and it runs again.
* *One trial* (`overtaken`).  `release_trial` clears the flag for whoever holds it.
  After a straggler of an earlier episode reopened the breaker, an overtaken trial
  ends and frees the slot of the next episode's trial.
* *Closed pool.*  `release_connection` tests the closed flag without the lock;
  `close_all` in between has drained the queue the connection then joins.
* *Cancelled holders.*  `_stop_renewal` tells the renewer's cancellation from the
  caller's by `cancelling()`, which is also positive while a cancelled task runs its
  own `finally`: the release ends before the store release and the pump, and the slot
  waits for its TTL.
* *Shutdown.*  Waiters are rejected after the leases were released one by one, and each
  release pumps; a request past the shutdown check queues afterwards.

Ingestion:

* *A cancel refused after its sweep* (`SweptInVain`).  The pending jobs are swept before the
  row is flipped; when the flip is refused or fails, the registry is cleared but the
  jobs are not brought back, so a waiting row stays without one until the next start.
  The release note (`783-...:75`) has every refusal clear the "queued-item intent", and
  `clear_ingest_cancel` (`background_tasks.py:3698`) sees nothing to restore.
* *Error paths that fail* (`Strandings`).  The error of a failed job is written after the
  job has failed, and a failing write is swallowed (`background_tasks.py:5683`); an undo
  that fails keeps its row since "the recovery sweep will settle the pending row"
  (`documents.py:2556`); a rollback that cannot write leaves the row processing.  In
  lease mode that sweep is the boot sync, and nothing else finds such a row.
* *A retry that is not coming* ("late").  An attempt that times out on the
  store's write lock leaves the row "processing", because "the durable job owns this
  file id and is actively retrying" (`document_processor.py:5516`).  When its lease
  expired under it, the job may have been failed at its cap by the next attempt or the
  janitor; the late attempt moved the row back to processing, its own requeue is fenced
  off (`background_tasks.py:1774`), and the row waits for the next start.
* *Chunks of a cancelled row* ("chunks").  An attempt that is cut short between its write
  and its rollback, or whose failure handler looked at the cancel registry just before
  an accepted cancel, leaves chunks behind a cancelled row; so does a rollback whose
  vector delete fails without leaving a tombstone.
* *Chunks gone from a row that stands* ("torn").  A rollback whose commit fails goes on to
  delete the chunks (`document_processor.py:2074-2118`).
* *Tombstones* are swept without another look at the status of their file
  (`background_tasks.py:2523`).  No reachable state makes that delete wrong
  (`TombsAreDue`).
* *Delete* purges the chunks before it deletes the row; in between the row still
  says "indexed".
* *Fenced-off failures.*  A worker that lost its lease still writes "error" over the
  attempt that holds it, whose finalize is then void.
* *A cleared mark.*  Enqueuing a file clears its cancel mark, also one that a cancel
  has set meanwhile; the status of the row decides instead.

Rebuilds:

* *Readiness over a save* (`overtaken`).  The test for a changed identity and the
  lifting of readiness are apart; a save in between is opened to queries of the new
  identity on the old index, which `settings.py:1716-1719` excludes.
* *A pin of another prefix.*  `_resolve_serving_pin` compares the snapshot's model with the
  recorded one (`vector_store.py:628`) and nothing else of the identity.  A save that
  changes prefixes alone, m1 to m1', whose process dies before the flag, leaves no
  snapshot; a boot later a save of m2 snapshots m1', and the next reindex pins m1' to the
  index of m1.  The comment at `vector_store.py:570` and the documentation at `:596` say that
  a stale snapshot falls back to unpinned serving.
* *A commit that breaks off before the record* (`unrecorded`) leaves the old identity
  recorded for the new generation, and a later rebuild pins it; release note 696
  says the pin is never wrong.
* *A commit that breaks off between drop and create* (`torn`): the next boot makes an
  empty index and reports it ready; the staged table is dropped by the next begin,
  although `vector_store.py:3261-3268` says it must be promoted first.  A second
  attempt in the same process fails on the missing live table.
* *Unselected files.*  Documents that are `partial`, or were left processing, are not
  re-embedded and lose their chunks at the swap.
* Documented limits, modelled as such: uploads and deletes during a rebuild are lost
  with the old table (`lost`), and an identity saved and saved back within an attempt is
  not seen (`flipped`).

Draft room:

* *Misdated evidence.*  The passages are retrieved, the model is awaited, and then the live
  hash of each source is recorded (`draft_pipeline.py:3255`); a source edited in between
  is recorded as current, although the text was written from the old one.  A worker
  that lost its job can renew the rows likewise, under the text of another attempt.
  "When it matches, the source text is byte-identical and the evidence is current by
  definition" (`draft_evidence_freshness.py:306`), and the check before the commit is
  there because a source "edited between Research and Assemble would otherwise be
  stored as fact-current" (`draft_pipeline.py:2748`).
* *A disowned worker moves the draft*: the settlement of the job is fenced, that of the
  draft row is not, so it may act for the compile that followed
  (`draft_pipeline.py:3903`, `:3938`).
* *Delete during upload* finds no file yet and removes the row; the file is finalized
  into an orphan (`draft_deletion.py:89`).
* *A late heartbeat at the cap*: the janitor's second transaction marks an input failed
  that the worker has just made ready (`draft_store.py:2435`; `late`).
* *A disowned worker strands an input* (`Stranded`): it marks the row parsing after the
  reclaimed job was settled, and dies.

## 6. Plan

Done: `JobLease` with its contract; `CircuitBreaker`; `MaintenanceFlag`;
`ConnectionPool`; `IngestFile`; `IndexRebuild`; `DraftCompile`; `DraftInputs`;
`AdmissionControl`; the safety properties of all of them proved.

Next:

1. `TaskDrain`: the commit-and-audit unit under repeated cancellation: the audit
   follows the commit and no cancellation vanishes.
2. `CompileProcessor`: the wiki and kms processors over the lease, whose worker id
   survives a stop and start.
3. The promotion of a draft, the migration journal with the `chunks_rebuild` swap, and
   refresh-token rotation.
4. The move of work between the jobs table and the in-memory queues when a queue's mode is
   switched.

### Not modelled

Policy evaluation, ranking, prompting and parsing are functions of large inputs
without concurrency; most of the server's lines are of this kind, or build SQL and
responses.  Wake-up buses only shorten a poll.  The user interface, evaluation and
operator scripts are outside the server.
