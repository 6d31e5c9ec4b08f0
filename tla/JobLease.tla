------------------------------- MODULE JobLease -------------------------------
(***************************************************************************)
(* The DB-claimed job lease of backend/app/services/job_lease.py, for one  *)
(* queue of the jobs table, with the workers that claim rows through it,   *)
(* the janitor that reclaims expired leases, and the operations that write *)
(* the same rows from outside the lease (cancel, retry, bulk hand-back).   *)
(* The queues differ in who may do what: kind says which queue this is.    *)
(*                                                                         *)
(* Every write below is one SQL statement or one transaction, hence one    *)
(* atomic step; the cancel pass of ingestion reads its rows in a step      *)
(* before it writes them.  Clock comparisons are abstracted to what they   *)
(* decide: a row's heartbeat is older than the reclaim timeout or not      *)
(* (lapsed), its watermark is older than the stall budget or not           *)
(* (stalled), its run_after lies ahead or not (deferred).  Time itself is  *)
(* the three environment actions that turn these on.                       *)
(***************************************************************************)
EXTENDS Integers

CONSTANTS
    Jobs,             \* row ids; AUTOINCREMENT hands them out in order
    Workers,          \* worker ids, one per worker loop
    NoWorker,         \* worker_id IS NULL
    Idle,             \* a worker loop between two attempts
    MaxAttempts,      \* settings.jobs_max_attempts
    Kinds,            \* the queues to model: ingestion, compile (wiki, kms), reindex
    MaxContention,    \* bound: lock timeouts requeued past the cap in a behaviour
    MaxHandbacks,     \* bound: graceful stops in a behaviour
    MaxRetries,       \* bound: operator retries in a behaviour
    MaxCrashes        \* bound: workers lost in a behaviour

ASSUME JobsAssumption == Jobs \subseteq Nat
ASSUME WorkersAssumption == NoWorker \notin Workers
ASSUME CapAssumption == MaxAttempts \in Nat \ {0}
ASSUME KindsAssumption == Kinds \subseteq {"ingestion", "compile", "reindex"}
ASSUME BoundsAssumption ==
    /\ MaxContention \in Nat
    /\ MaxHandbacks \in Nat /\ MaxRetries \in Nat /\ MaxCrashes \in Nat

VARIABLES
    kind,     \* which queue these rows are; never changes
    row,      \* the jobs table
    picked,   \* rows a cancel pass has read as pending and not yet written
    held,     \* what each worker loop is doing: Idle or an attempt
    crashed,  \* worker ids whose process is gone
    spent     \* how much of each bound the behaviour has used

vars == <<kind, row, picked, held, crashed, spent>>

Statuses == {"absent", "pending", "running", "completed", "failed", "cancelled"}
Terminal == {"completed", "failed", "cancelled"}

Row == [status : Statuses, worker : Workers \cup {NoWorker},
        generation : Nat, attempts : Nat,
        lapsed : BOOLEAN, stalled : BOOLEAN, deferred : BOOLEAN]

\* An attempt is the row claim() returned, plus what has become of it since.
Attempt == [job : Jobs, generation : Nat \ {0}, attempts : Nat,
            stage : {"running", "failing"}]

ASSUME IdleAssumption == Idle \notin Attempt

Spent == [handbacks : Nat, retries : Nat, crashes : Nat,
          contentions : Nat]

TypeOK ==
    /\ kind \in Kinds
    /\ picked \subseteq Jobs
    /\ row \in [Jobs -> Row]
    /\ held \in [Workers -> Attempt \cup {Idle}]
    /\ crashed \subseteq Workers
    /\ spent \in Spent

NoRow == [status |-> "absent", worker |-> NoWorker, generation |-> 0,
          attempts |-> 0, lapsed |-> FALSE, stalled |-> FALSE, deferred |-> FALSE]

Init ==
    /\ kind \in Kinds
    /\ picked = {}
    /\ row = [j \in Jobs |-> NoRow]
    /\ held = [w \in Workers |-> Idle]
    /\ crashed = {}
    /\ spent = [handbacks |-> 0, retries |-> 0, crashes |-> 0,
                contentions |-> 0]

-------------------------------------------------------------------------------
(* What each statement leaves in a row it matches.                         *)

\* A row as a statement writes it: the heartbeat and the watermark are fresh, or
\* are read no more.
Written(status, worker, generation, attempts, deferred) ==
    [status |-> status, worker |-> worker, generation |-> generation,
     attempts |-> attempts, lapsed |-> FALSE, stalled |-> FALSE, deferred |-> deferred]

\* Deviation, for the mutants of PROJECT.json: a hand-back that keeps the generation.
HandedBackUnnumbered(r) ==
    Written("pending", NoWorker, r.generation,
            IF r.attempts > 0 THEN r.attempts - 1 ELSE 0, FALSE)

Claimed(r, w) == Written("running", w, r.generation + 1, r.attempts + 1, FALSE)

\* complete, fail and cancel keep worker_id in the settled row.
Settled(r, outcome) == Written(outcome, r.worker, r.generation, r.attempts, r.deferred)

\* requeue: the attempt stays spent.
Requeued(r, later) == Written("pending", NoWorker, r.generation, r.attempts, later)

\* release: the claim's attempt is refunded and the generation moves on.
HandedBack(r) ==
    Written("pending", NoWorker, r.generation + 1,
            IF r.attempts > 0 THEN r.attempts - 1 ELSE 0, FALSE)

\* reclaim_expired: failed at the cap, pending below it.
Reclaimed(r) ==
    Written(IF r.attempts >= MaxAttempts THEN "failed" ELSE "pending",
            NoWorker, r.generation + 1, r.attempts, FALSE)

\* _cancel_pending_jobs_rows: an UPDATE by id that clears worker_id.
Withdrawn(r) == Written("cancelled", NoWorker, r.generation, r.attempts, r.deferred)

\* retry_job: a failed job starts over with a fresh attempt budget.
Retried(r) == Written("pending", NoWorker, r.generation + 1, 0, FALSE)

-------------------------------------------------------------------------------
(* Guards shared by several statements.                                    *)

\* Deviations: a fence on the status alone; a janitor that watches the watermark
\* only; a claim that forgets the status.
OwnsByStatus(w, j) == row[j].status = "running"
ExpiredOnStallOnly(j) ==
    row[j].status = "running" /\ kind # "ingestion" /\ row[j].stalled
ClaimableWhileRunning(j) ==
    row[j].status \in {"pending", "running"} /\ ~row[j].deferred

\* The WHERE clause of every fenced write: the row names this worker and runs.
Owns(w, j) == row[j].status = "running" /\ row[j].worker = w

Claimable(j) == row[j].status = "pending" /\ ~row[j].deferred

\* The janitor watches the watermark of every queue but ingestion.
StallArmed == kind # "ingestion"

Expired(j) ==
    /\ row[j].status = "running"
    /\ row[j].lapsed \/ (StallArmed /\ row[j].stalled)

\* A worker loop is inside an attempt at job j.
Runs(w, j) == held[w] # Idle /\ held[w].job = j

\* A fenced write by w: the row moves only if w still owns it, and w's attempt
\* ends whether or not the write matched.
FencedWrite(w, new) ==
    /\ row' = IF Owns(w, held[w].job) THEN [row EXCEPT ![held[w].job] = new] ELSE row
    /\ held' = [held EXCEPT ![w] = Idle]

-------------------------------------------------------------------------------
(* Producers and outside writers.                                          *)

\* enqueue: one pending row under the next id.
Enqueue(j) ==
    /\ row[j].status = "absent"
    /\ \A i \in Jobs : i < j => row[i].status # "absent"
    /\ row' = [row EXCEPT ![j] = Written("pending", NoWorker, 0, 0, FALSE)]
    /\ UNCHANGED <<held, crashed, spent>>

\* Deviation: a cancel by id without its status guard.
CancelJobAnyStatus(j) ==
    /\ kind # "ingestion"
    /\ row[j].status # "absent"
    /\ row' = [row EXCEPT ![j] = Settled(@, "cancelled")]
    /\ UNCHANGED <<held, crashed, spent>>

\* cancel_job, and the delete of a vault: guarded by status only, so it beats a
\* running worker; worker_id stays in the row.
CancelJob(j) ==
    /\ kind # "ingestion"
    /\ row[j].status \in {"pending", "running"}
    /\ row' = [row EXCEPT ![j] = Settled(@, "cancelled")]
    /\ UNCHANGED <<held, crashed, spent>>

\* The cancel pass of ingestion reads the pending rows of the files it is to
\* cancel (one pass at a time) ...
PickForCancel ==
    /\ kind = "ingestion"
    /\ picked = {}
    /\ \E S \in SUBSET {j \in Jobs : row[j].status = "pending"} :
          S # {} /\ picked' = S
    /\ UNCHANGED <<kind, row, held, crashed, spent>>

\* ... and writes them by id in one transaction: whatever they have become, or
\* none of them when the transaction fails.
WriteCancels ==
    /\ picked # {}
    /\ \/ row' = [j \in Jobs |-> IF j \in picked THEN Withdrawn(row[j]) ELSE row[j]]
       \/ UNCHANGED row
    /\ picked' = {}
    /\ UNCHANGED <<kind, held, crashed, spent>>

\* retry_job: an operator reopens a failed compile job with a fresh attempt budget.
RetryJob(j) ==
    /\ kind = "compile"
    /\ row[j].status = "failed"
    /\ spent.retries < MaxRetries
    /\ row' = [row EXCEPT ![j] = Retried(@)]
    /\ spent' = [spent EXCEPT !.retries = @ + 1]
    /\ UNCHANGED <<held, crashed>>

\* _release_all_ingest_leases, _release_reindex_leases: a stopping process hands
\* back every running row of the queue, whoever holds it.
ReleaseAll ==
    /\ kind # "compile"
    /\ spent.handbacks < MaxHandbacks
    /\ \E j \in Jobs : row[j].status = "running"
    /\ row' = [j \in Jobs |-> IF row[j].status = "running" THEN HandedBack(row[j]) ELSE row[j]]
    /\ spent' = [spent EXCEPT !.handbacks = @ + 1]
    /\ UNCHANGED <<held, crashed>>

\* One janitor pass: every expired lease of the queue in one statement.
ReclaimExpired ==
    /\ \E j \in Jobs : Expired(j)
    /\ row' = [j \in Jobs |-> IF Expired(j) THEN Reclaimed(row[j]) ELSE row[j]]
    /\ UNCHANGED <<held, crashed, spent>>

-------------------------------------------------------------------------------
(* The worker loop: claim, work under a heartbeat, settle, claim again.    *)

\* claim takes the oldest claimable row: ORDER BY id ASC LIMIT 1.
Claim(w, j) ==
    /\ w \notin crashed
    /\ held[w] = Idle
    /\ Claimable(j)
    /\ \A i \in Jobs : Claimable(i) => j <= i
    /\ row' = [row EXCEPT ![j] = Claimed(@, w)]
    /\ held' = [held EXCEPT ![w] = [job |-> j, generation |-> row[j].generation + 1,
                                    attempts |-> row[j].attempts + 1,
                                    stage |-> "running"]]
    /\ UNCHANGED <<crashed, spent>>

\* The attempt will not succeed; n is the attempt count it will settle on.
Failing(a, n) == [a EXCEPT !.stage = "failing", !.attempts = n]

Heartbeat(w) ==
    /\ held[w] # Idle
    /\ Owns(w, held[w].job)
    /\ row' = [row EXCEPT ![held[w].job].lapsed = FALSE]
    /\ UNCHANGED <<held, crashed, spent>>

\* A file of a reindex is done: its attempt stamps the watermark, and stops when
\* the stamp is fenced off (_LeaseProgressLost).  Other queues record nothing.
FinishUnit(w) ==
    /\ kind = "reindex"
    /\ held[w] # Idle
    /\ held[w].stage = "running"
    /\ IF Owns(w, held[w].job)
       THEN row' = [row EXCEPT ![held[w].job].stalled = FALSE] /\ UNCHANGED held
       ELSE held' = [held EXCEPT ![w] = Failing(@, @.attempts)] /\ UNCHANGED row
    /\ UNCHANGED <<crashed, spent>>

Complete(w) ==
    /\ held[w] # Idle
    /\ held[w].stage = "running"
    /\ FencedWrite(w, Settled(row[held[w].job], "completed"))
    /\ UNCHANGED <<crashed, spent>>

\* The attempt observed its own cancellation (ingestion): never requeued.
CancelOwn(w) ==
    /\ kind = "ingestion"
    /\ held[w] # Idle
    /\ held[w].stage = "running"
    /\ FencedWrite(w, Settled(row[held[w].job], "cancelled"))
    /\ UNCHANGED <<crashed, spent>>

\* The work raised, or the stall watchdog cancelled it.  The retry decision rests
\* on an attempt count: the claimed row's, or a fresh attempts_of.
BeginFailure(w) ==
    /\ held[w] # Idle
    /\ held[w].stage = "running"
    /\ \E n \in {held[w].attempts, row[held[w].job].attempts} :
          held' = [held EXCEPT ![w] = Failing(@, n)]
    /\ UNCHANGED <<row, crashed, spent>>

\* Deviation: a failure that is requeued whatever its attempt count.
SettleFailureUncapped(w) ==
    /\ held[w] # Idle
    /\ held[w].stage = "failing"
    /\ FencedWrite(w, Requeued(row[held[w].job], TRUE))
    /\ UNCHANGED <<crashed, spent>>

\* requeue below the cap and fail at it; ingestion requeues a store lock timeout
\* at the cap as well, as often as it meets one (MaxContention bounds the model).
SettleFailure(w) ==
    /\ held[w] # Idle
    /\ held[w].stage = "failing"
    /\ \/ /\ held[w].attempts < MaxAttempts
          /\ \E later \in BOOLEAN : FencedWrite(w, Requeued(row[held[w].job], later))
          /\ UNCHANGED spent
       \/ /\ held[w].attempts >= MaxAttempts
          /\ FencedWrite(w, Settled(row[held[w].job], "failed"))
          /\ UNCHANGED spent
       \/ /\ kind = "ingestion"
          /\ held[w].attempts >= MaxAttempts
          /\ spent.contentions < MaxContention
          /\ FencedWrite(w, Requeued(row[held[w].job], TRUE))
          /\ spent' = [spent EXCEPT !.contentions = @ + 1]
    /\ UNCHANGED crashed

\* The payload of a compile job does not parse: failed at once, cap or no cap.
SettleMalformed(w) ==
    /\ kind = "compile"
    /\ held[w] # Idle
    /\ held[w].stage = "running"
    /\ FencedWrite(w, Settled(row[held[w].job], "failed"))
    /\ UNCHANGED <<crashed, spent>>

\* release: a graceful hand-back of one row (the release outcome of
\* _settle_ingest_job, which no path of the worker chooses today).
Release(w) ==
    /\ kind = "ingestion"
    /\ held[w] # Idle
    /\ spent.handbacks < MaxHandbacks
    /\ FencedWrite(w, HandedBack(row[held[w].job]))
    /\ spent' = [spent EXCEPT !.handbacks = @ + 1]
    /\ UNCHANGED crashed

\* The settlement write itself raised (a locked database): the loop logs it and
\* claims again, and the row stays running under this worker's id.
Abandon(w) ==
    /\ held[w] # Idle
    /\ held' = [held EXCEPT ![w] = Idle]
    /\ UNCHANGED <<row, crashed, spent>>

\* The process dies.  A restarted loop takes a fresh worker id.
Crash(w) ==
    /\ w \notin crashed
    /\ spent.crashes < MaxCrashes
    /\ crashed' = crashed \cup {w}
    /\ held' = [held EXCEPT ![w] = Idle]
    /\ spent' = [spent EXCEPT !.crashes = @ + 1]
    /\ UNCHANGED row

-------------------------------------------------------------------------------
(* Time.                                                                   *)

HeartbeatLapses(j) ==
    /\ row[j].status = "running" /\ ~row[j].lapsed
    /\ row' = [row EXCEPT ![j].lapsed = TRUE]
    /\ UNCHANGED <<held, crashed, spent>>

StallBudgetPasses(j) ==
    /\ row[j].status = "running" /\ ~row[j].stalled
    /\ row' = [row EXCEPT ![j].stalled = TRUE]
    /\ UNCHANGED <<held, crashed, spent>>

RunAfterDue(j) ==
    /\ row[j].status = "pending" /\ row[j].deferred
    /\ row' = [row EXCEPT ![j].deferred = FALSE]
    /\ UNCHANGED <<held, crashed, spent>>

-------------------------------------------------------------------------------
WorkerStep(w) ==
    \/ \E j \in Jobs : Claim(w, j)
    \/ Heartbeat(w)
    \/ FinishUnit(w)
    \/ Complete(w)
    \/ CancelOwn(w)
    \/ BeginFailure(w)
    \/ SettleFailure(w)
    \/ SettleMalformed(w)
    \/ Release(w)
    \/ Abandon(w)
    \/ Crash(w)

RowStep(j) ==
    \/ Enqueue(j)
    \/ CancelJob(j)
    \/ RetryJob(j)
    \/ HeartbeatLapses(j)
    \/ StallBudgetPasses(j)
    \/ RunAfterDue(j)

CancelPass == PickForCancel \/ WriteCancels

\* Everything but the cancel pass leaves what the pass has read alone.
Beside(A) == A /\ UNCHANGED <<kind, picked>>

Next ==
    \/ \E w \in Workers : Beside(WorkerStep(w))
    \/ \E j \in Jobs : Beside(RowStep(j))
    \/ Beside(ReleaseAll)
    \/ Beside(ReclaimExpired)
    \/ CancelPass

Spec == Init /\ [][Next]_vars

\* An attempt ends: its calls are bounded by the timeouts of the services it
\* uses, and settling is one statement.
EndAttempt(w) == Complete(w) \/ BeginFailure(w) \/ SettleFailure(w) \/ Abandon(w)

\* A row whose attempt is gone has nobody left to beat for it.
Orphaned(j) == \A w \in Workers : ~(Runs(w, j) /\ Owns(w, j))

\* The poll loops and the janitor run on timers, and clocks advance.  Crashes,
\* cancels, retries and hand-backs are never owed.
Fairness ==
    /\ WF_vars(Beside(\E w \in Workers, j \in Jobs : Claim(w, j)))
    /\ \A w \in Workers : WF_vars(Beside(EndAttempt(w)))
    /\ WF_vars(Beside(ReclaimExpired))
    /\ \A j \in Jobs : WF_vars(Beside(Orphaned(j) /\ HeartbeatLapses(j)))
    /\ \A j \in Jobs : WF_vars(Beside(RunAfterDue(j)))

FairSpec == Spec /\ Fairness

-------------------------------------------------------------------------------
(* Safety.                                                                 *)

\* job_lease.py promises that a job is "never running while owned by nothing":
\* a running row names a worker, and a claimable one names none.
OwnedWhileRunning ==
    \A j \in Jobs :
        /\ row[j].status = "running" => row[j].worker \in Workers /\ row[j].attempts >= 1
        /\ row[j].status = "pending" => row[j].worker = NoWorker

\* The fence compares worker_id and status, never the generation.  It is still a
\* fence on the attempt: an attempt that passes it is the one the row's current
\* generation was granted to, however often the row changed hands in between.
FenceIsGeneration ==
    \A w \in Workers, j \in Jobs :
        Runs(w, j) =>
            /\ held[w].generation <= row[j].generation
            /\ Owns(w, j) => held[w].generation = row[j].generation

\* Between two attempts in flight at one job lies a hand-over: the row was taken
\* from the older one (reclaimed, handed back, retried), which spends a generation,
\* before the younger one claimed it, which spends another.  Two workers that claim
\* one pending row would be neighbours; a row renumbered from 0 would let an old
\* attempt and a new one meet in one generation.
ClaimsAreHandovers ==
    \A v, w \in Workers :
        /\ v # w /\ held[v] # Idle /\ held[w] # Idle
        /\ held[v].job = held[w].job
        => \/ held[v].generation + 1 < held[w].generation
           \/ held[w].generation + 1 < held[v].generation

\* The retry decision rests on an attempt count read earlier: as long as the
\* fence would still let it through, that count is the row's.
CountIsCurrent ==
    \A w \in Workers, j \in Jobs :
        Runs(w, j) /\ Owns(w, j) => held[w].attempts = row[j].attempts

\* jobs_max_attempts bounds the claims of a job between two operator retries,
\* through any mix of crashes, reclaims, requeues and graceful hand-backs; only
\* a store lock timeout of ingestion buys a claim beyond it.
AttemptsBounded ==
    \A j \in Jobs :
        /\ row[j].attempts <= MaxAttempts + spent.contentions
        /\ row[j].status = "pending" => row[j].attempts < MaxAttempts + spent.contentions

\* An attempt whose lease was reclaimed, handed back or cancelled ends without
\* moving any row: its result is void (job_lease.py, "Fencing model").
StaleAttemptIsVoid ==
    [][\A w \in Workers :
          /\ held[w] # Idle /\ held'[w] = Idle
          /\ \/ held[w].generation # row[held[w].job].generation
             \/ row[held[w].job].status # "running"
          => row' = row]_vars

\* A settled job moves again only by an operator's retry, if it failed, or by a
\* cancel pass that read it while it waited: no late settle, reclaim or hand-back
\* revives it, and what such a pass leaves is cancelled for good.
TerminalIsFinal ==
    [][\A j \in Jobs :
          row[j].status \in Terminal /\ row'[j] # row[j]
          => \/ row[j].status = "failed" /\ spent'.retries > spent.retries
             \/ j \in picked /\ row'[j].status = "cancelled"]_vars

-------------------------------------------------------------------------------
(* Liveness.                                                               *)

\* A lock timeout past the cap and a graceful stop put a job back without spending
\* its budget, and the code sets them no limit.
PutBacks == spent.contentions + spent.handbacks

\* Every waiting job reaches a terminal state, or is put back once more by a lock
\* timeout or a stop, although workers crash, lose settlement writes and hand
\* leases back: the janitor recovers each orphaned row and the attempt cap stops
\* the cycle.  The bounds on the put-backs play no part: for every number of them
\* the next one or the end of the job is owed.
JobsSettleBetweenPutBacks ==
    \A j \in Jobs : \A n \in 0..(MaxContention + MaxHandbacks) :
        (row[j].status = "pending" /\ PutBacks = n)
            ~> (row[j].status \in Terminal \/ PutBacks > n)

-------------------------------------------------------------------------------
(* The contract of LeaseContract.tla, read off the table and the workers.  *)

OutcomeOf(r) == IF r.status \in {"pending", "running"} THEN "open" ELSE r.status

jobOutcome == [j \in Jobs |-> OutcomeOf(row[j])]
newestTicket == [j \in Jobs |-> row[j].generation]
liveJobs == {j \in Jobs : row[j].status = "running"}
ticketsOut == {<<held[w].job, held[w].generation>> : w \in {v \in Workers : held[v] # Idle}}

Contract == INSTANCE LeaseContract WITH
    outcome <- jobOutcome, newest <- newestTicket, live <- liveJobs, tickets <- ticketsOut,
    recalled <- picked

\* Claims are numbered tickets of which at most the newest decides the job, and
\* a revoked ticket leaves no trace: the lease of job_lease.py with its callers
\* implements LeaseContract, whichever queue it serves.
ImplementsContract == Contract!Spec

===============================================================================
