----------------------------- MODULE IndexRebuild -----------------------------
(***************************************************************************)
(* Moving the vector index to another embedding identity: the settings    *)
(* save that changes it (settings.py), the reindex attempts that re-embed  *)
(* every document (background_tasks.py, document_processor.py), the staged *)
(* table they fill and swap in (vector_store.py), and the gate that admits *)
(* queries meanwhile (deps.py).                                            *)
(*                                                                         *)
(* A step is the code between two awaits, or one write.  One process, with *)
(* its one reindex worker; a job is leased as in JobLease.  A document's   *)
(* chunks are one entry: the model they were embedded with.  All models    *)
(* have one dimension; where dimensions differ the code refuses more.      *)
(***************************************************************************)
EXTENDS Integers, FiniteSets

CONSTANTS
    Files,       \* documents
    Vault,       \* those of the vault a scoped reindex is asked for
    Models,      \* embedding identities: model and prefixes
    Name,        \* the name of an identity's model; prefixes are not part of it
    None,
    NoTable,     \* the database has no table of that name
    MaxAttempts, \* settings.jobs_max_attempts
    MaxJobs,     \* bound: reindex requests
    MaxSaves,    \* bound: saves that change the identity
    MaxFaults    \* bound: crashes, stalls, failed documents and failed writes

ASSUME VaultAssumption == Vault \subseteq Files
ASSUME ModelsAssumption == Models # {}
ASSUME NoneAssumption ==
    /\ None \notin Models /\ None \notin Files
    /\ NoTable \notin [Files -> Models \cup {None}]
ASSUME BoundAssumption ==
    /\ MaxAttempts \in Nat \ {0}
    /\ {MaxJobs, MaxSaves, MaxFaults} \subseteq Nat

VARIABLES
    model,   \* the identity in the settings
    save,    \* the save under way: the identity it replaced, or None
    kv,      \* settings_kv: the index's recorded identity, the draining snapshot
    chunks,  \* the live table
    temp,    \* chunks_dim_rebuild, the staged table
    gate,    \* the store's flags: _ready, rebuild_in_progress, its serving pin
    status,  \* files.status
    marked,  \* the processor's cancel registry
    cancel,  \* the request that cancels an ingest: due, its file, or over
    job,     \* the reindex row of the jobs table
    run,     \* the attempt of the reindex worker
    up,      \* the process runs
    used,    \* saves and faults so far
    past     \* history, for the properties

vars == <<model, save, kv, chunks, temp, gate, status, marked, cancel, job, run,
          up, used, past>>

Table == [Files -> Models \cup {None}]
Empty == [f \in Files |-> None]

InFile == {"embedding", "writing", "finalizing"}
Swap == {"dropping", "creating", "indexing", "recording"}
Steps == {"idle", "deciding", "visiting", "judging", "lifting", "clearing",
          "done", "failed"} \cup InFile \cup Swap

\* start: the identity the attempt began under; named: the one it will record;
\* late: ingested since it began; prior: its document's status before it took it;
\* vec: what it embedded with
NoRun == [pc |-> "idle", start |-> None, named |-> None, staged |-> FALSE,
          todo |-> {}, failed |-> {}, skipped |-> {}, late |-> {},
          file |-> None, prior |-> None, vec |-> None]

Statuses == {"absent", "indexed", "partial", "processing", "error", "cancelled"}

TypeOK ==
    /\ model \in Models
    /\ save \in Models \cup {None}
    /\ kv \in [sidecar : Models \cup {None}, snapshot : Models \cup {None}]
    /\ chunks \in Table \cup {NoTable}
    /\ temp \in Table \cup {NoTable}
    /\ gate \in [ready : BOOLEAN, serving : BOOLEAN, pin : Models \cup {None}]
    /\ status \in [Files -> Statuses]
    /\ marked \subseteq Files
    /\ cancel \in Files \cup {"due", "over"}
    /\ job \in [st : {"pending", "running", "over"}, scope : {"all", "vault"},
                narrow : SUBSET Files, tries : 0..MaxAttempts, nth : 0..MaxJobs]
    /\ run \in [pc : Steps, start : Models \cup {None}, named : Models \cup {None},
                staged : BOOLEAN, todo : SUBSET Files, failed : SUBSET Files,
                skipped : SUBSET Files, late : SUBSET Files, file : Files \cup {None},
                prior : Statuses \cup {None}, vec : Models \cup {None}]
    /\ up \in BOOLEAN
    /\ used \in [saves : 0..MaxSaves, faults : 0..MaxFaults]
    /\ past \in [built : Models, overtaken : BOOLEAN, flipped : BOOLEAN,
                 unrecorded : BOOLEAN, torn : BOOLEAN, lost : SUBSET Files]

\* An index that serves, with documents indexed in full or in part.
Init ==
    /\ model = CHOOSE m \in Models : TRUE
    /\ save = None
    /\ kv = [sidecar |-> model, snapshot |-> None]
    /\ status \in [Files -> {"absent", "indexed", "partial"}]
    /\ chunks = [f \in Files |-> IF status[f] = "absent" THEN None ELSE model]
    /\ temp = NoTable
    /\ gate = [ready |-> TRUE, serving |-> FALSE, pin |-> None]
    /\ marked = {}
    /\ cancel = "due"
    /\ job = [st |-> "over", scope |-> "all", narrow |-> {}, tries |-> 0, nth |-> 0]
    /\ run = NoRun
    /\ up = TRUE
    /\ used = [saves |-> 0, faults |-> 0]
    /\ past = [built |-> model, overtaken |-> FALSE, flipped |-> FALSE,
               unrecorded |-> FALSE, torn |-> FALSE, lost |-> {}]

Settings == <<model, save>>
Tables == <<chunks, temp>>
Rows == <<status, marked, cancel>>

Fault == used.faults < MaxFaults /\ used' = [used EXCEPT !.faults = @ + 1]

-------------------------------------------------------------------------------
(* Saves of the settings, in a thread of their own.                        *)

\* _persist_settings and _apply_validated_settings
SaveApply(m) ==
    /\ up /\ save = None /\ m # model
    /\ used.saves < MaxSaves
    /\ model' = m
    /\ save' = model
    /\ used' = [used EXCEPT !.saves = @ + 1]
    /\ past' = [past EXCEPT !.flipped = @ \/ m = run.start]
    /\ UNCHANGED <<kv, Tables, gate, Rows, job, run, up>>

\* _invalidate_vector_store_readiness; the first snapshot is kept
SaveFlag ==
    /\ save # None
    /\ gate' = [gate EXCEPT !.ready = FALSE]
    /\ kv' = [kv EXCEPT !.snapshot = IF @ = None THEN save ELSE @]
    /\ save' = None
    /\ past' = [past EXCEPT !.overtaken = FALSE]
    /\ UNCHANGED <<model, Tables, Rows, job, run, up, used>>

-------------------------------------------------------------------------------
(* Documents outside the attempt.                                          *)

\* A write to a live table that is gone creates it, and records its identity.
Live == IF chunks = NoTable THEN Empty ELSE chunks
Recorded == IF chunks = NoTable THEN [kv EXCEPT !.sidecar = model] ELSE kv
WithTable == IF chunks = NoTable
             THEN [past EXCEPT !.built = model, !.unrecorded = FALSE] ELSE past

\* A bare ingest: an upload, or a row a crash left processing and the boot sync
\* enqueued again.  It waits for the write lock while a swap holds it.
Ingest(f) ==
    /\ up
    /\ status[f] \in {"absent", "processing"} /\ run.file # f
    /\ run.pc \notin Swap
    /\ status' = [status EXCEPT ![f] = "indexed"]
    /\ chunks' = [Live EXCEPT ![f] = model]
    /\ kv' = Recorded
    /\ run' = IF run.pc = "idle" THEN run ELSE [run EXCEPT !.late = @ \cup {f}]
    /\ past' = [WithTable EXCEPT !.lost = @ \ {f}]
    /\ UNCHANGED <<Settings, temp, gate, marked, cancel, job, up, used>>

\* cancel_document_ingest on a row that is processing: the registry first
CancelMark(f) ==
    /\ up /\ cancel = "due"
    /\ status[f] = "processing"
    /\ marked' = marked \cup {f}
    /\ cancel' = f
    /\ UNCHANGED <<Settings, kv, Tables, gate, status, job, run, up, used, past>>

\* then the row, unless it has settled: a refusal takes the mark back
CancelFlip ==
    /\ cancel \in Files
    /\ cancel' = "over"
    /\ IF status[cancel] = "processing"
       THEN status' = [status EXCEPT ![cancel] = "cancelled"] /\ UNCHANGED marked
       ELSE marked' = marked \ {cancel} /\ UNCHANGED status
    /\ UNCHANGED <<Settings, kv, Tables, gate, job, run, up, used, past>>

-------------------------------------------------------------------------------
(* A reindex attempt: _run_reindex_job_row around _reindex_embed_all.      *)

Request(s) ==
    /\ up /\ job.st = "over" /\ job.nth < MaxJobs
    /\ job' = [st |-> "pending", scope |-> s, narrow |-> {}, tries |-> 0,
               nth |-> job.nth + 1]
    /\ UNCHANGED <<Settings, kv, Tables, gate, Rows, run, up, used, past>>

\* A document that is partial is not selected.
Selected == {f \in Files : /\ status[f] \in {"indexed", "error"}
                           /\ job.scope = "vault" => f \in Vault
                           /\ job.narrow # {} => f \in job.narrow}

Start ==
    /\ up /\ job.st = "pending" /\ run.pc = "idle"
    /\ job' = [job EXCEPT !.st = "running", !.tries = @ + 1]
    /\ run' = [NoRun EXCEPT !.pc = "deciding", !.start = model, !.todo = Selected]
    /\ UNCHANGED <<Settings, kv, Tables, gate, Rows, up, used, past>>

IdentityChanged == kv.sidecar # None /\ kv.sidecar # model
\* Deviation, for a mutant: a scoped attempt may stage
NeverPartial == FALSE

Partial == job.scope = "vault" \/ job.narrow # {}

\* Deviation, for a mutant: the snapshot is believed as it stands
PinUnchecked == kv.snapshot

\* _resolve_serving_pin: a snapshot the recorded identity bears out, as far as
\* the names of their models go: the prefixes are not compared
Pin == IF kv.snapshot = None \/ kv.sidecar = None THEN kv.snapshot
       ELSE IF Name[kv.snapshot] = Name[kv.sidecar] THEN kv.snapshot ELSE None

\* The attempt is over; a failed document narrows the next one.
Fail(narrow) ==
    /\ run' = [run EXCEPT !.pc = "failed"]
    /\ job' = [job EXCEPT !.narrow = narrow]

Closed == [gate EXCEPT !.serving = FALSE, !.pin = None]

\* Nothing to embed; no change of identity; a partial attempt, which must not
\* stage; or the table handle of a failed swap, whose schema cannot be read.
DecideOther ==
    /\ run.pc = "deciding"
    /\ \/ run.todo = {} /\ run' = [run EXCEPT !.pc = "done"] /\ UNCHANGED job
       \/ /\ run.todo # {} /\ ~IdentityChanged
          /\ run' = [run EXCEPT !.pc = "visiting"] /\ UNCHANGED job
       \/ run.todo # {} /\ IdentityChanged /\ Partial /\ Fail({})
       \/ run.todo # {} /\ chunks = NoTable /\ Fail({})
    /\ UNCHANGED <<Settings, kv, Tables, gate, Rows, up, used, past>>

\* begin_dimension_rebuild drops what it finds in its table.
Open ==
    /\ run.pc = "deciding"
    /\ run.todo # {} /\ IdentityChanged /\ ~Partial
    /\ temp' = Empty
    /\ gate' = [gate EXCEPT !.serving = TRUE, !.pin = Pin]
    /\ run' = [run EXCEPT !.pc = "visiting", !.staged = TRUE, !.named = model]
    /\ UNCHANGED <<Settings, kv, chunks, Rows, job, up, used, past>>

\* The attempt is through with its document.
NextFile(r) == [r EXCEPT !.pc = "visiting", !.todo = @ \ {run.file}, !.file = None,
                      !.prior = None, !.vec = None]

\* clear_cancel, then the guarded flip; a cancelled document is passed over.
Visit(f) ==
    /\ run.pc = "visiting" /\ f \in run.todo
    /\ marked' = marked \ {f}
    /\ IF status[f] = "cancelled"
       THEN run' = [run EXCEPT !.todo = @ \ {f}] /\ UNCHANGED status
       ELSE /\ status' = [status EXCEPT ![f] = "processing"]
            /\ run' = [run EXCEPT !.pc = "embedding", !.file = f, !.prior = status[f]]
    /\ UNCHANGED <<Settings, kv, Tables, gate, cancel, job, up, used, past>>

Embed ==
    /\ run.pc = "embedding"
    /\ run' = [run EXCEPT !.pc = "writing", !.vec = model]
    /\ UNCHANGED <<Settings, kv, Tables, gate, Rows, job, up, used, past>>

\* The cancellation handler of the loop, on a row left at s: a row still
\* processing gets its prior status back.
Skip(f, s) ==
    /\ status' = [status EXCEPT ![f] = IF s = "processing" THEN run.prior ELSE s]
    /\ marked' = marked \ {f}
    /\ run' = NextFile([run EXCEPT !.skipped = @ \cup {f}])
    /\ UNCHANGED <<Settings, kv, gate, temp, cancel, job, up, past>>

\* rollback_cancelled_ingest: a staged document keeps what the live table has
RollBack(f) ==
    /\ IF run.staged
       THEN Skip(f, status[f]) /\ UNCHANGED chunks
       ELSE /\ Skip(f, IF status[f] = "processing" THEN "cancelled" ELSE status[f])
            /\ chunks' = IF chunks # NoTable /\ status[f] \in {"processing", "cancelled"}
                         THEN [chunks EXCEPT ![f] = None] ELSE chunks

\* Gate B, then the chunks
Write ==
    /\ run.pc = "writing"
    /\ LET f == run.file
       IN \/ f \in marked /\ Skip(f, status[f]) /\ UNCHANGED <<chunks, used>>
          \/ /\ f \notin marked
             /\ run' = [run EXCEPT !.pc = "finalizing"]
             /\ IF run.staged
                THEN /\ temp' = [temp EXCEPT ![f] = run.vec]
                     /\ UNCHANGED <<kv, chunks, past>>
                ELSE /\ chunks' = [Live EXCEPT ![f] = run.vec]
                     /\ kv' = Recorded
                     /\ past' = [WithTable EXCEPT !.lost = @ \ {f}]
                     /\ UNCHANGED temp
             /\ UNCHANGED <<Settings, gate, Rows, job, up, used>>

\* _finalize_indexed_success
Finalize ==
    /\ run.pc = "finalizing"
    /\ LET f == run.file
       IN \/ (f \in marked \/ status[f] = "cancelled") /\ RollBack(f) /\ UNCHANGED used
          \/ /\ f \notin marked /\ status[f] # "cancelled"
             /\ status' = [status EXCEPT ![f] = IF @ = "processing" THEN "indexed" ELSE @]
             /\ run' = NextFile(run)
             /\ UNCHANGED <<Settings, kv, Tables, gate, marked, cancel, job, up, used, past>>

\* Nothing of the document was written yet, and it was searchable.
Undisturbed == run.pc = "embedding" /\ run.prior \in {"indexed", "partial"}

\* The document fails, unless its row has settled.
FileFails ==
    /\ run.pc \in InFile
    /\ Fault
    /\ LET f == run.file
       IN \/ f \in marked /\ RollBack(f)
          \/ /\ f \notin marked
             /\ status' = [status EXCEPT ![f] =
                    IF @ # "processing" THEN @
                    ELSE IF Undisturbed THEN run.prior ELSE "error"]
             /\ run' = NextFile([run EXCEPT !.failed = @ \cup {f}])
             /\ UNCHANGED <<Settings, kv, Tables, gate, marked, cancel, job, up, past>>

\* Every document was visited: a staged attempt commits if none failed and the
\* identity is the one it began under (R1), else aborts.
Ended == run.pc = "visiting" /\ run.todo = {}

\* Deviation, for a mutant: an abort that goes on serving
AbortServing ==
    /\ Ended /\ run.staged
    /\ run.failed # {} \/ model # run.start
    /\ Fail({})
    /\ temp' = NoTable
    /\ UNCHANGED <<Settings, kv, chunks, gate, Rows, up, used, past>>

Abort ==
    /\ Ended /\ run.staged
    /\ run.failed # {} \/ model # run.start
    /\ Fail({})
    /\ temp' = NoTable
    /\ gate' = Closed
    /\ UNCHANGED <<Settings, kv, chunks, Rows, up, used, past>>

CommitBegins ==
    /\ Ended /\ run.staged
    /\ run.failed = {} /\ model = run.start
    /\ run' = [run EXCEPT !.pc = "dropping"]
    /\ gate' = Closed
    /\ UNCHANGED <<Settings, kv, Tables, Rows, job, up, used, past>>

EndInPlace ==
    /\ Ended /\ ~run.staged
    /\ IF run.failed # {} THEN Fail(run.failed)
       ELSE run' = [run EXCEPT !.pc = "judging"] /\ UNCHANGED job
    /\ UNCHANGED <<Settings, kv, Tables, gate, Rows, up, used, past>>

-------------------------------------------------------------------------------
(* commit_dimension_rebuild, under the write lock.                         *)

Drop ==
    /\ run.pc = "dropping"
    /\ IF chunks = NoTable
       THEN Fail({}) /\ UNCHANGED chunks
       ELSE /\ chunks' = NoTable
            /\ run' = [run EXCEPT !.pc = "creating"] /\ UNCHANGED job
    /\ UNCHANGED <<Settings, kv, temp, gate, Rows, up, used, past>>

Create ==
    /\ run.pc = "creating"
    /\ chunks' = temp
    /\ run' = [run EXCEPT !.pc = "indexing"]
    /\ past' = [past EXCEPT !.built = run.start,
                            !.lost = {f \in @ \cup run.skipped \cup run.late : temp[f] = None}]
    /\ UNCHANGED <<Settings, kv, temp, gate, Rows, job, up, used>>

DropTemp ==
    /\ run.pc = "indexing"
    /\ temp' = NoTable
    /\ run' = [run EXCEPT !.pc = "recording"]
    /\ UNCHANGED <<Settings, kv, chunks, gate, Rows, job, up, used, past>>

\* The swap is done: a write that fails is logged, and the commit succeeds.
Record ==
    /\ run.pc = "recording"
    /\ run' = [run EXCEPT !.pc = "judging"]
    /\ \/ /\ kv' = [kv EXCEPT !.sidecar = run.named]
          /\ past' = [past EXCEPT !.unrecorded = FALSE]
          /\ UNCHANGED used
       \/ /\ Fault
          /\ past' = [past EXCEPT !.unrecorded = TRUE]
          /\ UNCHANGED kv
    /\ UNCHANGED <<Settings, Tables, gate, Rows, job, up>>

\* What a swap that breaks off leaves: no live table, or one under an identity
\* nobody recorded.
BrokenOff == [past EXCEPT !.torn = @ \/ run.pc = "creating",
                          !.unrecorded = @ \/ run.pc \in {"indexing", "recording"}]

\* The staged table is kept, for an operator to promote.
CommitFails ==
    /\ run.pc \in {"dropping", "creating", "indexing"}
    /\ Fault
    /\ Fail({})
    /\ past' = BrokenOff
    /\ UNCHANGED <<Settings, kv, Tables, gate, Rows, up>>

-------------------------------------------------------------------------------
(* Completion.                                                             *)

Moved == model # run.start

\* R1 again; what is recorded was resolved when the guard passed.
Judge ==
    /\ run.pc = "judging"
    /\ \/ /\ Moved
          /\ kv' = IF run.staged THEN [kv EXCEPT !.snapshot = None] ELSE kv
          /\ Fail({})
          /\ UNCHANGED <<used, past>>
       \/ /\ ~Moved
          /\ kv' = [kv EXCEPT !.sidecar = IF run.staged THEN run.named ELSE model]
          /\ run' = [run EXCEPT !.pc = "lifting"]
          /\ past' = [past EXCEPT !.built = run.start, !.unrecorded = FALSE,
                                  !.torn = @ /\ (Partial \/ run.skipped # {})]
          /\ UNCHANGED <<job, used>>
       \/ /\ ~Moved
          /\ Fault
          /\ kv' = IF run.staged THEN [kv EXCEPT !.snapshot = None] ELSE kv
          /\ Fail({})
          /\ UNCHANGED past
    /\ UNCHANGED <<Settings, Tables, gate, Rows, up>>

\* mark_ready(True), whatever was saved since the guard
Lift ==
    /\ run.pc = "lifting"
    /\ gate' = [gate EXCEPT !.ready = TRUE]
    /\ past' = [past EXCEPT !.overtaken = model # kv.sidecar]
    /\ run' = [run EXCEPT !.pc = "clearing"]
    /\ UNCHANGED <<Settings, kv, Tables, Rows, job, up, used>>

\* clear_draining_embedding_config
Clear ==
    /\ run.pc = "clearing"
    /\ kv' = [kv EXCEPT !.snapshot = None]
    /\ run' = [run EXCEPT !.pc = "done"]
    /\ UNCHANGED <<Settings, Tables, gate, Rows, job, up, used, past>>

Settled == [job EXCEPT !.st = IF job.tries >= MaxAttempts THEN "over" ELSE "pending"]

Settle ==
    /\ run.pc \in {"done", "failed"}
    /\ job' = IF run.pc = "done" THEN [job EXCEPT !.st = "over"] ELSE Settled
    /\ run' = NoRun
    /\ UNCHANGED <<Settings, kv, Tables, gate, Rows, up, used, past>>

-------------------------------------------------------------------------------
(* Stalls and crashes.                                                     *)

Narrowed == [Settled EXCEPT !.narrow = IF run.pc \in InFile
                                       THEN run.failed \cup run.todo ELSE @]

\* The watchdog cancels an attempt that makes no progress, and settles it.  An
\* open rebuild is aborted, a commit that began is not.
Stall ==
    /\ run.pc \notin {"idle", "done", "failed"}
    /\ Fault
    /\ job' = Narrowed
    /\ run' = NoRun
    /\ IF run.pc \in InFile
       THEN \E s \in CASE Undisturbed -> {run.prior}
                       [] run.pc = "embedding" -> {"processing"}
                       [] run.pc = "writing" -> {"error"}
                       [] OTHER -> {"error", "processing"} :
              status' = [status EXCEPT ![run.file] = IF @ = "processing" THEN s ELSE @]
       ELSE UNCHANGED status
    /\ IF run.staged /\ run.pc \in InFile \cup {"visiting"}
       THEN temp' = NoTable /\ gate' = Closed ELSE UNCHANGED <<temp, gate>>
    /\ past' = BrokenOff
    /\ UNCHANGED <<Settings, kv, chunks, marked, cancel, up>>

Crash ==
    /\ up
    /\ Fault
    /\ up' = FALSE
    /\ run' = NoRun
    /\ gate' = [ready |-> FALSE, serving |-> FALSE, pin |-> None]
    /\ save' = None
    /\ marked' = {}
    /\ cancel' = IF cancel = "due" THEN "due" ELSE "over"
    /\ past' = [BrokenOff EXCEPT !.overtaken = FALSE]
    /\ UNCHANGED <<model, kv, Tables, status, job>>

\* init_table creates a live table that is gone; validate_schema decides.
Boot ==
    /\ ~up
    /\ up' = TRUE
    /\ chunks' = Live
    /\ kv' = Recorded
    /\ past' = WithTable
    /\ gate' = [gate EXCEPT !.ready = kv'.sidecar = model]
    /\ UNCHANGED <<Settings, temp, Rows, job, run, used>>

\* The janitor reclaims the lease of a process that is gone.
Reclaim ==
    /\ up /\ job.st = "running" /\ run.pc = "idle"
    /\ job' = Settled
    /\ UNCHANGED <<Settings, kv, Tables, gate, Rows, run, up, used, past>>

-------------------------------------------------------------------------------
Attempt ==
    \/ Start \/ DecideOther \/ Open
    \/ \E f \in Files : Visit(f)
    \/ Embed \/ Write \/ Finalize
    \/ Abort \/ CommitBegins \/ EndInPlace
    \/ Drop \/ Create \/ DropTemp \/ Record
    \/ Judge \/ Lift \/ Clear \/ Settle

Next ==
    \/ \E m \in Models : SaveApply(m)
    \/ SaveFlag
    \/ \E f \in Files : Ingest(f) \/ CancelMark(f)
    \/ CancelFlip
    \/ \E s \in {"all", "vault"} : Request(s)
    \/ Attempt
    \/ FileFails \/ CommitFails
    \/ Stall \/ Crash \/ Boot \/ Reclaim

Spec == Init /\ [][Next]_vars

\* The worker polls, its calls have timeouts, a save and a cancel that began end,
\* the process is restarted and its janitor runs.  Nothing else is owed.
FairSpec ==
    /\ Spec
    /\ WF_vars(Attempt) /\ WF_vars(SaveFlag) /\ WF_vars(CancelFlip)
    /\ WF_vars(Boot) /\ WF_vars(Reclaim)

-------------------------------------------------------------------------------
(* Properties.                                                             *)

Quiet == save = None /\ ~past.overtaken

\* require_model_ready admits no query from the start of a swap to its end, when
\* the live table is out or unindexed, unless a save has just moved the settings.
SwapIsGated == run.pc \in Swap /\ Quiet => ~gate.ready /\ ~gate.serving

\* An admitted query is embedded under the identity the live generation was built
\* under when the store is ready, and by the model it was built with during a
\* rebuild: a pin may bring other prefixes, unless no two identities share a name.
\* Left out are rebuilds without a pin, a readiness lifted over a save made since
\* its guard, an identity saved and saved back during one attempt, and a generation
\* whose commit broke off before it recorded itself.
QueriesMatchTheIndex ==
    Quiet /\ ~past.flipped /\ ~past.unrecorded /\ ~past.torn =>
        /\ gate.ready /\ ~gate.serving => model = past.built
        /\ gate.serving /\ gate.pin # None => Name[gate.pin] = Name[past.built]

\* What a run checks of admitted queries: the two above, on well-typed states.
Inv == TypeOK /\ SwapIsGated /\ QueriesMatchTheIndex

\* No reindex makes an indexed document unsearchable, whatever of it fails, stalls
\* or is scoped.  Left out are documents ingested or cancelled while a rebuild is
\* open, which its swap loses, and a swap that broke off with no live table.
IndexedStaysSearchable ==
    \A f \in Files : status[f] = "indexed" /\ f \notin past.lost /\ ~past.torn
        => chunks = NoTable \/ chunks[f] # None

\* "A cancel during a staged rebuild must not destroy the document's previously
\* indexed live content" (background_tasks.py:4996): a document that an attempt
\* skipped and gave its status back is still in the index.
SkippedFilesKeepTheirChunks ==
    \A f \in run.skipped : status[f] = "indexed" /\ chunks # NoTable => chunks[f] # None

\* An open rebuild ends, with its job and with the admission it gave, although
\* attempts fail, stall and die.
RebuildsEnd == gate.serving ~> ~gate.serving /\ job.st = "over"

===============================================================================
