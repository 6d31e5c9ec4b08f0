--------------------------- MODULE DraftInputsProofs --------------------------
(***************************************************************************)
(* Proofs about DraftInputs for any number of deletes, parse jobs,         *)
(* attempts, crashes and late heartbeats.                                  *)
(***************************************************************************)
EXTENDS DraftInputs, SequenceTheorems, TLAPS

-------------------------------------------------------------------------------
(* The inductive invariant.                                                *)

\* Jobs hang on their row, the row on its draft, and the process and the
\* janitor hold jobs of the row as long as there is one.
RowsHang ==
    /\ ~draft => input = "none"
    /\ input = "none" => jobs = <<>>
    /\ input # "none" => expired <= Len(jobs) /\ run.job <= Len(jobs)
    /\ run.pc \in JobSteps => run.job > 0
    /\ run.pc \notin JobSteps => run.job = 0
    /\ run.pc \in StartSteps => expired = 0

\* Until the upload is done there is no job, and so no worker and no janitor.
UploadIsFirst ==
    upload \in UploadSteps =>
        /\ jobs = <<>> /\ expired = 0 /\ run.pc = "idle"
        /\ input \in {"none", "pending"}
        /\ upload = "staged" => input = "none"

OneIsActive == \A i, j \in DOMAIN jobs : Active(i) /\ Active(j) => i = j

\* A parsed input has no job left that could unsettle it.
ReadyIsSettled == input = "ready" => ~Parsing

\* A worker that has settled the input and not yet its job: the input moves
\* again only when the job is no longer the worker's.
SettledFirst ==
    run.pc \in {"failing_job", "cancelling_job"} =>
        /\ input # "parsing"
        /\ Owns => input # "pending"

\* A pending input has a job, an upload under way, or a start before it.
PendingHasAJob ==
    input = "pending" =>
        \/ \E j \in DOMAIN jobs : Active(j) \/ jobs[j].st = "cancelled"
        \/ jobs = <<>> /\ (upload \in UploadSteps \/ run.pc \in StartSteps)

\* As long as no live worker lost its lease, the worker's job runs, the job
\* found expired runs and is not the worker's, and the input's job runs.
LeasesHold ==
    late = 0 =>
        /\ run.pc \in JobSteps /\ run.job \in DOMAIN jobs => jobs[run.job].st = "running"
        /\ expired \in DOMAIN jobs => jobs[expired].st = "running" /\ run.job # expired
        /\ input = "parsing" => \E j \in DOMAIN jobs : jobs[j].st = "running"

\* The row never comes back.
RowGone == input = "none" /\ (upload = "staged" => ~draft)

\* A tombstone is discarded only once the row is gone for good.
DiscardsAreOwed ==
    \A d \in Deletes :
        /\ d \in InputDeletes /\ del[d] \notin {"due", "over"} => upload # "staged"
        /\ del[d] = "discarding" => RowGone

BytesAreKept ==
    input # "none" /\ upload \in {"finalized", "done"} => bytes \in {"stored"} \cup Deletes

Settlement ==
    /\ OneIsActive /\ ReadyIsSettled /\ SettledFirst /\ PendingHasAJob
    /\ LeasesHold /\ CancelledNeverCompletes

IInv == TypeOK /\ RowsHang /\ UploadIsFirst /\ Settlement /\ DiscardsAreOwed /\ BytesAreKept

-------------------------------------------------------------------------------
(* Sequences.                                                              *)

LEMMA FunctionIsSeq ==
    ASSUME NEW S, NEW n \in Nat, NEW f \in [1..n -> S]
    PROVE  f \in Seq(S) /\ Len(f) = n
<1>1. f \in Seq(S)
  BY SeqDef
<1>2. DOMAIN f = 1..n /\ DOMAIN f = 1..Len(f) /\ Len(f) \in Nat
  BY <1>1, LenProperties
<1> QED BY <1>1, <1>2

\* A job table with other rows at the same indices
LEMMA ReplacedSeq ==
    ASSUME NEW S, NEW seq \in Seq(S), NEW f \in [DOMAIN seq -> S]
    PROVE  f \in Seq(S) /\ Len(f) = Len(seq) /\ DOMAIN f = DOMAIN seq
<1>1. f \in [1..Len(seq) -> S] /\ Len(seq) \in Nat
  BY LenProperties
<1> QED BY <1>1, FunctionIsSeq, LenProperties

LEMMA AppendedSeq ==
    ASSUME NEW S, NEW seq \in Seq(S), NEW e \in S
    PROVE  /\ Append(seq, e) \in Seq(S) /\ Len(Append(seq, e)) = Len(seq) + 1
           /\ DOMAIN Append(seq, e) = 1..(Len(seq) + 1)
           /\ Append(seq, e)[Len(seq) + 1] = e
           /\ \A i \in 1..Len(seq) : Append(seq, e)[i] = seq[i]
<1>1. /\ Append(seq, e) \in Seq(S) /\ Len(Append(seq, e)) = Len(seq) + 1
      /\ Append(seq, e)[Len(seq) + 1] = e
      /\ \A i \in 1..Len(seq) : Append(seq, e)[i] = seq[i]
  BY AppendProperties
<1> QED BY <1>1, LenProperties

LEMMA JobsTyped ==
    ASSUME TypeOK
    PROVE  /\ Len(jobs) \in 0..MaxJobs /\ MaxJobs \in Nat \ {0} /\ DOMAIN jobs = 1..Len(jobs)
           /\ \A j \in DOMAIN jobs : jobs[j] \in Job
<1>1. Len(jobs) \in Nat /\ DOMAIN jobs = 1..Len(jobs) /\ \A j \in DOMAIN jobs : jobs[j] \in Job
  BY LenProperties DEF TypeOK
<1> QED BY <1>1, BoundAssumption DEF TypeOK

LEMMA NoJobs == <<>> \in Seq(Job) /\ Len(<<>>) = 0 /\ DOMAIN <<>> = {}
BY EmptySeq

LEMMA SomeJobs ==
    ASSUME TypeOK
    PROVE  (jobs = <<>>) <=> (Len(jobs) = 0)
BY EmptySeq DEF TypeOK

-------------------------------------------------------------------------------
(* What the actions do to the job rows.                                    *)

LEMMA StatusRow ==
    ASSUME NEW job \in Job, NEW st \in JobStatuses
    PROVE  LET row == [job EXCEPT !.st = st] IN
           row \in Job /\ row.st = st /\ row.cancel = job.cancel
BY DEF Job

LEMMA ClaimedRow ==
    ASSUME NEW job \in Job
    PROVE  LET row == [job EXCEPT !.st = "running",
                                  !.tries = IF @ < MaxAttempts THEN @ + 1 ELSE @] IN
           row \in Job /\ row.st = "running" /\ row.cancel = job.cancel
<1> DEFINE tries == IF job.tries < MaxAttempts THEN job.tries + 1 ELSE job.tries
<1>1. tries \in 0..MaxAttempts
  BY BoundAssumption DEF Job
<1>2. [job EXCEPT !.st = "running", !.tries = IF @ < MaxAttempts THEN @ + 1 ELSE @]
         = [job EXCEPT !.st = "running", !.tries = tries]
  OBVIOUS
<1> HIDE DEF tries
<1>3. "running" \in JobStatuses
  BY DEF JobStatuses
<1> QED BY <1>1, <1>2, <1>3 DEF Job

LEMMA FreshRow == NewJob \in Job /\ NewJob.st = "pending" /\ ~NewJob.cancel
BY BoundAssumption DEF NewJob, Job, JobStatuses

\* The job table keeps its rows, some rewritten.
Rewritten ==
    /\ jobs' \in Seq(Job) /\ Len(jobs') = Len(jobs) /\ DOMAIN jobs' = DOMAIN jobs
    /\ \A j \in DOMAIN jobs : jobs'[j] \in Job

LEMMA RewrittenRows ==
    ASSUME TypeOK, jobs' \in [DOMAIN jobs -> Job]
    PROVE  Rewritten
BY ReplacedSeq DEF TypeOK, Rewritten

LEMMA SameRows ==
    ASSUME TypeOK, UNCHANGED jobs
    PROVE  Rewritten
BY JobsTyped DEF TypeOK, Rewritten

LEMMA OneRowReplaced ==
    ASSUME TypeOK, NEW j \in DOMAIN jobs, NEW row \in Job,
           jobs' = [jobs EXCEPT ![j] = row]
    PROVE  /\ Rewritten /\ jobs'[j] = row
           /\ \A i \in DOMAIN jobs : i # j => jobs'[i] = jobs[i]
<1>1. jobs \in [DOMAIN jobs -> Job]
  BY JobsTyped DEF TypeOK
<1>2. /\ jobs' \in [DOMAIN jobs -> Job] /\ jobs'[j] = row
      /\ \A i \in DOMAIN jobs : i # j => jobs'[i] = jobs[i]
  BY <1>1
<1> QED BY <1>2, RewrittenRows

\* Commit, SettleJob and SettleAtCap write the status of one row.
LEMMA OneStatusWritten ==
    ASSUME TypeOK, NEW j \in DOMAIN jobs, NEW st \in JobStatuses,
           jobs' = [jobs EXCEPT ![j].st = st]
    PROVE  /\ Rewritten /\ jobs'[j].st = st /\ jobs'[j].cancel = jobs[j].cancel
           /\ \A i \in DOMAIN jobs : i # j => jobs'[i] = jobs[i]
<1> DEFINE row == [jobs[j] EXCEPT !.st = st]
<1>1. row \in Job /\ row.st = st /\ row.cancel = jobs[j].cancel
  BY JobsTyped, StatusRow
<1>2. jobs' = [jobs EXCEPT ![j] = row]
  BY JobsTyped
<1> HIDE DEF row
<1> QED BY <1>1, <1>2, OneRowReplaced

LEMMA AddedRow ==
    ASSUME TypeOK, Len(jobs) < MaxJobs, jobs' = Append(jobs, NewJob)
    PROVE  /\ jobs' \in Seq(Job) /\ Len(jobs') = Len(jobs) + 1 /\ Len(jobs') <= MaxJobs
           /\ DOMAIN jobs' = DOMAIN jobs \cup {Len(jobs) + 1}
           /\ Len(jobs) + 1 \notin DOMAIN jobs
           /\ jobs'[Len(jobs) + 1] = NewJob
           /\ \A j \in DOMAIN jobs : jobs'[j] = jobs[j]
<1>1. /\ jobs' \in Seq(Job) /\ Len(jobs') = Len(jobs) + 1
      /\ DOMAIN jobs' = 1..(Len(jobs) + 1)
      /\ jobs'[Len(jobs) + 1] = NewJob
      /\ \A j \in 1..Len(jobs) : jobs'[j] = jobs[j]
  BY FreshRow, AppendedSeq DEF TypeOK
<1>2. Len(jobs) \in 0..MaxJobs /\ DOMAIN jobs = 1..Len(jobs) /\ MaxJobs \in Nat
  BY JobsTyped
<1>3. 1..(Len(jobs) + 1) = (1..Len(jobs)) \cup {Len(jobs) + 1}
  BY <1>2
<1>4. Len(jobs') <= MaxJobs /\ Len(jobs) + 1 \notin DOMAIN jobs
  BY <1>1, <1>2
<1> QED BY <1>1, <1>2, <1>3, <1>4

LEMMA CancelRows ==
    ASSUME TypeOK, NEW j \in DOMAIN jobs, CancelParse(j)
    PROVE  /\ Rewritten
           /\ jobs'[j].st = IF jobs[j].st = "pending" THEN "cancelled" ELSE "running"
           /\ \A i \in DOMAIN jobs : i # j => jobs'[i] = jobs[i]
<1> DEFINE st == IF jobs[j].st = "pending" THEN "cancelled" ELSE jobs[j].st
           row == [jobs[j] EXCEPT !.cancel = TRUE, !.st = st]
<1>1. jobs[j] \in Job /\ st \in JobStatuses
  BY JobsTyped DEF Job, JobStatuses
<1>2. jobs[j].st = "pending" \/ jobs[j].st = "running"
  BY DEF CancelParse, Active
<1> HIDE DEF st
<1>3. row \in Job /\ row.st = st
  BY <1>1 DEF Job
<1>4. jobs' = [jobs EXCEPT ![j] = row]
  BY <1>1 DEF CancelParse, st
<1> HIDE DEF row
<1>5. /\ Rewritten /\ jobs'[j] = row
      /\ \A i \in DOMAIN jobs : i # j => jobs'[i] = jobs[i]
  BY <1>3, <1>4, OneRowReplaced
<1> QED BY <1>2, <1>3, <1>5 DEF st

LEMMA CancelPendingRows ==
    ASSUME TypeOK, NEW d \in Deletes, CancelPending(d)
    PROVE  /\ Rewritten
           /\ \A j \in DOMAIN jobs :
                 IF jobs[j].st = "pending" THEN jobs'[j].st = "cancelled"
                                           ELSE jobs'[j] = jobs[j]
<1> DEFINE row(j) == IF jobs[j].st = "pending"
                     THEN [jobs[j] EXCEPT !.st = "cancelled", !.cancel = TRUE] ELSE jobs[j]
<1>1. jobs' = [j \in DOMAIN jobs |-> row(j)]
  BY DEF CancelPending
<1>2. "cancelled" \in JobStatuses
  BY DEF JobStatuses
<1>3. ASSUME NEW j \in DOMAIN jobs
      PROVE  /\ row(j) \in Job
             /\ IF jobs[j].st = "pending" THEN row(j).st = "cancelled" ELSE row(j) = jobs[j]
  BY <1>2, JobsTyped DEF Job
<1> HIDE DEF row
<1>4. jobs' \in [DOMAIN jobs -> Job]
  BY <1>1, <1>3
<1> QED BY <1>1, <1>3, <1>4, RewrittenRows

LEMMA ClaimRows ==
    ASSUME TypeOK, NEW j \in DOMAIN jobs, Claim(j)
    PROVE  /\ Rewritten /\ jobs'[j].st = "running" /\ jobs'[j].cancel = jobs[j].cancel
           /\ \A i \in DOMAIN jobs : i # j => jobs'[i] = jobs[i]
<1> DEFINE row == [jobs[j] EXCEPT !.st = "running",
                                  !.tries = IF @ < MaxAttempts THEN @ + 1 ELSE @]
<1>1. row \in Job /\ row.st = "running" /\ row.cancel = jobs[j].cancel
  BY JobsTyped, ClaimedRow
<1>2. jobs' = [jobs EXCEPT ![j] = row]
  BY JobsTyped DEF Claim
<1> HIDE DEF row
<1> QED BY <1>1, <1>2, OneRowReplaced

\* Where recovery leaves a running job
Recovered(js) ==
    IF input \in {"ready", "failed", "cancelled"} THEN Outcome(input)
    ELSE IF \E j \in js : jobs[j].cancel THEN "cancelled" ELSE "pending"

LEMMA RecoverRows ==
    ASSUME TypeOK, NEW js \in SUBSET DOMAIN jobs, Recover(js)
    PROVE  /\ Rewritten
           /\ \A j \in js : jobs'[j].st = Recovered(js) /\ jobs'[j].cancel = jobs[j].cancel
           /\ \A j \in DOMAIN jobs \ js : jobs'[j] = jobs[j]
<1> DEFINE st == Recovered(js)
           row(j) == IF j \in js THEN [jobs[j] EXCEPT !.st = st] ELSE jobs[j]
<1>1. jobs' = [j \in DOMAIN jobs |-> row(j)]
  BY DEF Recover, Recovered
<1>2. st \in JobStatuses
  BY DEF Recovered, Outcome, JobStatuses
<1> HIDE DEF st
<1>3. ASSUME NEW j \in DOMAIN jobs
      PROVE  /\ row(j) \in Job
             /\ j \in js => row(j).st = st /\ row(j).cancel = jobs[j].cancel
             /\ j \notin js => row(j) = jobs[j]
  BY <1>2, JobsTyped, StatusRow
<1> HIDE DEF row
<1>4. jobs' \in [DOMAIN jobs -> Job]
  BY <1>1, <1>3
<1> QED BY <1>1, <1>3, <1>4, RewrittenRows DEF st

-------------------------------------------------------------------------------
(* Types, rows and the upload.                                             *)

Shape == TypeOK /\ RowsHang /\ UploadIsFirst

LEMMA Steps ==
    /\ UploadSteps \cap {"done", "refused", "lost"} = {}
    /\ StartSteps \cap JobSteps = {} /\ "idle" \notin StartSteps \cup JobSteps
    /\ DeleteSteps \cap {"due", "over"} = {}
BY DEF UploadSteps, StartSteps, JobSteps, DeleteSteps

LEMMA ShapeFacts ==
    ASSUME Shape
    PROVE  /\ TypeOK /\ Len(jobs) \in 0..MaxJobs /\ MaxJobs \in Nat \ {0}
           /\ DOMAIN jobs = 1..Len(jobs) /\ ((jobs = <<>>) <=> (Len(jobs) = 0))
           /\ jobs \in Seq(Job) /\ input \in InputStatuses \cup {"none"}
           /\ expired \in 0..MaxJobs /\ crashes \in 0..MaxCrashes /\ late \in 0..MaxLate
           /\ run \in [pc : StartSteps \cup JobSteps \cup {"idle"}, job : 0..MaxJobs]
           /\ run.pc \in StartSteps \cup JobSteps \cup {"idle"} /\ run.job \in 0..MaxJobs
           /\ draft \in BOOLEAN /\ bytes \in {"none", "incoming", "stored"} \cup Deletes
           /\ upload \in UploadSteps \cup {"done", "refused", "lost"}
           /\ del \in [Deletes -> DeleteSteps \cup {"due", "over"}]
BY JobsTyped, SomeJobs DEF Shape, TypeOK

LEMMA GotoRun ==
    ASSUME Shape, NEW pc \in StartSteps \cup JobSteps \cup {"idle"}, Goto(pc)
    PROVE  /\ run' \in [pc : StartSteps \cup JobSteps \cup {"idle"}, job : 0..MaxJobs]
           /\ run'.pc = pc /\ run'.job = run.job
BY DEF Goto, Shape, TypeOK

LEMMA FinishRun ==
    ASSUME Finish
    PROVE  /\ run' \in [pc : StartSteps \cup JobSteps \cup {"idle"}, job : 0..MaxJobs]
           /\ run'.pc = "idle" /\ run'.job = 0
BY BoundAssumption DEF Finish

\* The row keeps its place: it is not made, and it is not dropped.
RowStays == input' = input \/ (input # "none" /\ input' \in InputStatuses)

LEMMA RowStaysTyped ==
    ASSUME Shape, RowStays
    PROVE  input' \in InputStatuses \cup {"none"} /\ ((input' = "none") <=> (input = "none"))
BY ShapeFacts DEF RowStays, InputStatuses

\* A step of the worker, the owner or the janitor that rewrites job rows
LEMMA RewrittenShape ==
    ASSUME Shape, Rewritten, RowStays, upload \notin UploadSteps,
           UNCHANGED <<draft, upload, bytes, crashes>>,
           del' \in [Deletes -> DeleteSteps \cup {"due", "over"}], late' \in 0..MaxLate,
           run' \in [pc : StartSteps \cup JobSteps \cup {"idle"}, job : 0..MaxJobs],
           run'.pc \in JobSteps => run'.job > 0,
           run'.pc \notin JobSteps => run'.job = 0,
           run'.job \in {0, run.job} \cup DOMAIN jobs,
           expired' \in {0, expired} \cup DOMAIN jobs,
           run'.pc \in StartSteps => expired' = 0
    PROVE  Shape'
<1>1. /\ expired' \in 0..MaxJobs
      /\ input # "none" => expired' <= Len(jobs) /\ run'.job <= Len(jobs)
  BY ShapeFacts DEF Shape, RowsHang
<1>2. TypeOK'
  <2>1. jobs' \in Seq(Job) /\ Len(jobs') <= MaxJobs
    BY ShapeFacts DEF Rewritten
  <2> QED BY <1>1, <2>1, RowStaysTyped, ShapeFacts DEF TypeOK
<1>3. RowsHang'
  <2>1. (jobs' = <<>>) <=> (Len(jobs') = 0)
    BY EmptySeq DEF Rewritten
  <2>2. input' = "none" => jobs' = <<>>
    BY <2>1, RowStaysTyped, ShapeFacts DEF Rewritten, Shape, RowsHang
  <2>3. ~draft' => input' = "none"
    BY RowStaysTyped DEF Shape, RowsHang
  <2>4. input' # "none" => expired' <= Len(jobs') /\ run'.job <= Len(jobs')
    BY <1>1, RowStaysTyped DEF Rewritten
  <2> QED BY <2>2, <2>3, <2>4 DEF RowsHang
<1>4. UploadIsFirst'
  BY DEF UploadIsFirst
<1> QED BY <1>2, <1>3, <1>4 DEF Shape

\* With a job, or a process that is not idle, the upload is over.
LEMMA UploadIsOver ==
    ASSUME Shape, jobs # <<>> \/ run.pc # "idle" \/ expired > 0
    PROVE  upload \notin UploadSteps
BY ShapeFacts DEF Shape, UploadIsFirst

LEMMA JobHasARow ==
    ASSUME Shape, NEW j \in DOMAIN jobs
    PROVE  input # "none" /\ upload \notin UploadSteps /\ jobs # <<>>
<1>1. jobs # <<>>
  BY ShapeFacts
<1> QED BY <1>1, UploadIsOver DEF Shape, RowsHang

\* A step that only moves the file or a delete
LEMMA FilesShape ==
    ASSUME Shape, UNCHANGED <<draft, input, jobs, upload, run, expired, crashes, late>>,
           bytes' \in {"none", "incoming", "stored"} \cup Deletes,
           del' \in [Deletes -> DeleteSteps \cup {"due", "over"}]
    PROVE  Shape'
<1>1. TypeOK'
  BY ShapeFacts DEF TypeOK
<1>2. RowsHang'
  BY DEF Shape, RowsHang
<1>3. UploadIsFirst'
  BY DEF Shape, UploadIsFirst
<1> QED BY <1>1, <1>2, <1>3 DEF Shape

LEMMA AdvanceTyped ==
    ASSUME Shape, NEW d \in Deletes, NEW step \in DeleteSteps \cup {"due", "over"},
           Advance(d, step)
    PROVE  /\ del' \in [Deletes -> DeleteSteps \cup {"due", "over"}]
           /\ del'[d] = step /\ \A e \in Deletes : e # d => del'[e] = del[e]
BY ShapeFacts DEF Advance

\* The row is dropped with its jobs, whatever the worker and the janitor hold.
LEMMA DroppedShape ==
    ASSUME Shape, DropRow, UNCHANGED <<bytes, run, expired, crashes, late>>,
           draft' \in {draft, FALSE},
           upload' = upload \/ upload' \in {"done", "refused", "lost"},
           del' \in [Deletes -> DeleteSteps \cup {"due", "over"}]
    PROVE  Shape'
<1>1. TypeOK'
  <2>1. jobs' \in Seq(Job) /\ Len(jobs') <= MaxJobs /\ input' = "none"
    BY NoJobs, ShapeFacts DEF DropRow
  <2>2. upload' \in UploadSteps \cup {"done", "refused", "lost"} /\ draft' \in BOOLEAN
    BY ShapeFacts
  <2> QED BY <2>1, <2>2, ShapeFacts DEF TypeOK
<1>2. RowsHang'
  BY DEF DropRow, Shape, RowsHang
<1>3. UploadIsFirst'
  BY Steps DEF DropRow, Shape, UploadIsFirst
<1> QED BY <1>1, <1>2, <1>3 DEF Shape

\* A job is added to a row that is there.
LEMMA AddedShape ==
    ASSUME Shape, Len(jobs) < MaxJobs, jobs' = Append(jobs, NewJob), input # "none",
           input' \in InputStatuses, UNCHANGED <<draft, bytes, del, crashes, late, expired>>,
           upload' \in {"done", "refused", "lost"},
           run' \in [pc : StartSteps \cup JobSteps \cup {"idle"}, job : 0..MaxJobs],
           run'.job = run.job,
           run'.pc \in JobSteps => run.pc \in JobSteps,
           run'.pc \notin JobSteps => run.pc \notin JobSteps,
           run'.pc \in StartSteps => expired = 0
    PROVE  Shape'
<1>1. jobs' \in Seq(Job) /\ Len(jobs') = Len(jobs) + 1 /\ Len(jobs') <= MaxJobs
  BY AddedRow, ShapeFacts
<1>2. TypeOK'
  BY <1>1, ShapeFacts DEF TypeOK
<1>3. RowsHang'
  <2>1. expired <= Len(jobs) /\ run.job <= Len(jobs)
    BY DEF Shape, RowsHang
  <2>2. expired' <= Len(jobs') /\ run'.job <= Len(jobs')
    BY <1>1, <2>1, ShapeFacts
  <2>3. input' # "none" /\ draft'
    BY DEF InputStatuses, Shape, RowsHang
  <2> QED BY <2>2, <2>3 DEF Shape, RowsHang
<1>4. UploadIsFirst'
  BY Steps DEF UploadIsFirst
<1> QED BY <1>2, <1>3, <1>4 DEF Shape

LEMMA UploadShape ==
    ASSUME Shape, UploadStep
    PROVE  Shape'
<1>0. upload \in UploadSteps
  BY DEF UploadStep, UploadSteps, Reserve, Finalize, Enqueue, Unlink, Unrow
<1>1. jobs = <<>> /\ expired = 0 /\ run.pc = "idle" /\ run.job = 0 /\ input \in {"none", "pending"}
  BY <1>0, Steps DEF Shape, UploadIsFirst, RowsHang
<1>2. CASE Reserve
  <2>1. TypeOK'
    <3>1. /\ input' \in InputStatuses \cup {"none"}
          /\ bytes' \in {"none", "incoming", "stored"} \cup Deletes
          /\ upload' \in UploadSteps \cup {"done", "refused", "lost"}
      BY <1>2, ShapeFacts DEF Reserve, UploadSteps, InputStatuses
    <3> QED BY <1>2, <3>1, ShapeFacts DEF Reserve, TypeOK, Faults
  <2>2. RowsHang'
    BY <1>1, <1>2, ShapeFacts DEF Reserve, Faults, Shape, RowsHang
  <2>3. UploadIsFirst'
    BY <1>0, <1>1, <1>2, Steps DEF Reserve, UploadIsFirst, UploadSteps
  <2> QED BY <2>1, <2>2, <2>3 DEF Shape
<1>3. CASE Finalize \/ Unlink
  <2>1. UNCHANGED <<draft, input, jobs, del, run, expired, crashes, late>>
    BY <1>3 DEF Finalize, Unlink, Rows, Faults
  <2>2. /\ bytes' \in {"none", "incoming", "stored"} \cup Deletes
        /\ upload' \in UploadSteps \ {"staged"}
    BY <1>3, ShapeFacts DEF Finalize, Unlink, UploadSteps
  <2>3. TypeOK'
    BY <2>1, <2>2, ShapeFacts DEF TypeOK
  <2>4. RowsHang'
    BY <2>1 DEF Shape, RowsHang
  <2>5. UploadIsFirst'
    BY <1>1, <2>1, <2>2 DEF UploadIsFirst
  <2> QED BY <2>3, <2>4, <2>5 DEF Shape
<1>4. CASE Enqueue
  <2>1. CASE input # "none" /\ Len(jobs) < MaxJobs /\ jobs' = Append(jobs, NewJob) /\ upload' = "done"
    BY <1>4, <2>1, <1>1, AddedShape, ShapeFacts DEF Enqueue, Faults
  <2>2. CASE upload' = "unlinking" /\ UNCHANGED jobs
    <3>1. UNCHANGED <<draft, input, jobs, bytes, del, run, expired, crashes, late>>
      BY <1>4, <2>2 DEF Enqueue, Faults
    <3>2. TypeOK'
      BY <2>2, <3>1, ShapeFacts DEF TypeOK, UploadSteps
    <3>3. RowsHang'
      BY <3>1 DEF Shape, RowsHang
    <3>4. UploadIsFirst'
      BY <1>1, <2>2, <3>1 DEF UploadIsFirst
    <3> QED BY <3>2, <3>3, <3>4 DEF Shape
  <2> QED BY <1>4, <2>1, <2>2 DEF Enqueue
<1>5. CASE Unrow
  <2>1. /\ DropRow /\ UNCHANGED <<draft, bytes, del, run, expired, crashes, late>>
        /\ upload' = "refused"
    BY <1>5 DEF Unrow, Faults
  <2> QED BY <2>1, DroppedShape, ShapeFacts
<1> QED BY <1>2, <1>3, <1>4, <1>5 DEF UploadStep

LEMMA DeleteShape ==
    ASSUME Shape, NEW d \in Deletes, CheckInput(d) \/ CancelPending(d) \/ DeleteStep(d)
    PROVE  Shape'
<1>1. CASE CheckInput(d) \/ CountActive(d) \/ Tombstone(d) \/ RestoreTombstone(d) \/ CommitTombstone(d)
  <2>1. UNCHANGED <<draft, input, jobs, upload, run, expired, crashes, late>>
    BY <1>1 DEF CheckInput, CountActive, Tombstone, RestoreTombstone, CommitTombstone, Rows, Faults
  <2>2. bytes' \in {"none", "incoming", "stored"} \cup Deletes
    BY <1>1, ShapeFacts
       DEF CheckInput, CountActive, Tombstone, RestoreTombstone, CommitTombstone
  <2>3. \E step \in DeleteSteps \cup {"due", "over"} : Advance(d, step)
    BY <1>1 DEF CheckInput, CountActive, Tombstone, RestoreTombstone, CommitTombstone, DeleteSteps
  <2> QED BY <2>1, <2>2, <2>3, AdvanceTyped, FilesShape
<1>2. CASE CancelPending(d)
  <2>1. Advance(d, "cancelled") /\ "cancelled" \in DeleteSteps
    BY <1>2 DEF CancelPending, DeleteSteps
  <2>2. del' \in [Deletes -> DeleteSteps \cup {"due", "over"}]
    BY <2>1, AdvanceTyped
  <2>3. Rewritten /\ UNCHANGED <<draft, input, bytes, upload, run, expired, crashes, late>>
    BY <1>2, CancelPendingRows, ShapeFacts DEF CancelPending, Faults
  <2>4. CASE jobs = <<>>
    <3>1. jobs' = jobs
      BY <2>3, <2>4, EmptySeq, ShapeFacts DEF Rewritten
    <3> QED BY <2>2, <2>3, <3>1, FilesShape, ShapeFacts
  <2>5. CASE jobs # <<>>
    <3>1. upload \notin UploadSteps
      BY <2>5, UploadIsOver
    <3>2. RowStays
      BY <2>3 DEF RowStays
    <3> QED BY <2>2, <2>3, <3>1, <3>2, RewrittenShape, ShapeFacts DEF Shape, RowsHang
  <2> QED BY <2>4, <2>5
<1>3. CASE DeleteInputRow(d)
  <2>1. CASE Advance(d, "restoring") /\ UNCHANGED <<input, jobs>>
    <3>1. del' \in [Deletes -> DeleteSteps \cup {"due", "over"}]
      BY <2>1, AdvanceTyped DEF DeleteSteps
    <3>2. UNCHANGED <<draft, input, jobs, bytes, upload, run, expired, crashes, late>>
      BY <1>3, <2>1 DEF DeleteInputRow, Faults
    <3> QED BY <3>1, <3>2, FilesShape, ShapeFacts
  <2>2. CASE Advance(d, "discarding") /\ DropRow
    <3>1. del' \in [Deletes -> DeleteSteps \cup {"due", "over"}]
      BY <2>2, AdvanceTyped DEF DeleteSteps
    <3>2. UNCHANGED <<draft, bytes, upload, run, expired, crashes, late>>
      BY <1>3 DEF DeleteInputRow, Faults
    <3> QED BY <2>2, <3>1, <3>2, DroppedShape
  <2> QED BY <1>3, <2>1, <2>2 DEF DeleteInputRow
<1>4. CASE DeleteDraftRow(d)
  <2>1. CASE Advance(d, "restoring") /\ UNCHANGED Rows
    <3>1. del' \in [Deletes -> DeleteSteps \cup {"due", "over"}]
      BY <2>1, AdvanceTyped DEF DeleteSteps
    <3>2. UNCHANGED <<draft, input, jobs, bytes, upload, run, expired, crashes, late>>
      BY <1>4, <2>1 DEF DeleteDraftRow, Rows, Faults
    <3> QED BY <3>1, <3>2, FilesShape, ShapeFacts
  <2>2. CASE draft' = FALSE /\ DropRow /\ Advance(d, "discarding")
    <3>1. del' \in [Deletes -> DeleteSteps \cup {"due", "over"}]
      BY <2>2, AdvanceTyped DEF DeleteSteps
    <3>2. UNCHANGED <<bytes, upload, run, expired, crashes, late>>
      BY <1>4 DEF DeleteDraftRow, Faults
    <3> QED BY <2>2, <3>1, <3>2, DroppedShape
  <2> QED BY <1>4, <2>1, <2>2 DEF DeleteDraftRow
<1> QED BY <1>1, <1>2, <1>3, <1>4 DEF DeleteStep

\* A step of the worker that leaves the job rows alone
LEMMA WorkerRowsKept ==
    ASSUME Shape, run.pc \in JobSteps, NEW pc \in JobSteps, Goto(pc), RowStays,
           UNCHANGED <<draft, jobs, bytes, upload, del, expired, crashes, late>>
    PROVE  Shape'
<1>1. run' \in [pc : StartSteps \cup JobSteps \cup {"idle"}, job : 0..MaxJobs]
      /\ run'.pc = pc /\ run'.job = run.job /\ run.job > 0
  BY GotoRun DEF Shape, RowsHang
<1>2. upload \notin UploadSteps /\ Rewritten
  BY UploadIsOver, SameRows, Steps, ShapeFacts
<1> QED BY <1>1, <1>2, RewrittenShape, Steps, ShapeFacts

LEMMA WorkerEnds ==
    ASSUME Shape, run.pc \in JobSteps, Finish, Rewritten, RowStays,
           UNCHANGED <<draft, bytes, upload, del, expired, crashes, late>>
    PROVE  Shape'
<1>1. run' \in [pc : StartSteps \cup JobSteps \cup {"idle"}, job : 0..MaxJobs]
      /\ run'.pc = "idle" /\ run'.job = 0
  BY FinishRun
<1>2. upload \notin UploadSteps
  BY UploadIsOver, Steps
<1> QED BY <1>1, <1>2, RewrittenShape, Steps, ShapeFacts

LEMMA JobStages ==
    \A pc \in {"checking", "moving", "parsing", "extracted", "committing",
               "failing", "failing_job", "cancelling", "cancelling_job"} : pc \in JobSteps
BY DEF JobSteps

\* A transition the input's row allows is of a row that is there.
LEMMA LegalStays ==
    ASSUME Shape, NEW to \in {"parsing", "ready", "failed", "cancelled", "pending"},
           LegalInput(input, to)
    PROVE  input # "none" /\ to \in InputStatuses
BY DEF LegalInput, InputStatuses

\* What a job step writes
LEMMA JobStepMoves ==
    ASSUME Shape, JobStep
    PROVE  /\ UNCHANGED <<draft, bytes, upload, del, expired, crashes, late>>
           /\ run.pc \in JobSteps /\ RowStays
           /\ \/ (\E pc \in JobSteps : Goto(pc)) /\ UNCHANGED jobs
              \/ /\ Finish /\ Rewritten
                 /\ \A j \in DOMAIN jobs : j # run.job => jobs'[j] = jobs[j]
                 /\ UNCHANGED jobs \/ run.job \in DOMAIN jobs
<1>1. CASE CheckPermission \/ Extract \/ Review
  BY <1>1, JobStages DEF CheckPermission, Extract, Review, Rows, Faults, RowStays
<1>2. CASE MoveToParsing
  BY <1>2, JobStages, LegalStays DEF MoveToParsing, Faults, RowStays
<1>3. CASE Commit
  <2>1. UNCHANGED <<draft, bytes, upload, del, expired, crashes, late>> /\ run.pc \in JobSteps
    BY <1>3, JobStages DEF Commit, Faults
  <2>2. CASE /\ run.job \in DOMAIN jobs /\ Finish /\ input' \in {"ready", "cancelled"}
             /\ \E st \in JobStatuses : jobs' = [jobs EXCEPT ![run.job].st = st]
    <3>1. RowStays
      BY <2>2, JobHasARow DEF RowStays, InputStatuses
    <3> QED BY <2>1, <2>2, <3>1, OneStatusWritten, ShapeFacts
  <2>3. CASE Goto("failing") /\ UNCHANGED <<input, jobs>>
    BY <2>1, <2>3, JobStages DEF RowStays
  <2>4. "cancelled" \in JobStatuses /\ "completed" \in JobStatuses
    BY DEF JobStatuses
  <2> QED BY <1>3, <2>2, <2>3, <2>4 DEF Commit, CancelRequested, Owns
<1>4. ASSUME NEW pc \in {"failing", "cancelling"}, NEW outcome \in {"failed", "cancelled"},
             NEW next \in {"failing_job", "cancelling_job"}, SettleInput(pc, outcome, next)
      PROVE  /\ UNCHANGED <<draft, bytes, upload, del, expired, crashes, late>>
             /\ run.pc \in JobSteps /\ RowStays
             /\ (\E to \in JobSteps : Goto(to)) /\ UNCHANGED jobs
  BY <1>4, JobStages, LegalStays DEF SettleInput, Faults, RowStays
<1>5. ASSUME NEW pc \in {"failing_job", "cancelling_job"}, NEW outcome \in {"failed", "cancelled"},
             SettleJob(pc, outcome)
      PROVE  /\ UNCHANGED <<draft, bytes, upload, del, expired, crashes, late>>
             /\ run.pc \in JobSteps /\ RowStays /\ Finish /\ Rewritten
             /\ \A j \in DOMAIN jobs : j # run.job => jobs'[j] = jobs[j]
             /\ UNCHANGED jobs \/ run.job \in DOMAIN jobs
  <2>1. /\ UNCHANGED <<draft, bytes, upload, del, expired, crashes, late>>
        /\ run.pc \in JobSteps /\ RowStays /\ Finish
    BY <1>5, JobStages DEF SettleJob, Faults, RowStays
  <2>2. CASE Owns
    <3>1. run.job \in DOMAIN jobs /\ jobs' = [jobs EXCEPT ![run.job].st = outcome]
      BY <1>5, <2>2 DEF SettleJob, Owns
    <3>2. outcome \in JobStatuses
      BY DEF JobStatuses
    <3> QED BY <2>1, <3>1, <3>2, OneStatusWritten, ShapeFacts
  <2>3. CASE ~Owns
    <3>1. jobs' = jobs
      BY <1>5, <2>3 DEF SettleJob
    <3> QED BY <2>1, <3>1, SameRows, ShapeFacts
  <2> QED BY <2>2, <2>3
<1> QED BY <1>1, <1>2, <1>3, <1>4, <1>5 DEF JobStep

LEMMA JobStepShape ==
    ASSUME Shape, JobStep
    PROVE  Shape'
<1>1. CASE (\E pc \in JobSteps : Goto(pc)) /\ UNCHANGED jobs
  BY <1>1, JobStepMoves, WorkerRowsKept
<1>2. CASE Finish /\ Rewritten
  BY <1>2, JobStepMoves, WorkerEnds
<1> QED BY <1>1, <1>2, JobStepMoves

LEMMA ClaimShape ==
    ASSUME Shape, NEW j \in DOMAIN jobs, Claim(j)
    PROVE  Shape'
<1>1. Rewritten /\ UNCHANGED <<draft, input, bytes, upload, del, expired, crashes, late>>
  BY ClaimRows, ShapeFacts DEF Claim, Faults
<1>2. upload \notin UploadSteps /\ RowStays
  BY <1>1, JobHasARow DEF RowStays
<1>3. run.pc = "idle" /\ (run' = [pc |-> "checking", job |-> j] \/ run' = run)
  BY DEF Claim
<1>4. /\ run' \in [pc : StartSteps \cup JobSteps \cup {"idle"}, job : 0..MaxJobs]
      /\ run'.pc \in JobSteps => run'.job > 0
      /\ run'.pc \notin JobSteps => run'.job = 0
      /\ run'.job \in {0, run.job} \cup DOMAIN jobs
      /\ run'.pc \notin StartSteps
  <2>1. CASE run' = run
    BY <1>3, <2>1, Steps, ShapeFacts DEF Shape, RowsHang
  <2>2. CASE run' = [pc |-> "checking", job |-> j]
    BY <2>2, Steps, JobStages, ShapeFacts
  <2> QED BY <1>3, <2>1, <2>2
<1> QED BY <1>1, <1>2, <1>4, RewrittenShape, ShapeFacts

LEMMA RecoverStays ==
    ASSUME Shape, NEW js \in SUBSET DOMAIN jobs, Recover(js)
    PROVE  RowStays /\ Rewritten
<1>1. Rewritten
  BY RecoverRows, ShapeFacts
<1>2. RowStays
  BY DEF Recover, RowStays, InputStatuses
<1> QED BY <1>1, <1>2

LEMMA OwnerShape ==
    ASSUME Shape, NEW j \in DOMAIN jobs, CancelParse(j) \/ RetryParse(j) \/ Reclaim(j)
    PROVE  Shape'
<1>0. upload \notin UploadSteps /\ input # "none"
  BY JobHasARow
<1>1. CASE CancelParse(j)
  <2>1. Rewritten /\ UNCHANGED <<draft, input, bytes, upload, del, run, expired, crashes, late>>
    BY <1>1, CancelRows, ShapeFacts DEF CancelParse, Faults
  <2>2. RowStays
    BY <2>1 DEF RowStays
  <2> QED BY <1>0, <2>1, <2>2, RewrittenShape, ShapeFacts DEF Shape, RowsHang
<1>2. CASE RetryParse(j)
  <2>1. /\ Len(jobs) < MaxJobs /\ jobs' = Append(jobs, NewJob) /\ input' = "pending"
        /\ UNCHANGED <<draft, bytes, upload, del, run, expired, crashes, late>>
    BY <1>2 DEF RetryParse, Faults
  <2>2. input' \in InputStatuses /\ upload' \in {"done", "refused", "lost"}
    BY <1>0, <2>1, ShapeFacts DEF InputStatuses
  <2>3. run.pc \in StartSteps => expired = 0
    BY DEF Shape, RowsHang
  <2> QED BY <1>0, <2>1, <2>2, <2>3, AddedShape, ShapeFacts
<1>3. CASE Reclaim(j)
  <2>1. UNCHANGED <<draft, bytes, upload, del, run, crashes>> /\ run.pc \notin StartSteps
    BY <1>3 DEF Reclaim, Serving
  <2>2. late' \in 0..MaxLate
    <3>1. late' = late \/ (late < MaxLate /\ late' = late + 1)
      BY <1>3 DEF Reclaim
    <3> QED BY <3>1, BoundAssumption, ShapeFacts
  <2>3. RowStays /\ Rewritten /\ expired' \in {0, expired} \cup DOMAIN jobs
    <3>1. CASE jobs[j].tries >= MaxAttempts
      BY <1>3, <3>1, SameRows, ShapeFacts DEF Reclaim, RowStays
    <3>2. CASE ~(jobs[j].tries >= MaxAttempts)
      <4>1. Recover({j}) /\ expired' = expired /\ {j} \in SUBSET DOMAIN jobs
        BY <1>3, <3>2 DEF Reclaim
      <4> QED BY <4>1, RecoverStays
    <3> QED BY <3>1, <3>2
  <2> QED BY <1>0, <2>1, <2>2, <2>3, RewrittenShape, ShapeFacts DEF Shape, RowsHang
<1> QED BY <1>1, <1>2, <1>3

\* What the settlement of the job found at the cap writes
LEMMA CapMoves ==
    ASSUME Shape, SettleAtCap
    PROVE  /\ Rewritten /\ RowStays /\ upload \notin UploadSteps
           /\ expired' = 0 /\ run.pc \notin StartSteps
           /\ UNCHANGED <<draft, bytes, upload, del, run, crashes, late>>
           /\ \/ expired \notin DOMAIN jobs /\ UNCHANGED <<input, jobs>>
              \/ /\ expired \in DOMAIN jobs /\ input' = "failed"
                 /\ jobs'[expired].st = IF jobs[expired].st = "running" THEN "failed"
                                        ELSE jobs[expired].st
                 /\ jobs'[expired].cancel = jobs[expired].cancel
                 /\ \A j \in DOMAIN jobs : j # expired => jobs'[j] = jobs[j]
<1>1. /\ expired > 0 /\ expired' = 0 /\ run.pc \notin StartSteps
      /\ UNCHANGED <<draft, bytes, upload, del, run, crashes, late>>
  BY DEF SettleAtCap, Serving, Faults
<1>2. upload \notin UploadSteps
  BY <1>1, UploadIsOver
<1>3. CASE expired \notin DOMAIN jobs
  <2>1. UNCHANGED <<input, jobs>>
    BY <1>3 DEF SettleAtCap
  <2>2. Rewritten
    BY <2>1, SameRows, ShapeFacts
  <2>3. RowStays
    BY <2>1 DEF RowStays
  <2> QED BY <1>1, <1>2, <1>3, <2>1, <2>2, <2>3
<1>4. CASE expired \in DOMAIN jobs
  <2>1. input' = "failed" /\ RowStays
    BY <1>4, JobHasARow DEF SettleAtCap, RowStays, InputStatuses
  <2>2. CASE jobs[expired].st = "running"
    <3>1. jobs' = [jobs EXCEPT ![expired].st = "failed"] /\ "failed" \in JobStatuses
      BY <1>4, <2>2 DEF SettleAtCap, JobStatuses
    <3>2. /\ Rewritten /\ jobs'[expired].st = "failed"
          /\ jobs'[expired].cancel = jobs[expired].cancel
          /\ \A j \in DOMAIN jobs : j # expired => jobs'[j] = jobs[j]
      BY <1>4, <3>1, OneStatusWritten, ShapeFacts
    <3> QED BY <1>1, <1>2, <1>4, <2>1, <2>2, <3>2
  <2>3. CASE jobs[expired].st # "running"
    <3>1. jobs' = jobs
      BY <1>4, <2>3 DEF SettleAtCap
    <3>2. Rewritten
      BY <3>1, SameRows, ShapeFacts
    <3> QED BY <1>1, <1>2, <1>4, <2>1, <2>3, <3>1, <3>2
  <2> QED BY <2>2, <2>3
<1> QED BY <1>3, <1>4

LEMMA CapShape ==
    ASSUME Shape, SettleAtCap
    PROVE  Shape'
BY CapMoves, RewrittenShape, ShapeFacts DEF Shape, RowsHang

\* A start adds a job only to an input that never had one.
LEMMA RequeueMoves ==
    ASSUME Shape, PendingHasAJob, Requeue
    PROVE  /\ run.pc = "requeueing" /\ Goto("idle")
           /\ UNCHANGED <<draft, bytes, upload, del, expired, crashes, late>>
           /\ \/ /\ UNCHANGED <<input, jobs>>
                 /\ input = "pending" => \E j \in DOMAIN jobs : Active(j) \/ jobs[j].st = "cancelled"
              \/ /\ input = "pending" /\ jobs = <<>> /\ jobs' = Append(jobs, NewJob)
                 /\ UNCHANGED input
              \/ input = "pending" /\ input' = "failed" /\ UNCHANGED jobs
BY DEF Requeue, PendingHasAJob, Faults

LEMMA StartShape ==
    ASSUME Shape, PendingHasAJob, StartStep
    PROVE  Shape'
<1>0. run.pc \in StartSteps /\ upload \notin UploadSteps /\ expired = 0 /\ run.job = 0
  <2>1. run.pc \in StartSteps
    BY DEF StartStep, StartRecover, Reconcile, Requeue, StartSteps
  <2> QED BY <2>1, UploadIsOver, Steps DEF Shape, RowsHang
<1>1. UNCHANGED <<draft, upload, del, expired, crashes, late>>
  BY DEF StartStep, StartRecover, Reconcile, Requeue, Rows, Faults
<1>2. /\ run' \in [pc : StartSteps \cup JobSteps \cup {"idle"}, job : 0..MaxJobs]
      /\ run'.job = 0 /\ run'.pc \in StartSteps \cup {"idle"}
  <2>1. \E pc \in StartSteps \cup {"idle"} : Goto(pc)
    BY DEF StartStep, StartRecover, Reconcile, Requeue, StartSteps
  <2> QED BY <1>0, <2>1, GotoRun
<1>3. CASE Rewritten /\ RowStays /\ UNCHANGED bytes
  BY <1>0, <1>1, <1>2, <1>3, RewrittenShape, Steps, ShapeFacts
<1>4. CASE StartRecover
  <2>1. {j \in DOMAIN jobs : jobs[j].st = "running"} \in SUBSET DOMAIN jobs
    OBVIOUS
  <2> QED BY <1>3, <1>4, <2>1, RecoverStays DEF StartRecover
<1>5. CASE Reconcile
  <2>1. bytes' \in {"none", "incoming", "stored"} \cup Deletes
    BY <1>5, ShapeFacts DEF Reconcile
  <2>2. UNCHANGED <<input, jobs>>
    BY <1>5 DEF Reconcile, Rows
  <2>3. TypeOK'
    BY <1>1, <1>2, <2>1, <2>2, ShapeFacts DEF TypeOK
  <2>4. RowsHang'
    BY <1>0, <1>1, <1>2, <2>2, Steps, ShapeFacts DEF Shape, RowsHang
  <2>5. UploadIsFirst'
    BY <1>0, <1>1 DEF UploadIsFirst
  <2> QED BY <2>3, <2>4, <2>5 DEF Shape
<1>6. CASE Requeue
  <2>1. CASE UNCHANGED jobs
    <3>1. RowStays /\ UNCHANGED bytes
      BY <1>6 DEF Requeue, RowStays, InputStatuses
    <3> QED BY <1>3, <2>1, <3>1, SameRows, ShapeFacts
  <2>2. CASE input = "pending" /\ jobs = <<>> /\ jobs' = Append(jobs, NewJob) /\ UNCHANGED input
    <3>1. Len(jobs) < MaxJobs /\ UNCHANGED bytes /\ input' \in InputStatuses
      BY <1>6, <2>2, ShapeFacts DEF Requeue, InputStatuses
    <3>2. run'.pc = "idle"
      BY <1>6, GotoRun DEF Requeue
    <3>3. upload' \in {"done", "refused", "lost"}
      BY <1>0, <1>1, ShapeFacts
    <3> QED BY <1>0, <1>1, <1>2, <2>2, <3>1, <3>2, <3>3, AddedShape, Steps
  <2> QED BY <1>6, <2>1, <2>2, RequeueMoves
<1> QED BY <1>4, <1>5, <1>6 DEF StartStep

LEMMA CrashShape ==
    ASSUME Shape, Crash
    PROVE  /\ Shape' /\ upload' \notin UploadSteps /\ run'.pc = "down"
           /\ upload' # "staged" /\ upload' \in {upload, "lost"}
           /\ \A d \in Deletes : del'[d] \in {"due", "over"}
           /\ UNCHANGED <<draft, input, jobs, bytes, late>> /\ expired' = 0
<1>1. /\ upload' \in {"done", "refused", "lost"} /\ upload' \in {upload, "lost"}
      /\ upload' \notin UploadSteps /\ upload' # "staged"
  BY Steps, ShapeFacts DEF Crash, UploadSteps
<1>2. /\ del' \in [Deletes -> DeleteSteps \cup {"due", "over"}]
      /\ \A d \in Deletes : del'[d] \in {"due", "over"}
  BY ShapeFacts DEF Crash
<1>3. run' = [pc |-> "down", job |-> 0] /\ "down" \in StartSteps \ JobSteps
  BY DEF Crash, StartSteps, JobSteps
<1>4. expired' = 0 /\ UNCHANGED <<draft, input, jobs, bytes, late>> /\ crashes' \in 0..MaxCrashes
  <2>1. crashes < MaxCrashes /\ crashes' = crashes + 1
    BY DEF Crash
  <2> QED BY <2>1, BoundAssumption, ShapeFacts DEF Crash, Rows
<1>5. TypeOK'
  <2>1. /\ run' \in [pc : StartSteps \cup JobSteps \cup {"idle"}, job : 0..MaxJobs]
        /\ expired' \in 0..MaxJobs
    BY <1>3, <1>4, BoundAssumption
  <2> QED BY <1>1, <1>2, <1>4, <2>1, ShapeFacts DEF TypeOK
<1>6. RowsHang'
  <2>1. run'.pc = "down" /\ run'.job = 0
    BY <1>3
  <2> QED BY <1>3, <1>4, <2>1, ShapeFacts DEF Shape, RowsHang
<1>7. UploadIsFirst'
  BY <1>1 DEF UploadIsFirst
<1> QED BY <1>1, <1>2, <1>3, <1>4, <1>5, <1>6, <1>7 DEF Shape

LEMMA ShapeStep ==
    ASSUME Shape, PendingHasAJob, [Next]_vars
    PROVE  Shape'
<1>1. CASE UNCHANGED vars
  BY <1>1, FilesShape, ShapeFacts DEF vars
<1>2. ASSUME NEW j \in DOMAIN jobs, CancelParse(j) \/ RetryParse(j) \/ Claim(j) \/ Reclaim(j)
      PROVE  Shape'
  BY <1>2, OwnerShape, ClaimShape
<1>3. ASSUME NEW d \in Deletes, CheckInput(d) \/ CancelPending(d) \/ DeleteStep(d)
      PROVE  Shape'
  BY <1>3, DeleteShape
<1> QED BY <1>1, <1>2, <1>3, UploadShape, JobStepShape, StartShape, CapShape, CrashShape DEF Next

-------------------------------------------------------------------------------
(* The file and its tombstones.                                            *)

Files == DiscardsAreOwed /\ BytesAreKept

\* A step of the jobs or of recovery: the row stays, the upload and the
\* deletes do not move, and a file in place or in a tombstone stays in one.
LEMMA FilesKept ==
    ASSUME Shape, Files, RowStays, UNCHANGED <<draft, upload, del>>,
           input # "none" /\ bytes \in {"stored"} \cup Deletes => bytes' \in {"stored"} \cup Deletes
    PROVE  Files'
<1>1. (input' = "none") <=> (input = "none")
  BY RowStaysTyped
<1>2. DiscardsAreOwed'
  BY <1>1 DEF Files, DiscardsAreOwed, RowGone
<1>3. BytesAreKept'
  BY <1>1 DEF Files, BytesAreKept
<1> QED BY <1>2, <1>3 DEF Files

LEMMA UploadFiles ==
    ASSUME Shape, Files, UploadStep
    PROVE  Files'
<1>1. CASE Reserve
  <2>1. /\ upload = "staged" /\ upload' \in {"reserved", "refused"} /\ UNCHANGED <<draft, del>>
        /\ input' # "none" => draft
    BY <1>1 DEF Reserve, Shape, RowsHang
  <2>2. draft => \A d \in Deletes : del[d] # "discarding"
    BY <2>1 DEF Files, DiscardsAreOwed, RowGone
  <2>3. ~draft => input' = "none"
    BY <1>1 DEF Reserve, Shape, RowsHang
  <2>4. DiscardsAreOwed'
    BY <2>1, <2>2, <2>3 DEF DiscardsAreOwed, RowGone
  <2>5. BytesAreKept'
    BY <2>1 DEF BytesAreKept
  <2> QED BY <2>4, <2>5 DEF Files
<1>2. CASE Finalize \/ Enqueue \/ Unlink
  <2>1. /\ upload # "staged" /\ upload' # "staged" /\ UNCHANGED <<input, del, draft>>
        /\ upload' \in {"finalized", "done"} =>
               bytes' = "stored" \/ (upload = "finalized" /\ bytes' = bytes)
    BY <1>2 DEF Finalize, Enqueue, Unlink, Rows
  <2>2. DiscardsAreOwed'
    BY <2>1 DEF Files, DiscardsAreOwed, RowGone
  <2>3. BytesAreKept'
    BY <2>1 DEF Files, BytesAreKept
  <2> QED BY <2>2, <2>3 DEF Files
<1>3. CASE Unrow
  <2>1. upload' = "refused" /\ input' = "none" /\ UNCHANGED <<del, draft>>
    BY <1>3 DEF Unrow, DropRow
  <2> QED BY <2>1 DEF Files, DiscardsAreOwed, RowGone, BytesAreKept
<1> QED BY <1>1, <1>2, <1>3 DEF UploadStep

LEMMA DeleteFiles ==
    ASSUME Shape, Files, NEW d \in Deletes, CheckInput(d) \/ CancelPending(d) \/ DeleteStep(d)
    PROVE  Files'
<1>0. UNCHANGED upload
  BY DEF CheckInput, CancelPending, DeleteStep, CountActive, Tombstone, DeleteInputRow,
         DeleteDraftRow, RestoreTombstone, CommitTombstone
<1>1. CASE CheckInput(d) \/ CancelPending(d) \/ CountActive(d) \/ Tombstone(d) \/ RestoreTombstone(d)
  <2>1. /\ UNCHANGED <<draft, input>>
        /\ bytes \in {"stored"} \cup Deletes => bytes' \in {"stored"} \cup Deletes
    BY <1>1 DEF CheckInput, CancelPending, CountActive, Tombstone, RestoreTombstone, Rows
  <2>2. PICK step \in {"checked", "cancelled", "over", "trashed"} : Advance(d, step)
    BY <1>1 DEF CheckInput, CancelPending, CountActive, Tombstone, RestoreTombstone
  <2>3. del'[d] = step /\ \A e \in Deletes : e # d => del'[e] = del[e]
    BY <2>2, AdvanceTyped DEF DeleteSteps
  <2>4. d \in InputDeletes /\ step # "over" => upload # "staged"
    <3>1. CASE CheckInput(d)
      BY <3>1 DEF CheckInput, Shape, UploadIsFirst, UploadSteps
    <3>2. CASE CancelPending(d)
      BY <3>2, DeletesAssumption DEF CancelPending
    <3>3. CASE CountActive(d) \/ Tombstone(d) \/ RestoreTombstone(d)
      BY <3>3 DEF CountActive, Tombstone, RestoreTombstone, Files, DiscardsAreOwed
    <3> QED BY <1>1, <3>1, <3>2, <3>3
  <2>5. DiscardsAreOwed'
    BY <1>0, <2>1, <2>3, <2>4 DEF Files, DiscardsAreOwed, RowGone
  <2>6. BytesAreKept'
    BY <1>0, <2>1 DEF Files, BytesAreKept
  <2> QED BY <2>5, <2>6 DEF Files
<1>2. CASE CommitTombstone(d)
  <2>1. RowGone /\ UNCHANGED <<draft, input>> /\ Advance(d, "over")
    BY <1>2 DEF CommitTombstone, Rows, Files, DiscardsAreOwed
  <2>2. del'[d] = "over" /\ \A e \in Deletes : e # d => del'[e] = del[e]
    BY <2>1, AdvanceTyped
  <2> QED BY <1>0, <2>1, <2>2 DEF Files, DiscardsAreOwed, BytesAreKept, RowGone
<1>3. CASE DeleteInputRow(d) \/ DeleteDraftRow(d)
  <2>1. CASE Advance(d, "restoring") /\ UNCHANGED <<draft, input>>
    <3>1. /\ del'[d] = "restoring" /\ \A e \in Deletes : e # d => del'[e] = del[e]
          /\ UNCHANGED bytes /\ del[d] = "trashed"
      BY <1>3, <2>1, AdvanceTyped DEF DeleteInputRow, DeleteDraftRow, DeleteSteps
    <3> QED BY <1>0, <2>1, <3>1 DEF Files, DiscardsAreOwed, BytesAreKept, RowGone
  <2>2. CASE Advance(d, "discarding") /\ DropRow
    <3>1. /\ del'[d] = "discarding" /\ \A e \in Deletes : e # d => del'[e] = del[e]
          /\ input' = "none" /\ del[d] = "trashed"
      BY <1>3, <2>2, AdvanceTyped DEF DeleteInputRow, DeleteDraftRow, DropRow, DeleteSteps
    <3>2. upload = "staged" => ~draft'
      BY <1>3, <2>2, <3>1 DEF DeleteInputRow, DeleteDraftRow, Files, DiscardsAreOwed, Advance
    <3>3. draft' => draft
      BY <1>3 DEF DeleteInputRow, DeleteDraftRow, Rows
    <3> QED BY <1>0, <3>1, <3>2, <3>3 DEF Files, DiscardsAreOwed, BytesAreKept, RowGone
  <2> QED BY <1>3, <2>1, <2>2 DEF DeleteInputRow, DeleteDraftRow, Rows
<1> QED BY <1>1, <1>2, <1>3 DEF DeleteStep

LEMMA FilesStep ==
    ASSUME Shape, PendingHasAJob, Files, [Next]_vars
    PROVE  Files'
<1>1. CASE UNCHANGED vars
  BY <1>1, FilesKept DEF vars, RowStays
<1>2. CASE JobStep \/ SettleAtCap
  BY <1>2, JobStepMoves, CapMoves, FilesKept
<1>3. ASSUME NEW j \in DOMAIN jobs, CancelParse(j) \/ RetryParse(j) \/ Claim(j) \/ Reclaim(j)
      PROVE  Files'
  <2>1. UNCHANGED <<draft, upload, del, bytes>>
    BY <1>3 DEF CancelParse, RetryParse, Claim, Reclaim
  <2>2. RowStays
    <3>1. CASE CancelParse(j) \/ Claim(j)
      BY <3>1 DEF CancelParse, Claim, RowStays
    <3>2. CASE RetryParse(j)
      BY <3>2, JobHasARow DEF RetryParse, RowStays, InputStatuses
    <3>3. CASE Reclaim(j)
      BY <3>3, RecoverStays DEF Reclaim, RowStays
    <3> QED BY <1>3, <3>1, <3>2, <3>3
  <2> QED BY <2>1, <2>2, FilesKept
<1>4. CASE StartStep
  <2>1. CASE StartRecover
    <3>1. {j \in DOMAIN jobs : jobs[j].st = "running"} \in SUBSET DOMAIN jobs
      OBVIOUS
    <3> QED BY <2>1, <3>1, RecoverStays, FilesKept DEF StartRecover
  <2>2. CASE Reconcile
    <3>1. UNCHANGED <<draft, input, upload, del>> /\ RowStays
      BY <2>2 DEF Reconcile, Rows, RowStays
    <3>2. input # "none" /\ bytes \in {"stored"} \cup Deletes => bytes' \in {"stored"} \cup Deletes
      BY <2>2 DEF Reconcile, Shape, RowsHang
    <3> QED BY <3>1, <3>2, FilesKept
  <2>3. CASE Requeue
    <3>1. RowStays
      BY <2>3, RequeueMoves DEF RowStays, InputStatuses
    <3> QED BY <2>3, <3>1, RequeueMoves, FilesKept
  <2> QED BY <1>4, <2>1, <2>2, <2>3 DEF StartStep
<1>5. CASE Crash
  <2>1. /\ upload' # "staged" /\ upload' \in {upload, "lost"}
        /\ \A d \in Deletes : del'[d] \in {"due", "over"}
        /\ UNCHANGED <<draft, input, bytes>>
    BY <1>5, CrashShape
  <2> QED BY <2>1 DEF Files, DiscardsAreOwed, BytesAreKept
<1>6. ASSUME NEW d \in Deletes, CheckInput(d) \/ CancelPending(d) \/ DeleteStep(d)
      PROVE  Files'
  BY <1>6, DeleteFiles
<1> QED BY <1>1, <1>2, <1>3, <1>4, <1>5, <1>6, UploadFiles DEF Next

-------------------------------------------------------------------------------
(* How the jobs settle their input.                                        *)

LEMMA SettlementKept ==
    ASSUME Settlement, UNCHANGED <<input, jobs, run, upload, late, expired>>
    PROVE  Settlement'
BY DEF Settlement, OneIsActive, ReadyIsSettled, SettledFirst, PendingHasAJob, LeasesHold,
       CancelledNeverCompletes, Active, Parsing, Owns

LEMMA DroppedSettles ==
    ASSUME DropRow
    PROVE  Settlement'
<1>1. jobs' = <<>> /\ DOMAIN jobs' = {} /\ input' = "none"
  BY NoJobs DEF DropRow
<1> QED BY <1>1 DEF Settlement, OneIsActive, ReadyIsSettled, SettledFirst, PendingHasAJob,
                    LeasesHold, CancelledNeverCompletes, Owns

\* The upload before its job
LEMMA UploadingSettles ==
    ASSUME jobs' = <<>>, run'.pc = "idle", input' = "none" \/ upload' \in UploadSteps,
           input' \in {"none", "pending"}
    PROVE  Settlement'
<1>1. DOMAIN jobs' = {}
  BY NoJobs
<1> QED BY <1>1, Steps, JobStages DEF Settlement, OneIsActive, ReadyIsSettled, SettledFirst,
           PendingHasAJob, LeasesHold, CancelledNeverCompletes

\* A job is added where none is active, and its input waits for it.
LEMMA AddedSettles ==
    ASSUME Shape, Settlement, ~Parsing, Len(jobs) < MaxJobs, jobs' = Append(jobs, NewJob),
           input # "none", input' = "pending", UNCHANGED <<late, expired>>,
           run'.job = run.job, run'.pc \in {run.pc, "idle"}
    PROVE  Settlement'
<1> DEFINE new == Len(jobs) + 1
<1>1. /\ DOMAIN jobs' = DOMAIN jobs \cup {new} /\ new \notin DOMAIN jobs
      /\ jobs'[new] = NewJob /\ \A j \in DOMAIN jobs : jobs'[j] = jobs[j]
  BY AddedRow, ShapeFacts
<1>2. jobs'[new].st = "pending" /\ ~jobs'[new].cancel
  BY <1>1, FreshRow
<1>3. expired # new /\ run.job # new
  BY ShapeFacts DEF Shape, RowsHang
<1> HIDE DEF new
<1>4. \A j \in DOMAIN jobs : ~Active(j)' /\ jobs'[j].st # "running"
  BY <1>1 DEF Parsing, Active
<1>5. OneIsActive'
  BY <1>1, <1>4 DEF OneIsActive
<1>6. ReadyIsSettled' /\ PendingHasAJob'
  <2>1. \E j \in DOMAIN jobs' : jobs'[j].st = "pending"
    BY <1>1, <1>2
  <2> QED BY <2>1 DEF ReadyIsSettled, PendingHasAJob, Active
<1>7. SettledFirst'
  <2>1. ~Owns'
    BY <1>1, <1>3, <1>4 DEF Owns
  <2> QED BY <2>1 DEF SettledFirst
<1>8. LeasesHold'
  BY <1>1, <1>3, Steps DEF Settlement, LeasesHold
<1>9. CancelledNeverCompletes'
  BY <1>1, <1>2 DEF Settlement, CancelledNeverCompletes
<1> QED BY <1>5, <1>6, <1>7, <1>8, <1>9 DEF Settlement

LEMMA UploadSettles ==
    ASSUME Shape, Settlement, UploadStep
    PROVE  Settlement'
<1>0. upload \in UploadSteps
  BY DEF UploadStep, UploadSteps, Reserve, Finalize, Enqueue, Unlink, Unrow
<1>1. jobs = <<>> /\ expired = 0 /\ run.pc = "idle" /\ input \in {"none", "pending"}
  BY <1>0 DEF Shape, UploadIsFirst
<1>2. CASE Reserve
  <2>1. /\ jobs' = <<>> /\ run'.pc = "idle" /\ input' \in {"none", "pending"}
        /\ input' = "none" \/ upload' \in UploadSteps
    BY <1>1, <1>2 DEF Reserve, UploadSteps, Shape, UploadIsFirst
  <2> QED BY <2>1, UploadingSettles
<1>3. CASE Finalize \/ Unlink \/ (Enqueue /\ UNCHANGED jobs)
  <2>1. /\ jobs' = <<>> /\ run'.pc = "idle" /\ input' \in {"none", "pending"}
        /\ upload' \in UploadSteps \/ (Enqueue /\ jobs' = Append(jobs, NewJob) /\ Len(jobs) < MaxJobs)
    BY <1>1, <1>3 DEF Finalize, Unlink, Enqueue, Rows, UploadSteps
  <2>2. (jobs' = Append(jobs, NewJob) /\ Len(jobs) < MaxJobs) => Len(jobs') = Len(jobs) + 1
    BY AddedRow, ShapeFacts
  <2>3. upload' \in UploadSteps
    BY <1>1, <2>1, <2>2, ShapeFacts
  <2> QED BY <2>1, <2>3, UploadingSettles
<1>4. CASE Enqueue /\ jobs' # jobs
  <2>1. /\ input # "none" /\ ~Parsing /\ Len(jobs) < MaxJobs /\ jobs' = Append(jobs, NewJob)
        /\ UNCHANGED <<input, run, expired, late>>
    BY <1>4 DEF Enqueue, Faults
  <2> QED BY <1>1, <2>1, AddedSettles
<1>5. CASE Unrow
  BY <1>5, DroppedSettles DEF Unrow
<1> QED BY <1>2, <1>3, <1>4, <1>5 DEF UploadStep

\* A cancellation ends pending jobs alone.
LEMMA CancelledSettles ==
    ASSUME Shape, Settlement, Rewritten, UNCHANGED <<input, run, upload, late, expired>>,
           \A j \in DOMAIN jobs :
              \/ jobs'[j] = jobs[j]
              \/ jobs[j].st = "running" /\ jobs'[j].st = "running"
              \/ jobs[j].st = "pending" /\ jobs'[j].st = "cancelled"
    PROVE  Settlement'
<1>1. DOMAIN jobs' = DOMAIN jobs
  BY DEF Rewritten
<1>2. \A j \in DOMAIN jobs : /\ Active(j)' => Active(j)
                             /\ Active(j) => Active(j)' \/ jobs'[j].st = "cancelled"
                             /\ (jobs'[j].st = "running") <=> (jobs[j].st = "running")
                             /\ jobs[j].st = "cancelled" => jobs'[j].st = "cancelled"
  BY DEF Active
<1>3. OneIsActive'
  BY <1>1, <1>2 DEF Settlement, OneIsActive
<1>4. ReadyIsSettled'
  BY <1>1, <1>2 DEF Settlement, ReadyIsSettled, Parsing
<1>5. SettledFirst'
  BY <1>1, <1>2 DEF Settlement, SettledFirst, Owns
<1>6. PendingHasAJob'
  <2>1. jobs = <<>> => jobs' = <<>>
    BY EmptySeq, ShapeFacts DEF Rewritten
  <2> QED BY <1>1, <1>2, <2>1 DEF Settlement, PendingHasAJob
<1>7. LeasesHold'
  BY <1>1, <1>2 DEF Settlement, LeasesHold
<1>8. CancelledNeverCompletes'
  BY <1>1, <1>2 DEF Settlement, CancelledNeverCompletes
<1> QED BY <1>3, <1>4, <1>5, <1>6, <1>7, <1>8 DEF Settlement

LEMMA ClaimSettles ==
    ASSUME Shape, Settlement, NEW j \in DOMAIN jobs, Claim(j)
    PROVE  Settlement'
<1>1. /\ DOMAIN jobs' = DOMAIN jobs /\ jobs'[j].st = "running" /\ jobs'[j].cancel = jobs[j].cancel
      /\ \A i \in DOMAIN jobs : i # j => jobs'[i] = jobs[i]
  BY ClaimRows, ShapeFacts DEF Rewritten
<1>2. /\ jobs[j].st = "pending" /\ run.pc = "idle" /\ UNCHANGED <<input, upload, expired, late>>
      /\ run' = run \/ (run'.pc = "checking" /\ run'.job = j)
  BY DEF Claim, Faults
<1>3. \A i \in DOMAIN jobs : Active(i)' <=> Active(i)
  BY <1>1, <1>2 DEF Active
<1>4. OneIsActive' /\ ReadyIsSettled'
  BY <1>1, <1>2, <1>3 DEF Settlement, OneIsActive, ReadyIsSettled, Parsing
<1>5. SettledFirst'
  BY <1>2 DEF SettledFirst
<1>6. PendingHasAJob'
  <2>1. Active(j)'
    BY <1>1 DEF Active
  <2> QED BY <1>1, <2>1 DEF PendingHasAJob
<1>7. LeasesHold'
  BY <1>1, <1>2, Steps DEF Settlement, LeasesHold
<1>8. CancelledNeverCompletes'
  BY <1>1 DEF Settlement, CancelledNeverCompletes
<1> QED BY <1>4, <1>5, <1>6, <1>7, <1>8 DEF Settlement

\* Recovery takes jobs that run, and moves the input with them.
LEMMA RecoverSettles ==
    ASSUME Shape, Settlement, NEW js \in SUBSET DOMAIN jobs,
           \A j \in js : jobs[j].st = "running", Recover(js),
           UNCHANGED upload, expired' = 0, run'.job = run.job,
           late' = 0 => late = 0 /\ (run.pc \in JobSteps => run.job \notin js),
           run' = run \/ (run.pc \in StartSteps /\ run'.pc \in StartSteps)
    PROVE  Settlement'
<1>1. /\ DOMAIN jobs' = DOMAIN jobs /\ Len(jobs') = Len(jobs)
      /\ \A j \in js : jobs'[j].st = Recovered(js) /\ jobs'[j].cancel = jobs[j].cancel
      /\ \A j \in DOMAIN jobs \ js : jobs'[j] = jobs[j]
  BY RecoverRows, ShapeFacts DEF Rewritten
<1>2. Recovered(js) # "running" /\ (Recovered(js) = "completed" => input = "ready")
  BY DEF Recovered, Outcome
<1>3. /\ input' = "ready" => input = "ready"
      /\ input' = "parsing" => input = "parsing" /\ js = {}
      /\ input' = "pending" =>
             input = "pending" \/ (input = "parsing" /\ js # {} /\ Recovered(js) = "pending")
      /\ input = "pending" => Recovered(js) \in {"pending", "cancelled"}
  BY DEF Recover, Recovered
<1>4. \A j \in DOMAIN jobs : /\ Active(j)' => Active(j)
                             /\ jobs'[j].st = "running" => j \notin js /\ jobs[j].st = "running"
  BY <1>1, <1>2 DEF Active
<1>5. js # {} => Parsing
  BY DEF Parsing, Active
<1>6. OneIsActive'
  BY <1>1, <1>4 DEF Settlement, OneIsActive
<1>7. ReadyIsSettled'
  BY <1>1, <1>3, <1>4 DEF Settlement, ReadyIsSettled, Parsing
<1>8. SettledFirst'
  <2>1. run'.pc \in {"failing_job", "cancelling_job"} => run' = run
    BY Steps, JobStages
  <2>2. Owns' /\ run' = run => Owns
    BY <1>1, <1>4 DEF Owns
  <2> QED BY <1>3, <2>1, <2>2 DEF Settlement, SettledFirst
<1>9. PendingHasAJob'
  <2>1. CASE input = "parsing" /\ js # {} /\ Recovered(js) = "pending"
    <3>1. PICK j \in js : jobs'[j].st = "pending"
      BY <1>1, <2>1
    <3> QED BY <1>1, <3>1 DEF PendingHasAJob, Active
  <2>2. CASE input = "pending" /\ \E j \in DOMAIN jobs : Active(j) \/ jobs[j].st = "cancelled"
    <3>1. PICK j \in DOMAIN jobs : Active(j) \/ jobs[j].st = "cancelled"
      BY <2>2
    <3>2. Active(j)' \/ jobs'[j].st = "cancelled"
      BY <1>1, <1>3, <2>2, <3>1 DEF Active
    <3> QED BY <1>1, <3>2 DEF PendingHasAJob
  <2>3. CASE input = "pending" /\ jobs = <<>> /\ (upload \in UploadSteps \/ run.pc \in StartSteps)
    <3>1. jobs' = <<>>
      BY <1>1, <2>3, RecoverRows, EmptySeq, ShapeFacts DEF Rewritten
    <3> QED BY <2>3, <3>1 DEF PendingHasAJob
  <2> QED BY <1>3, <2>1, <2>2, <2>3 DEF Settlement, PendingHasAJob
<1>10. LeasesHold'
  <2>1. run'.pc \in JobSteps => run' = run
    BY Steps
  <2>2. 0 \notin DOMAIN jobs
    BY ShapeFacts
  <2> QED BY <1>1, <1>3, <2>1, <2>2 DEF Settlement, LeasesHold
<1>11. CancelledNeverCompletes'
  <2>1. input = "ready" => js = {}
    BY <1>5 DEF Settlement, ReadyIsSettled
  <2> QED BY <1>1, <1>2, <2>1 DEF Settlement, CancelledNeverCompletes
<1> QED BY <1>6, <1>7, <1>8, <1>9, <1>10, <1>11 DEF Settlement

LEMMA CapSettles ==
    ASSUME Shape, Settlement, SettleAtCap
    PROVE  Settlement'
<1>1. /\ DOMAIN jobs' = DOMAIN jobs /\ expired' = 0 /\ UNCHANGED <<run, upload, late>>
      /\ 0 \notin DOMAIN jobs
  BY CapMoves, ShapeFacts DEF Rewritten
<1>2. CASE UNCHANGED <<input, jobs>>
  BY <1>1, <1>2 DEF Settlement, OneIsActive, ReadyIsSettled, SettledFirst, PendingHasAJob, LeasesHold,
                    CancelledNeverCompletes, Active, Parsing, Owns
<1>3. CASE /\ expired \in DOMAIN jobs /\ input' = "failed"
           /\ jobs'[expired].st = IF jobs[expired].st = "running" THEN "failed"
                                  ELSE jobs[expired].st
           /\ jobs'[expired].cancel = jobs[expired].cancel
           /\ \A j \in DOMAIN jobs : j # expired => jobs'[j] = jobs[j]
  <2>1. \A j \in DOMAIN jobs : Active(j)' => Active(j)
    BY <1>3 DEF Active
  <2>2. OneIsActive'
    BY <1>1, <2>1 DEF Settlement, OneIsActive
  <2>3. ReadyIsSettled' /\ SettledFirst' /\ PendingHasAJob'
    BY <1>3 DEF ReadyIsSettled, SettledFirst, PendingHasAJob
  <2>4. LeasesHold'
    BY <1>1, <1>3 DEF Settlement, LeasesHold
  <2>5. CancelledNeverCompletes'
    BY <1>1, <1>3 DEF Settlement, CancelledNeverCompletes
  <2> QED BY <2>2, <2>3, <2>4, <2>5 DEF Settlement
<1> QED BY <1>2, <1>3, CapMoves

LEMMA ReclaimSettles ==
    ASSUME Shape, Settlement, NEW j \in DOMAIN jobs, Reclaim(j)
    PROVE  Settlement'
<1>1. /\ jobs[j].st = "running" /\ expired = 0 /\ UNCHANGED <<upload, run>>
      /\ late' = 0 => late = 0 /\ run.job # j
  <2>1. late \in Nat
    BY BoundAssumption, ShapeFacts
  <2>2. IF run.job # j THEN UNCHANGED late ELSE late' = late + 1
    BY DEF Reclaim
  <2>3. late' = 0 => late = 0 /\ run.job # j
    BY <2>1, <2>2
  <2> QED BY <2>3 DEF Reclaim
<1>2. CASE jobs[j].tries >= MaxAttempts
  <2>1. expired' = j /\ UNCHANGED <<jobs, input>>
    BY <1>2 DEF Reclaim
  <2>2. LeasesHold'
    BY <1>1, <2>1 DEF Settlement, LeasesHold
  <2>3. OneIsActive' /\ ReadyIsSettled' /\ SettledFirst' /\ PendingHasAJob' /\ CancelledNeverCompletes'
    BY <1>1, <2>1 DEF Settlement, OneIsActive, ReadyIsSettled, SettledFirst, PendingHasAJob,
                      CancelledNeverCompletes, Active, Parsing, Owns
  <2> QED BY <2>2, <2>3 DEF Settlement
<1>3. CASE ~(jobs[j].tries >= MaxAttempts)
  <2>1. Recover({j}) /\ expired' = 0
    BY <1>1, <1>3 DEF Reclaim
  <2>2. {j} \in SUBSET DOMAIN jobs /\ \A i \in {j} : jobs[i].st = "running"
    BY <1>1
  <2> QED BY <1>1, <2>1, <2>2, RecoverSettles
<1> QED BY <1>2, <1>3

\* The worker goes on to another stage; no job moves.
LEMMA GotoSettles ==
    ASSUME Shape, Settlement, run.pc \in JobSteps, NEW pc \in JobSteps, Goto(pc),
           UNCHANGED <<jobs, upload, late, expired>>,
           \/ input' = input
           \/ input' \in {"failed", "cancelled"}
           \/ input' = "parsing" /\ input # "none",
           pc \in {"failing_job", "cancelling_job"} => input' \notin {"pending", "parsing"}
    PROVE  Settlement'
<1>1. run'.pc = pc /\ run'.job = run.job /\ run.job > 0 /\ upload \notin UploadSteps
      /\ run.pc \notin StartSteps
  BY GotoRun, UploadIsOver, Steps DEF Shape, RowsHang
<1>2. OneIsActive' /\ ReadyIsSettled' /\ CancelledNeverCompletes'
  BY DEF Settlement, OneIsActive, ReadyIsSettled, CancelledNeverCompletes, Active, Parsing
<1>3. SettledFirst'
  BY <1>1 DEF SettledFirst
<1>4. PendingHasAJob'
  BY <1>1 DEF Settlement, PendingHasAJob, Active
<1>5. LeasesHold'
  <2>1. input # "none" => run.job \in DOMAIN jobs
    BY <1>1, ShapeFacts DEF Shape, RowsHang
  <2> QED BY <1>1, <2>1 DEF Settlement, LeasesHold
<1> QED BY <1>2, <1>3, <1>4, <1>5 DEF Settlement

\* The worker ends its job and is idle again.
LEMMA EndSettles ==
    ASSUME Shape, Settlement, run.pc \in JobSteps, run.job \in DOMAIN jobs, Finish,
           NEW st \in {"completed", "failed", "cancelled"},
           jobs' = [jobs EXCEPT ![run.job].st = st], UNCHANGED <<upload, late, expired>>,
           st = "completed" => ~jobs[run.job].cancel,
           \/ input' = "cancelled"
           \/ input' = "ready" /\ Owns
           \/ input' = input /\ input \notin {"parsing", "pending"} /\ Owns
    PROVE  Settlement'
<1>1. run'.pc = "idle" /\ run'.job = 0
  BY FinishRun
<1>2. /\ DOMAIN jobs' = DOMAIN jobs /\ jobs'[run.job].st = st
      /\ jobs'[run.job].cancel = jobs[run.job].cancel
      /\ \A j \in DOMAIN jobs : j # run.job => jobs'[j] = jobs[j]
  <2>1. st \in JobStatuses
    BY DEF JobStatuses
  <2> QED BY <2>1, OneStatusWritten, ShapeFacts DEF Rewritten
<1>3. \A j \in DOMAIN jobs : Active(j)' => Active(j) /\ j # run.job
  BY <1>2 DEF Active
<1>4. OneIsActive'
  BY <1>2, <1>3 DEF Settlement, OneIsActive
<1>5. ReadyIsSettled'
  <2>1. Owns => \A j \in DOMAIN jobs : Active(j) => j = run.job
    BY DEF Settlement, OneIsActive, Owns, Active
  <2> QED BY <1>2, <1>3, <2>1 DEF ReadyIsSettled, Parsing
<1>6. SettledFirst' /\ PendingHasAJob'
  BY <1>1 DEF SettledFirst, PendingHasAJob
<1>7. LeasesHold'
  <2>1. 0 \notin DOMAIN jobs /\ run'.pc \notin JobSteps /\ input' # "parsing"
    BY <1>1, Steps, ShapeFacts
  <2> QED BY <1>1, <1>2, <2>1 DEF Settlement, LeasesHold
<1>8. CancelledNeverCompletes'
  BY <1>2 DEF Settlement, CancelledNeverCompletes
<1> QED BY <1>4, <1>5, <1>6, <1>7, <1>8 DEF Settlement

LEMMA JobStepSettles ==
    ASSUME Shape, Settlement, JobStep
    PROVE  Settlement'
<1>0. UNCHANGED <<upload, late, expired>> /\ run.pc \in JobSteps
  BY JobStepMoves
<1>1. CASE CheckPermission \/ Extract \/ Review
  <2>1. /\ UNCHANGED <<input, jobs>>
        /\ \E pc \in JobSteps :
              /\ Goto(pc) /\ pc \notin {"cancelling_job"}
              /\ pc = "failing_job" => input = "none"
    BY <1>1, JobStages DEF CheckPermission, Extract, Review, Rows
  <2> QED BY <1>0, <2>1, GotoSettles
<1>2. CASE MoveToParsing
  <2>1. CASE LegalInput(input, "parsing") /\ input' = "parsing" /\ Goto("parsing")
    BY <1>0, <1>2, <2>1, JobStages, LegalStays, GotoSettles DEF MoveToParsing
  <2>2. CASE ~LegalInput(input, "parsing") /\ UNCHANGED input /\ Goto("failing_job")
    BY <1>0, <1>2, <2>2, JobStages, GotoSettles DEF MoveToParsing, LegalInput
  <2> QED BY <1>2, <2>1, <2>2 DEF MoveToParsing
<1>3. ASSUME NEW pc \in {"failing", "cancelling"}, NEW outcome \in {"failed", "cancelled"},
             NEW next \in {"failing_job", "cancelling_job"}, SettleInput(pc, outcome, next)
      PROVE  Settlement'
  <2>1. UNCHANGED jobs
    BY <1>3 DEF SettleInput
  <2>2. CASE input' = outcome /\ Goto(next)
    BY <1>0, <2>1, <2>2, JobStages, GotoSettles
  <2>3. CASE ~LegalInput(input, outcome) /\ UNCHANGED input /\ Goto("failing_job")
    <3>1. input \notin {"pending", "parsing"}
      BY <2>3 DEF LegalInput
    <3> QED BY <1>0, <2>1, <2>3, <3>1, JobStages, GotoSettles
  <2> QED BY <1>3, <2>2, <2>3 DEF SettleInput
<1>4. CASE Commit
  <2>1. CASE CancelRequested
    <3>1. /\ run.job \in DOMAIN jobs /\ Finish /\ input' = "cancelled"
          /\ jobs' = [jobs EXCEPT ![run.job].st = "cancelled"]
      BY <1>4, <2>1 DEF Commit, CancelRequested
    <3> QED BY <1>0, <3>1, EndSettles
  <2>2. CASE ~CancelRequested /\ Owns
    <3>1. /\ run.job \in DOMAIN jobs /\ Finish /\ input' = "ready" /\ ~jobs[run.job].cancel
          /\ jobs' = [jobs EXCEPT ![run.job].st = "completed"]
      BY <1>4, <2>2 DEF Commit, CancelRequested, Owns
    <3> QED BY <1>0, <2>2, <3>1, EndSettles
  <2>3. CASE ~CancelRequested /\ ~Owns
    <3>1. Goto("failing") /\ UNCHANGED <<input, jobs>>
      BY <1>4, <2>3 DEF Commit
    <3> QED BY <1>0, <3>1, JobStages, GotoSettles
  <2> QED BY <2>1, <2>2, <2>3
<1>5. ASSUME NEW pc \in {"failing_job", "cancelling_job"}, NEW outcome \in {"failed", "cancelled"},
             SettleJob(pc, outcome)
      PROVE  Settlement'
  <2>1. /\ input # "parsing" /\ UNCHANGED input /\ Finish
        /\ Owns => input # "pending"
    BY <1>5 DEF SettleJob, Settlement, SettledFirst
  <2>2. CASE Owns
    <3>1. run.job \in DOMAIN jobs /\ jobs' = [jobs EXCEPT ![run.job].st = outcome]
      BY <1>5, <2>2 DEF SettleJob, Owns
    <3> QED BY <1>0, <2>1, <2>2, <3>1, EndSettles
  <2>3. CASE ~Owns
    <3>1. jobs' = jobs /\ run'.pc = "idle" /\ run'.job = 0
      BY <1>5, <2>1, <2>3, FinishRun DEF SettleJob
    <3>2. run.pc \notin StartSteps /\ upload \notin UploadSteps /\ run'.pc \notin JobSteps
      BY <1>0, <3>1, Steps, UploadIsOver
    <3>3. PendingHasAJob'
      BY <2>1, <3>1, <3>2 DEF Settlement, PendingHasAJob, Active
    <3>4. LeasesHold'
      BY <1>0, <2>1, <3>1, <3>2, ShapeFacts DEF Settlement, LeasesHold
    <3>5. OneIsActive' /\ ReadyIsSettled' /\ SettledFirst' /\ CancelledNeverCompletes'
      BY <2>1, <3>1 DEF Settlement, OneIsActive, ReadyIsSettled, SettledFirst,
                        CancelledNeverCompletes, Active, Parsing
    <3> QED BY <3>3, <3>4, <3>5 DEF Settlement
  <2> QED BY <2>2, <2>3
<1> QED BY <1>1, <1>2, <1>3, <1>4, <1>5 DEF JobStep

LEMMA StartSettles ==
    ASSUME Shape, Settlement, StartStep
    PROVE  Settlement'
<1>0. run.pc \in StartSteps /\ upload \notin UploadSteps /\ expired = 0 /\ run.job = 0
  <2>1. run.pc \in StartSteps
    BY DEF StartStep, StartRecover, Reconcile, Requeue, StartSteps
  <2> QED BY <2>1, UploadIsOver, Steps DEF Shape, RowsHang
<1>1. UNCHANGED <<upload, expired, late>>
  BY DEF StartStep, StartRecover, Reconcile, Requeue, Rows, Faults
<1>2. CASE StartRecover
  <2> DEFINE js == {j \in DOMAIN jobs : jobs[j].st = "running"}
  <2>1. js \in SUBSET DOMAIN jobs /\ (\A j \in js : jobs[j].st = "running") /\ Recover(js)
    BY <1>2 DEF StartRecover
  <2>2. run'.pc \in StartSteps /\ run'.job = run.job /\ run.pc \notin JobSteps
    BY <1>0, <1>2, GotoRun, Steps DEF StartRecover, StartSteps
  <2> HIDE DEF js
  <2> QED BY <1>0, <1>1, <2>1, <2>2, RecoverSettles
<1>3. CASE Reconcile
  <2>1. /\ UNCHANGED <<input, jobs>> /\ run'.pc \in StartSteps /\ run'.job = run.job
        /\ run'.pc \notin JobSteps /\ run'.pc = "requeueing"
    BY <1>0, <1>3, GotoRun, Steps DEF Reconcile, Rows, StartSteps
  <2>2. SettledFirst'
    BY <2>1 DEF SettledFirst
  <2>3. LeasesHold'
    BY <1>0, <1>1, <2>1, ShapeFacts DEF Settlement, LeasesHold
  <2> QED BY <1>0, <1>1, <2>1, <2>2, <2>3
          DEF Settlement, OneIsActive, ReadyIsSettled, PendingHasAJob,
              CancelledNeverCompletes, Active, Parsing
<1>4. CASE Requeue
  <2>1. run'.pc = "idle" /\ run'.job = run.job /\ run'.pc \notin JobSteps
    BY <1>0, <1>4, GotoRun, Steps DEF Requeue
  <2>2. PendingHasAJob
    BY DEF Settlement
  <2>3. CASE \/ UNCHANGED <<input, jobs>> /\ (input = "pending" =>
                    \E j \in DOMAIN jobs : Active(j) \/ jobs[j].st = "cancelled")
             \/ input = "pending" /\ input' = "failed" /\ UNCHANGED jobs
    <3>1. SettledFirst'
      BY <2>1 DEF SettledFirst
    <3>2. LeasesHold'
      BY <1>0, <1>1, <2>1, <2>3, ShapeFacts DEF Settlement, LeasesHold
    <3>3. PendingHasAJob'
      BY <2>3 DEF PendingHasAJob, Active
    <3> QED BY <2>3, <3>1, <3>2, <3>3
            DEF Settlement, OneIsActive, ReadyIsSettled, CancelledNeverCompletes, Active, Parsing
  <2>4. CASE input = "pending" /\ jobs = <<>> /\ jobs' = Append(jobs, NewJob) /\ UNCHANGED input
    <3>1. ~Parsing /\ Len(jobs) < MaxJobs
      BY <2>4, ShapeFacts DEF Parsing
    <3> QED BY <1>1, <2>1, <2>4, <3>1, AddedSettles
  <2> QED BY <1>4, <2>2, <2>3, <2>4, RequeueMoves
<1> QED BY <1>2, <1>3, <1>4 DEF StartStep

LEMMA CrashSettles ==
    ASSUME Shape, Settlement, Crash
    PROVE  Settlement'
<1>1. /\ UNCHANGED <<input, jobs, late>> /\ expired' = 0 /\ 0 \notin DOMAIN jobs
      /\ run'.pc = "down" /\ run'.pc \in StartSteps /\ run'.pc \notin JobSteps
  BY CrashShape, Steps, ShapeFacts DEF StartSteps
<1>2. SettledFirst' /\ PendingHasAJob'
  BY <1>1 DEF Settlement, SettledFirst, PendingHasAJob, Active
<1>3. LeasesHold'
  BY <1>1 DEF Settlement, LeasesHold
<1> QED BY <1>1, <1>2, <1>3
        DEF Settlement, OneIsActive, ReadyIsSettled, CancelledNeverCompletes, Active, Parsing

LEMMA DeleteSettles ==
    ASSUME Shape, Settlement, NEW d \in Deletes,
           CheckInput(d) \/ CancelPending(d) \/ DeleteStep(d)
    PROVE  Settlement'
<1>1. CASE CancelPending(d)
  <2>1. /\ Rewritten
        /\ \A j \in DOMAIN jobs :
              IF jobs[j].st = "pending" THEN jobs'[j].st = "cancelled" ELSE jobs'[j] = jobs[j]
    BY <1>1, CancelPendingRows, ShapeFacts
  <2>2. UNCHANGED <<input, run, upload, late, expired>>
    BY <1>1 DEF CancelPending, Faults
  <2> QED BY <2>1, <2>2, CancelledSettles
<1>2. CASE DropRow
  BY <1>2, DroppedSettles
<1>3. CASE UNCHANGED <<input, jobs>> /\ ~CancelPending(d)
  <2>1. UNCHANGED <<input, jobs, run, upload, late, expired>>
    BY <1>3 DEF CheckInput, DeleteStep, CountActive, Tombstone, DeleteInputRow, DeleteDraftRow,
                RestoreTombstone, CommitTombstone, Faults
  <2> QED BY <2>1, SettlementKept
<1> QED BY <1>1, <1>2, <1>3
        DEF CheckInput, DeleteStep, CountActive, Tombstone, DeleteInputRow, DeleteDraftRow,
            RestoreTombstone, CommitTombstone, Rows

LEMMA SettlementStep ==
    ASSUME Shape, Settlement, [Next]_vars
    PROVE  Settlement'
<1>1. CASE UNCHANGED vars
  BY <1>1, SettlementKept DEF vars
<1>2. ASSUME NEW j \in DOMAIN jobs, CancelParse(j)
      PROVE  Settlement'
  <2>1. /\ Rewritten
        /\ jobs'[j].st = IF jobs[j].st = "pending" THEN "cancelled" ELSE "running"
        /\ \A i \in DOMAIN jobs : i # j => jobs'[i] = jobs[i]
    BY <1>2, CancelRows, ShapeFacts
  <2>2. UNCHANGED <<input, run, upload, late, expired>> /\ jobs[j].st \in {"pending", "running"}
    BY <1>2 DEF CancelParse, Active, Faults
  <2> QED BY <2>1, <2>2, CancelledSettles
<1>3. ASSUME NEW j \in DOMAIN jobs, RetryParse(j)
      PROVE  Settlement'
  <2>1. /\ ~Parsing /\ Len(jobs) < MaxJobs /\ jobs' = Append(jobs, NewJob) /\ input' = "pending"
        /\ UNCHANGED <<run, late, expired>>
    BY <1>3 DEF RetryParse, Faults
  <2> QED BY <2>1, JobHasARow, AddedSettles
<1>4. ASSUME NEW j \in DOMAIN jobs, Claim(j) \/ Reclaim(j)
      PROVE  Settlement'
  BY <1>4, ClaimSettles, ReclaimSettles
<1>5. ASSUME NEW d \in Deletes, CheckInput(d) \/ CancelPending(d) \/ DeleteStep(d)
      PROVE  Settlement'
  BY <1>5, DeleteSettles
<1> QED BY <1>1, <1>2, <1>3, <1>4, <1>5, UploadSettles, JobStepSettles, StartSettles,
           CapSettles, CrashSettles DEF Next

\* A parsed input has no job that could be settled, recovered or retried, and
\* the job that the janitor found expired still runs, so it is not this one's.
LEMMA ReadyStays ==
    ASSUME IInv, input = "ready", late = 0, Next
    PROVE  input' \in {"ready", "none"}
<1>0. /\ Shape /\ ~Parsing /\ LeasesHold /\ PendingHasAJob /\ input # "none"
      /\ UploadIsFirst /\ RowsHang
  BY DEF IInv, Shape, Settlement, ReadyIsSettled
<1>1. \A j \in DOMAIN jobs : jobs[j].st \notin {"pending", "running"}
  BY <1>0 DEF Parsing, Active
<1>2. run.pc \notin JobSteps /\ expired = 0 /\ upload \notin UploadSteps
  <2>1. expired <= Len(jobs) /\ run.job <= Len(jobs)
    BY <1>0 DEF RowsHang
  <2>2. expired \notin DOMAIN jobs /\ (run.pc \in JobSteps => run.job \notin DOMAIN jobs)
    BY <1>0, <1>1 DEF LeasesHold
  <2>3. upload \notin UploadSteps
    BY <1>0 DEF UploadIsFirst
  <2> QED BY <1>0, <2>1, <2>2, <2>3, ShapeFacts DEF RowsHang
<1>3. ~UploadStep
  BY <1>2 DEF UploadStep, UploadSteps, Reserve, Finalize, Enqueue, Unlink, Unrow
<1>4. ~JobStep /\ ~SettleAtCap
  BY <1>0, <1>2, JobStepMoves DEF SettleAtCap
<1>5. CASE StartStep
  BY <1>0, <1>5, RequeueMoves DEF StartStep, StartRecover, Recover, Reconcile, Rows
<1>6. ASSUME NEW j \in DOMAIN jobs, CancelParse(j) \/ RetryParse(j) \/ Claim(j) \/ Reclaim(j)
      PROVE  input' \in {"ready", "none"}
  BY <1>1, <1>6 DEF CancelParse, Active, RetryParse, LegalInput, Claim, Reclaim
<1>7. ASSUME NEW d \in Deletes, CheckInput(d) \/ CancelPending(d) \/ DeleteStep(d)
      PROVE  input' \in {"ready", "none"}
  BY <1>7 DEF CheckInput, CancelPending, DeleteStep, CountActive, Tombstone, DeleteInputRow,
              DeleteDraftRow, RestoreTombstone, CommitTombstone, DropRow, Rows
<1>8. CASE Crash
  BY <1>8 DEF Crash, Rows
<1> QED BY <1>3, <1>4, <1>5, <1>6, <1>7, <1>8 DEF Next

-------------------------------------------------------------------------------
(* The theorems.                                                           *)

LEMMA InitHolds == Init => IInv
<1> SUFFICES ASSUME Init
             PROVE  IInv
  OBVIOUS
<1>1. /\ jobs = <<>> /\ DOMAIN jobs = {} /\ Len(jobs) = 0 /\ jobs \in Seq(Job)
      /\ input = "none" /\ draft /\ upload = "staged" /\ run.pc = "idle" /\ run.job = 0
      /\ expired = 0 /\ \A d \in Deletes : del[d] = "due"
  BY NoJobs DEF Init
<1>2. TypeOK
  <2>1. /\ Len(jobs) <= MaxJobs /\ expired \in 0..MaxJobs /\ crashes \in 0..MaxCrashes
        /\ late \in 0..MaxLate
    BY <1>1, BoundAssumption DEF Init
  <2>2. run \in [pc : StartSteps \cup JobSteps \cup {"idle"}, job : 0..MaxJobs]
    BY BoundAssumption DEF Init
  <2>3. upload \in UploadSteps /\ draft \in BOOLEAN
    BY DEF Init, UploadSteps
  <2> QED BY <1>1, <2>1, <2>2, <2>3 DEF Init, TypeOK
<1>3. RowsHang /\ UploadIsFirst
  BY <1>1, Steps DEF RowsHang, UploadIsFirst
<1>4. Settlement
  BY <1>1 DEF Settlement, OneIsActive, ReadyIsSettled, SettledFirst, PendingHasAJob, LeasesHold,
              CancelledNeverCompletes
<1>5. DiscardsAreOwed /\ BytesAreKept
  BY <1>1 DEF DiscardsAreOwed, BytesAreKept
<1> QED BY <1>2, <1>3, <1>4, <1>5 DEF IInv

LEMMA IInvHolds == Spec => []IInv
<1>1. IInv /\ [Next]_vars => IInv'
  BY ShapeStep, SettlementStep, FilesStep DEF IInv, Shape, Settlement, Files
<1> QED BY <1>1, InitHolds, PTL DEF Spec

\* Every variable keeps its type, and an input waits only for its upload, a
\* job, the worker or a start, or for an owner who cancelled its parse
\* (recover_orphaned_parse_jobs, _recover_orphaned_input).
THEOREM WaitsHaveCauses == Spec => []Inv
<1>1. IInv => WaitingHasACause
  <2> SUFFICES ASSUME IInv, input \in {"pending", "parsing"}
               PROVE  \/ upload \in UploadSteps \/ Parsing \/ run.pc # "idle"
                      \/ ParseCancelled \/ Stranded
    BY DEF WaitingHasACause
  <2>1. CASE input = "pending"
    BY <2>1, Steps DEF IInv, Settlement, PendingHasAJob, Parsing, ParseCancelled
  <2>2. CASE input = "parsing" /\ late = 0
    BY <2>2 DEF IInv, Settlement, LeasesHold, Parsing, Active
  <2>3. CASE input = "parsing" /\ late # 0
    BY <2>3, BoundAssumption DEF IInv, TypeOK, Stranded
  <2> QED BY <2>1, <2>2, <2>3
<1>2. IInv => Inv
  BY <1>1 DEF IInv, Inv
<1> QED BY <1>2, IInvHolds, PTL

\* While a row lives its file is in place or in a tombstone, whatever deletes
\* fail or crash on the way (delete_input_row, DraftInputStorage.reconcile).
THEOREM BytesFollowRows == Spec => []RowsKeepTheirBytes
<1>1. IInv => RowsKeepTheirBytes
  BY DEF IInv, BytesAreKept, RowsKeepTheirBytes
<1> QED BY <1>1, IInvHolds, PTL

\* A job whose cancellation was asked for never completes (_commit_success).
THEOREM CancellationsHold == Spec => []CancelledNeverCompletes
<1>1. IInv => CancelledNeverCompletes
  BY DEF IInv, Settlement
<1> QED BY <1>1, IInvHolds, PTL

\* A parsed input stays parsed until it is deleted, as long as no live worker
\* lost its lease (settle_expired_job_at_lease_cap, retry_parse_job, Recover).
THEOREM ParsedInputsStay == Spec => ReadyIsFinal
<1>1. IInv /\ [Next]_vars => [input = "ready" /\ late = 0 => input' \in {"ready", "none"}]_vars
  BY ReadyStays
<1> QED BY <1>1, IInvHolds, PTL DEF Spec, ReadyIsFinal

===============================================================================
