-------------------------- MODULE DraftCompileProofs --------------------------
(***************************************************************************)
(* Proofs about DraftCompile for any number of processors, compile jobs,   *)
(* attempts, retries and faults.                                           *)
(***************************************************************************)
EXTENDS DraftCompile, SequenceTheorems, TLAPS

-------------------------------------------------------------------------------
(* The inductive invariant.                                                *)

\* What a worker carries at its stage: the job, the outcome it settles, the
\* retry it may still schedule, the revision it has stored and its ledger.
HandsFull(w) ==
    /\ run[w].pc \notin {"idle", "down"} => run[w].job \in DOMAIN jobs
    /\ run[w].pc \in {"settling", "moving"} => run[w].goal # "none"
    /\ run[w].pc = "retrying" => jobs[run[w].job].retry < RetryLimit
    /\ run[w].pc \in {"committed", "ledgered"} =>
           run[w].rev \in Revision /\ run[w].rev.job = run[w].job
    /\ run[w].pc = "ledgered" => run[w].rev.ledger

\* What names a job names one that exists.
Shape ==
    /\ TypeOK
    /\ expired <= Len(jobs)
    /\ current.job <= Len(jobs)
    /\ \A w \in Workers : HandsFull(w)

\* A worker that has published, and may still complete its job, has moved the
\* draft out of queued and running, and nothing moves it back meanwhile.
PublishedIsReviewable ==
    \A w \in Workers : run[w].pc = "published" /\ Owns(w) => ~Parked(status)

\* A text that is being written or is current has evidence rows; where its
\* passages are old and not misdated, the rows do show it.
Writing == {"editing", "cleared", "committed", "ledgered"}

RowsShow(j, text) ==
    jobs[j].evidence # "none" /\ (text = "old" => jobs[j].evidence = "stale")

TextsShow ==
    /\ \A w \in Workers : run[w].pc \in Writing => RowsShow(run[w].job, run[w].text)
    /\ current.job > 0 => RowsShow(current.job, current.text)

IInv ==
    /\ Shape
    /\ TextsShow
    /\ PublishedIsComplete
    /\ ReadyIsApproved
    /\ ReadyIsFresh
    /\ PublishedIsReviewable
    /\ ParkedHasAJob

-------------------------------------------------------------------------------
(* Sequences.                                                              *)

LEMMA FunctionIsSeq ==
    ASSUME NEW S, NEW n \in Nat, NEW f \in [1..n -> S]
    PROVE  f \in Seq(S) /\ Len(f) = n
<1>1. f \in Seq(S)
  BY SeqDef
<1>2. DOMAIN f = 1..n /\ DOMAIN f = 1..Len(f) /\ Len(f) \in Nat
  BY <1>1, LenProperties
<1> QED BY <1>1, <1>2

\* A job table with other rows at the same indices
LEMMA ReplacedSeq ==
    ASSUME NEW S, NEW seq \in Seq(S), NEW f \in [DOMAIN seq -> S]
    PROVE  f \in Seq(S) /\ Len(f) = Len(seq) /\ DOMAIN f = DOMAIN seq
<1>1. f \in [1..Len(seq) -> S] /\ Len(seq) \in Nat
  BY LenProperties
<1> QED BY <1>1, FunctionIsSeq, LenProperties

LEMMA AppendedSeq ==
    ASSUME NEW S, NEW seq \in Seq(S), NEW e \in S
    PROVE  /\ Append(seq, e) \in Seq(S) /\ Len(Append(seq, e)) = Len(seq) + 1
           /\ DOMAIN Append(seq, e) = 1..(Len(seq) + 1)
           /\ Append(seq, e)[Len(seq) + 1] = e
           /\ \A i \in 1..Len(seq) : Append(seq, e)[i] = seq[i]
<1>1. /\ Append(seq, e) \in Seq(S) /\ Len(Append(seq, e)) = Len(seq) + 1
      /\ Append(seq, e)[Len(seq) + 1] = e
      /\ \A i \in 1..Len(seq) : Append(seq, e)[i] = seq[i]
  BY AppendProperties
<1> QED BY <1>1, LenProperties

LEMMA JobsTyped ==
    ASSUME TypeOK
    PROVE  /\ Len(jobs) \in 0..MaxJobs /\ DOMAIN jobs = 1..Len(jobs)
           /\ \A j \in DOMAIN jobs : jobs[j] \in Job
BY LenProperties DEF TypeOK

-------------------------------------------------------------------------------
(* Job rows.                                                               *)

LEMMA IdleRow ==
    ASSUME NEW job \in Job, NEW st \in JobStatuses
    PROVE  /\ Idle(job, st) \in Job
           /\ Idle(job, st).st = st /\ Idle(job, st).by = Nobody
           /\ Idle(job, st).retry = job.retry
           /\ Idle(job, st).evidence = job.evidence
BY DEF Idle, Job

LEMMA EndedRow ==
    ASSUME NEW job \in Job, NEW st \in JobStatuses
    PROVE  /\ Ended(job, st) \in Job
           /\ Ended(job, st).st = st /\ Ended(job, st).by = Nobody
           /\ Ended(job, st).retry = job.retry
           /\ Ended(job, st).evidence = job.evidence
<1> DEFINE idle == Idle(job, st)
<1>1. /\ idle \in Job /\ idle.st = st /\ idle.by = Nobody
      /\ idle.retry = job.retry /\ idle.evidence = job.evidence
  BY IdleRow
<1>2. Ended(job, st) = [idle EXCEPT !.tries = 0] /\ 0 \in 0..MaxAttempts
  BY LimitAssumption DEF Ended
<1> HIDE DEF idle
<1> QED BY <1>1, <1>2 DEF Job

\* request_job_cancel sets the flag alone on a running job.
LEMMA FlaggedRow ==
    ASSUME NEW job \in Job
    PROVE  LET flagged == [job EXCEPT !.cancel = TRUE] IN
           /\ flagged \in Job /\ flagged.st = job.st /\ flagged.by = job.by
           /\ flagged.retry = job.retry /\ flagged.evidence = job.evidence
BY DEF Job

LEMMA EvidenceRow ==
    ASSUME NEW job \in Job, NEW e \in {"fresh", "misdated", "stale"}
    PROVE  LET other == [job EXCEPT !.evidence = e] IN
           /\ other \in Job /\ other.st = job.st /\ other.by = job.by
           /\ other.retry = job.retry /\ other.evidence = e
BY DEF Job

LEMMA ClaimedRow ==
    ASSUME NEW job \in Job, NEW w \in Workers
    PROVE  LET claimed == [job EXCEPT !.st = "running", !.by = w,
                              !.tries = IF @ < MaxAttempts THEN @ + 1 ELSE @] IN
           /\ claimed \in Job /\ claimed.st = "running" /\ claimed.by = w
           /\ claimed.retry = job.retry /\ claimed.evidence = job.evidence
<1> DEFINE tries == IF job.tries < MaxAttempts THEN job.tries + 1 ELSE job.tries
<1>1. tries \in 0..MaxAttempts
  BY LimitAssumption DEF Job
<1>2. [job EXCEPT !.st = "running", !.by = w,
                  !.tries = IF @ < MaxAttempts THEN @ + 1 ELSE @]
         = [job EXCEPT !.st = "running", !.by = w, !.tries = tries]
  OBVIOUS
<1> HIDE DEF tries
<1>3. w \in Workers \cup {Nobody} /\ "running" \in JobStatuses
  BY DEF JobStatuses
<1> QED BY <1>1, <1>2, <1>3 DEF Job

LEMMA NewRow ==
    ASSUME NEW retry \in 0..RetryLimit
    PROVE  NewJob(retry) \in Job /\ NewJob(retry).st = "pending"
           /\ NewJob(retry).by = Nobody
BY LimitAssumption DEF NewJob, Job, JobStatuses

\* One row replaced
LEMMA OneRowReplaced ==
    ASSUME TypeOK, NEW j \in DOMAIN jobs, NEW row \in Job,
           jobs' = [jobs EXCEPT ![j] = row]
    PROVE  /\ jobs' \in [DOMAIN jobs -> Job] /\ jobs'[j] = row
           /\ \A i \in DOMAIN jobs : i # j => jobs'[i] = jobs[i]
<1>1. jobs \in [DOMAIN jobs -> Job]
  BY JobsTyped DEF TypeOK
<1> QED BY <1>1

-------------------------------------------------------------------------------
(* What the actions do to the job rows.                                    *)

\* An ended row stays ended, and a running one keeps its owner; only a claim
\* makes a row run.
RowAges(a, b) ==
    /\ b.retry = a.retry
    /\ b.st \in {"pending", "running"} => a.st \in {"pending", "running"}
    /\ b.st = "running" => a.st = "running" /\ b.by = a.by

RowsAge ==
    /\ jobs' \in [DOMAIN jobs -> Job]
    /\ \A j \in DOMAIN jobs : RowAges(jobs[j], jobs'[j])

EvidenceKept == \A j \in DOMAIN jobs : jobs'[j].evidence = jobs[j].evidence

LEMMA SameRows ==
    ASSUME TypeOK, UNCHANGED jobs
    PROVE  RowsAge /\ EvidenceKept
BY JobsTyped DEF TypeOK, RowsAge, RowAges, EvidenceKept

\* A row that ends, or one that only changes its flag
LEMMA OneRowAges ==
    ASSUME TypeOK, NEW j \in DOMAIN jobs, NEW row \in Job, RowAges(jobs[j], row),
           jobs' = [jobs EXCEPT ![j] = row],
           row.evidence = jobs[j].evidence
    PROVE  RowsAge /\ EvidenceKept
<1>1. /\ jobs' \in [DOMAIN jobs -> Job] /\ jobs'[j] = row
      /\ \A i \in DOMAIN jobs : i # j => jobs'[i] = jobs[i]
  BY OneRowReplaced
<1>2. \A i \in DOMAIN jobs : RowAges(jobs[i], jobs'[i])
  BY <1>1 DEF RowAges
<1>3. EvidenceKept
  BY <1>1 DEF EvidenceKept
<1> QED BY <1>1, <1>2, <1>3 DEF RowsAge

LEMMA CancelRows ==
    ASSUME TypeOK, NEW j \in DOMAIN jobs, CancelCompile(j)
    PROVE  /\ RowsAge /\ EvidenceKept
           /\ jobs[j].st = "running" => jobs'[j].st = "running"
<1>0. jobs[j] \in Job
  BY JobsTyped
<1> DEFINE flagged == [jobs[j] EXCEPT !.cancel = TRUE]
<1>1. /\ flagged \in Job /\ flagged.st = jobs[j].st /\ flagged.by = jobs[j].by
      /\ flagged.retry = jobs[j].retry /\ flagged.evidence = jobs[j].evidence
  BY <1>0, FlaggedRow
<1>2. "cancelled" \in JobStatuses
  BY DEF JobStatuses
<1>3. CASE jobs[j].st = "pending"
  <2>1. jobs' = [jobs EXCEPT ![j] = Ended(flagged, "cancelled")]
    BY <1>3 DEF CancelCompile
  <2>2. /\ Ended(flagged, "cancelled") \in Job
        /\ Ended(flagged, "cancelled").st = "cancelled"
        /\ Ended(flagged, "cancelled").retry = jobs[j].retry
        /\ Ended(flagged, "cancelled").evidence = jobs[j].evidence
    BY <1>1, <1>2, EndedRow
  <2>3. RowAges(jobs[j], Ended(flagged, "cancelled"))
    BY <2>2 DEF RowAges
  <2> QED BY <1>3, <2>1, <2>2, <2>3, OneRowAges
<1>4. CASE jobs[j].st # "pending"
  <2>1. jobs' = [jobs EXCEPT ![j] = flagged]
    BY <1>4 DEF CancelCompile
  <2>2. RowAges(jobs[j], flagged)
    BY <1>1 DEF RowAges
  <2>3. jobs'[j] = flagged
    BY <2>1, <1>1, OneRowReplaced
  <2> QED BY <1>1, <2>1, <2>2, <2>3, OneRowAges
<1> QED BY <1>3, <1>4

LEMMA DeleteRows ==
    ASSUME TypeOK, DeleteRefused
    PROVE  RowsAge /\ EvidenceKept
<1> DEFINE row(j) == IF jobs[j].st = "pending"
                     THEN Ended([jobs[j] EXCEPT !.cancel = TRUE], "cancelled") ELSE jobs[j]
<1>1. jobs' = [j \in DOMAIN jobs |-> row(j)]
  BY DEF DeleteRefused
<1>2. ASSUME NEW j \in DOMAIN jobs
      PROVE  /\ row(j) \in Job /\ RowAges(jobs[j], row(j))
             /\ row(j).evidence = jobs[j].evidence
  <2> DEFINE flagged == [jobs[j] EXCEPT !.cancel = TRUE]
  <2>1. jobs[j] \in Job
    BY JobsTyped
  <2>2. /\ flagged \in Job /\ flagged.st = jobs[j].st
        /\ flagged.retry = jobs[j].retry /\ flagged.evidence = jobs[j].evidence
    BY <2>1, FlaggedRow
  <2>3. "cancelled" \in JobStatuses
    BY DEF JobStatuses
  <2>4. /\ Ended(flagged, "cancelled") \in Job
        /\ Ended(flagged, "cancelled").st = "cancelled"
        /\ Ended(flagged, "cancelled").retry = jobs[j].retry
        /\ Ended(flagged, "cancelled").evidence = jobs[j].evidence
    BY <2>2, <2>3, EndedRow
  <2> HIDE DEF flagged
  <2>5. row(j) = IF jobs[j].st = "pending" THEN Ended(flagged, "cancelled") ELSE jobs[j]
    BY DEF flagged
  <2> QED BY <2>1, <2>4, <2>5 DEF RowAges
<1> HIDE DEF row
<1> QED BY <1>1, <1>2 DEF RowsAge, EvidenceKept

\* A change of a source dates every snapshot.
LEMMA SourceRows ==
    ASSUME TypeOK, NEW hooked \in BOOLEAN, SourceChanges(hooked)
    PROVE  /\ RowsAge /\ \A j \in DOMAIN jobs : jobs'[j].st = jobs[j].st
           /\ \A j \in DOMAIN jobs : jobs[j].evidence # "none" => jobs'[j].evidence = "stale"
<1> DEFINE row(j) == IF jobs[j].evidence = "none" THEN jobs[j]
                     ELSE [jobs[j] EXCEPT !.evidence = "stale"]
<1>1. jobs' = [j \in DOMAIN jobs |-> row(j)]
  BY DEF SourceChanges
<1>2. ASSUME NEW j \in DOMAIN jobs
      PROVE  /\ row(j) \in Job /\ RowAges(jobs[j], row(j)) /\ row(j).st = jobs[j].st
             /\ jobs[j].evidence # "none" => row(j).evidence = "stale"
  BY JobsTyped, EvidenceRow DEF RowAges
<1> HIDE DEF row
<1> QED BY <1>1, <1>2 DEF RowsAge

\* The claim is the one step that makes a row run, and it is the claimer's.
LEMMA ClaimRows ==
    ASSUME TypeOK, NEW w \in Workers, NEW j \in DOMAIN jobs, Claim(w, j)
    PROVE  /\ jobs' \in [DOMAIN jobs -> Job] /\ EvidenceKept
           /\ jobs'[j].st = "running" /\ jobs'[j].by = w /\ jobs'[j].retry = jobs[j].retry
           /\ \A i \in DOMAIN jobs : i # j => jobs'[i] = jobs[i]
<1> DEFINE claimed == [jobs[j] EXCEPT !.st = "running", !.by = w,
                          !.tries = IF @ < MaxAttempts THEN @ + 1 ELSE @]
<1>1. /\ claimed \in Job /\ claimed.st = "running" /\ claimed.by = w
      /\ claimed.retry = jobs[j].retry /\ claimed.evidence = jobs[j].evidence
  BY JobsTyped, ClaimedRow
<1>2. jobs' = [jobs EXCEPT ![j] = claimed]
  BY JobsTyped DEF Claim
<1> HIDE DEF claimed
<1>3. /\ jobs' \in [DOMAIN jobs -> Job] /\ jobs'[j] = claimed
      /\ \A i \in DOMAIN jobs : i # j => jobs'[i] = jobs[i]
  BY <1>1, <1>2, OneRowReplaced
<1> QED BY <1>1, <1>3 DEF EvidenceKept

\* A snapshot and an inheritance write the evidence of one job.
LEMMA EvidenceRows ==
    ASSUME TypeOK, NEW j \in DOMAIN jobs, NEW e \in {"fresh", "misdated", "stale"},
           jobs' = [jobs EXCEPT ![j].evidence = e]
    PROVE  /\ RowsAge /\ \A i \in DOMAIN jobs : jobs'[i].st = jobs[i].st
           /\ jobs'[j].evidence = e
           /\ \A i \in DOMAIN jobs : i # j => jobs'[i] = jobs[i]
<1> DEFINE other == [jobs[j] EXCEPT !.evidence = e]
<1>1. /\ other \in Job /\ other.st = jobs[j].st /\ other.by = jobs[j].by
      /\ other.retry = jobs[j].retry /\ other.evidence = e
  BY JobsTyped, EvidenceRow
<1>2. jobs' = [jobs EXCEPT ![j] = other]
  BY JobsTyped
<1> HIDE DEF other
<1>3. /\ jobs' \in [DOMAIN jobs -> Job] /\ jobs'[j] = other
      /\ \A i \in DOMAIN jobs : i # j => jobs'[i] = jobs[i]
  BY <1>1, <1>2, OneRowReplaced
<1>4. \A i \in DOMAIN jobs : RowAges(jobs[i], jobs'[i]) /\ jobs'[i].st = jobs[i].st
  BY <1>1, <1>3 DEF RowAges
<1> QED BY <1>1, <1>3, <1>4 DEF RowsAge

LEMMA InheritRows ==
    ASSUME TypeOK, NEW w \in Workers, run[w].job \in DOMAIN jobs, Inherit(w)
    PROVE  /\ RowsAge /\ \A i \in DOMAIN jobs : jobs'[i].st = jobs[i].st
           /\ jobs[run[w].job].evidence = "none"
           /\ \A i \in DOMAIN jobs : i # run[w].job => jobs'[i] = jobs[i]
<1>1. PICK i \in 1..(run[w].job - 1) :
          /\ jobs[i].evidence # "none"
          /\ jobs' = [jobs EXCEPT ![run[w].job].evidence = jobs[i].evidence]
  BY DEF Inherit
<1>2. i \in DOMAIN jobs
  BY JobsTyped
<1>3. jobs[i].evidence \in {"fresh", "misdated", "stale"}
  BY <1>1, <1>2, JobsTyped DEF Job
<1> QED BY <1>1, <1>3, EvidenceRows DEF Inherit

LEMMA SnapshotRows ==
    ASSUME TypeOK, NEW w \in Workers, run[w].job \in DOMAIN jobs, Snapshot(w)
    PROVE  /\ RowsAge /\ \A i \in DOMAIN jobs : jobs'[i].st = jobs[i].st
           /\ jobs'[run[w].job].evidence # "none"
           /\ \A i \in DOMAIN jobs : i # run[w].job => jobs'[i] = jobs[i]
<1>1. PICK e \in {"fresh", "misdated", "stale"} :
          jobs' = [jobs EXCEPT ![run[w].job].evidence = e]
  BY DEF Snapshot
<1> QED BY <1>1, EvidenceRows

\* Complete, SettleJob and SettleAtCap end one row or none.
LEMMA EndedRows ==
    ASSUME TypeOK, NEW j \in DOMAIN jobs, NEW st \in {"completed", "failed", "cancelled"},
           \/ jobs' = [jobs EXCEPT ![j] = Ended(@, st)]
           \/ UNCHANGED jobs
    PROVE  /\ RowsAge /\ EvidenceKept
           /\ \A i \in DOMAIN jobs : i # j => jobs'[i] = jobs[i]
<1>1. CASE jobs' = [jobs EXCEPT ![j] = Ended(@, st)]
  <2>1. st \in JobStatuses /\ jobs[j] \in Job
    BY JobsTyped DEF JobStatuses
  <2>2. /\ Ended(jobs[j], st) \in Job /\ Ended(jobs[j], st).st = st
        /\ Ended(jobs[j], st).retry = jobs[j].retry
        /\ Ended(jobs[j], st).evidence = jobs[j].evidence
    BY <2>1, EndedRow
  <2>3. jobs' = [jobs EXCEPT ![j] = Ended(jobs[j], st)]
    BY <1>1
  <2>4. RowAges(jobs[j], Ended(jobs[j], st))
    BY <2>2 DEF RowAges
  <2>5. \A i \in DOMAIN jobs : i # j => jobs'[i] = jobs[i]
    BY <2>2, <2>3, OneRowReplaced
  <2> QED BY <2>2, <2>3, <2>4, <2>5, OneRowAges
<1>2. CASE UNCHANGED jobs
  BY <1>2, SameRows
<1> QED BY <1>1, <1>2

LEMMA RecoverRows ==
    ASSUME TypeOK, NEW js \in SUBSET DOMAIN jobs, \A j \in js : jobs[j].st = "running",
           Recover(js)
    PROVE  /\ RowsAge /\ EvidenceKept
           /\ \A j \in DOMAIN jobs \ js : jobs'[j] = jobs[j]
           /\ \A j \in js : ~jobs[j].cancel => jobs'[j].st = "pending"
<1> DEFINE gone == {j \in js : jobs[j].cancel}
           row(j) == IF j \in gone THEN Ended(jobs[j], "cancelled")
                     ELSE IF j \in js THEN Idle(jobs[j], "pending") ELSE jobs[j]
<1>1. jobs' = [j \in DOMAIN jobs |-> row(j)]
  BY DEF Recover
<1>2. ASSUME NEW j \in DOMAIN jobs
      PROVE  /\ row(j) \in Job /\ RowAges(jobs[j], row(j))
             /\ row(j).evidence = jobs[j].evidence
             /\ j \notin js => row(j) = jobs[j]
             /\ j \in js /\ ~jobs[j].cancel => row(j).st = "pending"
  <2>1. jobs[j] \in Job
    BY JobsTyped
  <2>2. "cancelled" \in JobStatuses /\ "pending" \in JobStatuses
    BY DEF JobStatuses
  <2>3. CASE j \in gone
    BY <2>1, <2>2, <2>3, EndedRow DEF RowAges
  <2>4. CASE j \in js /\ j \notin gone
    BY <2>1, <2>2, <2>4, IdleRow DEF RowAges
  <2>5. CASE j \notin js
    BY <2>1, <2>5 DEF RowAges
  <2> QED BY <2>3, <2>4, <2>5
<1> HIDE DEF row
<1> QED BY <1>1, <1>2 DEF RowsAge, EvidenceKept

-------------------------------------------------------------------------------
(* Shape.                                                                  *)

\* The job table only grows, and a job keeps its place and its retry.
JobsGrow ==
    /\ jobs' \in Seq(Job)
    /\ Len(jobs') \in Len(jobs)..MaxJobs
    /\ DOMAIN jobs \subseteq DOMAIN jobs'
    /\ \A j \in DOMAIN jobs : jobs'[j].retry = jobs[j].retry

LEMMA SameLength ==
    ASSUME TypeOK, jobs' \in [DOMAIN jobs -> Job]
    PROVE  /\ jobs' \in Seq(Job) /\ Len(jobs') = Len(jobs) /\ DOMAIN jobs' = DOMAIN jobs
           /\ Len(jobs') \in Len(jobs)..MaxJobs
<1>1. jobs' \in Seq(Job) /\ Len(jobs') = Len(jobs) /\ DOMAIN jobs' = DOMAIN jobs
  BY ReplacedSeq DEF TypeOK
<1> QED BY <1>1, BoundAssumption, JobsTyped

LEMMA AgedRowsGrow ==
    ASSUME TypeOK, RowsAge
    PROVE  JobsGrow
BY SameLength DEF RowsAge, RowAges, JobsGrow

LEMMA AddedRow ==
    ASSUME TypeOK, Len(jobs) < MaxJobs, NEW retry \in 0..RetryLimit,
           jobs' = Append(jobs, NewJob(retry))
    PROVE  /\ JobsGrow /\ DOMAIN jobs' = 1..(Len(jobs) + 1)
           /\ jobs'[Len(jobs) + 1] = NewJob(retry)
           /\ \A j \in DOMAIN jobs : jobs'[j] = jobs[j]
<1>1. NewJob(retry) \in Job
  BY NewRow
<1>2. /\ jobs' \in Seq(Job) /\ Len(jobs') = Len(jobs) + 1
      /\ DOMAIN jobs' = 1..(Len(jobs) + 1)
      /\ jobs'[Len(jobs) + 1] = NewJob(retry)
      /\ \A j \in 1..Len(jobs) : jobs'[j] = jobs[j]
  BY <1>1, AppendedSeq DEF TypeOK
<1>3. Len(jobs) \in 0..MaxJobs /\ DOMAIN jobs = 1..Len(jobs) /\ MaxJobs \in Nat
  BY JobsTyped, BoundAssumption
<1>4. Len(jobs') \in Len(jobs)..MaxJobs
  BY <1>2, <1>3
<1>5. DOMAIN jobs \subseteq DOMAIN jobs'
  BY <1>2, <1>3
<1> QED BY <1>2, <1>3, <1>4, <1>5 DEF JobsGrow

\* A run that stays where it is, though its passages may be dated
SamePlace(v) ==
    /\ run'[v].pc = run[v].pc /\ run'[v].job = run[v].job
    /\ run'[v].rev = run[v].rev /\ run'[v].goal = run[v].goal

LEMMA HandsKept ==
    ASSUME Shape, JobsGrow, NEW v \in Workers, SamePlace(v)
    PROVE  HandsFull(v)'
BY DEF Shape, HandsFull, JobsGrow, SamePlace

LEMMA ShapeAssembled ==
    ASSUME Shape, JobsGrow, run' \in [Workers -> Run],
           \A v \in Workers : run'[v] = run[v] \/ SamePlace(v) \/ HandsFull(v)',
           status' \in DraftStatuses, ready' \in {"none", "current", "superseded"},
           current' \in Revision \cup {NoRevision}, current'.job <= Len(jobs),
           expired' \in 0..Len(jobs), faults' \in 0..MaxFaults,
           cut' \in BOOLEAN
    PROVE  Shape'
<1>1. /\ Len(jobs) \in 0..MaxJobs /\ jobs' \in Seq(Job)
      /\ Len(jobs') \in Len(jobs)..MaxJobs /\ MaxJobs \in Nat
  BY JobsTyped, BoundAssumption DEF Shape, JobsGrow
<1>2. Len(jobs') <= MaxJobs /\ expired' \in 0..MaxJobs /\ expired' <= Len(jobs')
  BY <1>1
<1>3. TypeOK'
  BY <1>1, <1>2 DEF TypeOK
<1>4. current'.job <= Len(jobs')
  <2>1. current'.job \in 0..MaxJobs
    BY <1>1 DEF Revision, NoRevision
  <2> QED BY <2>1, <1>1
<1>5. \A v \in Workers : HandsFull(v)'
  BY HandsKept DEF SamePlace
<1> QED BY <1>2, <1>3, <1>4, <1>5 DEF Shape

LEMMA ShapeFacts ==
    ASSUME Shape
    PROVE  /\ expired \in 0..Len(jobs) /\ current.job \in 0..Len(jobs)
           /\ status \in DraftStatuses /\ ready \in {"none", "current", "superseded"}
           /\ current \in Revision \cup {NoRevision} /\ run \in [Workers -> Run]
           /\ faults \in 0..MaxFaults /\ cut \in BOOLEAN
           /\ TypeOK /\ Len(jobs) \in 0..MaxJobs /\ DOMAIN jobs = 1..Len(jobs)
<1>1. /\ Len(jobs) \in 0..MaxJobs /\ DOMAIN jobs = 1..Len(jobs) /\ MaxJobs \in Nat
  BY JobsTyped, BoundAssumption DEF Shape
<1>2. expired \in 0..MaxJobs /\ current.job \in 0..MaxJobs
  BY <1>1 DEF Shape, TypeOK, Revision, NoRevision
<1> QED BY <1>1, <1>2 DEF Shape, TypeOK

LEMMA NoRevisionIsNone == NoRevision \notin Revision /\ NoRevision.job = 0
BY DEF NoRevision, Revision

LEMMA ManualIsARevision ==
    /\ ManualRevision \in Revision /\ ManualRevision.job = 0
    /\ ManualRevision.ledger /\ ManualRevision # NoRevision
BY BoundAssumption DEF ManualRevision, Revision, NoRevision, Passages

\* The invalidation of a compiled revision
LEMMA InvalidatedRevision ==
    ASSUME Shape, current.job > 0, Invalidate
    PROVE  /\ current \in Revision /\ current' \in Revision
           /\ current'.job = current.job /\ current'.ledger = current.ledger
           /\ current'.fact = "invalidated" /\ current'.text = "none" /\ status' # "ready"
           /\ status' \in {status, "needs_review"} /\ ready' \in {ready, "none"}
           /\ status = "ready" => status' = "needs_review" /\ ready' = "none"
           /\ status # "ready" => UNCHANGED <<status, ready>>
<1>1. current \in Revision
  BY NoRevisionIsNone, ShapeFacts
<1>2. current' = [current EXCEPT !.fact = "invalidated", !.text = "none"]
  BY DEF Invalidate
<1>3. /\ current' \in Revision /\ current'.job = current.job /\ current'.text = "none"
      /\ current'.ledger = current.ledger /\ current'.fact = "invalidated"
  BY <1>1, <1>2 DEF Revision, Passages
<1> QED BY <1>1, <1>3 DEF Invalidate

LEMMA TextTyped ==
    ASSUME Shape
    PROVE  current.text \in Passages /\ \A v \in Workers : run[v].text \in Passages
BY ShapeFacts DEF Revision, NoRevision, Passages, Run

-------------------------------------------------------------------------------
(* What the workers' steps do to their runs.                               *)

Others(w) == \A v \in Workers : v # w => run'[v] = run[v]

LEMMA GotoRun ==
    ASSUME run \in [Workers -> Run], NEW w \in Workers, NEW pc \in Stages, Goto(w, pc)
    PROVE  /\ run' \in [Workers -> Run] /\ Others(w)
           /\ run'[w].pc = pc /\ run'[w].job = run[w].job /\ run'[w].rev = run[w].rev
           /\ run'[w].goal = run[w].goal /\ run'[w].text = run[w].text
BY DEF Goto, Others, Run

LEMMA EnteredRun ==
    ASSUME run \in [Workers -> Run], NEW w \in Workers, NEW pc \in Stages,
           NEW text \in Passages, run' = [run EXCEPT ![w].pc = pc, ![w].text = text]
    PROVE  /\ run' \in [Workers -> Run] /\ Others(w)
           /\ run'[w].pc = pc /\ run'[w].job = run[w].job /\ run'[w].text = text
<1>1. run' = [run EXCEPT ![w] = [run[w] EXCEPT !.pc = pc, !.text = text]]
  OBVIOUS
<1>2. run[w] \in Run /\ [run[w] EXCEPT !.pc = pc, !.text = text] \in Run
  BY DEF Run
<1> QED BY <1>1, <1>2 DEF Others, Run

LEMMA SettlingRun ==
    ASSUME run \in [Workers -> Run], NEW w \in Workers, NEW goal \in {"failed", "cancelled"},
           NEW strict \in BOOLEAN, NEW again \in BOOLEAN, Settling(w, goal, strict, again)
    PROVE  /\ run' \in [Workers -> Run] /\ Others(w)
           /\ run'[w].pc = "settling" /\ run'[w].job = run[w].job
           /\ run'[w].goal = goal
<1> DEFINE settling == [At("settling") EXCEPT !.job = run[w].job, !.goal = goal,
                                             !.strict = strict, !.again = again]
<1>1. run[w] \in Run /\ "settling" \in Stages /\ run[w].job \in 0..MaxJobs
  BY DEF Stages, Run
<1>2. run' = [run EXCEPT ![w] = settling]
  BY DEF Settling
<1>3. settling \in Run /\ settling.pc = "settling" /\ settling.job = run[w].job
      /\ settling.goal = goal
  BY <1>1, BoundAssumption DEF At, Run, Passages
<1> HIDE DEF settling
<1> QED BY <1>1, <1>2, <1>3 DEF Others

LEMMA AtRun ==
    ASSUME NEW pc \in Stages
    PROVE  At(pc) \in Run /\ At(pc).pc = pc
BY BoundAssumption DEF At, Run, Passages

LEMMA RestRun ==
    ASSUME run \in [Workers -> Run], NEW w \in Workers, NEW pc \in {"idle", "down"},
           run' = [run EXCEPT ![w] = At(pc)]
    PROVE  run' \in [Workers -> Run] /\ Others(w) /\ run'[w].pc = pc
<1>1. At(pc) \in Run /\ At(pc).pc = pc
  BY AtRun DEF Stages
<1> QED BY <1>1 DEF Others

LEMMA PublishedRun ==
    ASSUME run \in [Workers -> Run], NEW w \in Workers,
           run' = [run EXCEPT ![w] = [At("published") EXCEPT !.job = run[w].job]]
    PROVE  /\ run' \in [Workers -> Run] /\ Others(w) /\ run'[w].pc = "published"
           /\ run'[w].job = run[w].job
<1> DEFINE published == [At("published") EXCEPT !.job = run[w].job]
<1>1. run[w].job \in 0..MaxJobs /\ "published" \in Stages
  BY DEF Stages, Run
<1>2. published \in Run /\ published.pc = "published" /\ published.job = run[w].job
  BY <1>1, BoundAssumption DEF At, Run, Passages
<1>3. run' = [run EXCEPT ![w] = published]
  OBVIOUS
<1> HIDE DEF published
<1> QED BY <1>2, <1>3 DEF Others

LEMMA MovingRun ==
    ASSUME run \in [Workers -> Run], NEW w \in Workers,
           run' = [run EXCEPT ![w].pc = "moving", ![w].strict = FALSE]
    PROVE  /\ run' \in [Workers -> Run] /\ Others(w) /\ run'[w].pc = "moving"
           /\ run'[w].job = run[w].job /\ run'[w].goal = run[w].goal
<1>1. run[w] \in Run /\ "moving" \in Stages
  BY DEF Stages
<1>2. run' = [run EXCEPT ![w] = [run[w] EXCEPT !.pc = "moving", !.strict = FALSE]]
  OBVIOUS
<1>3. [run[w] EXCEPT !.pc = "moving", !.strict = FALSE] \in Run
  BY <1>1 DEF Run
<1> QED BY <1>1, <1>2, <1>3 DEF Others, Run

-------------------------------------------------------------------------------
(* Shape is inductive.                                                     *)

LEMMA StagesAre ==
    \A pc \in {"idle", "down", "checking", "research", "retrieved",
               "editing", "cleared", "committed", "ledgered", "published", "settling",
               "moving", "retrying"} :
        pc \in Stages
BY DEF Stages

\* A step of a worker that writes only its own run, on one of its stages.

LEMMA OwnRunShape ==
    ASSUME Shape, NEW w \in Workers, run[w].pc \notin {"idle", "down"},
           \/ \E pc \in {"research", "editing", "cleared"} : Goto(w, pc)
           \/ \E goal \in {"failed", "cancelled"}, strict \in BOOLEAN, again \in BOOLEAN :
                 Settling(w, goal, strict, again),
           UNCHANGED <<DraftRow, jobs, expired, Faults>>
    PROVE  Shape' /\ Others(w) /\ run'[w].pc \notin {"published", "moving"}
<1>0. /\ jobs' = jobs /\ status' = status /\ ready' = ready /\ current' = current
      /\ expired' = expired /\ faults' = faults /\ cut' = cut
  BY DEF DraftRow, Faults
<1>1. JobsGrow
  BY <1>0, SameRows, AgedRowsGrow, ShapeFacts
<1>2. run[w].job \in DOMAIN jobs'
  BY <1>0 DEF Shape, HandsFull
<1>3. /\ run' \in [Workers -> Run] /\ Others(w) /\ HandsFull(w)'
      /\ run'[w].pc \notin {"published", "moving"}
  <2>1. CASE \E pc \in {"research", "editing", "cleared"} : Goto(w, pc)
    BY <2>1, <1>2, GotoRun, StagesAre, ShapeFacts DEF HandsFull
  <2>2. CASE \E goal \in {"failed", "cancelled"}, strict \in BOOLEAN, again \in BOOLEAN :
                Settling(w, goal, strict, again)
    BY <2>2, <1>2, SettlingRun, ShapeFacts DEF HandsFull
  <2> QED BY <2>1, <2>2
<1> QED BY <1>0, <1>1, <1>3, ShapeAssembled, ShapeFacts DEF Others

\* The steps that write only the worker's run
Quiet(w) ==
    \/ CheckPermission(w) \/ Retrieve(w) \/ ReuseCheckpoint(w)
    \/ Stumble(w) \/ NoticeLoss(w) \/ ObserveCancel(w)
    \/ Verify(w) \/ Commit(w) \/ WriteLedger(w) \/ Stop(w)

LEMMA QuietShape ==
    ASSUME Shape, NEW w \in Workers, Quiet(w)
    PROVE  /\ Shape' /\ Others(w) /\ run'[w].pc \notin {"published", "moving"}
           /\ run[w].pc # "moving"
           /\ UNCHANGED <<status, ready, current, jobs, cut>>
<1>1. UNCHANGED <<DraftRow, jobs, expired, Faults>> /\ run[w].pc \notin {"idle", "down", "moving"}
  BY DEF Quiet, CheckPermission, Retrieve, ReuseCheckpoint, Stumble, NoticeLoss,
         ObserveCancel, Verify, Commit, WriteLedger, Stop
<1>2. UNCHANGED <<status, ready, current, jobs, expired, faults, cut>>
  BY <1>1 DEF DraftRow, Faults
<1>3. run \in [Workers -> Run] /\ run[w] \in Run /\ JobsGrow
  BY <1>2, SameRows, AgedRowsGrow, ShapeFacts
<1>4. CASE run[w].pc = "cleared" /\ run' = [run EXCEPT ![w].pc = "committed",
                                                       ![w].rev = NewRevision(run[w].job)]
  <2>1. /\ NewRevision(run[w].job) \in Revision
        /\ NewRevision(run[w].job).job = run[w].job
    BY <1>3 DEF NewRevision, Revision, Run, Passages
  <2>2. run' = [run EXCEPT ![w] = [run[w] EXCEPT !.pc = "committed",
                                                 !.rev = NewRevision(run[w].job)]]
    BY <1>4
  <2> HIDE DEF NewRevision
  <2>3. [run[w] EXCEPT !.pc = "committed", !.rev = NewRevision(run[w].job)] \in Run
    BY <1>3, <2>1, StagesAre DEF Run
  <2>4. /\ run' \in [Workers -> Run] /\ Others(w)
        /\ run'[w].pc = "committed" /\ run'[w].job = run[w].job
        /\ run'[w].rev = NewRevision(run[w].job)
    BY <1>3, <2>2, <2>3 DEF Others, Run
  <2>5. run[w].job \in DOMAIN jobs'
    BY <1>2, <1>4 DEF Shape, HandsFull
  <2>6. HandsFull(w)'
    BY <2>1, <2>4, <2>5 DEF HandsFull
  <2> QED BY <1>1, <1>2, <1>3, <2>4, <2>6, ShapeAssembled, ShapeFacts DEF Others
<1>5. CASE run[w].pc = "committed" /\ run' = [run EXCEPT ![w].pc = "ledgered",
                                                         ![w].rev.ledger = TRUE]
  <2>1. run[w].rev \in Revision /\ run[w].rev.job = run[w].job /\ run[w].job \in DOMAIN jobs
    BY <1>5 DEF Shape, HandsFull
  <2> DEFINE rev == [run[w].rev EXCEPT !.ledger = TRUE]
  <2>2. rev \in Revision /\ rev.job = run[w].job /\ rev.ledger
    BY <2>1 DEF Revision
  <2>3. run' = [run EXCEPT ![w] = [run[w] EXCEPT !.pc = "ledgered", !.rev = rev]]
    BY <1>3, <1>5
  <2> HIDE DEF rev
  <2>4. [run[w] EXCEPT !.pc = "ledgered", !.rev = rev] \in Run
    BY <1>3, <2>2, StagesAre DEF Run
  <2>5. /\ run' \in [Workers -> Run] /\ Others(w)
        /\ run'[w].pc = "ledgered" /\ run'[w].job = run[w].job /\ run'[w].rev = rev
    BY <1>3, <2>3, <2>4 DEF Others, Run
  <2>6. HandsFull(w)'
    BY <1>2, <2>1, <2>2, <2>5 DEF HandsFull
  <2> QED BY <1>1, <1>2, <1>3, <2>5, <2>6, ShapeAssembled, ShapeFacts DEF Others
<1>6. CASE \/ \E pc \in {"research", "editing", "cleared"} : Goto(w, pc)
           \/ \E goal \in {"failed", "cancelled"}, strict \in BOOLEAN, again \in BOOLEAN :
                 Settling(w, goal, strict, again)
  BY <1>1, <1>2, <1>6, OwnRunShape
<1>8. CASE \E pc \in {"retrieved", "editing"}, text \in Passages :
              run' = [run EXCEPT ![w].pc = pc, ![w].text = text]
  <2> PICK pc \in {"retrieved", "editing"}, text \in Passages :
              run' = [run EXCEPT ![w].pc = pc, ![w].text = text]
    BY <1>8
  <2>1. /\ run' \in [Workers -> Run] /\ Others(w)
        /\ run'[w].pc = pc /\ run'[w].job = run[w].job
    BY <1>3, EnteredRun, StagesAre
  <2>2. run[w].job \in DOMAIN jobs'
    BY <1>1, <1>2 DEF Shape, HandsFull
  <2>3. HandsFull(w)'
    BY <2>1, <2>2 DEF HandsFull
  <2> QED BY <1>1, <1>2, <1>3, <2>1, <2>3, ShapeAssembled, ShapeFacts DEF Others
<1>7. \/ \E pc \in {"research", "editing", "cleared"} : Goto(w, pc)
      \/ \E goal \in {"failed", "cancelled"}, strict \in BOOLEAN, again \in BOOLEAN :
            Settling(w, goal, strict, again)
      \/ run[w].pc = "cleared" /\ run' = [run EXCEPT ![w].pc = "committed",
                                                     ![w].rev = NewRevision(run[w].job)]
      \/ run[w].pc = "committed" /\ run' = [run EXCEPT ![w].pc = "ledgered",
                                                       ![w].rev.ledger = TRUE]
      \/ \E pc \in {"retrieved", "editing"}, text \in Passages :
            run' = [run EXCEPT ![w].pc = pc, ![w].text = text]
  <2>1. CASE CheckPermission(w) \/ Stumble(w)
    BY <2>1 DEF CheckPermission, Stumble
  <2>2. CASE NoticeLoss(w) \/ ObserveCancel(w)
    BY <2>2 DEF NoticeLoss, ObserveCancel
  <2>3. CASE Verify(w) \/ Stop(w)
    BY <2>3 DEF Verify, Stop
  <2>4. CASE Commit(w) \/ WriteLedger(w)
    BY <2>4 DEF Commit, WriteLedger
  <2>5. CASE Retrieve(w) \/ ReuseCheckpoint(w)
    BY <2>5 DEF Retrieve, ReuseCheckpoint, Passages
  <2> QED BY <2>1, <2>2, <2>3, <2>4, <2>5 DEF Quiet
<1> QED BY <1>4, <1>5, <1>6, <1>7, <1>8

\* A step of the owner, of the vault or of the janitor: no run changes.
LEMMA RowsShape ==
    ASSUME Shape, JobsGrow, UNCHANGED run,
           status' \in DraftStatuses, ready' \in {"none", "current", "superseded"},
           current' \in Revision \cup {NoRevision}, current'.job <= Len(jobs),
           expired' \in 0..Len(jobs), faults' \in 0..MaxFaults,
           cut' \in BOOLEAN
    PROVE  Shape'
BY ShapeAssembled, ShapeFacts

LEMMA StatusesAre ==
    \A st \in {"draft", "queued", "running", "needs_review", "ready",
               "failed", "cancelled", "archived"} : st \in DraftStatuses
BY DEF DraftStatuses

LEMMA OwnerShape ==
    ASSUME Shape,
           RequestCompile \/ EditByHand \/ MarkReady \/ Archive \/ Restore
           \/ ChangeMaterial \/ DeleteRefused
    PROVE  Shape'
<1>1. CASE RequestCompile
  <2>1. JobsGrow
    BY <1>1, AddedRow, LimitAssumption, ShapeFacts DEF RequestCompile
  <2> QED BY <1>1, <2>1, RowsShape, ShapeFacts, StatusesAre DEF RequestCompile, Faults
<1>2. CASE EditByHand
  <2>1. JobsGrow
    BY <1>2, SameRows, AgedRowsGrow, ShapeFacts DEF EditByHand
  <2>2. current'.job <= Len(jobs) /\ current' \in Revision
    BY <1>2, ManualIsARevision, ShapeFacts DEF EditByHand
  <2> QED BY <1>2, <2>1, <2>2, RowsShape, ShapeFacts, StatusesAre DEF EditByHand, Faults
<1>3. CASE MarkReady
  <2>1. JobsGrow
    BY <1>3, SameRows, AgedRowsGrow, ShapeFacts DEF MarkReady
  <2>2. CASE Stale(current)
    <3>1. current.job > 0 /\ Invalidate /\ UNCHANGED <<expired, faults, cut, run>>
      BY <1>3, <2>2 DEF MarkReady, Approvable, Faults
    <3>2. /\ current' \in Revision /\ current'.job = current.job
          /\ status' \in {status, "needs_review"} /\ ready' \in {ready, "none"}
      BY <3>1, InvalidatedRevision
    <3> QED BY <2>1, <3>1, <3>2, RowsShape, ShapeFacts, StatusesAre
  <2>3. CASE ~Stale(current)
    <3>1. /\ status' = "ready" /\ ready' = "current"
          /\ UNCHANGED <<current, expired, faults, cut, run>>
      BY <1>3, <2>3 DEF MarkReady, Faults
    <3>2. /\ status' \in DraftStatuses /\ ready' \in {"none", "current", "superseded"}
      BY <3>1, StatusesAre
    <3>3. /\ current' \in Revision \cup {NoRevision} /\ current'.job <= Len(jobs)
          /\ expired' \in 0..Len(jobs) /\ faults' \in 0..MaxFaults /\ cut' \in BOOLEAN
      BY <3>1, ShapeFacts
    <3> QED BY <2>1, <3>1, <3>2, <3>3, RowsShape
  <2> QED BY <2>2, <2>3
<1>4. CASE Archive \/ Restore \/ ChangeMaterial
  <2>1. JobsGrow
    BY <1>4, SameRows, AgedRowsGrow, ShapeFacts DEF Archive, Restore, ChangeMaterial
  <2> QED BY <1>4, <2>1, RowsShape, ShapeFacts, StatusesAre
          DEF Archive, Restore, ChangeMaterial, Faults
<1>5. CASE DeleteRefused
  <2>1. JobsGrow
    BY <1>5, DeleteRows, AgedRowsGrow, ShapeFacts
  <2>2. cut' \in BOOLEAN
    BY <1>5, ShapeFacts DEF DeleteRefused, Parked
  <2> QED BY <1>5, <2>1, <2>2, RowsShape, ShapeFacts DEF DeleteRefused
<1> QED BY <1>1, <1>2, <1>3, <1>4, <1>5

\* A change takes the fact check back, or only dates the passages.
LEMMA SourceRevision ==
    ASSUME Shape, NEW hooked \in BOOLEAN, SourceChanges(hooked)
    PROVE  \/ hooked /\ current.job > 0 /\ Invalidate
           \/ /\ ~(hooked /\ current.job > 0) /\ UNCHANGED <<status, ready>>
              /\ current' \in Revision \cup {NoRevision} /\ current'.job = current.job
              /\ current'.ledger = current.ledger /\ current'.fact = current.fact
              /\ current \in Revision => current' \in Revision
              /\ current \notin Revision => current' = current
              /\ current'.text = Aged(current.text, IF status = "ready" THEN "untold" ELSE "old")
<1> DEFINE text == Aged(current.text, IF status = "ready" THEN "untold" ELSE "old")
<1>1. text \in Passages
  BY TextTyped DEF Aged, Passages
<1>2. CASE ~(hooked /\ current.job > 0)
  <2>1. current' = [current EXCEPT !.text = text] /\ UNCHANGED <<status, ready>>
    BY <1>2 DEF SourceChanges
  <2> HIDE DEF text
  <2>2. CASE current \in Revision
    BY <1>1, <1>2, <2>1, <2>2 DEF Revision, text
  <2>3. CASE current = NoRevision
    <3>1. text = current.text
      BY <2>3 DEF text, Aged, NoRevision
    <3>2. current' = current
      BY <2>1, <2>3, <3>1 DEF NoRevision
    <3> QED BY <1>2, <2>1, <3>1, <3>2, <2>3, NoRevisionIsNone DEF text
  <2> QED BY <2>2, <2>3, ShapeFacts
<1> QED BY <1>2 DEF SourceChanges

LEMMA SourceRuns ==
    ASSUME Shape, NEW hooked \in BOOLEAN, SourceChanges(hooked)
    PROVE  /\ run' \in [Workers -> Run]
           /\ \A v \in Workers : SamePlace(v) /\ run'[v].text = Aged(run[v].text, "old")
<1>1. run' = [v \in Workers |-> [run[v] EXCEPT !.text = Aged(@, "old")]]
  BY DEF SourceChanges
<1>2. ASSUME NEW v \in Workers
      PROVE  /\ run'[v] \in Run /\ SamePlace(v)
             /\ run'[v].text = Aged(run[v].text, "old")
  <2>1. run[v] \in Run /\ Aged(run[v].text, "old") \in Passages
    BY TextTyped, ShapeFacts DEF Aged, Passages
  <2>2. run'[v] = [run[v] EXCEPT !.text = Aged(run[v].text, "old")]
    BY <1>1
  <2> QED BY <2>1, <2>2 DEF SamePlace, Run
<1> QED BY <1>1, <1>2

LEMMA ElsewhereShape ==
    ASSUME Shape,
           \/ \E hooked \in BOOLEAN : SourceChanges(hooked)
           \/ \E j \in DOMAIN jobs : CancelCompile(j) \/ Reclaim(j)
           \/ SettleAtCap
    PROVE  Shape'
<1>1. CASE \E hooked \in BOOLEAN : SourceChanges(hooked)
  <2> PICK hooked \in BOOLEAN : SourceChanges(hooked)
    BY <1>1
  <2>1. JobsGrow
    BY SourceRows, AgedRowsGrow, ShapeFacts
  <2>2. /\ current' \in Revision \cup {NoRevision} /\ current'.job = current.job
        /\ status' \in {status, "needs_review"} /\ ready' \in {ready, "none"}
    BY SourceRevision, InvalidatedRevision, ShapeFacts
  <2>3. run' \in [Workers -> Run] /\ \A v \in Workers : SamePlace(v)
    BY SourceRuns, ShapeFacts
  <2>4. UNCHANGED <<expired, faults, cut>>
    BY DEF SourceChanges, Faults
  <2> QED BY <2>1, <2>2, <2>3, <2>4, ShapeAssembled, ShapeFacts, StatusesAre
<1>2. CASE \E j \in DOMAIN jobs : CancelCompile(j)
  <2> PICK j \in DOMAIN jobs : CancelCompile(j)
    BY <1>2
  <2>1. JobsGrow
    BY CancelRows, AgedRowsGrow, ShapeFacts
  <2>2. status' \in {status, "cancelled"}
    BY DEF CancelCompile
  <2>3. UNCHANGED <<ready, current, run, expired, faults, cut>>
    BY DEF CancelCompile, Faults
  <2> QED BY <2>1, <2>2, <2>3, RowsShape, ShapeFacts, StatusesAre
<1>3. CASE \E j \in DOMAIN jobs : Reclaim(j)
  <2> PICK j \in DOMAIN jobs : Reclaim(j)
    BY <1>3
  <2>1. UNCHANGED <<ready, current, run, cut>> /\ faults' \in 0..MaxFaults
    <3>1. faults' = faults \/ (faults < MaxFaults /\ faults' = faults + 1)
      BY DEF Reclaim, Lapse
    <3> QED BY <3>1, BoundAssumption, ShapeFacts DEF Reclaim
  <2>2. JobsGrow /\ status' \in {status, "queued", "cancelled"} /\ expired' \in 0..Len(jobs)
    <3>1. CASE jobs[j].tries >= MaxAttempts
      BY <3>1, SameRows, AgedRowsGrow, ShapeFacts DEF Reclaim
    <3>2. CASE ~(jobs[j].tries >= MaxAttempts)
      <4>1. Recover({j}) /\ expired' = expired /\ jobs[j].st = "running"
        BY <3>2 DEF Reclaim
      <4>2. {j} \in SUBSET DOMAIN jobs /\ \A i \in {j} : jobs[i].st = "running"
        BY <4>1
      <4>3. JobsGrow
        BY <4>1, <4>2, RecoverRows, AgedRowsGrow, ShapeFacts
      <4>4. status' \in {status, "queued", "cancelled"}
        BY <4>1 DEF Recover
      <4> QED BY <4>1, <4>3, <4>4, ShapeFacts
    <3> QED BY <3>1, <3>2
  <2> QED BY <2>1, <2>2, RowsShape, ShapeFacts, StatusesAre
<1>4. CASE SettleAtCap
  <2>1. expired \in DOMAIN jobs
    BY <1>4, ShapeFacts DEF SettleAtCap
  <2>2. JobsGrow
    BY <1>4, <2>1, EndedRows, AgedRowsGrow, ShapeFacts DEF SettleAtCap
  <2>3. status' \in {status, "failed"} /\ expired' \in 0..Len(jobs)
    BY <1>4, ShapeFacts DEF SettleAtCap
  <2>4. UNCHANGED <<ready, current, run, faults, cut>>
    BY <1>4 DEF SettleAtCap, Faults
  <2> QED BY <2>2, <2>3, <2>4, RowsShape, ShapeFacts, StatusesAre
<1> QED BY <1>1, <1>2, <1>3, <1>4

\* The steps of a worker that write more than its run
LEMMA ClaimShape ==
    ASSUME Shape, NEW w \in Workers, NEW j \in DOMAIN jobs, Claim(w, j)
    PROVE  Shape' /\ Others(w) /\ run'[w].pc = "checking"
<1>1. JobsGrow /\ j \in DOMAIN jobs'
  BY ClaimRows, SameLength, ShapeFacts DEF JobsGrow
<1>2. /\ run' \in [Workers -> Run] /\ Others(w) /\ run'[w].pc = "checking" /\ run'[w].job = j
  <2>1. At("checking") \in Run /\ At("checking").pc = "checking" /\ j \in 0..MaxJobs
    BY AtRun, StagesAre, JobsTyped, BoundAssumption, ShapeFacts
  <2>2. run' = [run EXCEPT ![w] = [At("checking") EXCEPT !.job = j]]
    BY DEF Claim
  <2> QED BY <2>1, <2>2, ShapeFacts DEF Others, Run
<1>3. HandsFull(w)'
  BY <1>1, <1>2 DEF HandsFull
<1>4. status' \in {status, "running"} /\ UNCHANGED <<ready, current, expired, faults, cut>>
  BY DEF Claim, Faults
<1> QED BY <1>1, <1>2, <1>3, <1>4, ShapeAssembled, ShapeFacts, StatusesAre DEF Others

LEMMA InheritShape ==
    ASSUME Shape, NEW w \in Workers, Inherit(w)
    PROVE  /\ Shape' /\ run[w].job \in DOMAIN jobs
           /\ UNCHANGED <<status, ready, current, run, cut>>
<1>0. run[w].job \in DOMAIN jobs
  BY DEF Shape, HandsFull, Inherit
<1>1. JobsGrow
  BY <1>0, InheritRows, AgedRowsGrow, ShapeFacts
<1>2. UNCHANGED <<status, ready, current, run, expired, faults, cut>>
  BY DEF Inherit, DraftRow, Faults
<1> QED BY <1>0, <1>1, <1>2, RowsShape, ShapeFacts

\* A snapshot dates the passages of its own attempt, and of others of its job.
LEMMA SnapshotRuns ==
    ASSUME Shape, NEW w \in Workers, Snapshot(w)
    PROVE  /\ run' \in [Workers -> Run] /\ run[w].pc = "retrieved" /\ run'[w].pc = "editing"
           /\ run'[w].job = run[w].job
           /\ \A v \in Workers : v # w => SamePlace(v)
           /\ \A v \in Workers : run'[v].text \in {run[v].text, "misdated"}
           /\ \/ jobs' = [jobs EXCEPT ![run[w].job].evidence = "stale"]
              \/ \A v \in Workers : run[v].job = run[w].job /\ run'[v].pc \in Writing =>
                     run'[v].text # "old"
<1>0. run[w].pc = "retrieved" /\ "editing" \in Stages
  BY StagesAre DEF Snapshot
<1> DEFINE next == [run EXCEPT ![w].pc = "editing"]
<1>1. /\ next \in [Workers -> Run] /\ next[w].pc = "editing"
      /\ \A v \in Workers : /\ next[v].job = run[v].job /\ next[v].text = run[v].text
                            /\ next[v].rev = run[v].rev /\ next[v].goal = run[v].goal
                            /\ v # w => next[v].pc = run[v].pc
  BY <1>0, ShapeFacts DEF Run
<1> DEFINE redated(v) == next[v].job = run[w].job /\ next[v].pc # "retrieved"
           row(v) == IF redated(v) THEN [next[v] EXCEPT !.text = Redated(@)] ELSE next[v]
<1>2. \/ /\ jobs' = [jobs EXCEPT ![run[w].job].evidence = "stale"] /\ run' = next
      \/ run' = [v \in Workers |-> row(v)]
  BY DEF Snapshot
<1> HIDE DEF next
<1>3. ASSUME NEW v \in Workers
      PROVE  /\ row(v) \in Run
             /\ row(v).job = next[v].job /\ row(v).pc = next[v].pc
             /\ row(v).rev = next[v].rev /\ row(v).goal = next[v].goal
             /\ row(v).text \in {next[v].text, "misdated"}
             /\ redated(v) => row(v).text # "old"
  <2>1. next[v] \in Run /\ Redated(next[v].text) \in Passages
    BY <1>1 DEF Redated, Passages, Run
  <2>2. Redated(next[v].text) \in {next[v].text, "misdated"} /\ Redated(next[v].text) # "old"
    BY DEF Redated
  <2>3. CASE redated(v)
    <3>1. row(v) = [next[v] EXCEPT !.text = Redated(next[v].text)]
      BY <2>3
    <3> HIDE DEF row, redated
    <3> QED BY <2>1, <2>2, <3>1 DEF Run
  <2>4. CASE ~redated(v)
    BY <2>1, <2>4
  <2> QED BY <2>3, <2>4
<1> HIDE DEF row
<1>4. CASE jobs' = [jobs EXCEPT ![run[w].job].evidence = "stale"] /\ run' = next
  BY <1>0, <1>1, <1>4 DEF SamePlace
<1>5. CASE run' = [v \in Workers |-> row(v)]
  <2>1. \A v \in Workers : run'[v] = row(v)
    BY <1>5
  <2>2. run' \in [Workers -> Run]
    BY <1>3, <1>5
  <2>3. \A v \in Workers : run[v].job = run[w].job /\ run'[v].pc \in Writing =>
            run'[v].text # "old"
    BY <1>1, <1>3, <2>1 DEF Writing
  <2> HIDE DEF redated
  <2>4. \A v \in Workers : run'[v].text \in {run[v].text, "misdated"}
    BY <1>1, <1>3, <2>1
  <2> QED BY <1>0, <1>1, <1>3, <2>1, <2>2, <2>3, <2>4 DEF SamePlace
<1> QED BY <1>2, <1>4, <1>5

LEMMA SnapshotRevision ==
    ASSUME Shape, NEW w \in Workers, run[w].job \in DOMAIN jobs, Snapshot(w)
    PROVE  /\ current' \in Revision \cup {NoRevision} /\ current'.job = current.job
           /\ current'.ledger = current.ledger /\ current'.fact = current.fact
           /\ current'.text \in {current.text, "misdated"}
           /\ current \in Revision => current' \in Revision
           /\ current \notin Revision => current' = current
           /\ \/ jobs' = [jobs EXCEPT ![run[w].job].evidence = "stale"]
              \/ current.job = run[w].job => current'.text # "old"
<1>1. CASE current' = current /\ (jobs' = [jobs EXCEPT ![run[w].job].evidence = "stale"]
                                  \/ current.job # run[w].job)
  BY <1>1, ShapeFacts
<1>2. CASE current.job = run[w].job /\ current' = [current EXCEPT !.text = Redated(@)]
  <2>1. current \in Revision
    BY <1>2, NoRevisionIsNone, ShapeFacts
  <2>2. /\ Redated(current.text) \in Passages \cap {current.text, "misdated"}
        /\ Redated(current.text) # "old"
    BY TextTyped DEF Redated, Passages
  <2>3. current' = [current EXCEPT !.text = Redated(current.text)]
    BY <1>2
  <2> QED BY <2>1, <2>2, <2>3 DEF Revision
<1> QED BY <1>1, <1>2 DEF Snapshot

LEMMA SnapshotShape ==
    ASSUME Shape, NEW w \in Workers, Snapshot(w)
    PROVE  Shape' /\ run[w].job \in DOMAIN jobs /\ UNCHANGED <<status, ready, cut>>
<1>0. run[w].job \in DOMAIN jobs
  BY DEF Shape, HandsFull, Snapshot
<1>1. JobsGrow
  BY <1>0, SnapshotRows, AgedRowsGrow, ShapeFacts
<1>2. HandsFull(w)'
  BY <1>0, <1>1, SnapshotRuns DEF HandsFull, JobsGrow
<1>3. UNCHANGED <<status, ready, expired, faults, cut>>
  BY DEF Snapshot, Faults
<1>4. current' \in Revision \cup {NoRevision} /\ current'.job <= Len(jobs)
  <2>1. current' \in Revision \cup {NoRevision} /\ current'.job = current.job
    BY <1>0, SnapshotRevision
  <2> QED BY <2>1, ShapeFacts
<1> QED BY <1>0, <1>1, <1>2, <1>3, <1>4, SnapshotRuns, ShapeAssembled, ShapeFacts

\* The published revision has its ledger and names the worker's job.
LEMMA PublishShape ==
    ASSUME Shape, NEW w \in Workers, Publish(w)
    PROVE  /\ Shape' /\ Others(w) /\ run'[w].pc = "published"
           /\ current' \in Revision /\ current'.ledger /\ current'.job = run[w].job
           /\ current'.text = run[w].text
<1>1. JobsGrow
  BY SameRows, AgedRowsGrow, ShapeFacts DEF Publish
<1>2. /\ run[w].rev \in Revision /\ run[w].rev.job = run[w].job
      /\ run[w].job \in DOMAIN jobs /\ run[w].rev.ledger
  BY DEF Shape, HandsFull, Publish
<1>3. /\ run' \in [Workers -> Run] /\ Others(w) /\ run'[w].pc = "published"
      /\ run'[w].job = run[w].job
  BY PublishedRun, ShapeFacts DEF Publish
<1>4. HandsFull(w)'
  BY <1>1, <1>2, <1>3 DEF HandsFull, JobsGrow
<1>5. /\ UNCHANGED <<expired, faults, cut>> /\ status' = "needs_review" /\ ready' = "none"
  BY DEF Publish, Faults
<1>6. /\ current' \in Revision /\ current'.job = run[w].job /\ current'.ledger
      /\ current'.text = run[w].text
  <2>1. current' = [run[w].rev EXCEPT !.text = run[w].text] /\ run[w].text \in Passages
    BY TextTyped DEF Publish
  <2> QED BY <1>2, <2>1 DEF Revision
<1>7. current'.job <= Len(jobs)
  BY <1>2, <1>6, ShapeFacts
<1> QED BY <1>1, <1>2, <1>3, <1>4, <1>5, <1>6, <1>7, ShapeAssembled, ShapeFacts, StatusesAre
        DEF Others

LEMMA CompleteShape ==
    ASSUME Shape, NEW w \in Workers, Complete(w)
    PROVE  /\ Shape' /\ RowsAge /\ EvidenceKept /\ Others(w)
           /\ run[w].pc = "published" /\ run'[w].pc = "idle"
           /\ UNCHANGED <<status, ready, current, cut>>
           /\ run[w].job \in DOMAIN jobs
           /\ \A i \in DOMAIN jobs : i # run[w].job => jobs'[i] = jobs[i]
           /\ ~Owns(w) => UNCHANGED jobs
<1>0. run[w].job \in DOMAIN jobs /\ run[w].pc = "published"
  BY DEF Shape, HandsFull, Complete
<1>1. /\ RowsAge /\ EvidenceKept
      /\ \A i \in DOMAIN jobs : i # run[w].job => jobs'[i] = jobs[i]
  BY <1>0, EndedRows, ShapeFacts DEF Complete
<1>2. JobsGrow
  BY <1>1, AgedRowsGrow, ShapeFacts
<1>3. run' \in [Workers -> Run] /\ Others(w) /\ run'[w].pc = "idle"
  BY RestRun, ShapeFacts DEF Complete, Finish
<1>4. HandsFull(w)'
  BY <1>3 DEF HandsFull
<1>5. UNCHANGED <<status, ready, current, expired, faults, cut>>
  BY DEF Complete, DraftRow, Faults
<1>6. ~Owns(w) => UNCHANGED jobs
  BY DEF Complete, Verdict
<1> QED BY <1>0, <1>1, <1>2, <1>3, <1>4, <1>5, <1>6, ShapeAssembled, ShapeFacts DEF Others

LEMMA SettleShape ==
    ASSUME Shape, NEW w \in Workers, SettleJob(w)
    PROVE  /\ Shape' /\ RowsAge /\ EvidenceKept /\ Others(w)
           /\ run[w].pc = "settling" /\ run'[w].pc \in {"idle", "moving"}
           /\ UNCHANGED <<status, ready, current, cut>>
           /\ run'[w].pc = "moving" \/ UNCHANGED jobs
<1>0. /\ run[w].job \in DOMAIN jobs /\ run[w].goal \in {"failed", "cancelled"}
      /\ run[w].pc = "settling"
  <2>1. run[w] \in Run
    BY ShapeFacts
  <2> QED BY <2>1 DEF Shape, HandsFull, SettleJob, Run
<1>1. RowsAge /\ EvidenceKept
  <2>1. \/ jobs' = [jobs EXCEPT ![run[w].job] = Ended(@, run[w].goal)]
        \/ UNCHANGED jobs
    BY DEF SettleJob
  <2> QED BY <1>0, <2>1, EndedRows, ShapeFacts
<1>2. JobsGrow
  BY <1>1, AgedRowsGrow, ShapeFacts
<1>3. /\ run' \in [Workers -> Run] /\ Others(w) /\ HandsFull(w)'
      /\ run'[w].pc \in {"idle", "moving"}
      /\ run'[w].pc = "moving" \/ Verdict(w, run[w].goal) = "lost"
  <2>1. CASE Finish(w) /\ Verdict(w, run[w].goal) = "lost"
    BY <2>1, RestRun, ShapeFacts DEF Finish, HandsFull
  <2>2. CASE run' = [run EXCEPT ![w].pc = "moving", ![w].strict = FALSE]
    <3>1. /\ run' \in [Workers -> Run] /\ Others(w) /\ run'[w].pc = "moving"
          /\ run'[w].job = run[w].job /\ run'[w].goal = run[w].goal
      BY <2>2, MovingRun, ShapeFacts
    <3>2. HandsFull(w)'
      BY <1>0, <1>2, <3>1 DEF HandsFull, JobsGrow
    <3> QED BY <3>1, <3>2
  <2> QED BY <2>1, <2>2 DEF SettleJob
<1>4. UNCHANGED <<status, ready, current, expired, faults, cut>>
  BY DEF SettleJob, DraftRow, Faults
<1>5. Verdict(w, run[w].goal) = "lost" => UNCHANGED jobs
  BY DEF SettleJob
<1> QED BY <1>0, <1>1, <1>2, <1>3, <1>4, <1>5, ShapeAssembled, ShapeFacts DEF Others

LEMMA MoveShape ==
    ASSUME Shape, NEW w \in Workers, MoveDraft(w)
    PROVE  /\ Shape' /\ Others(w) /\ run'[w].pc \in {"idle", "retrying"}
           /\ status' \in {status, "failed", "cancelled"} /\ ~Parked(status')
           /\ ~Parked(status) => UNCHANGED status
           /\ UNCHANGED <<ready, current, jobs, cut>>
<1>0. run[w].job \in DOMAIN jobs /\ run[w].goal \in {"failed", "cancelled"}
  <2>1. run[w] \in Run
    BY ShapeFacts
  <2> QED BY <2>1 DEF Shape, HandsFull, MoveDraft, Run
<1>1. UNCHANGED <<ready, current, jobs, expired, faults, cut>>
  BY DEF MoveDraft, Faults
<1>2. JobsGrow
  BY <1>1, SameRows, AgedRowsGrow, ShapeFacts
<1>3. /\ run' \in [Workers -> Run] /\ Others(w) /\ HandsFull(w)'
      /\ run'[w].pc \in {"idle", "retrying"}
  <2>1. CASE Finish(w)
    BY <2>1, RestRun, ShapeFacts DEF Finish, HandsFull
  <2>2. CASE Goto(w, "retrying") /\ jobs[run[w].job].retry < RetryLimit
    <3>1. /\ run' \in [Workers -> Run] /\ Others(w) /\ run'[w].pc = "retrying"
          /\ run'[w].job = run[w].job
      BY <2>2, GotoRun, StagesAre, ShapeFacts
    <3>2. HandsFull(w)'
      BY <1>0, <1>1, <2>2, <3>1 DEF HandsFull
    <3> QED BY <3>1, <3>2
  <2> QED BY <2>1, <2>2 DEF MoveDraft
<1>4. /\ status' \in {status, "failed", "cancelled"} /\ ~Parked(status')
      /\ ~Parked(status) => UNCHANGED status
  BY <1>0 DEF MoveDraft, Parked
<1> QED BY <1>1, <1>2, <1>3, <1>4, ShapeAssembled, ShapeFacts, StatusesAre DEF Others

\* A retry may append a job, of a draft whose compile has failed.
LEMMA RetryShape ==
    ASSUME Shape, NEW w \in Workers, ScheduleRetry(w)
    PROVE  /\ Shape' /\ Others(w) /\ run'[w].pc = "idle" /\ run[w].pc = "retrying"
           /\ UNCHANGED <<ready, current, cut>>
           /\ \/ UNCHANGED <<status, jobs>>
              \/ /\ status = "failed" /\ status' = "queued"
                 /\ JobsGrow /\ Len(jobs) + 1 \in DOMAIN jobs'
                 /\ jobs'[Len(jobs) + 1].st = "pending" /\ ~Compiling
                 /\ DOMAIN jobs' = 1..(Len(jobs) + 1)
                 /\ jobs'[Len(jobs) + 1].by = Nobody
                 /\ \A j \in DOMAIN jobs : jobs'[j] = jobs[j]
<1>1. run' \in [Workers -> Run] /\ Others(w) /\ run'[w].pc = "idle"
  BY RestRun, ShapeFacts DEF ScheduleRetry, Finish
<1>2. HandsFull(w)'
  BY <1>1 DEF HandsFull
<1>3. UNCHANGED <<ready, current, expired, faults, cut>> /\ run[w].pc = "retrying"
  BY DEF ScheduleRetry, Faults
<1>4. CASE UNCHANGED <<status, jobs>>
  <2>1. JobsGrow
    BY <1>4, SameRows, AgedRowsGrow, ShapeFacts
  <2> QED BY <1>1, <1>2, <1>3, <1>4, <2>1, ShapeAssembled, ShapeFacts DEF Others
<1>5. CASE /\ status = "failed" /\ ~Compiling /\ Len(jobs) < MaxJobs /\ status' = "queued"
           /\ jobs' = Append(jobs, NewJob(jobs[run[w].job].retry + 1))
  <2> DEFINE retry == jobs[run[w].job].retry + 1
  <2>1. retry \in 0..RetryLimit
    <3>1. run[w].job \in DOMAIN jobs /\ jobs[run[w].job].retry < RetryLimit
      BY <1>3 DEF Shape, HandsFull
    <3>2. jobs[run[w].job].retry \in 0..RetryLimit
      BY <3>1, JobsTyped, ShapeFacts DEF Job
    <3> QED BY <3>1, <3>2, LimitAssumption
  <2> HIDE DEF retry
  <2>2. jobs' = Append(jobs, NewJob(retry))
    BY <1>5 DEF retry
  <2>3. /\ JobsGrow /\ DOMAIN jobs' = 1..(Len(jobs) + 1)
        /\ jobs'[Len(jobs) + 1] = NewJob(retry)
        /\ \A j \in DOMAIN jobs : jobs'[j] = jobs[j]
    BY <1>5, <2>1, <2>2, AddedRow, ShapeFacts
  <2>4. NewJob(retry).st = "pending" /\ NewJob(retry).by = Nobody
    BY <2>1, NewRow
  <2>5. Len(jobs) + 1 \in DOMAIN jobs'
    BY <2>3, ShapeFacts
  <2>6. Shape'
    BY <1>1, <1>2, <1>3, <1>5, <2>3, ShapeAssembled, ShapeFacts, StatusesAre DEF Others
  <2> QED BY <1>1, <1>3, <1>5, <2>3, <2>4, <2>5, <2>6
<1> QED BY <1>4, <1>5 DEF ScheduleRetry

LEMMA RunningRows ==
    ASSUME NEW js, js = {j \in DOMAIN jobs : jobs[j].st = "running"}
    PROVE  js \in SUBSET DOMAIN jobs /\ \A j \in js : jobs[j].st = "running"
OBVIOUS

LEMMA StartShape ==
    ASSUME Shape, NEW w \in Workers, Start(w)
    PROVE  /\ Shape' /\ Others(w) /\ run'[w].pc = "idle" /\ run[w].pc = "down"
           /\ RowsAge /\ EvidenceKept /\ UNCHANGED cut
           /\ \/ /\ status = "ready" /\ Stale(current) /\ Invalidate /\ UNCHANGED jobs
              \/ /\ Recover({j \in DOMAIN jobs : jobs[j].st = "running"})
                 /\ UNCHANGED <<ready, current>>
<1>1. /\ run' \in [Workers -> Run] /\ Others(w) /\ run'[w].pc = "idle" /\ run[w].pc = "down"
      /\ HandsFull(w)'
  BY RestRun, ShapeFacts DEF Start, HandsFull
<1>2. UNCHANGED <<expired, faults, cut>>
  BY DEF Start, Faults
<1>3. CASE status = "ready" /\ Stale(current) /\ Invalidate /\ UNCHANGED jobs
  <2>1. RowsAge /\ EvidenceKept /\ JobsGrow
    BY <1>3, SameRows, AgedRowsGrow, ShapeFacts
  <2>2. /\ current' \in Revision /\ current'.job = current.job
        /\ status' \in {status, "needs_review"} /\ ready' \in {ready, "none"}
    BY <1>3, InvalidatedRevision DEF Stale
  <2>3. Shape'
    BY <1>1, <1>2, <2>1, <2>2, ShapeAssembled, ShapeFacts, StatusesAre DEF Others
  <2> QED BY <1>1, <1>2, <1>3, <2>1, <2>3
<1>4. CASE /\ Recover({j \in DOMAIN jobs : jobs[j].st = "running"})
           /\ UNCHANGED <<ready, current>>
  <2> DEFINE js == {j \in DOMAIN jobs : jobs[j].st = "running"}
  <2>1. RowsAge /\ EvidenceKept
    BY <1>4, RunningRows, RecoverRows, ShapeFacts
  <2>2. JobsGrow
    BY <2>1, AgedRowsGrow, ShapeFacts
  <2>3. status' \in {status, "queued", "cancelled"}
    BY <1>4 DEF Recover
  <2>4. Shape'
    BY <1>1, <1>2, <1>4, <2>2, <2>3, ShapeAssembled, ShapeFacts, StatusesAre DEF Others
  <2> QED BY <1>1, <1>2, <1>4, <2>1, <2>4
<1> QED BY <1>3, <1>4 DEF Start

LEMMA CrashShape ==
    ASSUME Shape, NEW w \in Workers, Crash(w)
    PROVE  /\ Shape' /\ Others(w) /\ run'[w].pc = "down"
           /\ UNCHANGED <<status, ready, current, jobs>>
           /\ cut => cut'
           /\ run[w].pc = "moving" /\ Parked(status) => cut'
<1>1. run' \in [Workers -> Run] /\ Others(w) /\ run'[w].pc = "down" /\ HandsFull(w)'
  BY RestRun, ShapeFacts DEF Crash, HandsFull
<1>2. UNCHANGED <<status, ready, current, jobs>>
  BY DEF Crash, DraftRow
<1>3. JobsGrow
  BY <1>2, SameRows, AgedRowsGrow, ShapeFacts
<1>4. expired' \in 0..Len(jobs) /\ faults' \in 0..MaxFaults
  <2>1. expired' \in {0, expired} /\ faults < MaxFaults /\ faults' = faults + 1
    BY DEF Crash
  <2> QED BY <2>1, BoundAssumption, ShapeFacts
<1>5. /\ cut' \in BOOLEAN
      /\ cut => cut'
      /\ run[w].pc = "moving" /\ Parked(status) => cut'
  BY DEF Crash, Parked
<1> QED BY <1>1, <1>2, <1>3, <1>4, <1>5, ShapeAssembled, ShapeFacts DEF Others

LEMMA ShapeStep ==
    ASSUME Shape, [Next]_vars
    PROVE  Shape'
<1>1. CASE RequestCompile \/ EditByHand \/ MarkReady \/ Archive \/ Restore
           \/ ChangeMaterial \/ DeleteRefused
  BY <1>1, OwnerShape
<1>2. CASE \/ \E hooked \in BOOLEAN : SourceChanges(hooked)
           \/ \E j \in DOMAIN jobs : CancelCompile(j) \/ Reclaim(j)
           \/ SettleAtCap
  BY <1>2, ElsewhereShape
<1>3. ASSUME NEW w \in Workers, WorkerStep(w) \/ Start(w) \/ Stop(w) \/ Crash(w)
      PROVE  Shape'
  BY <1>3, QuietShape, InheritShape, SnapshotShape, PublishShape, CompleteShape, SettleShape, MoveShape,
     RetryShape, StartShape, CrashShape
     DEF WorkerStep, Quiet
<1>4. ASSUME NEW w \in Workers, NEW j \in DOMAIN jobs, Claim(w, j)
      PROVE  Shape'
  BY <1>4, ClaimShape
<1>5. CASE UNCHANGED vars
  <2>1. JobsGrow
    BY <1>5, SameRows, AgedRowsGrow, ShapeFacts DEF vars
  <2> QED BY <1>5, <2>1, RowsShape, ShapeFacts DEF vars
<1> QED BY <1>1, <1>2, <1>3, <1>4, <1>5 DEF Next

-------------------------------------------------------------------------------
(* The current revision.                                                   *)

\* It is only ever replaced by a revision whose ledger is as complete: the
\* owner's, a published one, or the same one, its fact check taken back or its
\* passages dated.
LEMMA CurrentStep ==
    ASSUME Shape, [Next]_vars
    PROVE  \/ current' = current
           \/ /\ current' \in Revision
              /\ current'.ledger \/ (current \in Revision /\ current'.ledger = current.ledger)
<1>1. CASE EditByHand
  BY <1>1, ManualIsARevision DEF EditByHand
<1>2. CASE RequestCompile \/ Archive \/ Restore \/ ChangeMaterial \/ DeleteRefused \/ SettleAtCap
  BY <1>2 DEF RequestCompile, Archive, Restore, ChangeMaterial, DeleteRefused, SettleAtCap
<1>3. CASE MarkReady
  BY <1>3, InvalidatedRevision DEF MarkReady, Approvable
<1>4. CASE \E hooked \in BOOLEAN : SourceChanges(hooked)
  BY <1>4, InvalidatedRevision, SourceRevision
<1>5. CASE \E j \in DOMAIN jobs : CancelCompile(j) \/ Reclaim(j)
  BY <1>5 DEF CancelCompile, Reclaim
<1>6. ASSUME NEW w \in Workers, WorkerStep(w) \/ Start(w) \/ Stop(w) \/ Crash(w)
      PROVE  \/ current' = current
             \/ /\ current' \in Revision
                /\ current'.ledger \/ (current \in Revision /\ current'.ledger = current.ledger)
  <2>1. CASE Quiet(w)
    BY <2>1, QuietShape
  <2>2. CASE Publish(w)
    BY <2>2, PublishShape
  <2>3. CASE Inherit(w) \/ Complete(w) \/ SettleJob(w) \/ MoveDraft(w) \/ ScheduleRetry(w) \/ Crash(w)
    BY <2>3, CompleteShape, SettleShape, MoveShape, RetryShape, CrashShape
       DEF Inherit, DraftRow
  <2>4. CASE Start(w)
    BY <2>4, StartShape, InvalidatedRevision DEF Stale
  <2>5. CASE Snapshot(w)
    BY <2>5, SnapshotShape, SnapshotRevision
  <2> QED BY <1>6, <2>1, <2>2, <2>3, <2>4, <2>5 DEF WorkerStep, Quiet
<1>7. ASSUME NEW w \in Workers, NEW j \in DOMAIN jobs, Claim(w, j)
      PROVE  current' = current
  BY <1>7 DEF Claim
<1>8. CASE UNCHANGED vars
  BY <1>8 DEF vars
<1> QED BY <1>1, <1>2, <1>3, <1>4, <1>5, <1>6, <1>7, <1>8 DEF Next

LEMMA CompleteStep ==
    ASSUME Shape, PublishedIsComplete, [Next]_vars
    PROVE  PublishedIsComplete'
BY CurrentStep, NoRevisionIsNone DEF PublishedIsComplete

-------------------------------------------------------------------------------
(* What the rows show of a text.                                           *)

\* The rows keep their evidence; a new text of a worker, or a new current one,
\* is shown by the rows as they are.
LEMMA TextsKept ==
    ASSUME Shape, TextsShow, DOMAIN jobs \subseteq DOMAIN jobs', EvidenceKept,
           \A v \in Workers :
               \/ run'[v] = run[v]
               \/ run'[v].pc \in Writing => /\ run'[v].job \in DOMAIN jobs
                                            /\ RowsShow(run'[v].job, run'[v].text),
           \/ current' = current
           \/ current'.job > 0 => /\ current'.job \in DOMAIN jobs
                                  /\ RowsShow(current'.job, current'.text)
    PROVE  TextsShow'
<1>1. ASSUME NEW v \in Workers, run'[v].pc \in Writing
      PROVE  RowsShow(run[v].job, run[v].text)'
  <2>1. run'[v].job \in DOMAIN jobs /\ RowsShow(run'[v].job, run'[v].text)
    BY <1>1 DEF Shape, HandsFull, TextsShow, Writing
  <2> QED BY <2>1 DEF EvidenceKept, RowsShow
<1>2. ASSUME current'.job > 0
      PROVE  RowsShow(current.job, current.text)'
  <2>1. current'.job \in DOMAIN jobs /\ RowsShow(current'.job, current'.text)
    BY <1>2, ShapeFacts DEF TextsShow
  <2> QED BY <2>1 DEF EvidenceKept, RowsShow
<1> QED BY <1>1, <1>2 DEF TextsShow, Writing

\* A text is taken up from the rows, or carried on.
LEMMA QuietTexts ==
    ASSUME Shape, TextsShow, NEW w \in Workers, Quiet(w)
    PROVE  run'[w].pc \in Writing => /\ run'[w].job \in DOMAIN jobs
                                     /\ RowsShow(run'[w].job, run'[w].text)
<1>0. run \in [Workers -> Run]
  BY ShapeFacts
<1>1. CASE \E goal \in {"failed", "cancelled"}, strict \in BOOLEAN, again \in BOOLEAN :
              Settling(w, goal, strict, again)
  BY <1>0, <1>1, SettlingRun DEF Writing
<1>2. CASE CheckPermission(w) /\ Goto(w, "research")
  BY <1>0, <1>2, GotoRun, StagesAre DEF Writing
<1>3. CASE Retrieve(w)
  <2>1. run' = [run EXCEPT ![w].pc = "retrieved", ![w].text = "new"]
    BY <1>3 DEF Retrieve
  <2>2. "retrieved" \in Stages /\ "new" \in Passages
    BY DEF Stages, Passages
  <2> QED BY <1>0, <2>1, <2>2, EnteredRun DEF Writing
<1>4. CASE ReuseCheckpoint(w)
  <2> DEFINE rows == jobs[run[w].job].evidence
             text == CASE rows = "fresh" -> "new" [] rows = "misdated" -> "misdated"
                       [] OTHER -> "old"
  <2>1. /\ run[w].pc = "research" /\ rows # "none"
        /\ run' = [run EXCEPT ![w].pc = "editing", ![w].text = text]
    BY <1>4 DEF ReuseCheckpoint
  <2>2. run[w].job \in DOMAIN jobs /\ rows \in {"none", "fresh", "misdated", "stale"}
    BY <2>1, JobsTyped DEF Shape, HandsFull, Job
  <2>3. text \in Passages /\ (text = "old" => rows = "stale")
    BY <2>1, <2>2 DEF Passages
  <2> HIDE DEF text
  <2>4. run'[w].job = run[w].job /\ run'[w].text = text
    BY <1>0, <2>1, <2>3, EnteredRun, StagesAre
  <2> QED BY <2>1, <2>2, <2>3, <2>4 DEF RowsShow
<1>5. CASE run[w].pc \in Writing /\ run'[w].job = run[w].job /\ run'[w].text = run[w].text
  BY <1>5 DEF TextsShow, Shape, HandsFull, Writing
<1>6. CASE Verify(w) /\ Goto(w, "cleared")
  BY <1>0, <1>5, <1>6, GotoRun, StagesAre DEF Verify, Writing
<1>7. CASE \/ Commit(w) /\ run' = [run EXCEPT ![w].pc = "committed",
                                              ![w].rev = NewRevision(run[w].job)]
           \/ WriteLedger(w)
  <2>1. run[w].pc \in Writing
    BY <1>7 DEF Commit, WriteLedger, Writing
  <2>2. run'[w].job = run[w].job /\ run'[w].text = run[w].text
    BY <1>0, <1>7 DEF WriteLedger, Run
  <2> QED BY <1>5, <2>1, <2>2
<1>8. CASE CheckPermission(w) \/ Stumble(w) \/ NoticeLoss(w) \/ ObserveCancel(w) \/ Stop(w)
  BY <1>1, <1>2, <1>8 DEF CheckPermission, Stumble, NoticeLoss, ObserveCancel, Stop
<1>9. CASE Verify(w) \/ Commit(w)
  BY <1>1, <1>6, <1>7, <1>9 DEF Verify, Commit
<1> QED BY <1>3, <1>4, <1>7, <1>8, <1>9 DEF Quiet

LEMMA OwnerTexts ==
    ASSUME Shape, TextsShow,
           RequestCompile \/ EditByHand \/ MarkReady \/ Archive \/ Restore
           \/ ChangeMaterial \/ DeleteRefused
    PROVE  TextsShow'
<1>1. CASE RequestCompile
  <2>1. JobsGrow /\ \A j \in DOMAIN jobs : jobs'[j] = jobs[j]
    BY <1>1, AddedRow, LimitAssumption, ShapeFacts DEF RequestCompile
  <2> QED BY <1>1, <2>1, TextsKept DEF RequestCompile, EvidenceKept, JobsGrow
<1>2. CASE EditByHand
  BY <1>2, ManualIsARevision, TextsKept DEF EditByHand, EvidenceKept
<1>3. CASE MarkReady
  <2>1. UNCHANGED <<jobs, run>> /\ current.job > 0
    BY <1>3 DEF MarkReady, Approvable
  <2>2. CASE Invalidate
    <3>1. current'.job = current.job /\ current'.text # "old"
      BY <2>1, <2>2, InvalidatedRevision
    <3>2. current.job \in DOMAIN jobs /\ RowsShow(current'.job, current'.text)
      BY <2>1, <3>1, ShapeFacts DEF TextsShow, RowsShow
    <3> QED BY <2>1, <3>1, <3>2, TextsKept DEF EvidenceKept
  <2>3. CASE current' = current
    BY <2>1, <2>3, TextsKept DEF EvidenceKept
  <2> QED BY <1>3, <2>2, <2>3 DEF MarkReady
<1>4. CASE Archive \/ Restore \/ ChangeMaterial
  BY <1>4, TextsKept DEF Archive, Restore, ChangeMaterial, EvidenceKept
<1>5. CASE DeleteRefused
  <2>1. RowsAge /\ EvidenceKept /\ UNCHANGED <<run, current>>
    BY <1>5, DeleteRows, ShapeFacts DEF DeleteRefused
  <2> QED BY <2>1, AgedRowsGrow, TextsKept, ShapeFacts DEF JobsGrow
<1> QED BY <1>1, <1>2, <1>3, <1>4, <1>5

\* A change shows in every row there is.
LEMMA SourceTexts ==
    ASSUME Shape, TextsShow, NEW hooked \in BOOLEAN, SourceChanges(hooked)
    PROVE  TextsShow'
<1>1. \A j \in DOMAIN jobs : jobs[j].evidence # "none" => jobs'[j].evidence = "stale"
  BY SourceRows, ShapeFacts
<1>2. ASSUME NEW v \in Workers, run'[v].pc \in Writing
      PROVE  RowsShow(run[v].job, run[v].text)'
  <2>1. run'[v].pc = run[v].pc /\ run'[v].job = run[v].job
    BY SourceRuns DEF SamePlace
  <2>2. run[v].job \in DOMAIN jobs /\ jobs[run[v].job].evidence # "none"
    BY <1>2, <2>1 DEF Shape, HandsFull, TextsShow, RowsShow, Writing
  <2> QED BY <1>1, <2>1, <2>2 DEF RowsShow
<1>3. ASSUME current'.job > 0
      PROVE  RowsShow(current.job, current.text)'
  <2>1. current'.job = current.job
    BY SourceRevision, InvalidatedRevision
  <2>2. current.job \in DOMAIN jobs /\ jobs[current.job].evidence # "none"
    BY <1>3, <2>1, ShapeFacts DEF TextsShow, RowsShow
  <2> QED BY <1>1, <2>1, <2>2 DEF RowsShow
<1> QED BY <1>2, <1>3 DEF TextsShow, Writing

LEMMA JobTexts ==
    ASSUME Shape, TextsShow,
           \/ \E j \in DOMAIN jobs : CancelCompile(j) \/ Reclaim(j)
           \/ SettleAtCap
    PROVE  TextsShow'
<1>1. RowsAge /\ EvidenceKept /\ UNCHANGED <<run, current>>
  <2>1. ASSUME NEW j \in DOMAIN jobs, CancelCompile(j)
        PROVE  RowsAge /\ EvidenceKept /\ UNCHANGED <<run, current>>
    BY <2>1, CancelRows, ShapeFacts DEF CancelCompile
  <2>2. ASSUME NEW j \in DOMAIN jobs, Reclaim(j)
        PROVE  RowsAge /\ EvidenceKept /\ UNCHANGED <<run, current>>
    <3>1. CASE UNCHANGED jobs
      BY <2>2, <3>1, SameRows, ShapeFacts DEF Reclaim
    <3>2. CASE Recover({j})
      <4>1. {j} \in SUBSET DOMAIN jobs /\ \A i \in {j} : jobs[i].st = "running"
        BY <2>2 DEF Reclaim
      <4> QED BY <2>2, <3>2, <4>1, RecoverRows, ShapeFacts DEF Reclaim
    <3> QED BY <2>2, <3>1, <3>2 DEF Reclaim
  <2>3. CASE SettleAtCap
    <3>1. expired \in DOMAIN jobs
      BY <2>3, ShapeFacts DEF SettleAtCap
    <3> QED BY <2>3, <3>1, EndedRows, ShapeFacts DEF SettleAtCap
  <2> QED BY <2>1, <2>2, <2>3
<1> QED BY <1>1, AgedRowsGrow, TextsKept, ShapeFacts DEF JobsGrow

\* The job that inherits had no rows, so nothing is written from it yet.
LEMMA InheritTexts ==
    ASSUME Shape, TextsShow, NEW w \in Workers, Inherit(w)
    PROVE  TextsShow'
<1>1. /\ run[w].job \in DOMAIN jobs /\ jobs[run[w].job].evidence = "none"
      /\ UNCHANGED <<run, current>>
      /\ \A i \in DOMAIN jobs : i # run[w].job => jobs'[i] = jobs[i]
  BY InheritShape, InheritRows, ShapeFacts
<1>2. ASSUME NEW v \in Workers, run[v].pc \in Writing
      PROVE  run[v].job \in DOMAIN jobs /\ run[v].job # run[w].job
  BY <1>1, <1>2 DEF Shape, HandsFull, TextsShow, RowsShow, Writing
<1>3. current.job > 0 => current.job \in DOMAIN jobs /\ current.job # run[w].job
  BY <1>1, ShapeFacts DEF TextsShow, RowsShow
<1> QED BY <1>1, <1>2, <1>3 DEF TextsShow, RowsShow, Writing

\* The rows of the snapshot show what is gone, or its texts are misdated.
LEMMA SnapshotTexts ==
    ASSUME Shape, TextsShow, NEW w \in Workers, Snapshot(w)
    PROVE  TextsShow'
<1> DEFINE j == run[w].job
<1> HIDE DEF j
<1>1. /\ j \in DOMAIN jobs /\ jobs'[j].evidence # "none"
      /\ \A i \in DOMAIN jobs : i # j => jobs'[i] = jobs[i]
      /\ jobs' = [jobs EXCEPT ![j].evidence = "stale"] => jobs'[j].evidence = "stale"
  <2>1. jobs[run[w].job] \in Job
    BY SnapshotShape, JobsTyped, ShapeFacts
  <2> QED BY <2>1, SnapshotShape, SnapshotRows, JobsTyped, ShapeFacts DEF j, Job
<1>2. ASSUME NEW v \in Workers, run'[v].pc \in Writing
      PROVE  RowsShow(run[v].job, run[v].text)'
  <2>1. /\ run'[v].job = run[v].job /\ run[v].job \in DOMAIN jobs
        /\ run'[v].text \in {run[v].text, "misdated"}
        /\ run'[v].pc = run[v].pc \/ run[v].job = j
    BY <1>2, SnapshotRuns DEF Shape, HandsFull, SamePlace, Writing, j
  <2>2. CASE run[v].job = j
    <3>1. jobs'[j].evidence = "stale" \/ run'[v].text # "old"
      BY <1>1, <1>2, <2>2, SnapshotRuns DEF j
    <3> QED BY <1>1, <2>1, <2>2, <3>1 DEF RowsShow
  <2>3. CASE run[v].job # j
    <3>1. RowsShow(run[v].job, run[v].text)
      BY <1>2, <2>1, <2>3 DEF TextsShow, Writing
    <3> QED BY <1>1, <2>1, <2>3, <3>1 DEF RowsShow
  <2> QED BY <2>2, <2>3
<1>3. ASSUME current'.job > 0
      PROVE  RowsShow(current.job, current.text)'
  <2>0. current'.job = current.job /\ current'.text \in {current.text, "misdated"}
    BY SnapshotShape, SnapshotRevision
  <2>1. current.job \in DOMAIN jobs
    BY <1>3, <2>0, ShapeFacts
  <2>2. CASE current.job = j
    <3>1. jobs'[j].evidence = "stale" \/ current'.text # "old"
      BY <1>1, <2>2, SnapshotShape, SnapshotRevision DEF j
    <3> QED BY <1>1, <2>0, <2>1, <2>2, <3>1 DEF RowsShow
  <2>3. CASE current.job # j
    <3>1. RowsShow(current.job, current.text)
      BY <1>3, <2>0 DEF TextsShow
    <3> QED BY <1>1, <2>0, <2>1, <2>3, <3>1 DEF RowsShow
  <2> QED BY <2>2, <2>3
<1> QED BY <1>2, <1>3 DEF TextsShow, Writing

LEMMA WorkerTexts ==
    ASSUME Shape, TextsShow, NEW w \in Workers, WorkerStep(w) \/ Start(w) \/ Stop(w) \/ Crash(w)
    PROVE  TextsShow'
<1>1. CASE Quiet(w)
  <2>1. EvidenceKept /\ UNCHANGED <<jobs, current>> /\ Others(w)
    BY <1>1, QuietShape DEF EvidenceKept
  <2> QED BY <1>1, <2>1, QuietTexts, TextsKept DEF Others
<1>2. CASE Publish(w)
  <2>1. /\ UNCHANGED jobs /\ Others(w) /\ run'[w].pc = "published"
        /\ current'.job = run[w].job /\ current'.text = run[w].text
        /\ run[w].pc = "ledgered"
    BY <1>2, PublishShape DEF Publish
  <2>2. run[w].job \in DOMAIN jobs /\ RowsShow(run[w].job, run[w].text)
    BY <2>1 DEF Shape, HandsFull, TextsShow, Writing
  <2> QED BY <2>1, <2>2, TextsKept DEF Others, EvidenceKept, Writing
<1>3. CASE Complete(w) \/ SettleJob(w)
  <2>1. /\ RowsAge /\ EvidenceKept /\ Others(w) /\ UNCHANGED current
        /\ run'[w].pc \in {"idle", "moving"}
    BY <1>3, CompleteShape, SettleShape
  <2> QED BY <2>1, AgedRowsGrow, TextsKept, ShapeFacts DEF Others, JobsGrow, Writing
<1>4. CASE MoveDraft(w) \/ Crash(w)
  <2>1. /\ UNCHANGED <<jobs, current>> /\ Others(w)
        /\ run'[w].pc \in {"idle", "retrying", "down"}
    BY <1>4, MoveShape, CrashShape
  <2> QED BY <2>1, TextsKept DEF Others, EvidenceKept, Writing
<1>5. CASE ScheduleRetry(w)
  <2>1. /\ DOMAIN jobs \subseteq DOMAIN jobs' /\ EvidenceKept /\ Others(w)
        /\ UNCHANGED current /\ run'[w].pc = "idle"
    BY <1>5, RetryShape DEF EvidenceKept, JobsGrow
  <2> QED BY <2>1, TextsKept DEF Others, Writing
<1>6. CASE Start(w)
  <2>1. /\ DOMAIN jobs \subseteq DOMAIN jobs' /\ EvidenceKept /\ Others(w)
        /\ run'[w].pc = "idle"
    BY <1>6, StartShape, AgedRowsGrow, ShapeFacts DEF JobsGrow
  <2>2. CASE UNCHANGED current
    BY <2>1, <2>2, TextsKept DEF Others, Writing
  <2>3. CASE current.job > 0 /\ Invalidate
    <3>1. current'.job = current.job /\ current'.text # "old"
      BY <2>3, InvalidatedRevision
    <3>2. current.job \in DOMAIN jobs /\ RowsShow(current'.job, current'.text)
      BY <2>3, <3>1, ShapeFacts DEF TextsShow, RowsShow
    <3> QED BY <2>1, <3>1, <3>2, TextsKept DEF Others, Writing
  <2> QED BY <1>6, <2>2, <2>3, StartShape DEF Stale
<1> QED BY <1>1, <1>2, <1>3, <1>4, <1>5, <1>6, InheritTexts, SnapshotTexts
        DEF WorkerStep, Quiet

LEMMA TextsStep ==
    ASSUME Shape, TextsShow, [Next]_vars
    PROVE  TextsShow'
<1>1. ASSUME NEW w \in Workers, NEW j \in DOMAIN jobs, Claim(w, j)
      PROVE  TextsShow'
  <2>1. /\ jobs' \in [DOMAIN jobs -> Job] /\ EvidenceKept /\ UNCHANGED current
        /\ Others(w) /\ run'[w].pc = "checking"
    BY <1>1, ClaimRows, ClaimShape, ShapeFacts DEF Claim
  <2> QED BY <2>1, TextsKept DEF Others, Writing
<1>2. CASE UNCHANGED vars
  BY <1>2, TextsKept DEF vars, EvidenceKept
<1> QED BY <1>1, <1>2, OwnerTexts, SourceTexts, JobTexts, WorkerTexts DEF Next

-------------------------------------------------------------------------------
(* The Ready pointer.                                                      *)

Ready == ReadyIsApproved /\ ReadyIsFresh

LEMMA ReadyRowsKept ==
    ASSUME Shape, Ready, RowsAge, UNCHANGED <<status, ready>>,
           \/ current' = current
           \/ /\ current'.job = current.job /\ current'.fact = current.fact
              /\ current'.text \in {current.text, "misdated"}
    PROVE  Ready'
<1>1. DOMAIN jobs' = DOMAIN jobs
  BY SameLength, ShapeFacts DEF RowsAge
<1>2. Compiling' => Compiling
  BY <1>1 DEF Compiling, Live, RowsAge, RowAges
<1> QED BY <1>2 DEF Ready, ReadyIsApproved, ReadyIsFresh

LEMMA NotReady ==
    ASSUME status' # "ready", ready' = "none"
    PROVE  Ready'
BY DEF Ready, ReadyIsApproved, ReadyIsFresh

\* A compile under way is one of a draft that is not Ready.
LEMMA CompilingIsNotReady ==
    ASSUME Ready, NEW j \in DOMAIN jobs, jobs[j].st \in {"pending", "running"}
    PROVE  status # "ready" /\ ready = "none"
BY DEF Ready, ReadyIsApproved, Compiling, Live

\* An approval is given to rows that are not stale, so to no text that is old.
LEMMA ReadyOwnerStep ==
    ASSUME Shape, TextsShow, Ready,
           RequestCompile \/ EditByHand \/ MarkReady \/ Archive \/ Restore
           \/ ChangeMaterial \/ DeleteRefused
    PROVE  Ready'
<1>1. CASE RequestCompile \/ EditByHand \/ Archive \/ Restore \/ ChangeMaterial
  BY <1>1, NotReady DEF RequestCompile, EditByHand, Archive, Restore, ChangeMaterial
<1>2. CASE MarkReady
  <2>1. status = "needs_review" /\ current.job > 0 /\ current.fact = "checked" /\ ~Compiling
    BY <1>2 DEF MarkReady, Approvable
  <2>2. CASE Stale(current)
    BY <1>2, <2>1, <2>2, NotReady DEF MarkReady, Invalidate, Ready, ReadyIsApproved
  <2>3. CASE ~Stale(current)
    <3>1. status' = "ready" /\ ready' = "current" /\ UNCHANGED <<current, jobs>>
      BY <1>2, <2>3 DEF MarkReady
    <3>2. ~Compiling' /\ current'.text # "old"
      BY <2>1, <2>3, <3>1 DEF Compiling, Live, Stale, TextsShow, RowsShow
    <3> QED BY <2>1, <3>1, <3>2 DEF Ready, ReadyIsApproved, ReadyIsFresh
  <2> QED BY <2>2, <2>3
<1>3. CASE DeleteRefused
  BY <1>3, DeleteRows, ReadyRowsKept, ShapeFacts DEF DeleteRefused
<1> QED BY <1>1, <1>2, <1>3

LEMMA ReadySourceStep ==
    ASSUME Shape, Ready, NEW hooked \in BOOLEAN, SourceChanges(hooked)
    PROVE  Ready'
<1>1. CASE hooked /\ current.job > 0
  BY <1>1, InvalidatedRevision, NotReady DEF SourceChanges, Ready, ReadyIsApproved
<1>2. CASE ~(hooked /\ current.job > 0)
  <2>1. /\ UNCHANGED <<status, ready>>
        /\ current'.job = current.job /\ current'.fact = current.fact
        /\ current'.text = Aged(current.text, IF status = "ready" THEN "untold" ELSE "old")
    BY <1>2, SourceRevision
  <2>2. Compiling' => Compiling
    <3>1. RowsAge
      BY SourceRows, ShapeFacts
    <3>2. DOMAIN jobs' = DOMAIN jobs
      BY <3>1, SameLength, ShapeFacts DEF RowsAge
    <3> QED BY <3>1, <3>2 DEF Compiling, Live, RowsAge, RowAges
  <2>3. status = "ready" => current'.text # "old"
    BY <2>1 DEF Aged, Ready, ReadyIsFresh
  <2> QED BY <2>1, <2>2, <2>3 DEF Ready, ReadyIsApproved, ReadyIsFresh
<1> QED BY <1>1, <1>2

LEMMA ReadyJobStep ==
    ASSUME Shape, Ready,
           \/ \E j \in DOMAIN jobs : CancelCompile(j) \/ Reclaim(j)
           \/ SettleAtCap
    PROVE  Ready'
<1>1. ASSUME NEW j \in DOMAIN jobs, CancelCompile(j)
      PROVE  Ready'
  <2>1. status # "ready" /\ ready = "none"
    BY <1>1, CompilingIsNotReady DEF CancelCompile, Live
  <2> QED BY <1>1, <2>1, NotReady DEF CancelCompile
<1>2. ASSUME NEW j \in DOMAIN jobs, Reclaim(j)
      PROVE  Ready'
  <2>1. status # "ready" /\ ready = "none"
    BY <1>2, CompilingIsNotReady DEF Reclaim
  <2>2. status' \in {status, "cancelled", "queued"} /\ ready' = ready
    BY <1>2 DEF Reclaim, Recover
  <2> QED BY <2>1, <2>2, NotReady
<1>3. CASE SettleAtCap
  <2>1. RowsAge /\ EvidenceKept
    <3>1. expired \in DOMAIN jobs
      BY <1>3, ShapeFacts DEF SettleAtCap
    <3> QED BY <1>3, <3>1, EndedRows, ShapeFacts DEF SettleAtCap
  <2>2. UNCHANGED <<ready, current>>
    BY <1>3 DEF SettleAtCap
  <2>3. CASE Parked(status)
    BY <1>3, <2>2, <2>3, NotReady DEF SettleAtCap, Parked, Ready, ReadyIsApproved
  <2>4. CASE ~Parked(status)
    BY <1>3, <2>1, <2>2, <2>4, ReadyRowsKept DEF SettleAtCap
  <2> QED BY <2>3, <2>4
<1> QED BY <1>1, <1>2, <1>3

LEMMA ReadyWorkerStep ==
    ASSUME Shape, Ready, NEW w \in Workers, WorkerStep(w) \/ Start(w) \/ Stop(w) \/ Crash(w)
    PROVE  Ready'
<1>1. CASE Quiet(w) \/ Crash(w)
  BY <1>1, QuietShape, CrashShape, SameRows, ReadyRowsKept, ShapeFacts
<1>2. CASE Inherit(w)
  BY <1>2, InheritShape, InheritRows, ReadyRowsKept, ShapeFacts
<1>8. CASE Snapshot(w)
  <2>1. RowsAge /\ UNCHANGED <<status, ready>>
    BY <1>8, SnapshotShape, SnapshotRows, ShapeFacts
  <2>2. /\ current'.job = current.job /\ current'.fact = current.fact
        /\ current'.text \in {current.text, "misdated"}
    BY <1>8, SnapshotShape, SnapshotRevision
  <2> QED BY <2>1, <2>2, ReadyRowsKept
<1>3. CASE Publish(w)
  BY <1>3, NotReady DEF Publish
<1>4. CASE Complete(w) \/ SettleJob(w)
  BY <1>4, CompleteShape, SettleShape, ReadyRowsKept
<1>5. CASE MoveDraft(w)
  <2>1. CASE Parked(status)
    BY <1>5, <2>1, MoveShape, NotReady DEF Parked, Ready, ReadyIsApproved
  <2>2. CASE ~Parked(status)
    BY <1>5, <2>2, MoveShape, SameRows, ReadyRowsKept, ShapeFacts
  <2> QED BY <2>1, <2>2
<1>6. CASE ScheduleRetry(w)
  <2>1. CASE UNCHANGED <<status, jobs>>
    BY <1>6, <2>1, RetryShape, SameRows, ReadyRowsKept, ShapeFacts
  <2>2. CASE status = "failed" /\ status' = "queued"
    BY <1>6, <2>2, RetryShape, NotReady DEF Ready, ReadyIsApproved
  <2> QED BY <1>6, <2>1, <2>2, RetryShape
<1>7. CASE Start(w)
  <2>1. CASE status = "ready" /\ Stale(current) /\ Invalidate
    BY <2>1, NotReady DEF Invalidate
  <2>2. CASE /\ Recover({j \in DOMAIN jobs : jobs[j].st = "running"})
             /\ UNCHANGED <<ready, current>>
    <3>1. CASE status = "ready"
      <4>1. UNCHANGED status
        BY <2>2, <3>1 DEF Recover, Parked
      <4> QED BY <1>7, <2>2, <4>1, StartShape, ReadyRowsKept
    <3>2. CASE status # "ready"
      BY <2>2, <3>2, NotReady DEF Recover, Ready, ReadyIsApproved
    <3> QED BY <3>1, <3>2
  <2> QED BY <1>7, <2>1, <2>2, StartShape
<1> QED BY <1>1, <1>2, <1>3, <1>4, <1>5, <1>6, <1>7, <1>8 DEF WorkerStep, Quiet

LEMMA ReadyStep ==
    ASSUME Shape, TextsShow, Ready, [Next]_vars
    PROVE  Ready'
<1>1. ASSUME NEW w \in Workers, NEW j \in DOMAIN jobs, Claim(w, j)
      PROVE  Ready'
  <2>1. status # "ready" /\ ready = "none"
    BY <1>1, CompilingIsNotReady DEF Claim
  <2> QED BY <1>1, <2>1, NotReady DEF Claim
<1>2. CASE UNCHANGED vars
  BY <1>2, SameRows, ReadyRowsKept, ShapeFacts DEF vars
<1> QED BY <1>1, <1>2, ReadyOwnerStep, ReadySourceStep, ReadyJobStep, ReadyWorkerStep DEF Next

-------------------------------------------------------------------------------
(* A parked draft has someone to move it.                                  *)

Cover == PublishedIsReviewable /\ ParkedHasAJob

LEMMA LiveRowCompiles ==
    ASSUME NEW j \in DOMAIN jobs', jobs'[j].st \in {"pending", "running"}
    PROVE  Compiling'
BY DEF Compiling, Live

LEMMA UnparkedIsCovered ==
    ASSUME ~Parked(status')
    PROVE  Cover'
BY DEF Cover, PublishedIsReviewable, ParkedHasAJob

LEMMA ReviewableKept ==
    ASSUME Shape, Cover, RowsAge, Parked(status') => Parked(status),
           \A v \in Workers : run'[v] = run[v] \/ SamePlace(v) \/ run'[v].pc # "published"
    PROVE  PublishedIsReviewable'
<1> SUFFICES ASSUME NEW v \in Workers, run'[v].pc = "published", Owns(v)'
             PROVE  ~Parked(status')
  BY DEF PublishedIsReviewable
<1>1. run'[v].job = run[v].job /\ run[v].pc = "published" /\ run[v].job \in DOMAIN jobs
  BY DEF Shape, HandsFull, SamePlace
<1>2. Owns(v)
  BY <1>1 DEF Owns, RowsAge, RowAges
<1> QED BY <1>1, <1>2 DEF Cover, PublishedIsReviewable

\* A draft is parked anew only when nothing compiles.
LEMMA ReviewableWhenIdle ==
    ASSUME Shape, ~Compiling, \A j \in DOMAIN jobs : jobs'[j] = jobs[j],
           \A v \in Workers : run'[v] = run[v] \/ run'[v].pc # "published"
    PROVE  PublishedIsReviewable'
<1> SUFFICES ASSUME NEW v \in Workers, run'[v].pc = "published", Owns(v)'
             PROVE  FALSE
  BY DEF PublishedIsReviewable
<1>1. run'[v] = run[v] /\ run[v].job \in DOMAIN jobs
  BY DEF Shape, HandsFull
<1> QED BY <1>1 DEF Owns, Compiling, Live

LEMMA ParkedKept ==
    ASSUME Shape, Cover, DOMAIN jobs' = DOMAIN jobs,
           \A j \in DOMAIN jobs : jobs[j].st \in {"pending", "running"} =>
                                      jobs'[j].st \in {"pending", "running"},
           Parked(status') => Parked(status), cut => cut',
           \A v \in Workers : run'[v] = run[v] \/ SamePlace(v) \/ run[v].pc # "moving"
    PROVE  ParkedHasAJob'
<1>1. Compiling => Compiling'
  BY DEF Compiling, Live
<1> QED BY <1>1 DEF Cover, ParkedHasAJob, SamePlace

\* A step that changes no job
LEMMA SameJobsCovered ==
    ASSUME Shape, Cover, UNCHANGED jobs, Parked(status') => Parked(status), cut => cut',
           \A v \in Workers : run'[v] = run[v]
                              \/ (run[v].pc # "moving" /\ run'[v].pc # "published")
    PROVE  Cover'
<1>1. RowsAge
  BY SameRows, ShapeFacts
<1>2. PublishedIsReviewable'
  BY <1>1, ReviewableKept
<1>3. ParkedHasAJob'
  BY ParkedKept
<1> QED BY <1>2, <1>3 DEF Cover

LEMMA OwnerCovered ==
    ASSUME Shape, Cover,
           RequestCompile \/ EditByHand \/ MarkReady \/ Archive \/ Restore
           \/ ChangeMaterial \/ DeleteRefused
    PROVE  Cover'
<1>1. CASE RequestCompile
  <2>1. /\ DOMAIN jobs' = 1..(Len(jobs) + 1) /\ jobs'[Len(jobs) + 1] = NewJob(0)
        /\ \A j \in DOMAIN jobs : jobs'[j] = jobs[j]
    BY <1>1, AddedRow, LimitAssumption, ShapeFacts DEF RequestCompile
  <2>2. NewJob(0).st = "pending" /\ Len(jobs) + 1 \in DOMAIN jobs'
    BY <2>1, NewRow, LimitAssumption, ShapeFacts
  <2>3. Compiling'
    BY <2>1, <2>2, LiveRowCompiles
  <2>4. PublishedIsReviewable'
    BY <1>1, <2>1, ReviewableWhenIdle DEF RequestCompile
  <2> QED BY <2>3, <2>4 DEF Cover, ParkedHasAJob
<1>2. CASE EditByHand \/ MarkReady \/ Archive \/ Restore \/ ChangeMaterial
  <2>1. ~Parked(status')
    BY <1>2 DEF EditByHand, MarkReady, Approvable, Invalidate, Archive, Restore,
                ChangeMaterial, Parked
  <2> QED BY <2>1, UnparkedIsCovered
<1>3. CASE DeleteRefused
  <2>1. PublishedIsReviewable'
    BY <1>3, DeleteRows, ReviewableKept, ShapeFacts DEF DeleteRefused
  <2>2. ParkedHasAJob'
    BY <1>3 DEF DeleteRefused, ParkedHasAJob
  <2> QED BY <2>1, <2>2 DEF Cover
<1> QED BY <1>1, <1>2, <1>3

LEMMA RecoverCovered ==
    ASSUME Shape, Cover, NEW js \in SUBSET DOMAIN jobs,
           \A j \in js : jobs[j].st = "running", Recover(js), UNCHANGED cut,
           \A v \in Workers : run'[v] = run[v]
                              \/ (run[v].pc # "moving" /\ run'[v].pc # "published")
    PROVE  Cover'
<1>1. /\ RowsAge
      /\ \A j \in DOMAIN jobs \ js : jobs'[j] = jobs[j]
      /\ \A j \in js : ~jobs[j].cancel => jobs'[j].st = "pending"
  BY RecoverRows, ShapeFacts
<1>2. DOMAIN jobs' = DOMAIN jobs
  BY <1>1, SameLength, ShapeFacts DEF RowsAge
<1>3. Parked(status') => Parked(status)
  BY DEF Recover, Parked
<1>4. PublishedIsReviewable'
  BY <1>1, <1>3, ReviewableKept
<1>5. CASE js = {}
  BY <1>1, <1>2, <1>3, <1>4, <1>5, ParkedKept DEF Cover
<1>6. CASE js # {} /\ Parked(status')
  <2>1. {j \in js : jobs[j].cancel} = {}
    BY <1>3, <1>6 DEF Recover, Parked
  <2>2. PICK j \in js : jobs'[j].st = "pending"
    BY <1>1, <1>6, <2>1
  <2>3. Compiling'
    BY <1>2, <2>2, LiveRowCompiles
  <2> QED BY <1>4, <2>3 DEF Cover, ParkedHasAJob
<1> QED BY <1>5, <1>6, UnparkedIsCovered

LEMMA ElsewhereCovered ==
    ASSUME Shape, Cover,
           \/ \E hooked \in BOOLEAN : SourceChanges(hooked)
           \/ \E j \in DOMAIN jobs : CancelCompile(j) \/ Reclaim(j)
           \/ SettleAtCap
    PROVE  Cover'
<1>1. ASSUME NEW hooked \in BOOLEAN, SourceChanges(hooked)
      PROVE  Cover'
  <2>1. RowsAge /\ \A j \in DOMAIN jobs : jobs'[j].st = jobs[j].st
    BY <1>1, SourceRows, ShapeFacts
  <2>2. DOMAIN jobs' = DOMAIN jobs
    BY <2>1, SameLength, ShapeFacts DEF RowsAge
  <2>3. (Parked(status') => Parked(status)) /\ UNCHANGED cut
    BY <1>1 DEF SourceChanges, Invalidate, Parked, Faults
  <2>4. \A v \in Workers : SamePlace(v)
    BY <1>1, SourceRuns
  <2> QED BY <2>1, <2>2, <2>3, <2>4, ReviewableKept, ParkedKept DEF Cover
<1>2. ASSUME NEW j \in DOMAIN jobs, CancelCompile(j)
      PROVE  Cover'
  <2>1. RowsAge /\ (jobs[j].st = "running" => jobs'[j].st = "running")
    BY <1>2, CancelRows, ShapeFacts
  <2>2. DOMAIN jobs' = DOMAIN jobs
    BY <2>1, SameLength, ShapeFacts DEF RowsAge
  <2>3. CASE jobs[j].st = "pending"
    BY <1>2, <2>3, UnparkedIsCovered DEF CancelCompile, Parked
  <2>4. CASE jobs[j].st # "pending"
    <3>1. UNCHANGED <<status, run, cut>> /\ jobs[j].st = "running"
      BY <1>2, <2>4 DEF CancelCompile, Live, Faults
    <3>2. Compiling'
      BY <2>1, <2>2, <3>1, LiveRowCompiles
    <3> QED BY <2>1, <3>1, <3>2, ReviewableKept DEF Cover, ParkedHasAJob
  <2> QED BY <2>3, <2>4
<1>3. ASSUME NEW j \in DOMAIN jobs, Reclaim(j)
      PROVE  Cover'
  <2>1. UNCHANGED <<run, cut>> /\ jobs[j].st = "running"
    BY <1>3 DEF Reclaim
  <2>2. CASE jobs[j].tries >= MaxAttempts
    BY <1>3, <2>1, <2>2, SameJobsCovered DEF Reclaim
  <2>3. CASE ~(jobs[j].tries >= MaxAttempts)
    <3>1. Recover({j})
      BY <1>3, <2>3 DEF Reclaim
    <3>2. {j} \in SUBSET DOMAIN jobs /\ \A i \in {j} : jobs[i].st = "running"
      BY <2>1
    <3> QED BY <2>1, <3>1, <3>2, RecoverCovered
  <2> QED BY <2>2, <2>3
<1>4. CASE SettleAtCap
  BY <1>4, UnparkedIsCovered DEF SettleAtCap, Parked
<1> QED BY <1>1, <1>2, <1>3, <1>4

\* The claimer is not one that has published.
LEMMA ClaimCovered ==
    ASSUME Shape, Cover, NEW w \in Workers, NEW j \in DOMAIN jobs, Claim(w, j)
    PROVE  Cover'
<1>1. /\ jobs' \in [DOMAIN jobs -> Job]
      /\ jobs'[j].st = "running" /\ jobs'[j].by = w
      /\ \A i \in DOMAIN jobs : i # j => jobs'[i] = jobs[i]
  BY ClaimRows, ShapeFacts
<1>2. DOMAIN jobs' = DOMAIN jobs
  BY <1>1, SameLength, ShapeFacts
<1>3. Compiling'
  BY <1>1, <1>2, LiveRowCompiles
<1>4. Others(w) /\ run'[w].pc = "checking"
  BY ClaimShape
<1>5. ASSUME NEW v \in Workers, run'[v].pc = "published", Owns(v)'
      PROVE  ~Parked(status')
  <2>1. v # w /\ run'[v] = run[v] /\ run[v].job \in DOMAIN jobs
    BY <1>4, <1>5 DEF Others, Shape, HandsFull
  <2>2. run[v].job # j
    BY <1>1, <1>5, <2>1 DEF Owns
  <2>3. Owns(v)
    BY <1>1, <1>5, <2>1, <2>2 DEF Owns
  <2>4. ~Parked(status)
    BY <1>5, <2>1, <2>3 DEF Cover, PublishedIsReviewable
  <2> QED BY <2>4 DEF Claim, Parked
<1> QED BY <1>3, <1>5 DEF Cover, PublishedIsReviewable, ParkedHasAJob

LEMMA WorkerCovered ==
    ASSUME Shape, Cover, NEW w \in Workers, WorkerStep(w) \/ Start(w) \/ Stop(w) \/ Crash(w)
    PROVE  Cover'
<1>1. CASE Quiet(w)
  BY <1>1, QuietShape, SameJobsCovered DEF Others
<1>2. CASE Inherit(w) \/ Snapshot(w)
  <2>1. /\ RowsAge /\ \A j \in DOMAIN jobs : jobs'[j].st = jobs[j].st
        /\ UNCHANGED <<status, cut>>
    BY <1>2, InheritShape, InheritRows, SnapshotShape, SnapshotRows, ShapeFacts
  <2>2. DOMAIN jobs' = DOMAIN jobs
    BY <2>1, SameLength, ShapeFacts DEF RowsAge
  <2>3. \A v \in Workers : run'[v] = run[v] \/ SamePlace(v)
                           \/ (run[v].pc = "retrieved" /\ run'[v].pc = "editing")
    BY <1>2, InheritShape, SnapshotRuns
  <2> QED BY <2>1, <2>2, <2>3, ReviewableKept, ParkedKept DEF Cover
<1>3. CASE Publish(w)
  BY <1>3, UnparkedIsCovered DEF Publish, Parked
<1>4. CASE Complete(w)
  <2>1. CASE Owns(w)
    <3>1. ~Parked(status) /\ UNCHANGED status
      BY <1>4, <2>1, CompleteShape DEF Cover, PublishedIsReviewable
    <3> QED BY <3>1, UnparkedIsCovered
  <2>2. CASE ~Owns(w)
    BY <1>4, <2>2, CompleteShape, SameJobsCovered DEF Others
  <2> QED BY <2>1, <2>2
<1>5. CASE SettleJob(w)
  <2>1. CASE run'[w].pc = "moving"
    <3>1. PublishedIsReviewable'
      BY <1>5, <2>1, SettleShape, ReviewableKept DEF Others
    <3> QED BY <2>1, <3>1 DEF Cover, ParkedHasAJob
  <2>2. CASE run'[w].pc # "moving"
    BY <1>5, <2>2, SettleShape, SameJobsCovered DEF Others
  <2> QED BY <2>1, <2>2
<1>6. CASE MoveDraft(w)
  BY <1>6, MoveShape, UnparkedIsCovered
<1>7. CASE ScheduleRetry(w)
  <2>1. CASE UNCHANGED <<status, jobs>>
    BY <1>7, <2>1, RetryShape, SameJobsCovered DEF Others
  <2>2. CASE /\ Len(jobs) + 1 \in DOMAIN jobs'
             /\ jobs'[Len(jobs) + 1].st = "pending" /\ ~Compiling
             /\ \A j \in DOMAIN jobs : jobs'[j] = jobs[j]
    <3>1. Compiling'
      BY <2>2, LiveRowCompiles
    <3>2. PublishedIsReviewable'
      BY <1>7, <2>2, RetryShape, ReviewableWhenIdle DEF Others
    <3> QED BY <3>1, <3>2 DEF Cover, ParkedHasAJob
  <2> QED BY <1>7, <2>1, <2>2, RetryShape
<1>8. CASE Start(w)
  <2>1. CASE status = "ready" /\ Stale(current) /\ Invalidate
    BY <2>1, UnparkedIsCovered DEF Invalidate, Parked
  <2>2. CASE Recover({j \in DOMAIN jobs : jobs[j].st = "running"})
    BY <1>8, <2>2, RunningRows, StartShape, RecoverCovered DEF Others
  <2> QED BY <1>8, <2>1, <2>2, StartShape
<1>9. CASE Crash(w)
  <2>1. CASE run[w].pc = "moving" /\ Parked(status)
    <3>1. cut' /\ RowsAge
      BY <1>9, <2>1, CrashShape, SameRows, ShapeFacts
    <3>2. PublishedIsReviewable'
      BY <1>9, <3>1, CrashShape, ReviewableKept DEF Others
    <3> QED BY <3>1, <3>2 DEF Cover, ParkedHasAJob
  <2>2. CASE ~Parked(status)
    BY <1>9, <2>2, CrashShape, UnparkedIsCovered
  <2>3. CASE run[w].pc # "moving"
    BY <1>9, <2>3, CrashShape, SameJobsCovered DEF Others
  <2> QED BY <2>1, <2>2, <2>3
<1> QED BY <1>1, <1>2, <1>3, <1>4, <1>5, <1>6, <1>7, <1>8, <1>9 DEF WorkerStep, Quiet

LEMMA CoverStep ==
    ASSUME Shape, Cover, [Next]_vars
    PROVE  Cover'
<1>1. CASE UNCHANGED vars
  BY <1>1, SameJobsCovered DEF vars
<1> QED BY <1>1, OwnerCovered, ElsewhereCovered, ClaimCovered, WorkerCovered DEF Next

-------------------------------------------------------------------------------
(* The theorems.                                                           *)

LEMMA InitHolds == Init => IInv
<1> SUFFICES ASSUME Init
             PROVE  IInv
  OBVIOUS
<1>1. jobs \in Seq(Job) /\ Len(jobs) = 0 /\ DOMAIN jobs = {}
  BY EmptySeq DEF Init
<1>2. run \in [Workers -> Run] /\ \A w \in Workers : run[w].pc = "idle"
  BY AtRun, StagesAre DEF Init
<1>3. current \in Revision \cup {NoRevision} /\ current.job = 0 /\ current = NoRevision
  BY NoRevisionIsNone DEF Init
<1>4. TypeOK
  <2>1. Len(jobs) <= MaxJobs /\ expired \in 0..MaxJobs /\ faults \in 0..MaxFaults
    BY <1>1, BoundAssumption DEF Init
  <2>2. /\ status \in DraftStatuses /\ ready \in {"none", "current", "superseded"}
        /\ cut \in BOOLEAN
    BY StatusesAre DEF Init
  <2> QED BY <1>1, <1>2, <1>3, <2>1, <2>2 DEF TypeOK
<1>5. Shape
  BY <1>1, <1>2, <1>3, <1>4 DEF Init, Shape, HandsFull
<1>6. PublishedIsComplete /\ ReadyIsApproved /\ ReadyIsFresh
  BY <1>3 DEF Init, PublishedIsComplete, ReadyIsApproved, ReadyIsFresh
<1>7. PublishedIsReviewable /\ ParkedHasAJob
  BY <1>2 DEF Init, PublishedIsReviewable, ParkedHasAJob, Parked
<1>8. TextsShow
  BY <1>2, <1>3 DEF TextsShow, Writing
<1> QED BY <1>5, <1>6, <1>7, <1>8 DEF IInv

LEMMA IInvHolds == Spec => []IInv
<1>1. IInv /\ [Next]_vars => IInv'
  BY ShapeStep, TextsStep, CompleteStep, ReadyStep, CoverStep DEF IInv, Ready, Cover
<1> QED BY <1>1, InitHolds, PTL DEF Spec

\* Every variable keeps its type, and a draft is parked on a compile only while
\* a job is active or a worker is about to move it, but for the two recorded
\* exceptions (MoveDraft, RequestCompile, Recover, SettleAtCap).
THEOREM ParkedDraftsAreCovered == Spec => []Inv
<1>1. IInv => Inv
  BY DEF IInv, Shape, Inv
<1> QED BY <1>1, IInvHolds, PTL

\* The current revision has its claims and findings stored, wherever a run is
\* cut (_stage_assemble, _db_publish_revision).
THEOREM PublishedRevisionsAreComplete == Spec => []PublishedIsComplete
<1>1. IInv => PublishedIsComplete
  BY DEF IInv
<1> QED BY <1>1, IInvHolds, PTL

\* The Ready pointer is set exactly in status ready, on a current revision that
\* was compiled and checked, with no compile under way.
THEOREM ReadyDraftsAreApproved == Spec => []ReadyIsApproved
<1>1. IInv => ReadyIsApproved
  BY DEF IInv
<1> QED BY <1>1, IInvHolds, PTL

\* A Ready draft was written from its sources as they are, unless no hook told
\* of a change since its approval, or its evidence rows were misdated: however
\* edits of a source fall between retrieval, snapshot, reuse of a checkpoint,
\* assembly, publication and approval.
THEOREM ReadyDraftsAreFresh == Spec => []ReadyIsFresh
<1>1. IInv => ReadyIsFresh
  BY DEF IInv
<1> QED BY <1>1, IInvHolds, PTL

\* No step leaves a draft that has a current revision without one.
THEOREM TextSurvives == Spec => NoTextIsLost
<1>1. IInv /\ [Next]_vars => [current # NoRevision => current' # NoRevision]_vars
  BY CurrentStep, NoRevisionIsNone DEF IInv
<1> QED BY <1>1, IInvHolds, PTL DEF Spec, NoTextIsLost

===============================================================================
