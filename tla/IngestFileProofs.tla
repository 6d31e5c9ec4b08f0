--------------------------- MODULE IngestFileProofs ---------------------------
(***************************************************************************)
(* Proofs about IngestFile for any number of workers, jobs and attempts,   *)
(* any of the three requests and any number of faults.                     *)
(***************************************************************************)
EXTENDS IngestFile, TLAPS

-------------------------------------------------------------------------------
(* The inductive invariant.                                                *)

\* As much of the types as the steps below rest on
Places == InFile \cup Unwinding \cup AtJob \cup {"idle"}
Answers == CancelSteps \cup {"due", "accepted", "refused", "failed", "over"}
Row == [pc : Places, job : Int, last : BOOLEAN, keeps : BOOLEAN, jam : BOOLEAN]
RetrySteps == {"due", "inserted", "fallback", "over"}

Shape ==
    /\ work \in [Workers -> Row]
    /\ cancel \in [pc : Answers, picked : SUBSET JobIds]
    /\ retry \in [pc : RetrySteps, late : BOOLEAN]
    /\ marked \in BOOLEAN

\* Nothing has touched a file that is not uploaded yet.
Untouched ==
    upload = "due" => /\ status = "none"
                      /\ cancel.pc = "due" /\ retry.pc = "due"
                      /\ item.st = "none" /\ ~tomb
                      /\ \A j \in JobIds : jobs[j].st = "over"
                      /\ \A w \in Workers : work[w] = Idle

\* No later retry takes a cancelled file up either.
CancelHolds == cancel.pc = "accepted" => status \in {"cancelled", "none"}

\* The file may still be served; a step leaves this for good.
Standing ==
    status \notin {"none", "cancelled"} /\ del = "due" /\ "torn" \notin lost

\* An attempt that may yet write "indexed": its chunks are in, or it would
\* restore what it found served
WillServe(w) == work[w].pc \in {"written", "committing"} \/ work[w].keeps

ServersHaveChunks ==
    Standing => \A w \in Workers : WillServe(w) => vec

\* A rollback drops chunks only after it has cancelled the row, or could not
\* commit that.
DropsCancelledOnly ==
    \A w \in Workers : work[w].pc = "dropping" =>
        status \in {"cancelled", "none"} \/ {"unwound", "torn"} \subseteq lost

\* A tombstone stands for chunks of a file that is not served any more.
TombsAreDue == tomb => ~Standing

IInv ==
    /\ Shape
    /\ Untouched
    /\ CancelHolds
    /\ IndexedHasChunks
    /\ ServersHaveChunks
    /\ DropsCancelledOnly
    /\ TombsAreDue

\* A worker's row stays one when its step moves or one of its flags is set.
LEMMA RowsOf ==
    /\ Idle \in Row
    /\ \A w \in Workers : Shape => work[w] \in Row
    /\ \A r \in Row, pc \in Places, b \in BOOLEAN :
           /\ [r EXCEPT !.pc = pc] \in Row
           /\ [r EXCEPT !.pc = pc, !.jam = b] \in Row
           /\ [r EXCEPT !.pc = pc, !.keeps = b] \in Row
           /\ [r EXCEPT !.keeps = b] \in Row
<1>1. Idle \in Row
  BY DEF Idle, Row, Places
<1>2. \A w \in Workers : Shape => work[w] \in Row
  BY DEF Shape
<1>3. \A r \in Row, pc \in Places, b \in BOOLEAN :
        /\ [r EXCEPT !.pc = pc] \in Row
        /\ [r EXCEPT !.pc = pc, !.jam = b] \in Row
        /\ [r EXCEPT !.pc = pc, !.keeps = b] \in Row
        /\ [r EXCEPT !.keeps = b] \in Row
  BY DEF Row
<1> QED BY <1>1, <1>2, <1>3

\* A worker that moves on, and a mark set or cleared, keep the shape.
LEMMA MoveKeepsShape ==
    ASSUME Shape, NEW w \in Workers, NEW pc \in Places, Goes(w, pc),
           marked' \in BOOLEAN, UNCHANGED <<cancel, retry>>
    PROVE  Shape'
<1>1. work' = [work EXCEPT ![w] = [@ EXCEPT !.pc = pc]]
  BY DEF Goes
<1>2. [work[w] EXCEPT !.pc = pc] \in Row
  BY RowsOf
<1>3. work' \in [Workers -> Row]
  BY <1>1, <1>2 DEF Shape
<1> QED BY <1>3 DEF Shape

\* Nothing is uploaded yet, and nobody works.
LEMMA InitHolds == Init => IInv
<1> SUFFICES ASSUME Init PROVE IInv
  OBVIOUS
<1> USE DEF Init
<1>1. Shape
  BY RowsOf DEF Shape, Answers, RetrySteps
<1>2. Untouched
  BY DEF Untouched, NoJob, NoItem
<1>3. CancelHolds /\ IndexedHasChunks
  BY DEF CancelHolds, IndexedHasChunks
<1>4. ServersHaveChunks /\ DropsCancelledOnly /\ TombsAreDue
  BY DEF ServersHaveChunks, DropsCancelledOnly, TombsAreDue, Standing
<1> QED BY <1>1, <1>2, <1>3, <1>4 DEF IInv

-------------------------------------------------------------------------------
(* Restarts, sweeps and requests, one step per action.                     *)

\* A process that is gone takes its attempts along; a stopped one may hand the
\* status "indexed" back, for an attempt that had written nothing.
LEMMA Halts ==
    ASSUME IInv, Crash \/ Stop
    PROVE  IInv'
<1> USE DEF IInv, Shape, Untouched, CancelSteps
<1>0. Gone /\ Dropped
  BY DEF Crash, Stop
<1>1. Shape'
  BY <1>0, RowsOf DEF Gone, Dropped, Answers, RetrySteps
<1>2. \A w \in Workers : work'[w] = Idle
  BY <1>0 DEF Gone
<1>3. Untouched'
  <2>1. CASE Crash
    BY <1>0, <1>2, <2>1 DEF Crash, Gone, Dropped, NoItem
  <2>2. CASE Stop
    BY <1>0, <1>2, <2>2 DEF Stop, Gone, Dropped, NoItem
  <2> QED BY <2>1, <2>2
<1>4. CancelHolds'
  BY <1>0 DEF Crash, Stop, Dropped, CancelHolds
<1>5. /\ "torn" \in lost' <=> "torn" \in lost
      /\ del' = "due" => del = "due"
      /\ status \in {"none", "cancelled"} => status' = status
      /\ UNCHANGED <<vec, tomb>>
  BY <1>0 DEF Crash, Stop, Gone, Dropped, Damages
<1>6. IndexedHasChunks'
  <2>1. CASE Crash
    BY <1>5, <2>1 DEF Crash, IndexedHasChunks
  <2>2. CASE Stop
    BY <1>5, <2>2 DEF Stop, IndexedHasChunks, ServersHaveChunks, Standing, WillServe,
                      Undisturbed
  <2> QED BY <2>1, <2>2
<1>7. ServersHaveChunks' /\ DropsCancelledOnly'
  BY <1>2 DEF ServersHaveChunks, DropsCancelledOnly, WillServe, Idle
<1>8. TombsAreDue'
  BY <1>5 DEF TombsAreDue, Standing
<1> QED BY <1>1, <1>3, <1>4, <1>6, <1>7, <1>8

\* The boot sync and the janitor fail or reset a waiting row, and nothing else.
LEMMA Sweeps ==
    ASSUME IInv, Sync \/ Restart \/ Redelete \/ \E j \in JobIds : Janitor(j)
    PROVE  IInv'
<1> USE DEF IInv, Shape, Untouched, CancelHolds, IndexedHasChunks, TombsAreDue,
            ServersHaveChunks, DropsCancelledOnly, Standing, WillServe, Calls, Live
<1>1. CASE Sync
  BY <1>1 DEF Sync, Inserted, ResetFor
<1>2. CASE Restart
  BY <1>2 DEF Restart
<1>4. CASE Redelete
  <2>1. lost \subseteq lost' /\ "torn" \in lost' => "torn" \in lost
    BY <1>4 DEF Redelete
  <2> QED BY <1>4, <2>1 DEF Redelete
<1>3. ASSUME NEW j \in JobIds, Janitor(j) PROVE IInv'
  BY <1>3 DEF Janitor, ResetFor, Failed, Requeued
<1> QED BY <1>1, <1>2, <1>3, <1>4

\* Of the requests only an upload makes a row stand, when nothing is there yet;
\* a delete takes the chunks once it has begun.
LEMMA RequestSteps ==
    ASSUME IInv, Route
    PROVE  IInv'
<1> USE DEF IInv, Shape, Untouched, CancelHolds, IndexedHasChunks, TombsAreDue,
            ServersHaveChunks, DropsCancelledOnly, Standing, WillServe, Live,
            CancelSteps, Answers, RetrySteps, Retries, Idle
<1>1. CASE Register
  BY <1>1 DEF Register
<1>2. CASE InsertUploaded
  BY <1>2 DEF InsertUploaded, Inserted
<1>3. CASE Undo
  BY <1>3 DEF Undo
<1>4. CASE ClearUploaded
  BY <1>4 DEF ClearUploaded
<1>5. CASE InsertRetried
  <2>1. /\ UNCHANGED <<status, vec, marked, item, work, upload, cancel, del, tomb, lost>>
        /\ status # "none"
    BY <1>5 DEF InsertRetried
  <2>2. retry' \in [pc : RetrySteps, late : BOOLEAN]
    <3>1. CASE retry' = [retry EXCEPT !.pc = "over"]
      BY <3>1
    <3>2. ASSUME NEW pc \in {"inserted", "fallback"},
                 retry' = [pc |-> pc, late |-> cancel.pc = "accepted"]
          PROVE  retry' \in [pc : RetrySteps, late : BOOLEAN]
      <4>1. (cancel.pc = "accepted") \in BOOLEAN
        OBVIOUS
      <4> QED BY <3>2, <4>1
    <3> QED BY <1>5, <3>1, <3>2 DEF InsertRetried
  <2> QED BY <2>1, <2>2
<1>6. CASE ClearRetried
  BY <1>6 DEF ClearRetried
<1>7. CASE ReadForCancel
  BY <1>7 DEF ReadForCancel
<1>8. CASE Mark
  BY <1>8 DEF Mark
<1>9. CASE SweepPicked
  BY <1>9 DEF SweepPicked, NoJob, Open
<1>10. CASE Purge
  BY <1>10 DEF Purge
<1>11. CASE DeleteRow
  <2>1. /\ UNCHANGED <<vec, jobs, marked, item, work, upload, cancel, retry, lost>>
        /\ del # "due" /\ del' # "due" /\ status' \in {status, "none"}
    BY <1>11 DEF DeleteRow
  <2>2. status = "none" /\ ~tomb => ~tomb'
    BY <1>11 DEF DeleteRow
  <2> QED BY <2>1, <2>2
<1>12. CASE Flip
  <2>1. cancel' \in [pc : Answers, picked : SUBSET JobIds]
    BY <1>12 DEF Flip
  <2>2. cancel.pc = "swept" /\ cancel'.pc \in {"accepted", "refused", "failed"}
    BY <1>12 DEF Flip
  <2>3. /\ cancel'.pc = "accepted" => status' = "cancelled"
        /\ status' \in {status, "cancelled"}
    BY <1>12, <2>2 DEF Flip
  <2>4. marked' \in BOOLEAN /\ UNCHANGED <<vec, jobs, item, work, upload, retry, del, tomb, lost>>
    BY <1>12 DEF Flip
  <2> QED BY <2>1, <2>2, <2>3, <2>4
<1> QED
  BY <1>1, <1>2, <1>3, <1>4, <1>5, <1>6, <1>7, <1>8, <1>9, <1>10, <1>11, <1>12 DEF Route

-------------------------------------------------------------------------------
(* An attempt.                                                             *)

\* What every step of an attempt does: it leaves a row that has gone or is
\* cancelled, drops nothing of a file that stands, and writes "indexed", or
\* keeps that in reserve, only over chunks.
AttemptStep(w) ==
    /\ upload # "due"
    /\ \A v \in Workers \ {w} : work'[v] = work[v]
    /\ status \in {"none", "cancelled"} => status' \in {"none", "cancelled"}
    /\ lost \subseteq lost'
    /\ Standing' /\ (vec \/ status' = "indexed" \/ WillServe(w)') => vec'
    /\ work'[w].pc = "dropping" =>
           status' \in {"none", "cancelled"} \/ {"unwound", "torn"} \subseteq lost'
    /\ tomb' => tomb \/ ~Standing'

\* Such a step preserves the invariant.
LEMMA AttemptKeeps ==
    ASSUME IInv, NEW w \in Workers, AttemptStep(w), Shape', UNCHANGED Calls
    PROVE  IInv'
<1> USE DEF IInv, AttemptStep, Calls
<1>1. Untouched'
  BY DEF Untouched
<1>2. CancelHolds'
  BY DEF CancelHolds
<1>3. Standing' => Standing
  BY DEF Standing
<1>4. IndexedHasChunks'
  BY DEF IndexedHasChunks, Standing
<1>5. ServersHaveChunks'
  BY <1>3 DEF ServersHaveChunks, WillServe
<1>6. DropsCancelledOnly'
  BY DEF DropsCancelledOnly
<1>7. TombsAreDue'
  BY <1>3 DEF TombsAreDue
<1> QED BY <1>1, <1>2, <1>4, <1>5, <1>6, <1>7

\* A worker's row after its own step
LEMMA RowChanges ==
    ASSUME Shape, NEW w \in Workers, NEW r \in Row, work' = [work EXCEPT ![w] = r],
           marked' \in BOOLEAN, UNCHANGED <<cancel, retry>>
    PROVE  Shape' /\ work'[w] = r /\ \A v \in Workers \ {w} : work'[v] = work[v]
BY DEF Shape

\* A step that leaves the row, its chunks and the tombstones alone, and brings the
\* worker to no place nearer to serving or dropping
LEMMA QuietStep ==
    ASSUME IInv, NEW w \in Workers, NEW r \in Row, work' = [work EXCEPT ![w] = r],
           work[w] # Idle, UNCHANGED <<status, vec, tomb, Calls>>, lost \subseteq lost',
           marked' \in BOOLEAN, r.pc # "dropping",
           r.pc \in {"written", "committing"} => work[w].pc \in {"written", "committing"},
           r.keeps => work[w].keeps
    PROVE  AttemptStep(w) /\ Shape'
<1>1. Shape' /\ work'[w] = r /\ \A v \in Workers \ {w} : work'[v] = work[v]
  BY RowChanges DEF IInv, Calls
<1>2. upload # "due"
  BY DEF IInv, Untouched
<1>3. Standing' => Standing
  BY DEF Standing, Calls
<1>4. ASSUME Standing', vec \/ status' = "indexed" \/ WillServe(w)' PROVE vec'
  BY <1>1, <1>3, <1>4 DEF IInv, WillServe, ServersHaveChunks, IndexedHasChunks, Standing
<1> QED BY <1>1, <1>2, <1>4 DEF AttemptStep

\* The same for a worker that only goes to its next step
LEMMA QuietMove ==
    ASSUME IInv, NEW w \in Workers, NEW pc \in Places \ {"dropping"}, Goes(w, pc),
           work[w].pc # "idle", UNCHANGED <<status, vec, tomb, Calls>>,
           lost \subseteq lost', marked' \in BOOLEAN,
           pc \in {"written", "committing"} => work[w].pc \in {"written", "committing"}
    PROVE  AttemptStep(w) /\ Shape'
<1> DEFINE r == [work[w] EXCEPT !.pc = pc]
<1>1. work[w] \in Row /\ r \in Row
  BY RowsOf DEF IInv
<1>2. r.pc = pc /\ r.keeps = work[w].keeps
  BY <1>1 DEF Row
<1>3. work' = [work EXCEPT ![w] = r]
  BY <1>1 DEF Goes
<1>4. work[w] # Idle
  BY DEF Idle
<1> HIDE DEF r
<1> QED BY <1>1, <1>2, <1>3, <1>4, QuietStep

\* A worker that rests
LEMMA QuietRest ==
    ASSUME IInv, NEW w \in Workers, Rests(w), work[w].pc # "idle",
           UNCHANGED <<status, vec, tomb, Calls>>, lost \subseteq lost', marked' \in BOOLEAN
    PROVE  AttemptStep(w) /\ Shape'
<1>1. Idle \in Row /\ Idle.pc = "idle" /\ ~Idle.keeps
  BY RowsOf DEF Idle
<1>2. work' = [work EXCEPT ![w] = Idle] /\ work[w] # Idle
  BY <1>1 DEF Rests
<1> QED BY <1>1, <1>2, QuietStep

\* A worker that moves while the status is settled or reset
LEMMA SettledMove ==
    ASSUME IInv, NEW w \in Workers, NEW r \in Row, work' = [work EXCEPT ![w] = r],
           work[w] # Idle, UNCHANGED <<vec, tomb, Calls>>, lost \subseteq lost',
           marked' \in BOOLEAN, r.pc \notin {"dropping", "written", "committing"},
           status \in {"none", "cancelled"} => status' \in {"none", "cancelled"},
           status' = "indexed" => WillServe(w) \/ status = "indexed",
           r.keeps => work[w].keeps \/ status = "indexed"
    PROVE  AttemptStep(w) /\ Shape'
<1>1. Shape' /\ work'[w] = r /\ \A v \in Workers \ {w} : work'[v] = work[v]
  BY RowChanges DEF IInv, Calls
<1>2. upload # "due"
  BY DEF IInv, Untouched
<1>3. Standing' => Standing
  BY DEF Standing, Calls
<1>4. ASSUME Standing', vec \/ status' = "indexed" \/ WillServe(w)' PROVE vec'
  BY <1>1, <1>3, <1>4 DEF IInv, WillServe, ServersHaveChunks, IndexedHasChunks, Standing
<1> QED BY <1>1, <1>2, <1>4 DEF AttemptStep

\* Every step of an attempt, its claim included, is one.
LEMMA AttemptSteps ==
    ASSUME IInv, NEW w \in Workers,
           \/ Attempt(w) \/ Take(w) \/ TakeInVain(w) \/ \E j \in JobIds : Claim(w, j)
    PROVE  AttemptStep(w) /\ Shape' /\ UNCHANGED Calls
<1>0. UNCHANGED Calls
  BY DEF Attempt, Claim, Take, TakeInVain, Begin, Parse, Embed, Write, Publish, Commit,
         Restore, RollBack, DropVectors, SettleCancel, SettleSuccess, SettleFailure,
         MarkFailed, FinishItem, FailItem
<1> USE <1>0 DEF At, Fine, Fault
<1>p. Places = {"parsing", "embedding", "writing", "written", "committing", "restoring",
                "unwinding", "dropping", "claimed", "failed", "capped", "settling",
                "cancelling", "idle"}
  BY DEF Places, InFile, Unwinding, AtJob
<1>r. /\ marked \in BOOLEAN /\ work \in [Workers -> Row]
      /\ work[w] \in Row /\ Idle.pc = "idle" /\ lost \subseteq lost
      /\ work[w].pc # "idle" => work[w] # Idle
  <2>1. Idle.pc = "idle"
    BY DEF Idle
  <2>2. marked \in BOOLEAN /\ work \in [Workers -> Row]
    BY DEF IInv, Shape
  <2> QED BY <2>1, <2>2
\* A failure on the way is such a move.
<1>f. ASSUME Fails(w), work[w].pc # "idle", UNCHANGED <<status, vec, tomb, marked>>,
             lost \subseteq lost'
      PROVE  AttemptStep(w) /\ Shape'
  <2>1. Goes(w, "unwinding") \/ Goes(w, "restoring")
    BY <1>f DEF Fails, Goes
  <2> QED BY <1>f, <1>p, <1>r, <2>1, QuietMove
<1>1. CASE Begin(w)
  <2>1. /\ work[w].pc = "claimed"
        /\ UNCHANGED <<vec, tomb, marked, lost>>
    BY <1>1 DEF Begin
  <2>2. CASE (Goes(w, "failed") \/ Goes(w, "unwinding")) /\ UNCHANGED status
    BY <1>p, <1>r, <2>1, <2>2, QuietMove
  <2>3. CASE /\ status \notin {"none", "cancelled"}
             /\ status' = "processing"
             /\ work' = [work EXCEPT ![w].pc = "parsing", ![w].keeps = (status = "indexed")]
    <3> DEFINE r == [work[w] EXCEPT !.pc = "parsing", !.keeps = (status = "indexed")]
    <3>1. r \in Row
      BY <1>p, <1>r, RowsOf
    <3>2. r.pc = "parsing" /\ r.keeps = (status = "indexed")
      BY <1>r DEF Row
    <3>3. work' = [work EXCEPT ![w] = r]
      BY <1>r, <2>3
    <3> HIDE DEF r
    <3> QED BY <1>r, <2>1, <2>3, <3>1, <3>2, <3>3, SettledMove
  <2> QED BY <1>1, <2>2, <2>3 DEF Begin
<1>2. CASE Parse(w)
  <2>1. /\ work[w].pc = "parsing"
        /\ UNCHANGED <<status, vec, tomb, marked, lost>>
        /\ Fails(w) \/ Goes(w, "unwinding") \/ Goes(w, "embedding")
    BY <1>2 DEF Parse
  <2> QED BY <1>f, <1>p, <1>r, <2>1, QuietMove
<1>3. CASE Embed(w)
  <2>1. /\ work[w].pc = "embedding"
        /\ UNCHANGED <<status, vec, tomb, marked, lost>>
    BY <1>3 DEF Embed
  <2>2. CASE Fails(w) \/ Goes(w, "unwinding")
    BY <1>f, <1>p, <1>r, <2>1, <2>2, QuietMove
  <2>3. CASE work' = [work EXCEPT ![w].pc = "writing", ![w].keeps = FALSE]
    <3> DEFINE r == [work[w] EXCEPT !.pc = "writing", !.keeps = FALSE]
    <3>1. r \in Row
      BY <1>p, <1>r, RowsOf
    <3>2. r.pc = "writing" /\ ~r.keeps
      BY <1>r DEF Row
    <3>3. work' = [work EXCEPT ![w] = r]
      BY <1>r, <2>3
    <3> HIDE DEF r
    <3> QED BY <1>r, <2>1, <3>1, <3>2, <3>3, QuietStep
  <2> QED BY <1>3, <2>2, <2>3 DEF Embed
<1>4. CASE Write(w)
  <2>1. /\ work[w].pc = "writing" /\ upload # "due"
        /\ UNCHANGED <<status, tomb, marked>> /\ lost \subseteq lost'
        /\ vec' \in {vec, TRUE}
    BY <1>4, <1>r DEF Write, IInv, Untouched
  <2>2. CASE vec' = TRUE
    <3>1. /\ \/ work' = [work EXCEPT ![w].pc = work'[w].pc]
             \/ work' = [work EXCEPT ![w].pc = work'[w].pc, ![w].jam = TRUE]
          /\ work'[w].pc \in {"written", "unwinding", "restoring", "failed"}
      <4>1. CASE Goes(w, "written") \/ Goes(w, "unwinding") \/ Goes(w, "restoring")
        BY <1>r, <4>1 DEF Goes, Row
      <4>2. CASE work' = [work EXCEPT ![w].pc = IF marked THEN "unwinding" ELSE "failed",
                                      ![w].jam = TRUE]
        <5>1. work'[w].pc = IF marked THEN "unwinding" ELSE "failed"
          BY <1>r, <4>2 DEF Row
        <5> QED BY <4>2, <5>1
      <4> QED BY <1>4, <4>1, <4>2 DEF Write, Fails, Goes
    <3>2. PICK r \in Row : work' = [work EXCEPT ![w] = r]
      <4>1. work'[w].pc \in Places
        BY <1>p, <3>1
      <4>2. /\ [work[w] EXCEPT !.pc = work'[w].pc] \in Row
            /\ [work[w] EXCEPT !.pc = work'[w].pc, !.jam = TRUE] \in Row
        BY <1>r, <4>1, RowsOf
      <4>3. \/ work' = [work EXCEPT ![w] = [work[w] EXCEPT !.pc = work'[w].pc]]
            \/ work' = [work EXCEPT ![w] = [work[w] EXCEPT !.pc = work'[w].pc, !.jam = TRUE]]
        BY <1>r, <3>1
      <4> QED BY <4>2, <4>3
    <3>3. Shape' /\ \A v \in Workers \ {w} : work'[v] = work[v]
      BY <1>r, <2>1, <3>2, RowChanges DEF IInv, Calls
    <3> QED BY <2>1, <2>2, <3>1, <3>3 DEF AttemptStep
  <2>3. CASE Fails(w) /\ vec' = vec
    BY <1>f, <2>1, <2>3
  <2>4. CASE /\ work' = [work EXCEPT ![w].pc = IF marked THEN "unwinding" ELSE "failed",
                                     ![w].jam = TRUE]
             /\ vec' = vec
    <3> DEFINE pc == IF marked THEN "unwinding" ELSE "failed"
               r == [work[w] EXCEPT !.pc = pc, !.jam = TRUE]
    <3>1. pc \in {"unwinding", "failed"} /\ pc \in Places
      BY <1>p
    <3>2. r \in Row
      BY <1>r, <3>1, RowsOf
    <3>3. r.pc = pc /\ r.keeps = work[w].keeps
      BY <1>r DEF Row
    <3>4. work' = [work EXCEPT ![w] = r]
      BY <1>r, <2>4
    <3> HIDE DEF r, pc
    <3> QED BY <1>r, <2>1, <2>4, <3>1, <3>2, <3>3, <3>4, QuietStep
  <2> QED BY <1>4, <2>1, <2>2, <2>3, <2>4 DEF Write
<1>5. CASE Publish(w)
  <2>1. /\ work[w].pc = "written" /\ upload # "due"
        /\ UNCHANGED <<status, tomb, marked>> /\ lost \subseteq lost'
    BY <1>5, <1>r DEF Publish, IInv, Untouched
  <2>2. CASE status = "none" /\ vec' = FALSE /\ Fails(w)
    <3>1. Goes(w, "unwinding") \/ Goes(w, "restoring")
      BY <2>2 DEF Fails, Goes
    <3>2. Shape' /\ work'[w].pc # "dropping" /\ \A v \in Workers \ {w} : work'[v] = work[v]
      BY <1>p, <1>r, <2>1, <3>1, MoveKeepsShape DEF IInv, Goes, Row, Calls
    <3> QED BY <2>1, <2>2, <3>2 DEF AttemptStep, Standing
  <2>3. CASE vec' = vec /\ (Goes(w, "unwinding") \/ Goes(w, "committing"))
    BY <1>p, <1>r, <2>1, <2>3, QuietMove
  <2>4. CASE vec' = vec /\ Fails(w)
    BY <1>f, <2>1, <2>4
  <2> QED BY <1>5, <2>2, <2>3, <2>4 DEF Publish
<1>6. CASE Commit(w)
  <2>1. /\ work[w].pc = "committing" /\ marked' \in BOOLEAN
        /\ UNCHANGED <<vec, tomb>> /\ lost \subseteq lost'
    BY <1>6, <1>r DEF Commit
  <2>2. CASE status \in Live /\ status' = "indexed" /\ Goes(w, "settling")
    <3> DEFINE r == [work[w] EXCEPT !.pc = "settling"]
    <3>1. r \in Row
      BY <1>p, <1>r, RowsOf
    <3>2. r.pc = "settling" /\ r.keeps = work[w].keeps
      BY <1>r DEF Row
    <3>3. work' = [work EXCEPT ![w] = r] /\ WillServe(w)
      BY <1>r, <2>1, <2>2 DEF Goes, WillServe
    <3> HIDE DEF r
    <3> QED BY <1>r, <2>1, <2>2, <3>1, <3>2, <3>3, SettledMove DEF Live
  <2>3. CASE /\ Goes(w, "unwinding") \/ Goes(w, "settling") \/ Goes(w, "failed")
             /\ UNCHANGED status
    BY <1>p, <2>1, <2>3, QuietMove
  <2> QED BY <1>6, <2>2, <2>3 DEF Commit
<1>7. CASE Restore(w)
  <2>1. /\ work[w].pc = "restoring" /\ UNCHANGED <<vec, tomb, marked>>
        /\ lost \subseteq lost'
    BY <1>7 DEF Restore
  <2>2. CASE work' = [work EXCEPT ![w].keeps = FALSE] /\ UNCHANGED status
    <3> DEFINE r == [work[w] EXCEPT !.keeps = FALSE]
    <3>0. "idle" \in Places
      BY <1>p
    <3>1. r \in Row
      BY <1>r, <3>0, RowsOf
    <3>2. r.pc = "restoring" /\ ~r.keeps
      BY <1>r, <2>1 DEF Row
    <3>3. work' = [work EXCEPT ![w] = r]
      BY <1>r, <2>2
    <3> HIDE DEF r
    <3> QED BY <1>r, <2>1, <2>2, <3>1, <3>2, <3>3, QuietStep
  <2>3. CASE /\ work[w].keeps => status \in Live
             /\ status' = IF status \notin Live THEN status
                          ELSE IF work[w].keeps THEN "indexed" ELSE "error"
             /\ Goes(w, "failed")
    <3> DEFINE r == [work[w] EXCEPT !.pc = "failed"]
    <3>1. r \in Row
      BY <1>p, <1>r, RowsOf
    <3>2. r.pc = "failed" /\ r.keeps = work[w].keeps
      BY <1>r DEF Row
    <3>3. work' = [work EXCEPT ![w] = r]
      BY <1>r, <2>3 DEF Goes
    <3>4. /\ status \in {"none", "cancelled"} => status' \in {"none", "cancelled"}
          /\ status' = "indexed" => WillServe(w) \/ status = "indexed"
      BY <2>3 DEF Live, WillServe
    <3> HIDE DEF r
    <3> QED BY <1>r, <2>1, <3>1, <3>2, <3>3, <3>4, SettledMove
  <2>4. CASE Goes(w, "failed") /\ UNCHANGED status
    BY <1>p, <1>r, <2>1, <2>4, QuietMove
  <2> QED BY <1>7, <2>2, <2>3, <2>4 DEF Restore
<1>8. CASE RollBack(w)
  <2>1. /\ work[w].pc = "unwinding" /\ marked' \in BOOLEAN /\ upload # "due"
        /\ UNCHANGED <<vec, tomb>> /\ lost \subseteq lost'
    BY <1>8, <1>r DEF RollBack, IInv, Untouched
  <2>2. CASE Goes(w, "cancelling") /\ UNCHANGED status
    BY <1>p, <2>1, <2>2, QuietMove
  <2>3. CASE /\ Goes(w, "dropping")
             /\ status' = "cancelled" \/ {"unwound", "torn"} \subseteq lost'
             /\ status \in {"none", "cancelled"} => status' \in {"none", "cancelled"}
    <3>0. "dropping" \in Places
      BY <1>p
    <3>1. Shape'
      BY <2>1, <2>3, <3>0, MoveKeepsShape DEF IInv, Calls
    <3>2. \A v \in Workers \ {w} : work'[v] = work[v]
      BY <1>r, <2>3 DEF Goes
    <3> QED BY <2>1, <2>3, <3>1, <3>2 DEF AttemptStep, Standing
  <2>4. CASE Fault /\ status \in Live /\ Goes(w, "dropping")
             /\ lost' = lost \cup Unwound("torn") /\ UNCHANGED status
    <3>1. {"unwound", "torn"} \subseteq lost' /\ status \notin {"none", "cancelled"}
      BY <2>4 DEF Unwound, Live
    <3> QED BY <2>3, <2>4, <3>1
  <2> QED BY <1>8, <2>2, <2>3, <2>4 DEF RollBack
<1>9. CASE DropVectors(w)
  <2>1. /\ work[w].pc = "dropping" /\ marked' = FALSE /\ upload # "due"
        /\ UNCHANGED status /\ lost \subseteq lost' /\ Goes(w, "cancelling")
        /\ vec' = vec \/ vec' = FALSE
    BY <1>9, <1>r DEF DropVectors, IInv, Untouched
  <2>2. ~Standing'
    BY <2>1 DEF IInv, DropsCancelledOnly, Standing
  <2>3. Shape' /\ work'[w].pc = "cancelling" /\ \A v \in Workers \ {w} : work'[v] = work[v]
    BY <1>p, <1>r, <2>1, MoveKeepsShape DEF IInv, Goes, Row, Calls
  <2> QED BY <2>1, <2>2, <2>3 DEF AttemptStep
<1>10. CASE SettleCancel(w)
  <2>1. /\ work[w].pc # "idle" /\ marked' \in BOOLEAN /\ Rests(w)
        /\ UNCHANGED <<status, vec, tomb, lost>>
    BY <1>10, <1>r DEF SettleCancel, Settled
  <2> QED BY <1>r, <2>1, QuietRest
<1>11. CASE SettleSuccess(w)
  <2>1. /\ work[w].pc # "idle" /\ Rests(w)
        /\ UNCHANGED <<status, vec, tomb, marked, lost>>
    BY <1>11 DEF SettleSuccess
  <2> QED BY <1>r, <2>1, QuietRest
<1>12. CASE SettleFailure(w)
  <2>1. /\ work[w].pc # "idle" /\ lost \subseteq lost'
        /\ UNCHANGED <<status, vec, tomb, marked>>
        /\ Rests(w) \/ Goes(w, "capped")
    BY <1>12 DEF SettleFailure
  <2> QED BY <1>p, <1>r, <2>1, QuietRest, QuietMove
<1>13. CASE MarkFailed(w) \/ FailItem(w)
  <2>1. /\ work[w].pc # "idle" /\ UNCHANGED <<vec, tomb, marked>> /\ lost \subseteq lost'
        /\ status' \in {status, "error", "pending"}
        /\ status' # status => status \in Live
    BY <1>13 DEF MarkFailed, FailItem
  <2>2. CASE Rests(w)
    <3>1. Idle \in Row /\ ~Idle.keeps
      BY RowsOf DEF Idle
    <3>2. work' = [work EXCEPT ![w] = Idle]
      BY <2>2 DEF Rests
    <3>3. /\ status \in {"none", "cancelled"} => status' = status
          /\ status' = "indexed" => status = "indexed"
      BY <2>1 DEF Live
    <3> QED BY <1>r, <2>1, <3>1, <3>2, <3>3, SettledMove
  <2>3. CASE Goes(w, "capped") /\ UNCHANGED status
    BY <1>p, <1>r, <2>1, <2>3, QuietMove
  <2> QED BY <1>13, <2>2, <2>3 DEF MarkFailed, FailItem
<1>14. CASE FinishItem(w)
  <2>1. /\ work[w].pc # "idle" /\ Rests(w)
        /\ UNCHANGED <<status, vec, tomb, marked, lost>>
    BY <1>14 DEF FinishItem
  <2> QED BY <1>r, <2>1, QuietRest
\* A worker that begins serves nothing and drops nothing yet.
<1>b. ASSUME NEW r \in Row, work' = [work EXCEPT ![w] = r], upload # "due",
             UNCHANGED <<status, vec, tomb, marked, lost>>,
             r.pc \in {"claimed", "capped"}, r.keeps => work[w].keeps
      PROVE  AttemptStep(w) /\ Shape'
  <2>1. Shape' /\ work'[w] = r /\ \A v \in Workers \ {w} : work'[v] = work[v]
    BY <1>b, <1>r, RowChanges DEF IInv, Calls
  <2>2. Standing' => Standing
    BY <1>b DEF Standing, Calls
  <2>3. ASSUME Standing', vec \/ status' = "indexed" \/ WillServe(w)' PROVE vec'
    BY <1>b, <2>1, <2>2, <2>3 DEF IInv, WillServe, ServersHaveChunks, IndexedHasChunks, Standing
  <2> QED BY <1>b, <2>1, <2>3 DEF AttemptStep
<1>15. CASE Take(w)
  <2> DEFINE r == [work[w] EXCEPT !.pc = "claimed", !.last = item.tries >= MaxAttempts]
  <2>1. "claimed" \in Places /\ (item.tries >= MaxAttempts) \in BOOLEAN
    BY <1>p
  <2>2. r \in Row /\ r.pc = "claimed" /\ r.keeps = work[w].keeps
    BY <1>r, <2>1 DEF Row
  <2>3. /\ work' = [work EXCEPT ![w] = r] /\ upload # "due"
        /\ UNCHANGED <<status, vec, tomb, marked, lost>>
    BY <1>15, <1>r DEF Take, IInv, Untouched
  <2> HIDE DEF r
  <2> QED BY <1>b, <2>2, <2>3
<1>16. CASE TakeInVain(w)
  <2> DEFINE r == [work[w] EXCEPT !.pc = "capped"]
  <2>1. "capped" \in Places
    BY <1>p
  <2>2. r \in Row /\ r.pc = "capped" /\ r.keeps = work[w].keeps
    BY <1>r, <2>1 DEF Row
  <2>3. /\ work' = [work EXCEPT ![w] = r] /\ upload # "due"
        /\ UNCHANGED <<status, vec, tomb, marked, lost>>
    BY <1>16, <1>r DEF TakeInVain, IInv, Untouched
  <2> HIDE DEF r
  <2> QED BY <1>b, <2>2, <2>3
<1>17. ASSUME NEW j \in JobIds, Claim(w, j) PROVE AttemptStep(w) /\ Shape'
  <2> DEFINE r == [Idle EXCEPT !.pc = "claimed", !.job = j,
                               !.last = jobs[j].tries + 1 >= MaxAttempts]
  <2>1. j \in Int /\ "claimed" \in Places /\ (jobs[j].tries + 1 >= MaxAttempts) \in BOOLEAN
    BY <1>p, BoundAssumption DEF JobIds
  <2>2. r \in Row /\ r.pc = "claimed" /\ ~r.keeps
    BY <2>1 DEF Idle, Row
  <2>3. /\ work' = [work EXCEPT ![w] = r] /\ upload # "due"
        /\ UNCHANGED <<status, vec, tomb, marked, lost>>
    BY <1>17 DEF Claim, IInv, Untouched
  <2> HIDE DEF r
  <2> QED BY <1>b, <2>2, <2>3
<1> QED
  BY <1>1, <1>2, <1>3, <1>4, <1>5, <1>6, <1>7, <1>8, <1>9, <1>10, <1>11, <1>12,
     <1>13, <1>14, <1>15, <1>16, <1>17 DEF Attempt

-------------------------------------------------------------------------------
(* The theorems.                                                           *)

\* The invariant holds throughout.
LEMMA Inductive == Spec => []IInv
<1>1. IInv /\ [Next]_vars => IInv'
  <2> SUFFICES ASSUME IInv, [Next]_vars PROVE IInv'
    OBVIOUS
  <2>1. CASE UNCHANGED vars
    BY <2>1 DEF vars, Calls, IInv, Shape, Untouched, CancelHolds, IndexedHasChunks,
                ServersHaveChunks, DropsCancelledOnly, TombsAreDue, Standing, WillServe
  <2>2. CASE Next
    BY <2>2, Halts, Sweeps, RequestSteps, AttemptSteps, AttemptKeeps DEF Next
  <2> QED BY <2>1, <2>2
<1> QED BY InitHolds, <1>1, PTL DEF Spec

\* A cancel that answered 200 holds through every attempt, sweep, crash, restart
\* and failing write (cancel_document_ingest and the guarded writes of the
\* processor).
THEOREM CancelIsKept == Spec => []AcceptedCancelHolds
<1>1. IInv => AcceptedCancelHolds
  BY DEF IInv, CancelHolds, AcceptedCancelHolds
<1> QED BY Inductive, <1>1, PTL

\* A file served as indexed has its chunks until its deletion begins, but for a
\* rollback whose commit failed: no rollback of another attempt and no tombstone
\* drops them, and no failure restores a status whose chunks are gone.
THEOREM ServedFilesHaveChunks == Spec => []IndexedHasChunks
<1>1. IInv => IndexedHasChunks
  BY DEF IInv
<1> QED BY Inductive, <1>1, PTL

-------------------------------------------------------------------------------
(* The types, and the cover of every waiting file.                         *)

\* A worker about to end its job or its item without a look at the file
Ending(w) == work[w].pc \in {"settling", "cancelling"}

\* An open job that some attempt, or the janitor, will still act on
Carried(j) ==
    \/ jobs[j].st = "pending"
    \/ /\ jobs[j].st = "running"
       /\ \A w \in Workers : Ending(w) => work[w].job # j \/ jobs[j].by # w

\* The same of the item in memory
ItemCarried ==
    \/ item.st = "queued"
    \/ item.st = "taken" /\ \A w \in Workers : Ending(w) => work[w].job # 0

\* A worker that has yet to write the status of the file or to hand its work on,
\* whoever has its job
Busy(w) == work[w].pc \in InFile \cup {"unwinding", "failed", "capped"}

SweptAway == cancel.pc \in {"swept", "refused", "failed"} /\ cancel.picked # {}

Uploading == upload \in {"registered", "fallback", "undoing"}

Minded ==
    \/ \E j \in JobIds : Carried(j)
    \/ ItemCarried
    \/ \E w \in Workers : Busy(w)
    \/ Uploading
    \/ SweptAway
    \/ Stranded

\* The first sync of a process covers what it finds waiting, and no step after
\* it lets go.
LiveIsMinded == status \in Live /\ boot \in {"again", "done"} => Minded

\* Only a fault takes the attempts of a job past the cap, and a job fails at it.
Fits(r) ==
    /\ r.tries <= MaxAttempts + faults
    /\ r.st = "pending" => r.tries < MaxAttempts + faults
    /\ r.st = "failed" => r.tries >= MaxAttempts

TriesFit == \A j \in JobIds : Fits(jobs[j])

\* What a worker at a job or an item of so many attempts knows of them
Counts(w, tries) ==
    /\ work[w].last <=> tries >= MaxAttempts
    /\ work[w].jam => tries < MaxAttempts + faults

Holders ==
    \A w \in Workers : /\ work[w].pc = "idle" => work[w] = Idle
                       /\ Owns(w) => Counts(w, jobs[work[w].job].tries)

\* A worker whose attempt at the item is not over
Taker(w) == work[w].job = 0 /\ work[w].pc \notin {"idle", "capped"}

\* One worker at a time has the item, and none is queued over another.
ItemFits ==
    /\ item.tries <= MaxAttempts + faults
    /\ \A w \in Workers : Taker(w) => item.st = "taken" /\ Counts(w, item.tries)
    /\ \A v, w \in Workers : Taker(v) /\ Taker(w) => v = w
    /\ upload = "fallback" => item.st = "none" /\ retry.pc # "fallback"
    /\ retry.pc = "fallback" => item.st = "none"

\* No job is claimed before the migration has run.
DownHasNoJob == boot \in {"down", "due"} => \A w \in Workers : work[w].job = 0

CInv == TypeOK /\ TriesFit /\ Holders /\ ItemFits /\ DownHasNoJob /\ LiveIsMinded

-------------------------------------------------------------------------------
(* An attempt that goes on with its job.                                   *)

Slot == [pc : Places, job : 0..MaxJobs, last : BOOLEAN, keeps : BOOLEAN, jam : BOOLEAN]
Item == [st : {"none", "queued", "taken"}, tries : Tries]

\* The constants as the arithmetic below reads them
LEMMA Numbers ==
    /\ MaxAttempts \in Nat /\ MaxAttempts > 0
    /\ MaxJobs \in Nat /\ MaxJobs > 0
    /\ MaxFaults \in Nat
BY BoundAssumption

\* More faults leave more room.
LEMMA Room ==
    \A n, a, f, g \in Nat :
        /\ n <= a + f /\ g > f => n < a + g
        /\ n < a + f /\ g >= f => n < a + g
        /\ n <= a + f /\ g >= f => n <= a + g
OBVIOUS

\* The types that the steps below use
LEMMA Types ==
    ASSUME TypeOK
    PROVE  /\ work \in [Workers -> Slot] /\ jobs \in [JobIds -> Job] /\ item \in Item
           /\ faults \in Nat /\ faults \in 0..MaxFaults /\ item.tries \in Nat
           /\ \A j \in JobIds : jobs[j] \in Job /\ jobs[j].tries \in Nat
           /\ \A w \in Workers : Owns(w) => work[w].job \in JobIds
<1>1. /\ work \in [Workers -> Slot] /\ jobs \in [JobIds -> Job] /\ item \in Item
      /\ faults \in 0..MaxFaults /\ faults \in Nat
  BY Numbers DEF TypeOK, Slot, Places, Item
<1>2. /\ item.tries \in Nat
      /\ \A j \in JobIds : jobs[j] \in Job /\ jobs[j].tries \in Nat
  BY <1>1, Numbers DEF Item, Job, Tries
<1>3. \A w \in Workers : Owns(w) => work[w].job \in JobIds
  BY <1>1, Numbers DEF Owns, Slot, JobIds
<1> QED BY <1>1, <1>2, <1>3

\* A worker moves on with its job.
Moves(w) ==
    /\ work[w].pc # "idle" /\ work'[w].pc # "idle"
    /\ work' \in [Workers -> Slot]
    /\ work'[w].job = work[w].job /\ work'[w].last = work[w].last
    /\ \A v \in Workers \ {w} : work'[v] = work[v]

\* Every way the attempts write their worker's row is such a move.
LEMMA Moved ==
    ASSUME work \in [Workers -> Slot], NEW w \in Workers, work[w].pc # "idle",
           NEW pc \in Places \ {"idle"}, NEW b \in BOOLEAN,
           \/ work' = [work EXCEPT ![w].pc = pc]
           \/ work' = [work EXCEPT ![w].pc = pc, ![w].keeps = b]
           \/ work' = [work EXCEPT ![w].pc = pc, ![w].jam = b]
    PROVE  /\ Moves(w)
           /\ work'[w].pc = pc
           /\ work'[w].jam => work[w].jam \/ b
<1>1. CASE work' = [work EXCEPT ![w].pc = pc]
  <2>1. work[w] \in Slot OBVIOUS
  <2>3. [work[w] EXCEPT !.pc = pc] \in Slot
    BY <2>1 DEF Slot
  <2>2. work' = [work EXCEPT ![w] = [work[w] EXCEPT !.pc = pc]]
    BY <1>1
  <2> QED BY <2>1, <2>2, <2>3 DEF Moves, Slot
<1>2. CASE work' = [work EXCEPT ![w].pc = pc, ![w].keeps = b]
  <2>1. work[w] \in Slot OBVIOUS
  <2>3. [work[w] EXCEPT !.pc = pc, !.keeps = b] \in Slot
    BY <2>1 DEF Slot
  <2>2. work' = [work EXCEPT ![w] = [work[w] EXCEPT !.pc = pc, !.keeps = b]]
    BY <1>2
  <2> QED BY <2>1, <2>2, <2>3 DEF Moves, Slot
<1>3. CASE work' = [work EXCEPT ![w].pc = pc, ![w].jam = b]
  <2>1. work[w] \in Slot OBVIOUS
  <2>3. [work[w] EXCEPT !.pc = pc, !.jam = b] \in Slot
    BY <2>1 DEF Slot
  <2>2. work' = [work EXCEPT ![w] = [work[w] EXCEPT !.pc = pc, !.jam = b]]
    BY <1>3
  <2> QED BY <2>1, <2>2, <2>3 DEF Moves, Slot
<1> QED BY <1>1, <1>2, <1>3

\* What a step inside an attempt does: the worker keeps its job, a jam costs a
\* fault, and a file that is left waiting is left with a busy worker, or stranded.
InsideStep(w) ==
    /\ Moves(w)
    /\ work[w].pc # "capped" /\ work'[w].pc # "capped"
    /\ UNCHANGED <<jobs, item, Calls, boot>>
    /\ status' \in Statuses /\ vec' \in BOOLEAN /\ marked' \in BOOLEAN /\ tomb' \in BOOLEAN
    /\ faults' \in 0..MaxFaults /\ faults' >= faults
    /\ lost' \subseteq Strandings \cup Damages
    /\ work'[w].jam => work[w].jam \/ faults' > faults
    /\ status' \in Live => Busy(w)' \/ Stranded'

LEMMA InsideKeeps ==
    ASSUME CInv, NEW w \in Workers, InsideStep(w)
    PROVE  CInv'
<1> USE DEF CInv, InsideStep, Moves, Calls
<1>1. TypeOK'
  BY DEF TypeOK, Slot, Places
<1>0. /\ \A j \in JobIds : jobs[j].tries \in Nat
      /\ \A v \in Workers : Owns(v) => work[v].job \in JobIds
      /\ item.tries \in Nat /\ faults \in Nat /\ faults' \in Nat
  BY Types, Numbers
<1>2. TriesFit'
  BY <1>0, Numbers DEF TriesFit, Fits
<1>s. \A v \in Workers : /\ work'[v].pc = "idle" => v # w /\ work'[v] = work[v]
                         /\ work'[v].job = work[v].job /\ work'[v].last = work[v].last
                         /\ work'[v].jam => work[v].jam \/ faults' > faults
  OBVIOUS
<1>c. ASSUME NEW v \in Workers, NEW n \in Nat, n <= MaxAttempts + faults, Counts(v, n)
      PROVE  Counts(v, n)'
  <2>1. work'[v].last <=> n >= MaxAttempts
    BY <1>c, <1>s DEF Counts
  <2>2. work'[v].jam => n < MaxAttempts + faults'
    <3>1. CASE work[v].jam
      <4>1. n < MaxAttempts + faults
        BY <1>c, <3>1 DEF Counts
      <4> QED BY <1>0, <4>1, Numbers, Room
    <3>2. CASE faults' > faults
      BY <1>0, <1>c, <3>2, Numbers, Room
    <3> QED BY <1>s, <3>1, <3>2
  <2> QED BY <2>1, <2>2 DEF Counts
<1>3. Holders'
  <2> SUFFICES ASSUME NEW v \in Workers
               PROVE  /\ work'[v].pc = "idle" => work'[v] = Idle
                      /\ Owns(v)' => Counts(v, jobs[work[v].job].tries)'
    BY DEF Holders
  <2>1. work'[v].pc = "idle" => work'[v] = Idle
    BY <1>s DEF Holders
  <2>2. ASSUME Owns(v)' PROVE Counts(v, jobs[work[v].job].tries)'
    <3>1. Owns(v)
      BY <1>s, <2>2 DEF Owns
    <3>2. /\ jobs[work[v].job].tries <= MaxAttempts + faults
          /\ jobs[work[v].job].tries \in Nat
          /\ Counts(v, jobs[work[v].job].tries)
      BY <1>0, <3>1 DEF TriesFit, Fits, Holders
    <3>3. UNCHANGED jobs[work[v].job].tries
      BY <1>s
    <3> QED BY <1>c, <3>2, <3>3 DEF Counts
  <2> QED BY <2>1, <2>2
<1>4. ItemFits'
  <2>1. \A v \in Workers : Taker(v)' => Taker(v)
    BY <1>s DEF Taker
  <2>2. item.tries <= MaxAttempts + faults
    BY DEF ItemFits
  <2>3. ASSUME NEW v \in Workers, Taker(v)' PROVE item'.st = "taken" /\ Counts(v, item.tries)'
    BY <1>0, <1>c, <2>1, <2>2, <2>3 DEF ItemFits, Counts
  <2>4. item'.tries <= MaxAttempts + faults'
    BY <1>0, <2>2, Numbers
  <2> QED BY <2>1, <2>3, <2>4 DEF ItemFits
<1>5. DownHasNoJob'
  BY <1>s DEF DownHasNoJob
<1>6. LiveIsMinded'
  BY DEF LiveIsMinded, Minded
<1> QED BY <1>1, <1>2, <1>3, <1>4, <1>5, <1>6

\* The same, for a worker that only goes to its next step
LEMMA Going ==
    ASSUME work \in [Workers -> Slot], NEW w \in Workers, work[w].pc # "idle",
           NEW pc \in Places \ {"idle"}, Goes(w, pc)
    PROVE  /\ Moves(w)
           /\ work'[w].pc = pc
           /\ work'[w].jam => work[w].jam
BY Moved, FALSE \in BOOLEAN DEF Goes

\* A failure goes to one of two steps.
LEMMA Failing ==
    ASSUME work \in [Workers -> Slot], NEW w \in Workers, work[w].pc # "idle", Fails(w)
    PROVE  /\ Moves(w)
           /\ work'[w].pc \in {"unwinding", "restoring"}
           /\ work'[w].jam => work[w].jam
<1>1. {"unwinding", "restoring"} \subseteq Places \ {"idle"}
  BY DEF Places, InFile, Unwinding
<1>2. Goes(w, "unwinding") \/ Goes(w, "restoring")
  BY DEF Fails, Goes
<1> QED BY <1>1, <1>2, Going

\* The steps of an attempt before its job is settled are of that kind.
LEMMA InsideSteps ==
    ASSUME CInv, DropsCancelledOnly, NEW w \in Workers,
           \/ Begin(w) \/ Parse(w) \/ Embed(w) \/ Write(w) \/ Publish(w)
           \/ Commit(w) \/ Restore(w) \/ RollBack(w) \/ DropVectors(w)
    PROVE  InsideStep(w)
<1> USE DEF CInv, At, Calls
<1>0. /\ work \in [Workers -> Slot] /\ status \in Statuses /\ vec \in BOOLEAN
      /\ marked \in BOOLEAN /\ tomb \in BOOLEAN /\ faults \in 0..MaxFaults
      /\ faults \in Nat /\ MaxFaults \in Nat /\ lost \subseteq Strandings \cup Damages
  BY Types, Numbers DEF TypeOK
<1>m. Places = {"parsing", "embedding", "writing", "written", "committing", "restoring",
                "unwinding", "dropping", "claimed", "failed", "capped", "settling",
                "cancelling", "idle"}
  BY DEF Places, InFile, Unwinding, AtJob
<1>s. /\ {"none", "pending", "processing", "indexed", "error", "cancelled"} = Statuses
      /\ Live = {"pending", "processing"}
  BY DEF Statuses, Live
<1>b. \A pc \in {"parsing", "embedding", "writing", "written", "committing", "restoring",
                 "unwinding", "failed"} : work'[w].pc = pc => Busy(w)'
  BY DEF Busy, InFile
<1>d. {"chunks", "torn", "unwound"} \subseteq Strandings \cup Damages
  BY DEF Strandings, Damages
<1>t. Fault \/ Fine => faults' \in 0..MaxFaults /\ faults' >= faults
  BY <1>0 DEF Fault, Fine
\* A step to another place, with nothing but the status and the store in question
<1>g. ASSUME NEW pc \in Places \ {"idle", "capped"}, Goes(w, pc),
             work[w].pc \notin {"idle", "capped"},
             UNCHANGED <<jobs, item, Calls, boot>>, Fault \/ Fine,
             status' \in Statuses, vec' \in BOOLEAN, marked' \in BOOLEAN, tomb' \in BOOLEAN,
             lost' \subseteq Strandings \cup Damages,
             status' \in Live => Stranded' \/ pc \notin {"claimed", "settling", "cancelling",
                                                         "dropping"}
      PROVE  InsideStep(w)
  <2>1. Moves(w) /\ work'[w].pc = pc /\ (work'[w].jam => work[w].jam)
    BY <1>0, <1>g, Going
  <2> QED BY <1>b, <1>g, <1>m, <1>t, <2>1 DEF InsideStep
<1>f. ASSUME Fails(w), work[w].pc \notin {"idle", "capped"},
             UNCHANGED <<status, jobs, item, marked, tomb, Calls, boot>>, Fault \/ Fine,
             vec' \in BOOLEAN, lost' \subseteq Strandings \cup Damages
      PROVE  InsideStep(w)
  <2>1. Goes(w, "unwinding") \/ Goes(w, "restoring")
    BY <1>f DEF Fails, Goes
  <2> QED BY <1>0, <1>f, <1>g, <1>m, <2>1
<1>1. CASE Begin(w)
  <2>0. /\ work[w].pc = "claimed"
        /\ UNCHANGED <<vec, marked, tomb, lost, jobs, item, Calls, boot, faults>>
    BY <1>1 DEF Begin
  <2>2. CASE (Goes(w, "failed") \/ Goes(w, "unwinding")) /\ UNCHANGED status
    BY <1>0, <1>g, <1>m, <2>0, <2>2 DEF Fine
  <2>3. CASE /\ status' = "processing"
             /\ work' = [work EXCEPT ![w].pc = "parsing", ![w].keeps = (status = "indexed")]
    <3>1. Moves(w) /\ work'[w].pc = "parsing" /\ work'[w].jam = work[w].jam
      <4>1. (status = "indexed") \in BOOLEAN
        OBVIOUS
      <4>2. "parsing" \in Places \ {"idle"} /\ work[w].pc # "idle"
        BY <1>m, <2>0
      <4>3. Moves(w) /\ work'[w].pc = "parsing"
        BY <1>0, <2>3, <4>1, <4>2, Moved
      <4>4. work'[w].jam = work[w].jam
        BY <1>0, <2>3
      <4> QED BY <4>3, <4>4
    <3> QED BY <1>0, <1>b, <1>s, <2>0, <2>3, <3>1 DEF InsideStep
  <2> QED BY <1>1, <2>2, <2>3 DEF Begin
<1>2. CASE Parse(w)
  <2>1. /\ work[w].pc = "parsing"
        /\ UNCHANGED <<status, vec, marked, tomb, lost, jobs, item, Calls, boot, faults>>
        /\ Fails(w) \/ Goes(w, "unwinding") \/ Goes(w, "embedding")
    BY <1>2 DEF Parse
  <2> QED BY <1>0, <1>m, <1>f, <1>g, <2>1 DEF Fine
<1>3. CASE Embed(w)
  <2>1. /\ work[w].pc = "embedding"
        /\ UNCHANGED <<status, vec, marked, tomb, lost, jobs, item, Calls, boot, faults>>
    BY <1>3 DEF Embed
  <2>2. CASE Fails(w) \/ Goes(w, "unwinding")
    BY <1>0, <1>m, <1>f, <1>g, <2>1, <2>2 DEF Fine
  <2>3. CASE work' = [work EXCEPT ![w].pc = "writing", ![w].keeps = FALSE]
    <3>1. Moves(w) /\ work'[w].pc = "writing"
      BY <1>0, <1>m, <2>1, <2>3, Moved
    <3>2. work'[w].jam = work[w].jam
      BY <1>0, <2>3
    <3> QED BY <1>0, <1>b, <2>1, <3>1, <3>2 DEF InsideStep
  <2> QED BY <1>3, <2>2, <2>3 DEF Embed
<1>4. CASE Write(w)
  <2>1. /\ work[w].pc = "writing" /\ vec' \in BOOLEAN
        /\ lost' \subseteq Strandings \cup Damages
        /\ UNCHANGED <<status, marked, tomb, jobs, item, Calls, boot>>
    BY <1>0, <1>d, <1>4 DEF Write
  <2>2. CASE Goes(w, "written") /\ Fine
    BY <1>0, <1>m, <1>g, <2>1, <2>2
  <2>3. CASE Fault /\ Fails(w)
    BY <1>0, <1>f, <2>1, <2>3
  <2>4. CASE /\ Fault
             /\ work' = [work EXCEPT ![w].pc = IF marked THEN "unwinding" ELSE "failed",
                                     ![w].jam = TRUE]
    <3>1. faults' \in 0..MaxFaults /\ faults' > faults
      BY <1>0, <2>4 DEF Fault
    <3>2. /\ Moves(w) /\ work'[w].pc \in {"unwinding", "failed"} /\ work'[w].jam
      <4>1. (IF marked THEN "unwinding" ELSE "failed") \in Places \ {"idle"}
        BY <1>m
      <4>2. Moves(w) /\ work'[w].pc \in {"unwinding", "failed"}
        BY <1>0, <2>1, <2>4, <4>1, Moved
      <4>3. work'[w].jam
        BY <1>0, <2>4
      <4> QED BY <4>2, <4>3
    <3> QED BY <1>0, <1>b, <2>1, <3>1, <3>2 DEF InsideStep
  <2> QED BY <1>4, <2>2, <2>3, <2>4 DEF Write
<1>5. CASE Publish(w)
  <2>1. /\ work[w].pc = "written" /\ vec' \in BOOLEAN
        /\ lost' \subseteq Strandings \cup Damages
        /\ UNCHANGED <<status, marked, tomb, jobs, item, Calls, boot>>
    BY <1>0, <1>d, <1>5 DEF Publish
  <2>2. CASE Fails(w) /\ (Fault \/ Fine)
    BY <1>0, <1>f, <2>1, <2>2
  <2>3. CASE (Goes(w, "unwinding") \/ Goes(w, "committing")) /\ Fine
    BY <1>0, <1>m, <1>g, <2>1, <2>3
  <2> QED BY <1>5, <2>2, <2>3 DEF Publish
<1>6. CASE Commit(w)
  <2>1. /\ work[w].pc = "committing" /\ marked' \in BOOLEAN
        /\ lost' \subseteq Strandings \cup Damages /\ (Fault \/ Fine)
        /\ UNCHANGED <<vec, tomb, jobs, item, Calls, boot>>
    BY <1>0, <1>d, <1>6 DEF Commit
  <2>2. /\ \/ (Goes(w, "settling") /\ status' \notin Live)
           \/ Goes(w, "unwinding") \/ Goes(w, "failed")
        /\ status' \in {status, "indexed"}
    BY <1>s, <1>6 DEF Commit
  <2> QED BY <1>0, <1>m, <1>s, <1>g, <2>1, <2>2
<1>7. CASE Restore(w)
  <2>1. /\ work[w].pc = "restoring" /\ (Fault \/ Fine)
        /\ lost' \subseteq Strandings \cup Damages
        /\ UNCHANGED <<vec, marked, tomb, jobs, item, Calls, boot>>
    BY <1>0, <1>d, <1>7 DEF Restore
  <2>2. CASE work' = [work EXCEPT ![w].keeps = FALSE] /\ UNCHANGED status
    <3>1. work' = [work EXCEPT ![w].pc = "restoring", ![w].keeps = FALSE]
      <4>1. work[w] \in Slot
        BY <1>0
      <4>2. [work[w] EXCEPT !.keeps = FALSE] = [work[w] EXCEPT !.pc = "restoring", !.keeps = FALSE]
        BY <2>1, <4>1 DEF Slot
      <4> QED BY <2>2, <4>2
    <3>2. Moves(w) /\ work'[w].pc = "restoring"
      BY <1>0, <1>m, <2>1, <3>1, Moved
    <3>3. work'[w].jam = work[w].jam
      BY <1>0, <2>2
    <3> QED BY <1>0, <1>b, <1>t, <2>1, <2>2, <3>2, <3>3 DEF InsideStep
  <2>3. CASE Goes(w, "failed") /\ status' \in {status, "indexed", "error"}
    BY <1>0, <1>m, <1>s, <1>g, <2>1, <2>3
  <2> QED BY <1>7, <2>2, <2>3 DEF Restore
<1>8. CASE RollBack(w)
  <2>1. /\ work[w].pc = "unwinding" /\ marked' \in BOOLEAN /\ (Fault \/ Fine)
        /\ UNCHANGED <<vec, tomb, jobs, item, Calls, boot>>
        /\ Goes(w, "dropping") \/ Goes(w, "cancelling")
        /\ status' \in {status, "cancelled"}
    BY <1>0, <1>8 DEF RollBack
  <2>2. ASSUME NEW damage \in {"chunks", "torn"}, lost' = lost \cup Unwound(damage), status \in Live
        PROVE  Stranded'
    <3>1. "unwound" \in lost' /\ "unwound" \in Strandings
      BY <2>2 DEF Unwound, Strandings
    <3> QED BY <3>1 DEF Stranded
  <2>3. \A damage \in {"chunks", "torn"} : Unwound(damage) \subseteq Strandings \cup Damages
    BY <1>d DEF Unwound
  <2>4. lost' \subseteq Strandings \cup Damages /\ (status' \in Live => Stranded')
    BY <1>0, <1>s, <1>8, <2>2, <2>3 DEF RollBack
  <2> QED BY <1>0, <1>m, <1>s, <1>g, <2>1, <2>4
<1>9. CASE DropVectors(w)
  <2>1. /\ work[w].pc = "dropping" /\ marked' \in BOOLEAN /\ vec' \in BOOLEAN
        /\ tomb' \in BOOLEAN /\ (Fault \/ Fine)
        /\ lost' \subseteq Strandings \cup Damages /\ lost \subseteq lost'
        /\ UNCHANGED <<status, jobs, item, Calls, boot>>
        /\ Goes(w, "cancelling")
    BY <1>0, <1>d, <1>9 DEF DropVectors
  <2>2. status' \in Live => Stranded'
    <3>1. SUFFICES ASSUME status' \in Live PROVE Stranded'
      OBVIOUS
    <3>2. "unwound" \in lost
      BY <1>s, <2>1, <3>1 DEF DropsCancelledOnly
    <3>3. "unwound" \in lost' /\ "unwound" \in Strandings
      BY <2>1, <3>2 DEF Strandings
    <3> QED BY <3>3 DEF Stranded
  <2> QED BY <1>0, <1>m, <1>g, <2>1, <2>2
<1> QED BY <1>1, <1>2, <1>3, <1>4, <1>5, <1>6, <1>7, <1>8, <1>9

-------------------------------------------------------------------------------
(* A job or an item is settled or taken up.                                *)

\* A worker comes to rest, or goes on with what it has.
GoesOn(v) ==
    \/ work'[v] = Idle
    \/ /\ work[v].pc # "idle" /\ work'[v].pc # "idle"
       /\ work'[v].job = work[v].job
       /\ work'[v].last = work[v].last /\ work'[v].jam = work[v].jam
       /\ work[v].pc = "capped" => work'[v].pc = "capped"

\* Rows that end or wait again leave the books of such workers in order.
LEMMA BooksBalance ==
    ASSUME CInv, jobs' \in [JobIds -> Job], faults' \in Nat, faults' >= faults,
           \A j \in JobIds : \/ jobs'[j] = jobs[j]
                             \/ jobs'[j].st # "running" /\ Fits(jobs'[j]),
           \A v \in Workers : GoesOn(v)
    PROVE  TriesFit' /\ Holders'
<1>0. /\ \A j \in JobIds : jobs[j].tries \in Nat /\ jobs'[j].tries \in Nat
      /\ \A v \in Workers : Owns(v) => work[v].job \in JobIds
      /\ faults \in Nat /\ TriesFit /\ Holders
  BY Types, Numbers DEF Job, Tries, CInv
<1>1. TriesFit'
  <2> SUFFICES ASSUME NEW j \in JobIds PROVE Fits(jobs[j])'
    BY DEF TriesFit
  <2>1. Fits(jobs'[j])
    BY <1>0 DEF TriesFit
  <2>2. jobs'[j].tries \in Nat
    BY <1>0
  <2> QED BY <1>0, <2>1, <2>2, Numbers DEF Fits
<1>2. Holders'
  <2> SUFFICES ASSUME NEW v \in Workers
               PROVE  /\ work'[v].pc = "idle" => work'[v] = Idle
                      /\ Owns(v)' => Counts(v, jobs[work[v].job].tries)'
    BY DEF Holders
  <2>1. work'[v].pc = "idle" => work'[v] = Idle
    BY DEF GoesOn
  <2>2. ASSUME Owns(v)' PROVE Counts(v, jobs[work[v].job].tries)'
    <3>1. /\ work'[v].job = work[v].job
          /\ work'[v].last = work[v].last /\ work'[v].jam = work[v].jam
      <4>1. work'[v].job # 0 /\ Idle.job = 0
        BY <2>2 DEF Owns, Idle
      <4> QED BY <4>1 DEF GoesOn
    <3>2. work[v].job \in JobIds
      BY <1>0, <2>2, <3>1, Types DEF Owns, CInv, Slot, JobIds
    <3>3. jobs'[work[v].job] = jobs[work[v].job] /\ Owns(v)
      BY <2>2, <3>1, <3>2 DEF Owns
    <3> DEFINE n == jobs[work[v].job].tries
    <3>4. Counts(v, n) /\ n <= MaxAttempts + faults /\ n \in Nat
      BY <1>0, <3>2, <3>3 DEF Holders, TriesFit, Fits
    <3>5. n' = n
      BY <3>1, <3>3
    <3> HIDE DEF n
    <3>6. work'[v].last <=> n' >= MaxAttempts
      BY <3>1, <3>4, <3>5 DEF Counts
    <3>7. work'[v].jam => n' < MaxAttempts + faults'
      <4>1. work[v].jam => n < MaxAttempts + faults
        BY <3>4 DEF Counts
      <4> QED BY <1>0, <3>1, <3>4, <3>5, <4>1, Numbers, Room
    <3> QED BY <3>6, <3>7 DEF Counts, n
  <2> QED BY <2>1, <2>2
<1> QED BY <1>1, <1>2

\* So does an item that nobody touches.
LEMMA ItemBalance ==
    ASSUME CInv, UNCHANGED item, faults' \in Nat, faults' >= faults,
           \A v \in Workers : GoesOn(v),
           upload' = "fallback" => upload = "fallback",
           retry'.pc = "fallback" => retry.pc = "fallback"
    PROVE  ItemFits'
<1>0. item.tries \in Nat /\ faults \in Nat /\ ItemFits
  BY Types DEF CInv
<1>1. \A v \in Workers : Taker(v)' =>
          /\ Taker(v)
          /\ work'[v].last = work[v].last /\ work'[v].jam = work[v].jam
  BY DEF GoesOn, Taker, Idle
<1>2. item.tries <= MaxAttempts + faults'
  BY <1>0, Numbers, Room DEF ItemFits
<1>3. ASSUME NEW v \in Workers, Taker(v)' PROVE item.st = "taken" /\ Counts(v, item.tries)'
  <2>1. item.st = "taken" /\ Counts(v, item.tries) /\ item.tries <= MaxAttempts + faults
    BY <1>0, <1>1, <1>3 DEF ItemFits
  <2>2. work'[v].last <=> item.tries >= MaxAttempts
    BY <1>1, <1>3, <2>1 DEF Counts
  <2>3. work'[v].jam => item.tries < MaxAttempts + faults'
    <3>1. work[v].jam => item.tries < MaxAttempts + faults
      BY <2>1 DEF Counts
    <3> QED BY <1>0, <1>1, <1>3, <3>1, Numbers, Room
  <2> QED BY <2>1, <2>2, <2>3 DEF Counts
<1> QED BY <1>0, <1>1, <1>2, <1>3 DEF ItemFits

\* The rows a settlement writes are rows, and fit.
LEMMA RowsFit ==
    ASSUME TypeOK, TriesFit, NEW j \in JobIds
    PROVE  /\ NoJob \in Job /\ Fits(NoJob) /\ NoJob.st = "over"
           /\ Requeued(j) \in Job /\ Requeued(j).st = "pending"
           /\ jobs[j].tries < MaxAttempts + faults => Fits(Requeued(j))
           /\ Failed(j) \in Job /\ Failed(j).st = "failed"
           /\ jobs[j].tries >= MaxAttempts => Fits(Failed(j))
<1>1. jobs[j] \in Job /\ Fits(jobs[j]) /\ jobs[j].tries \in Nat /\ faults \in Nat
  BY Types DEF TriesFit
<1>2. NoJob \in Job /\ Fits(NoJob) /\ NoJob.st = "over"
  BY <1>1, Numbers DEF NoJob, Job, Fits, Tries
<1>3. /\ Requeued(j) \in Job /\ Requeued(j).st = "pending"
      /\ Requeued(j).tries = jobs[j].tries
  BY <1>1 DEF Requeued, Job
<1>4. /\ Failed(j) \in Job /\ Failed(j).st = "failed"
      /\ Failed(j).tries = jobs[j].tries
  BY <1>1 DEF Failed, Job
<1> QED BY <1>1, <1>2, <1>3, <1>4, Numbers DEF Fits

\* A worker that rests, or goes to its next step: its row, and those of the others
LEMMA Resting ==
    ASSUME work \in [Workers -> Slot], NEW w \in Workers, Rests(w)
    PROVE  /\ work' \in [Workers -> Slot]
           /\ work'[w] = Idle /\ Idle.pc = "idle" /\ Idle.job = 0
           /\ \A v \in Workers \ {w} : work'[v] = work[v]
<1>1. Idle \in Slot /\ Idle.pc = "idle" /\ Idle.job = 0
  BY Numbers DEF Idle, Slot, Places
<1> QED BY <1>1 DEF Rests

LEMMA RestingGoesOn ==
    ASSUME CInv, NEW w \in Workers, Rests(w)
    PROVE  \A v \in Workers : GoesOn(v)
<1>1. \A v \in Workers : work[v].pc = "idle" => work[v] = Idle
  BY DEF CInv, Holders
<1>2. work'[w] = Idle /\ \A v \in Workers \ {w} : work'[v] = work[v]
  BY Resting, Types DEF CInv
<1> QED BY <1>1, <1>2 DEF GoesOn

LEMMA Capping ==
    ASSUME CInv, NEW w \in Workers, Goes(w, "capped")
    PROVE  /\ work' \in [Workers -> Slot]
           /\ work'[w].pc = "capped" /\ work'[w].job = work[w].job
           /\ work'[w].last = work[w].last /\ work'[w].jam = work[w].jam
           /\ \A v \in Workers \ {w} : work'[v] = work[v]
           /\ work[w].pc # "idle" => \A v \in Workers : GoesOn(v)
<1>1. "capped" \in Places
  BY DEF Places, AtJob
<1>2. work \in [Workers -> Slot]
  BY Types DEF CInv
<1>3. /\ work' \in [Workers -> Slot]
      /\ work'[w].pc = "capped" /\ work'[w].job = work[w].job
      /\ work'[w].last = work[w].last /\ work'[w].jam = work[w].jam
      /\ \A v \in Workers \ {w} : work'[v] = work[v]
  <2> DEFINE r == [work[w] EXCEPT !.pc = "capped"]
  <2>1. /\ r \in Slot /\ r.pc = "capped" /\ r.job = work[w].job
        /\ r.last = work[w].last /\ r.jam = work[w].jam
    BY <1>1, <1>2 DEF Slot
  <2>2. work' = [work EXCEPT ![w] = r]
    BY <1>2 DEF Goes
  <2> HIDE DEF r
  <2> QED BY <1>2, <2>1, <2>2
<1>4. \A v \in Workers : work[v].pc = "idle" => work[v] = Idle
  BY DEF CInv, Holders
<1> QED BY <1>3, <1>4 DEF GoesOn

\* The attempts that end their job, one that is cancelled and one that is done,
\* take no cover away: nobody counted on that job any more.
LEMMA EndKeeps ==
    ASSUME CInv, NEW w \in Workers, Ending(w), Settle(w, NoJob), Rests(w),
           work[w].job # 0,
           UNCHANGED <<status, vec, item, Calls, tomb, boot, lost>>, marked' \in BOOLEAN
    PROVE  CInv'
<1> USE DEF CInv, Calls
<1>0. work \in [Workers -> Slot] /\ jobs \in [JobIds -> Job] /\ faults \in Nat
  BY Types
<1>1. /\ faults' \in 0..MaxFaults /\ faults' \in Nat /\ faults' >= faults
  BY Types, Numbers DEF Settle, Fault, Fine
<1>2. /\ work' \in [Workers -> Slot] /\ work'[w] = Idle
      /\ Idle.pc = "idle" /\ Idle.job = 0
      /\ \A v \in Workers \ {w} : work'[v] = work[v]
  BY <1>0, Resting
<1>3. /\ jobs' \in [JobIds -> Job]
      /\ \A j \in JobIds :
             \/ jobs'[j] = jobs[j]
             \/ /\ jobs'[j] = NoJob
                /\ Owns(w) /\ j = work[w].job
  <2>1. Owns(w) => work[w].job \in JobIds
    BY Types
  <2>2. Owns(w) => NoJob \in Job
    BY <2>1, RowsFit
  <2> QED BY <1>0, <2>1, <2>2 DEF Settle
<1>4. TypeOK'
  BY <1>1, <1>2, <1>3 DEF TypeOK, Slot, Places
<1>5. TriesFit' /\ Holders' /\ ItemFits'
  <2>1. \A j \in JobIds : \/ jobs'[j] = jobs[j]
                          \/ jobs'[j].st # "running" /\ Fits(jobs'[j])
    BY <1>3, RowsFit
  <2> QED BY <1>1, <1>3, <2>1, BooksBalance, ItemBalance, RestingGoesOn
<1>6. DownHasNoJob'
  BY <1>2 DEF DownHasNoJob
<1>7. LiveIsMinded'
  <2> SUFFICES ASSUME Minded PROVE Minded'
    BY DEF LiveIsMinded
  <2>0. \A v \in Workers : Ending(v)' => Ending(v) /\ v # w /\ work'[v].job = work[v].job
    BY <1>2 DEF Ending
  <2>1. ASSUME NEW j \in JobIds, Carried(j) PROVE Carried(j)'
    <3>1. ~(Owns(w) /\ j = work[w].job)
      BY <2>1 DEF Carried, Owns
    <3>2. jobs'[j] = jobs[j]
      BY <1>3, <3>1
    <3> QED BY <2>0, <2>1, <3>2 DEF Carried
  <2>2. ASSUME NEW v \in Workers, Busy(v) PROVE Busy(v)'
    <3>1. v # w
      BY <2>2 DEF Busy, Ending, InFile
    <3> QED BY <1>2, <2>2, <3>1 DEF Busy
  <2>3. ItemCarried => ItemCarried'
    BY <2>0 DEF ItemCarried
  <2> QED BY <2>1, <2>2, <2>3 DEF Minded, SweptAway, Uploading, Stranded
<1> QED BY <1>4, <1>5, <1>6, <1>7

\* A failed attempt hands its job on, or fails it and goes on to mark the file;
\* without its job, it is the loss the cover admits.
LEMMA FailureKeeps ==
    ASSUME CInv, NEW w \in Workers, SettleFailure(w)
    PROVE  CInv'
<1> USE DEF CInv, Calls
<1>0. work \in [Workers -> Slot] /\ jobs \in [JobIds -> Job] /\ faults \in Nat
  BY Types
<1> DEFINE j == work[w].job
           again == ~work[w].last \/ work[w].jam
<1>1. /\ work[w].pc = "failed" /\ j # 0
      /\ Owns(w) => j \in JobIds /\ Counts(w, jobs[j].tries)
      /\ UNCHANGED <<status, vec, marked, item, Calls, tomb, boot>>
      /\ lost' \subseteq Strandings \cup Damages /\ lost \subseteq lost'
      /\ ~Owns(w) /\ status \in Live /\ again => Stranded'
  BY Types DEF SettleFailure, Holders, TypeOK, Strandings, Stranded
<1>2. \/ again /\ Settle(w, Requeued(j)) /\ Rests(w)
      \/ ~again /\ Settle(w, Failed(j)) /\ Goes(w, "capped")
  BY DEF SettleFailure
<1>3. Owns(w) =>
      /\ Requeued(j) \in Job /\ Requeued(j).st = "pending"
      /\ Failed(j) \in Job /\ Failed(j).st = "failed"
      /\ again => Fits(Requeued(j))
      /\ ~again => Fits(Failed(j))
  <2> SUFFICES ASSUME Owns(w)
               PROVE  /\ Requeued(j) \in Job /\ Requeued(j).st = "pending"
                      /\ Failed(j) \in Job /\ Failed(j).st = "failed"
                      /\ again => Fits(Requeued(j))
                      /\ ~again => Fits(Failed(j))
    OBVIOUS
  <2>1. j \in JobIds /\ jobs[j].tries \in Nat
    BY <1>1, Types
  <2>2. again => jobs[j].tries < MaxAttempts + faults
    <3>1. CASE work[w].jam
      BY <1>1, <3>1 DEF Counts
    <3>2. CASE ~work[w].last
      <4>1. ~(jobs[j].tries >= MaxAttempts)
        BY <1>1, <3>2 DEF Counts
      <4> QED BY <1>0, <2>1, <4>1, Numbers
    <3> QED BY <3>1, <3>2
  <2>3. ~again => jobs[j].tries >= MaxAttempts
    BY <1>1 DEF Counts
  <2> QED BY <2>1, <2>2, <2>3, RowsFit
<1>f. /\ faults' \in 0..MaxFaults /\ faults' \in Nat /\ faults' >= faults
  BY <1>2, Types, Numbers DEF Settle, Fault, Fine
<1>4. /\ work' \in [Workers -> Slot]
      /\ \A v \in Workers \ {w} : work'[v] = work[v]
      /\ \A v \in Workers : GoesOn(v)
      /\ \/ work'[w] = Idle /\ work'[w].pc = "idle" /\ work'[w].job = 0 /\ again
         \/ work'[w].pc = "capped" /\ work'[w].job = j /\ ~again
  BY <1>0, <1>1, <1>2, Resting, RestingGoesOn, Capping
<1>5. /\ jobs' \in [JobIds -> Job]
      /\ \A i \in JobIds : \/ jobs'[i] = jobs[i]
                           \/ Owns(w) /\ jobs'[i].st # "running" /\ Fits(jobs'[i])
      /\ Owns(w) /\ again => jobs' = jobs \/ jobs'[j].st = "pending"
  <2>1. CASE ~Owns(w)
    BY <1>0, <1>2, <2>1 DEF Settle
  <2>2. CASE Owns(w) /\ again
    <3>1. jobs' = jobs \/ jobs' = [jobs EXCEPT ![j] = Requeued(j)]
      BY <1>2, <2>2 DEF Settle
    <3> QED BY <1>0, <1>1, <1>3, <2>2, <3>1
  <2>3. CASE Owns(w) /\ ~again
    <3>1. jobs' = jobs \/ jobs' = [jobs EXCEPT ![j] = Failed(j)]
      BY <1>2, <2>3 DEF Settle
    <3> QED BY <1>0, <1>1, <1>3, <2>3, <3>1
  <2> QED BY <2>1, <2>2, <2>3
<1> HIDE DEF j, again
<1>6. TypeOK'
  BY <1>1, <1>4, <1>5, <1>f DEF TypeOK, Slot, Places
<1>7. TriesFit' /\ Holders' /\ ItemFits'
  BY <1>1, <1>4, <1>5, <1>f, BooksBalance, ItemBalance
<1>8. DownHasNoJob'
  BY <1>1, <1>4 DEF DownHasNoJob, j
<1>9. LiveIsMinded'
  <2> SUFFICES ASSUME Minded, status \in Live PROVE Minded'
    BY <1>1 DEF LiveIsMinded
  <2>1. CASE work'[w].pc = "capped"
    BY <2>1 DEF Minded, Busy
  <2>2. CASE ~Owns(w) /\ again
    BY <1>1, <2>2 DEF Minded
  <2>3. CASE Owns(w) /\ again /\ jobs' = jobs
    <3>1. PICK i \in JobIds : jobs[i].st = "running" /\ jobs[i].by = w
      BY <1>1, <2>3 DEF Owns, j
    <3>2. CASE work'[w].pc = "idle"
      <4>1. Carried(i)'
        BY <2>3, <3>1, <3>2 DEF Carried, Ending
      <4> QED BY <3>1, <4>1 DEF Minded
    <3> QED BY <1>4, <2>1, <3>2
  <2>4. CASE Owns(w) /\ again /\ jobs'[j].st = "pending"
    BY <1>1, <2>4 DEF Minded, Carried
  <2> QED BY <1>4, <1>5, <2>1, <2>2, <2>3, <2>4
<1> QED BY <1>6, <1>7, <1>8, <1>9

\* Whoever is done with the file at the cap leaves it settled, or stranded.
LEMMA MarkKeeps ==
    ASSUME CInv, NEW w \in Workers, MarkFailed(w)
    PROVE  CInv'
<1> USE DEF CInv, Calls
<1>1. /\ UNCHANGED <<vec, jobs, marked, item, Calls, tomb, boot>>
      /\ status' \in Statuses /\ lost' \subseteq Strandings \cup Damages
      /\ status' \in Live => Stranded'
  BY DEF MarkFailed, TypeOK, Statuses, Live, Stranded, Strandings
<1>f. /\ faults' \in 0..MaxFaults /\ faults' \in Nat /\ faults' >= faults
  BY Types, Numbers DEF MarkFailed, Fault, Fine
<1>2. /\ work' \in [Workers -> Slot] /\ work'[w].job = 0
      /\ \A v \in Workers \ {w} : work'[v] = work[v]
  BY Types, Resting DEF MarkFailed
<1>3. TypeOK'
  BY <1>1, <1>2, <1>f DEF TypeOK, Slot, Places
<1>4. TriesFit' /\ Holders' /\ ItemFits'
  BY <1>1, <1>f, Types, BooksBalance, ItemBalance, RestingGoesOn DEF MarkFailed
<1>5. DownHasNoJob'
  BY <1>1, <1>2 DEF DownHasNoJob
<1>6. LiveIsMinded'
  BY <1>1 DEF LiveIsMinded, Minded
<1> QED BY <1>3, <1>4, <1>5, <1>6

\* Nobody else is at the item that a worker has, or that is queued.
LEMMA OneTaker ==
    ASSUME CInv, NEW w \in Workers, Taker(w) \/ item.st = "queued"
    PROVE  /\ upload # "fallback" /\ retry.pc # "fallback" /\ item.st # "none"
           /\ \A v \in Workers \ {w} : ~Taker(v)
           /\ item.st = "queued" => ~Taker(w)
BY DEF CInv, ItemFits

\* An item that is done with, or put back, after the attempt of the only taker
LEMMA ItemKeeps ==
    ASSUME CInv, NEW w \in Workers, FinishItem(w) \/ FailItem(w)
    PROVE  CInv'
<1> USE DEF CInv, Calls, At
<1>0. /\ work \in [Workers -> Slot] /\ jobs \in [JobIds -> Job] /\ faults \in Nat
      /\ item \in Item /\ item.tries \in Nat /\ faults \in 0..MaxFaults
  BY Types
<1>1. /\ UNCHANGED <<vec, jobs, marked, Calls, tomb, boot, faults>>
      /\ Rests(w) \/ Goes(w, "capped")
      /\ work[w].pc # "idle" /\ work[w].job = 0 /\ Taker(w)
  BY DEF FinishItem, FailItem, Taker
<1>t. /\ upload # "fallback" /\ retry.pc # "fallback" /\ item.st = "taken"
      /\ \A v \in Workers \ {w} : ~Taker(v)
      /\ Counts(w, item.tries) /\ item.tries <= MaxAttempts + faults
  BY <1>1, OneTaker DEF ItemFits
<1>2. /\ work' \in [Workers -> Slot]
      /\ \A v \in Workers \ {w} : work'[v] = work[v]
      /\ \A v \in Workers : GoesOn(v)
      /\ work'[w].job = 0 /\ work'[w].pc \in {"idle", "capped"}
  BY <1>0, <1>1, Resting, RestingGoesOn, Capping
<1>3. /\ item' \in Item /\ item'.tries <= MaxAttempts + faults
      /\ item'.st \in {"none", "queued"}
  <2>1. CASE item' = NoItem
    BY <1>0, <2>1, Numbers DEF NoItem, Item, Tries
  <2>2. CASE /\ ~work[w].last \/ work[w].jam
             /\ item' = [st |-> "queued", tries |-> item.tries + 1]
    <3>1. item.tries < MaxAttempts + faults
      <4>1. CASE work[w].jam
        BY <1>t, <4>1 DEF Counts
      <4>2. CASE ~work[w].last
        <5>1. ~(item.tries >= MaxAttempts)
          BY <1>t, <4>2 DEF Counts
        <5> QED BY <1>0, <5>1, Numbers
      <4> QED BY <2>2, <4>1, <4>2
    <3>2. item.tries + 1 \in Tries /\ item.tries + 1 <= MaxAttempts + faults
      BY <1>0, <3>1, Numbers DEF Tries
    <3> QED BY <2>2, <3>2 DEF Item
  <2> QED BY <2>1, <2>2 DEF FinishItem, FailItem
<1>4. status' \in Statuses /\ lost' \subseteq Strandings \cup Damages
  BY DEF FinishItem, FailItem, TypeOK, Statuses, Live, Strandings
<1>5. TypeOK'
  BY <1>0, <1>1, <1>2, <1>3, <1>4 DEF TypeOK, Slot, Places, Item
<1>6. TriesFit' /\ Holders'
  BY <1>0, <1>1, <1>2, BooksBalance
<1>7. ItemFits'
  <2>1. \A v \in Workers : ~Taker(v)'
    BY <1>2, <1>t DEF Taker
  <2> QED BY <1>1, <1>3, <1>t, <2>1 DEF ItemFits
<1>8. DownHasNoJob'
  BY <1>1, <1>2 DEF DownHasNoJob
<1>9. LiveIsMinded'
  <2> SUFFICES ASSUME status' \in Live, boot \in {"again", "done"} PROVE Minded'
    BY <1>1 DEF LiveIsMinded
  <2>1. CASE FinishItem(w)
    <3>1. Minded
      BY <2>1 DEF FinishItem, LiveIsMinded
    <3>2. Ending(w) /\ ~ItemCarried
      BY <1>1, <1>t, <2>1 DEF FinishItem, Ending, ItemCarried
    <3>3. \A v \in Workers : Ending(v)' => Ending(v) /\ work'[v].job = work[v].job
      BY <1>2 DEF Ending
    <3>4. \A i \in JobIds : Carried(i) => Carried(i)'
      BY <1>1, <3>3 DEF Carried
    <3>5. ASSUME NEW v \in Workers, Busy(v) PROVE Busy(v)'
      <4>1. v # w
        BY <3>2, <3>5 DEF Busy, Ending, InFile
      <4> QED BY <1>2, <3>5, <4>1 DEF Busy
    <3>6. UNCHANGED lost
      BY <2>1 DEF FinishItem
    <3> QED BY <1>1, <3>1, <3>2, <3>4, <3>5, <3>6 DEF Minded, SweptAway, Uploading, Stranded
  <2>2. CASE item'.st = "queued"
    BY <2>2 DEF Minded, ItemCarried
  <2>3. CASE Goes(w, "capped")
    <3>1. work'[w].pc = "capped"
      BY <1>1, <2>3, Capping
    <3> QED BY <3>1 DEF Minded, Busy
  <2>4. CASE "backlog" \in lost'
    BY <2>4 DEF Minded, Stranded, Strandings
  <2> QED BY <2>1, <2>2, <2>3, <2>4 DEF FailItem
<1> QED BY <1>5, <1>6, <1>7, <1>8, <1>9

\* A worker takes the item up, or fails it at once.
LEMMA TakeKeeps ==
    ASSUME CInv, NEW w \in Workers, Take(w) \/ TakeInVain(w)
    PROVE  CInv'
<1> USE DEF CInv, Calls
<1>0. /\ work \in [Workers -> Slot] /\ jobs \in [JobIds -> Job] /\ faults \in Nat
      /\ item \in Item /\ item.tries \in Nat
  BY Types
<1>1. /\ UNCHANGED <<status, vec, jobs, marked, Calls, tomb, boot, faults, lost>>
      /\ work[w] = Idle /\ item.st = "queued"
  BY DEF Take, TakeInVain, Holders
<1>t. /\ upload # "fallback" /\ retry.pc # "fallback"
      /\ \A v \in Workers : ~Taker(v)
  BY <1>1, OneTaker
<1> DEFINE last == item.tries >= MaxAttempts
           r == [Idle EXCEPT !.pc = "claimed", !.last = last]
           c == [Idle EXCEPT !.pc = "capped"]
<1>2. /\ r \in Slot /\ r.pc = "claimed" /\ r.job = 0 /\ ~r.jam /\ r.last = last
      /\ c \in Slot /\ c.pc = "capped" /\ c.job = 0 /\ ~c.jam
  <2>1. last \in BOOLEAN /\ {"claimed", "capped"} \subseteq Places /\ 0 \in 0..MaxJobs
    BY Numbers DEF Places, AtJob
  <2> QED BY <2>1 DEF Idle, Slot
<1>3. \/ /\ Take(w) /\ work' = [work EXCEPT ![w] = r]
         /\ item' = [item EXCEPT !.st = "taken"]
      \/ /\ TakeInVain(w) /\ work' = [work EXCEPT ![w] = c]
         /\ item' = NoItem
  BY <1>0, <1>1 DEF Take, TakeInVain
<1> HIDE DEF r, c, last
<1>4. /\ work' \in [Workers -> Slot] /\ work'[w] \in {r, c}
      /\ \A v \in Workers \ {w} : work'[v] = work[v]
  BY <1>0, <1>2, <1>3
<1>5. /\ item' \in Item /\ item'.tries <= MaxAttempts + faults
      /\ work'[w] = r => item'.st = "taken" /\ item'.tries = item.tries
  <2>1. CASE item' = [item EXCEPT !.st = "taken"]
    BY <1>0, <2>1 DEF Item, ItemFits
  <2>2. CASE item' = NoItem /\ work'[w] = c
    BY <1>0, <1>2, <2>2, Numbers DEF NoItem, Item, Tries
  <2> QED BY <1>0, <1>3, <2>1, <2>2
<1>6. TypeOK'
  BY <1>1, <1>4, <1>5 DEF TypeOK, Slot, Places, Item
<1>7. TriesFit'
  BY <1>1 DEF TriesFit, Fits
<1>8. Holders'
  <2> SUFFICES ASSUME NEW v \in Workers
               PROVE  /\ work'[v].pc = "idle" => work'[v] = Idle
                      /\ Owns(v)' => Counts(v, jobs[work[v].job].tries)'
    BY DEF Holders
  <2>1. CASE v = w
    BY <1>2, <1>4, <2>1 DEF Owns
  <2>2. CASE v # w
    BY <1>1, <1>4, <2>2 DEF Owns, Counts, Holders
  <2> QED BY <2>1, <2>2
<1>9. ItemFits'
  <2>1. \A v \in Workers : Taker(v)' => v = w /\ work'[w] = r
    BY <1>2, <1>4, <1>t DEF Taker
  <2>2. work'[w] = r => Counts(w, item.tries)'
    <3>1. SUFFICES ASSUME work'[w] = r PROVE Counts(w, item.tries)'
      OBVIOUS
    <3>2. work'[w].last <=> item'.tries >= MaxAttempts
      BY <1>2, <1>5, <3>1 DEF last
    <3>3. ~work'[w].jam
      BY <1>2, <3>1
    <3> QED BY <3>2, <3>3 DEF Counts
  <2> QED BY <1>1, <1>5, <1>t, <2>1, <2>2 DEF ItemFits
<1>10. DownHasNoJob'
  BY <1>1, <1>2, <1>4 DEF DownHasNoJob
<1>11. LiveIsMinded'
  <2>1. CASE work'[w] = c
    BY <1>2, <2>1 DEF LiveIsMinded, Minded, Busy
  <2>2. CASE work'[w] = r
    <3>1. \A v \in Workers : Ending(v)' => work'[v].job # 0
      BY <1>2, <1>4, <1>t, <2>2 DEF Ending, Taker
    <3> QED BY <1>5, <2>2, <3>1 DEF LiveIsMinded, Minded, ItemCarried
  <2> QED BY <1>4, <2>1, <2>2
<1> QED BY <1>6, <1>7, <1>8, <1>9, <1>10, <1>11

\* A claim takes up a job that waits: its row and its worker know of each other.
LEMMA ClaimKeeps ==
    ASSUME CInv, NEW w \in Workers, NEW j \in JobIds, Claim(w, j)
    PROVE  CInv'
<1> USE DEF CInv, Calls
<1>0. /\ work \in [Workers -> Slot] /\ jobs \in [JobIds -> Job] /\ faults \in Nat
      /\ faults \in 0..MaxFaults /\ jobs[j].tries \in Nat
  BY Types
<1> DEFINE t == jobs[j].tries + 1
           r == [st |-> "running", by |-> w, tries |-> t]
           s == [Idle EXCEPT !.pc = "claimed", !.job = j, !.last = t >= MaxAttempts]
<1>1. /\ work[w].pc = "idle" /\ jobs[j].st = "pending"
      /\ jobs' = [jobs EXCEPT ![j] = r]
      /\ work' = [work EXCEPT ![w] = s]
      /\ UNCHANGED <<status, vec, marked, item, Calls, tomb, boot, faults, lost>>
      /\ boot \in {"again", "done"}
  BY DEF Claim
<1>2. t \in Nat /\ t <= MaxAttempts + faults /\ t \in Tries
  BY <1>0, <1>1, Numbers DEF TriesFit, Fits, Tries
<1>3. /\ s \in Slot /\ s.pc = "claimed" /\ s.job = j /\ s.jam = FALSE
      /\ s.last <=> t >= MaxAttempts
  <2>1. (t >= MaxAttempts) \in BOOLEAN /\ "claimed" \in Places /\ j \in 0..MaxJobs
    BY Numbers DEF Places, AtJob, JobIds
  <2> QED BY <2>1 DEF Idle, Slot
<1>4. r \in Job /\ r.st = "running" /\ r.by = w /\ r.tries = t
  BY <1>2 DEF Job
<1> HIDE DEF r, s, t
<1>5. /\ jobs' \in [JobIds -> Job] /\ jobs'[j] = r
      /\ \A i \in JobIds \ {j} : jobs'[i] = jobs[i]
      /\ work' \in [Workers -> Slot] /\ work'[w] = s
      /\ \A v \in Workers \ {w} : work'[v] = work[v]
  BY <1>0, <1>1, <1>3, <1>4
<1>6. TypeOK'
  BY <1>1, <1>5 DEF TypeOK, Slot, Places
<1>7. TriesFit'
  <2>1. ASSUME NEW i \in JobIds PROVE Fits(jobs[i])'
    <3>1. CASE i = j
      BY <1>1, <1>2, <1>4, <1>5, <3>1 DEF Fits
    <3>2. CASE i # j
      BY <1>1, <1>5, <3>2 DEF TriesFit, Fits
    <3> QED BY <3>1, <3>2
  <2> QED BY <2>1 DEF TriesFit
<1>8. Holders'
  <2> SUFFICES ASSUME NEW v \in Workers
               PROVE  /\ work'[v].pc = "idle" => work'[v] = Idle
                      /\ Owns(v)' => Counts(v, jobs[work[v].job].tries)'
    BY DEF Holders
  <2>1. CASE v = w
    BY <1>3, <1>4, <1>5, <2>1 DEF Counts
  <2>2. CASE v # w
    <3>1. work'[v] = work[v] /\ (work[v].pc = "idle" => work[v] = Idle)
      BY <1>5, <2>2 DEF Holders
    <3>2. ASSUME Owns(v)' PROVE Counts(v, jobs[work[v].job].tries)'
      <4>1. work[v].job # j
        BY <1>4, <1>5, <2>2, <3>1, <3>2 DEF Owns
      <4>2. work[v].job \in JobIds
        BY <1>0, <3>1, <3>2, Numbers DEF Owns, Slot, JobIds
      <4>3. jobs'[work[v].job] = jobs[work[v].job]
        BY <1>5, <4>1, <4>2
      <4> QED BY <1>1, <3>1, <3>2, <4>3 DEF Owns, Counts, Holders
    <3> QED BY <3>1, <3>2
  <2> QED BY <2>1, <2>2
<1>9. ItemFits'
  <2>1. j # 0
    BY DEF JobIds
  <2>2. \A v \in Workers : Taker(v)' => v # w /\ Taker(v)
    BY <1>3, <1>5, <2>1 DEF Taker
  <2>3. \A v \in Workers : v # w /\ Counts(v, item.tries) => Counts(v, item.tries)'
    BY <1>1, <1>5 DEF Counts
  <2> QED BY <1>1, <2>2, <2>3 DEF ItemFits
<1>10. DownHasNoJob'
  BY <1>1 DEF DownHasNoJob
<1>11. LiveIsMinded'
  <2>1. \A v \in Workers : Ending(v)' => v # w
    BY <1>3, <1>5 DEF Ending
  <2>2. Carried(j)'
    BY <1>4, <1>5, <2>1 DEF Carried
  <2> QED BY <2>2 DEF LiveIsMinded, Minded
<1> QED BY <1>6, <1>7, <1>8, <1>9, <1>10, <1>11

\* An attempt, from its claim to the end of its job, keeps the cover.
LEMMA AttemptCovers ==
    ASSUME CInv, DropsCancelledOnly, NEW w \in Workers,
           \/ Attempt(w) \/ Take(w) \/ TakeInVain(w) \/ \E j \in JobIds : Claim(w, j)
    PROVE  CInv'
<1>1. CASE \/ Begin(w) \/ Parse(w) \/ Embed(w) \/ Write(w) \/ Publish(w)
           \/ Commit(w) \/ Restore(w) \/ RollBack(w) \/ DropVectors(w)
  BY <1>1, InsideSteps, InsideKeeps
<1>2. CASE SettleCancel(w) \/ SettleSuccess(w)
  <2>1. marked \in BOOLEAN
    BY DEF CInv, TypeOK
  <2>2. marked' \in BOOLEAN
    BY <1>2, <2>1 DEF SettleCancel, SettleSuccess, Settled
  <2> QED BY <1>2, <2>2, EndKeeps DEF SettleCancel, SettleSuccess, Ending
<1>3. CASE SettleFailure(w) \/ MarkFailed(w)
  BY <1>3, FailureKeeps, MarkKeeps
<1>4. CASE FinishItem(w) \/ FailItem(w) \/ Take(w) \/ TakeInVain(w)
  BY <1>4, ItemKeeps, TakeKeeps
<1> QED BY <1>1, <1>2, <1>3, <1>4, ClaimKeeps DEF Attempt

-------------------------------------------------------------------------------
(* Restarts, sweeps and requests under the cover.                          *)

LEMMA InitCovers == Init => CInv
<1> SUFFICES ASSUME Init PROVE CInv
  OBVIOUS
<1> USE DEF Init
<1>1. NoJob \in Job /\ NoJob.st = "over" /\ NoJob.tries = 0
  BY Numbers DEF NoJob, Job, Tries
<1>2. /\ Idle \in Slot /\ Idle.pc = "idle" /\ Idle.job = 0
      /\ NoItem \in Item /\ NoItem.st = "none" /\ NoItem.tries = 0
  BY Numbers DEF Idle, Slot, Places, NoItem, Item, Tries
<1>3. TypeOK
  <2>1. work \in [Workers -> Slot] /\ jobs \in [JobIds -> Job] /\ faults \in 0..MaxFaults
    BY <1>1, <1>2, Numbers
  <2>2. status \in Statuses
    BY DEF Statuses
  <2> QED BY <1>2, <2>1, <2>2 DEF TypeOK, Slot, Places, Item
<1>4. TriesFit /\ Holders /\ DownHasNoJob /\ LiveIsMinded
  BY <1>1, <1>2, Numbers DEF TriesFit, Fits, Holders, Owns, DownHasNoJob, LiveIsMinded, Live
<1>5. ItemFits
  <2>1. \A w \in Workers : ~Taker(w)
    BY <1>2 DEF Taker
  <2>2. item.tries <= MaxAttempts + faults
    BY <1>2, Numbers
  <2> QED BY <2>1, <2>2 DEF ItemFits
<1> QED BY <1>3, <1>4, <1>5 DEF CInv

\* An insert turns a row that is over into a job that waits.
LEMMA InsertedRow ==
    ASSUME CInv, Spare # {}
    PROVE  \E j \in JobIds :
               /\ jobs[j].st = "over"
               /\ Inserted \in [JobIds -> Job]
               /\ Inserted[j].st = "pending" /\ Fits(Inserted[j])
               /\ \A i \in JobIds \ {j} : Inserted[i] = jobs[i]
<1> DEFINE j == CHOOSE k \in Spare : TRUE
           r == [st |-> "pending", by |-> Nobody, tries |-> 0]
<1>1. j \in JobIds /\ jobs[j].st = "over"
  BY DEF Spare
<1>2. r \in Job /\ r.st = "pending" /\ r.tries = 0
  BY Numbers DEF Job, Tries
<1>3. Fits(r)
  BY <1>2, Numbers, Types DEF CInv, Fits
<1>4. Inserted = [jobs EXCEPT ![j] = r]
  BY DEF Inserted
<1> HIDE DEF j, r
<1>5. jobs \in [JobIds -> Job]
  BY Types DEF CInv
<1>6. /\ Inserted \in [JobIds -> Job] /\ Inserted[j] = r
      /\ \A i \in JobIds \ {j} : Inserted[i] = jobs[i]
  BY <1>1, <1>2, <1>4, <1>5
<1> QED BY <1>1, <1>2, <1>3, <1>6

LEMMA StillGoesOn ==
    ASSUME CInv, UNCHANGED work
    PROVE  \A v \in Workers : GoesOn(v)
<1> SUFFICES ASSUME NEW v \in Workers PROVE GoesOn(v)
  OBVIOUS
<1>1. work'[v] = work[v] /\ (work[v].pc = "idle" => work[v] = Idle)
  BY DEF CInv, Holders
<1> QED BY <1>1 DEF GoesOn

\* A request that leaves the workers alone, and the item too or queues its first
LEMMA RequestedItem ==
    ASSUME CInv, UNCHANGED work, faults' \in Nat, faults' >= faults,
           \/ UNCHANGED item
           \/ /\ item.st = "none" /\ item' = [st |-> "queued", tries |-> 1]
              /\ upload' # "fallback" /\ retry'.pc # "fallback",
           upload' = "fallback" => upload = "fallback" \/ RoomInMemory,
           retry'.pc = "fallback" => retry.pc = "fallback" \/ RoomInMemory,
           UNCHANGED upload \/ UNCHANGED retry
    PROVE  ItemFits' /\ item' \in Item
<1> USE DEF CInv
<1>0. /\ item \in Item /\ faults \in Nat /\ 1 \in Tries
      /\ 1 <= MaxAttempts + faults'
  <2>1. item \in Item /\ faults \in Nat
    BY Types
  <2>2. 1 \in Tries
    BY Numbers DEF Tries
  <2>3. \A a, f \in Nat : a > 0 => 1 <= a + f
    OBVIOUS
  <2>4. 1 <= MaxAttempts + faults'
    BY <2>3, Numbers
  <2> QED BY <2>1, <2>2, <2>4
<1>1. CASE item.st = "none" /\ item' = [st |-> "queued", tries |-> 1]
           /\ upload' # "fallback" /\ retry'.pc # "fallback"
  <2>1. \A v \in Workers : ~Taker(v)
    BY <1>1 DEF ItemFits
  <2>2. \A v \in Workers : ~Taker(v)'
    BY <2>1 DEF Taker
  <2> QED BY <1>0, <1>1, <2>2 DEF ItemFits, Item
<1>2. CASE UNCHANGED item
  <2>1. CASE /\ upload' = "fallback" => upload = "fallback"
             /\ retry'.pc = "fallback" => retry.pc = "fallback"
    BY <1>0, <1>2, <2>1, StillGoesOn, ItemBalance
  <2>2. CASE RoomInMemory
    <3>1. \A v \in Workers : ~Taker(v)
      BY <2>2 DEF ItemFits, RoomInMemory
    <3>2. \A v \in Workers : ~Taker(v)'
      BY <3>1 DEF Taker
    <3>3. item.tries <= MaxAttempts + faults'
      BY <1>0, Types, Numbers, Room DEF ItemFits
    <3> QED BY <1>0, <1>2, <2>2, <3>2, <3>3 DEF ItemFits, RoomInMemory
  <2> QED BY <2>1, <2>2
<1> QED BY <1>1, <1>2

\* The workers and the process are as they were, and so are the jobs, or one was
\* inserted: a file that still waits is still covered.
LEMMA QuietKeeps ==
    ASSUME CInv, TypeOK', ItemFits', UNCHANGED <<work, boot>>, faults' >= faults,
           lost \subseteq lost',
           jobs' = jobs \/ (Spare # {} /\ jobs' = Inserted),
           status' \in Live =>
               \/ Uploading' \/ jobs' # jobs \/ Stranded' \/ item'.st = "queued"
               \/ /\ status \in Live
                  /\ UNCHANGED item
                  /\ Uploading => Uploading'
                  /\ SweptAway => SweptAway'
    PROVE  CInv'
<1> USE DEF CInv
<1>0. faults \in Nat /\ faults' \in Nat /\ jobs' \in [JobIds -> Job]
  BY Types, Numbers DEF TypeOK
<1>1. TriesFit' /\ Holders'
  <2>1. \A j \in JobIds : \/ jobs'[j] = jobs[j]
                          \/ jobs'[j].st # "running" /\ Fits(jobs'[j])
    BY InsertedRow
  <2> QED BY <1>0, <2>1, StillGoesOn, BooksBalance
<1>2. DownHasNoJob'
  BY DEF DownHasNoJob
<1>3. LiveIsMinded'
  <2> SUFFICES ASSUME status' \in Live, boot \in {"again", "done"} PROVE Minded'
    BY DEF LiveIsMinded
  <2>1. CASE Uploading' \/ Stranded' \/ item'.st = "queued"
    BY <2>1 DEF Minded, ItemCarried
  <2>2. CASE jobs' # jobs
    <3>1. \E j \in JobIds : jobs'[j].st = "pending"
      BY <2>2, InsertedRow
    <3> QED BY <3>1 DEF Minded, Carried
  <2>3. CASE /\ jobs' = jobs /\ status \in Live /\ UNCHANGED item
             /\ Uploading => Uploading'
             /\ SweptAway => SweptAway'
    <3>1. Minded
      BY <2>3 DEF LiveIsMinded
    <3>2. \A j \in JobIds : Carried(j) => Carried(j)'
      BY <2>3 DEF Carried, Ending
    <3>3. (\A v \in Workers : Busy(v) => Busy(v)') /\ (ItemCarried => ItemCarried')
      BY <2>3 DEF Busy, ItemCarried, Ending
    <3>4. Stranded => Stranded'
      BY DEF Stranded
    <3> QED BY <2>3, <3>1, <3>2, <3>3, <3>4 DEF Minded
  <2> QED BY <2>1, <2>2, <2>3
<1> QED BY <1>1, <1>2, <1>3

\* The requests: each takes a waiting file off the table, or leaves it with a
\* request that goes on, with a job or an item, or with what covered it.
LEMMA RouteCovers ==
    ASSUME CInv, Route
    PROVE  CInv'
<1> USE DEF CInv
<1>0. /\ jobs \in [JobIds -> Job] /\ faults \in Nat /\ faults \in 0..MaxFaults
      /\ MaxFaults \in Nat
      /\ Spare # {} => Inserted \in [JobIds -> Job] /\ Inserted # jobs
  BY InsertedRow, Types, Numbers
<1>f. Fine \/ Fault => faults' \in 0..MaxFaults /\ faults' >= faults
  BY <1>0 DEF Fine, Fault
<1>s. /\ Live \subseteq Statuses /\ {"none", "cancelled", "pending"} \subseteq Statuses
      /\ "none" \notin Live /\ "cancelled" \notin Live
  BY DEF Statuses, Live
\* A request after which the process stands as it did
<1>q. ASSUME UNCHANGED <<work, boot>>, status' \in Statuses, vec' \in BOOLEAN,
             jobs' = jobs \/ (Spare # {} /\ jobs' = Inserted),
             marked' \in BOOLEAN, tomb' \in BOOLEAN,
             faults' \in 0..MaxFaults, faults' >= faults,
             lost \subseteq lost', lost' \subseteq Strandings \cup Damages,
             upload' \in {"due", "registered", "inserted", "fallback", "undoing", "over"},
             cancel' \in [pc : CancelSteps \cup {"due", "accepted", "refused", "failed", "over"},
                          picked : SUBSET JobIds],
             retry' \in [pc : {"due", "inserted", "fallback", "over"}, late : BOOLEAN],
             del' \in {"due", "purged", "unpurged", "broken", "over"},
             \/ UNCHANGED item
             \/ /\ item.st = "none" /\ item' = [st |-> "queued", tries |-> 1]
                /\ upload' # "fallback" /\ retry'.pc # "fallback",
             upload' = "fallback" => upload = "fallback" \/ RoomInMemory,
             retry'.pc = "fallback" => retry.pc = "fallback" \/ RoomInMemory,
             UNCHANGED upload \/ UNCHANGED retry,
             status' \in Live =>
                 \/ Uploading' \/ jobs' # jobs \/ Stranded' \/ item'.st = "queued"
                 \/ /\ status \in Live /\ UNCHANGED item
                    /\ Uploading => Uploading'
                    /\ SweptAway => SweptAway'
      PROVE  CInv'
  <2>1. ItemFits' /\ item' \in Item
    <3>1. faults' \in Nat
      BY <1>q, Numbers
    <3> QED BY <1>q, <3>1, RequestedItem
  <2>2. TypeOK'
    BY <1>0, <1>q, <2>1 DEF TypeOK, Item
  <2> QED BY <1>q, <2>1, <2>2, QuietKeeps
<1>1. CASE Register
  BY <1>0, <1>1, <1>q, <1>s DEF Register, TypeOK, Uploading
<1>2. CASE InsertUploaded
  <2>1. upload' \in {"inserted", "undoing", "fallback"}
    BY <1>2 DEF InsertUploaded
  <2>2. upload' = "inserted" => jobs' # jobs
    BY <1>0, <1>2 DEF InsertUploaded
  <2>3. upload' = "fallback" => RoomInMemory
    BY <1>2 DEF InsertUploaded
  <2>4. jobs' = jobs \/ (Spare # {} /\ jobs' = Inserted)
    BY <1>2 DEF InsertUploaded
  <2>5. UNCHANGED <<status, vec, marked, item, work, cancel, retry, del, tomb, boot,
                    faults, lost>>
    BY <1>2 DEF InsertUploaded
  <2> QED BY <1>0, <1>q, <2>1, <2>2, <2>3, <2>4, <2>5 DEF TypeOK, Uploading
<1>3. CASE Undo
  <2>1. /\ status' = "none" \/ Stranded'
        /\ status' \in Statuses /\ faults' \in 0..MaxFaults /\ faults' >= faults
        /\ lost \subseteq lost' /\ lost' \subseteq Strandings \cup Damages
    <3>1. Fine \/ Fault
      BY <1>3 DEF Undo
    <3>2. \/ status' = "none" /\ UNCHANGED lost
          \/ lost' = lost \cup {"kept"} /\ UNCHANGED status
      BY <1>3 DEF Undo
    <3>3. "kept" \in Strandings
      BY DEF Strandings
    <3> QED BY <1>f, <1>s, <3>1, <3>2, <3>3 DEF TypeOK, Stranded
  <2> QED BY <1>0, <1>3, <1>q, <1>s, <2>1 DEF Undo, TypeOK
<1>4. CASE ClearUploaded
  <2>1. /\ upload' = "over" /\ ~Uploading' /\ marked' = FALSE
        /\ UNCHANGED <<status, vec, jobs, work, cancel, retry, del, tomb, boot, faults, lost>>
    BY <1>4 DEF ClearUploaded, Uploading
  <2>t. /\ status' \in Statuses /\ vec' \in BOOLEAN /\ marked' \in BOOLEAN
        /\ tomb' \in BOOLEAN /\ lost' \subseteq Strandings \cup Damages
        /\ cancel' \in [pc : CancelSteps \cup {"due", "accepted", "refused", "failed", "over"},
                        picked : SUBSET JobIds]
        /\ retry' \in [pc : {"due", "inserted", "fallback", "over"}, late : BOOLEAN]
        /\ del' \in {"due", "purged", "unpurged", "broken", "over"}
    BY <2>1 DEF TypeOK
  <2>f. faults' \in 0..MaxFaults /\ faults' >= faults
    BY <1>0, <2>1
  <2>2. CASE upload = "fallback"
    <3>1. /\ item.st = "none" /\ item' = [st |-> "queued", tries |-> 1]
          /\ retry'.pc # "fallback" /\ item'.st = "queued"
      BY <1>4, <2>1, <2>2 DEF ClearUploaded, ItemFits
    <3> QED BY <1>q, <2>1, <2>t, <2>f, <3>1
  <2>3. CASE upload # "fallback"
    <3>1. UNCHANGED item /\ ~Uploading /\ UNCHANGED SweptAway
      BY <1>4, <2>1, <2>3 DEF ClearUploaded, Uploading, SweptAway
    <3> QED BY <1>q, <2>1, <2>t, <2>f, <3>1
  <2> QED BY <2>2, <2>3
<1>5. CASE InsertRetried
  <2>1. /\ UNCHANGED <<status, vec, marked, item, work, upload, cancel, del, tomb, boot,
                       faults, lost>>
        /\ jobs' = jobs \/ (Spare # {} /\ jobs' = Inserted)
    BY <1>5 DEF InsertRetried
  <2>2. /\ retry' \in [pc : {"due", "inserted", "fallback", "over"}, late : BOOLEAN]
        /\ retry'.pc = "fallback" => RoomInMemory
    <3>1. retry \in [pc : {"due", "inserted", "fallback", "over"}, late : BOOLEAN]
      BY DEF TypeOK
    <3>2. \/ \E pc \in {"inserted", "fallback"} :
                retry' = [pc |-> pc, late |-> cancel.pc = "accepted"]
                /\ (pc = "fallback" => RoomInMemory)
          \/ retry' = [retry EXCEPT !.pc = "over"]
      BY <1>5 DEF InsertRetried, Retries
    <3>3. (cancel.pc = "accepted") \in BOOLEAN
      OBVIOUS
    <3>4. CASE retry' = [retry EXCEPT !.pc = "over"]
      BY <3>1, <3>4
    <3>5. ASSUME NEW pc \in {"inserted", "fallback"},
                 retry' = [pc |-> pc, late |-> cancel.pc = "accepted"]
          PROVE  /\ retry' \in [pc : {"due", "inserted", "fallback", "over"}, late : BOOLEAN]
                 /\ retry'.pc = pc
      BY <3>3, <3>5
    <3> QED BY <3>2, <3>4, <3>5
  <2>3. UNCHANGED SweptAway /\ UNCHANGED Uploading
    BY <2>1 DEF SweptAway, Uploading
  <2> QED BY <1>0, <1>q, <2>1, <2>2, <2>3 DEF TypeOK
<1>6. CASE ClearRetried
  <2>1. /\ retry' \in [pc : {"due", "inserted", "fallback", "over"}, late : BOOLEAN]
        /\ retry'.pc = "over" /\ marked' = FALSE
        /\ UNCHANGED <<status, vec, jobs, work, upload, cancel, del, tomb, boot, faults, lost>>
    BY <1>6 DEF ClearRetried, TypeOK
  <2>t. /\ status' \in Statuses /\ vec' \in BOOLEAN /\ marked' \in BOOLEAN
        /\ tomb' \in BOOLEAN /\ lost' \subseteq Strandings \cup Damages
        /\ cancel' \in [pc : CancelSteps \cup {"due", "accepted", "refused", "failed", "over"},
                        picked : SUBSET JobIds]
        /\ upload' \in {"due", "registered", "inserted", "fallback", "undoing", "over"}
        /\ del' \in {"due", "purged", "unpurged", "broken", "over"}
    BY <2>1 DEF TypeOK
  <2>f. faults' \in 0..MaxFaults /\ faults' >= faults
    BY <1>0, <2>1
  <2>2. CASE retry.pc = "fallback"
    <3>1. /\ item.st = "none" /\ item' = [st |-> "queued", tries |-> 1]
          /\ upload' # "fallback" /\ item'.st = "queued"
      BY <1>6, <2>1, <2>2 DEF ClearRetried, ItemFits
    <3> QED BY <1>q, <2>1, <2>t, <2>f, <3>1
  <2>3. CASE retry.pc # "fallback"
    <3>1. UNCHANGED item /\ UNCHANGED SweptAway /\ UNCHANGED Uploading
      BY <1>6, <2>1, <2>3 DEF ClearRetried, Uploading, SweptAway
    <3> QED BY <1>q, <2>1, <2>t, <2>f, <3>1
  <2> QED BY <2>2, <2>3
<1>7. CASE ReadForCancel
  <2>1. /\ UNCHANGED <<status, vec, jobs, marked, item, work, upload, retry, del, tomb, boot,
                       faults, lost>>
        /\ cancel' \in [pc : CancelSteps, picked : SUBSET JobIds]
        /\ ~SweptAway
    BY <1>7 DEF ReadForCancel, TypeOK, CancelSteps, SweptAway
  <2>2. UNCHANGED Uploading
    BY <2>1 DEF Uploading
  <2> QED BY <1>0, <1>q, <2>1, <2>2 DEF TypeOK
<1>8. CASE Mark
  <2>1. /\ UNCHANGED <<status, vec, jobs, item, work, upload, retry, del, tomb, boot,
                       faults, lost>>
        /\ cancel' \in [pc : CancelSteps, picked : SUBSET JobIds] /\ marked' = TRUE
        /\ ~SweptAway
    BY <1>8 DEF Mark, TypeOK, CancelSteps, SweptAway
  <2>2. UNCHANGED Uploading
    BY <2>1 DEF Uploading
  <2> QED BY <1>0, <1>q, <2>1, <2>2 DEF TypeOK
<1>9. CASE SweepPicked
  <2>1. /\ cancel.pc = "marked" /\ cancel'.pc = "swept"
        /\ UNCHANGED <<status, vec, marked, item, work, upload, retry, del, tomb, boot,
                       faults, lost>>
        /\ \/ /\ jobs' = [j \in JobIds |-> IF j \in cancel.picked THEN NoJob ELSE jobs[j]]
              /\ cancel' = [pc |-> "swept", picked |-> {j \in cancel.picked : Open(j)}]
           \/ jobs' = jobs /\ cancel' = [pc |-> "swept", picked |-> {}]
    BY <1>9 DEF SweepPicked
  <2>2. cancel.picked \subseteq JobIds /\ ~SweptAway
    BY <2>1 DEF TypeOK, SweptAway
  <2>3. NoJob \in Job /\ NoJob.st = "over" /\ Fits(NoJob)
    <3>1. 1 \in JobIds
      BY Numbers DEF JobIds
    <3> QED BY <3>1, RowsFit
  <2>4. /\ jobs' \in [JobIds -> Job]
        /\ \A j \in JobIds : jobs'[j] = jobs[j] \/ jobs'[j] = NoJob
    BY <1>0, <2>1, <2>3
  <2>5. TypeOK'
    BY <2>1, <2>2, <2>4 DEF TypeOK, CancelSteps
  <2>6. TriesFit' /\ Holders' /\ ItemFits'
    <3>1. \A j \in JobIds : \/ jobs'[j] = jobs[j]
                            \/ jobs'[j].st # "running" /\ Fits(jobs'[j])
      BY <2>3, <2>4
    <3>2. (\A v \in Workers : GoesOn(v)) /\ faults' \in Nat /\ faults' >= faults
      BY <1>0, <2>1, StillGoesOn
    <3> QED BY <2>1, <2>4, <3>1, <3>2, BooksBalance, ItemBalance
  <2>7. DownHasNoJob'
    BY <2>1 DEF DownHasNoJob
  <2>8. LiveIsMinded'
    <3> SUFFICES ASSUME Minded, ~SweptAway' PROVE Minded'
      BY <2>1 DEF LiveIsMinded, Minded
    <3>1. \A j \in JobIds : Open(j) => jobs'[j] = jobs[j]
      BY <2>1, <2>2 DEF SweptAway
    <3>2. ASSUME NEW j \in JobIds, Carried(j) PROVE Carried(j)'
      BY <2>1, <3>1, <3>2 DEF Carried, Ending, Open
    <3>3. (\A v \in Workers : Busy(v) => Busy(v)') /\ (ItemCarried => ItemCarried')
      BY <2>1 DEF Busy, ItemCarried, Ending
    <3>4. (Uploading => Uploading') /\ (Stranded => Stranded')
      BY <2>1 DEF Uploading, Stranded
    <3> QED BY <2>1, <2>2, <3>2, <3>3, <3>4 DEF Minded
  <2> QED BY <2>5, <2>6, <2>7, <2>8
<1>10. CASE Flip
  <2>1. /\ cancel.pc = "swept"
        /\ UNCHANGED <<vec, jobs, item, work, upload, retry, del, tomb, boot, faults, lost>>
    BY <1>10 DEF Flip
  <2>2. /\ cancel' \in [pc : {"accepted", "refused", "failed"}, picked : SUBSET JobIds]
        /\ status' \in Statuses /\ marked' \in BOOLEAN
    <3>1. /\ cancel \in [pc : CancelSteps \cup {"due", "accepted", "refused", "failed", "over"},
                         picked : SUBSET JobIds]
          /\ status \in Statuses /\ marked \in BOOLEAN
      BY DEF TypeOK
    <3>2. /\ \/ cancel' = [pc |-> "accepted", picked |-> {}]
             \/ cancel' = [cancel EXCEPT !.pc = "refused"]
             \/ cancel' = [cancel EXCEPT !.pc = "failed"]
          /\ status' \in {status, "cancelled"}
          /\ marked' = marked \/ marked' = FALSE
      BY <1>10 DEF Flip
    <3>3. cancel' \in [pc : {"accepted", "refused", "failed"}, picked : SUBSET JobIds]
      BY <3>1, <3>2
    <3> QED BY <1>s, <3>1, <3>2, <3>3
  <2>3. status' \notin Live \/ (UNCHANGED status /\ (SweptAway => SweptAway'))
    <3>1. CASE status' = "cancelled"
      BY <1>s, <3>1
    <3>2. CASE /\ UNCHANGED status
               /\ \/ cancel' = [cancel EXCEPT !.pc = "refused"]
                  \/ cancel' = [cancel EXCEPT !.pc = "failed"]
      BY <3>2 DEF TypeOK, SweptAway
    <3> QED BY <1>10, <3>1, <3>2 DEF Flip
  <2>4. UNCHANGED Uploading
    BY <2>1 DEF Uploading
  <2> QED BY <1>0, <1>q, <2>1, <2>2, <2>3, <2>4 DEF TypeOK
<1>11. CASE Purge
  <2>1. /\ UNCHANGED <<status, jobs, marked, item, work, upload, cancel, retry, tomb, boot, lost>>
        /\ faults' \in 0..MaxFaults /\ faults' >= faults /\ vec' \in BOOLEAN
        /\ del' \in {"purged", "unpurged"}
    BY <1>11, <1>f DEF Purge, TypeOK
  <2>2. UNCHANGED Uploading /\ UNCHANGED SweptAway
    BY <2>1 DEF Uploading, SweptAway
  <2> QED BY <1>0, <1>q, <2>1, <2>2 DEF TypeOK
<1>12. CASE DeleteRow
  <2>1. /\ UNCHANGED <<vec, jobs, marked, item, work, upload, cancel, retry, boot, lost>>
        /\ faults' \in 0..MaxFaults /\ faults' >= faults /\ tomb' \in BOOLEAN
        /\ del' \in {"over", "broken"} /\ status' \in {status, "none"}
    BY <1>12, <1>f DEF DeleteRow, TypeOK
  <2>2. UNCHANGED Uploading /\ UNCHANGED SweptAway
    BY <2>1 DEF Uploading, SweptAway
  <2>3. status' \in Statuses /\ (status' \in Live => status \in Live)
    BY <1>s, <2>1 DEF TypeOK
  <2> QED BY <1>0, <1>q, <2>1, <2>2, <2>3 DEF TypeOK
<1> QED
  BY <1>1, <1>2, <1>3, <1>4, <1>5, <1>6, <1>7, <1>8, <1>9, <1>10, <1>11, <1>12 DEF Route

\* A process that goes leaves the cover to the sync of the next one.
LEMMA HaltCovers ==
    ASSUME CInv, Crash \/ Stop
    PROVE  CInv'
<1> USE DEF CInv, Calls
<1>0. /\ jobs \in [JobIds -> Job] /\ faults \in Nat
      /\ \A j \in JobIds : jobs[j].tries \in Nat /\ Fits(jobs[j])
  BY Types DEF TriesFit
<1>1. /\ boot' = "down" /\ marked' = FALSE /\ item' = NoItem
      /\ \A w \in Workers : work'[w] = Idle
      /\ work' \in [Workers -> Slot] /\ Idle.pc = "idle" /\ Idle.job = 0
      /\ NoItem \in Item /\ NoItem.st = "none" /\ NoItem.tries = 0
      /\ faults' \in 0..MaxFaults /\ faults' \in Nat /\ faults' >= faults
      /\ lost' \subseteq Strandings \cup Damages
  <2>1. Gone
    BY DEF Crash, Stop
  <2>2. Idle \in Slot /\ Idle.pc = "idle" /\ Idle.job = 0
    BY Numbers DEF Idle, Slot, Places
  <2>3. NoItem \in Item /\ NoItem.st = "none" /\ NoItem.tries = 0
    BY Numbers DEF NoItem, Item, Tries
  <2>4. faults' \in 0..MaxFaults /\ faults' \in Nat /\ faults' >= faults
    BY <2>1, Numbers, Types DEF Gone, Fault
  <2>5. lost' \subseteq Strandings \cup Damages
    BY <2>1 DEF Gone, Damages
  <2> QED BY <2>1, <2>2, <2>3, <2>4, <2>5 DEF Gone
<1>2. /\ jobs' \in [JobIds -> Job]
      /\ \A j \in JobIds : \/ jobs'[j] = jobs[j]
                           \/ jobs'[j].st # "running" /\ Fits(jobs'[j])
  <2>1. CASE Crash
    BY <1>0, <2>1 DEF Crash
  <2>2. CASE Stop
    <3> DEFINE t(j) == IF jobs[j].tries > 0 THEN jobs[j].tries - 1 ELSE 0
    <3>1. \A j \in JobIds :
              jobs'[j] = IF jobs[j].st # "running" THEN jobs[j]
                         ELSE [Requeued(j) EXCEPT !.tries = t(j)]
      BY <2>2 DEF Stop
    <3>2. \A j \in JobIds : /\ t(j) \in Tries
                            /\ t(j) < MaxAttempts + faults
      BY <1>0, Numbers DEF TypeOK, Tries, Job, Fits
    <3> HIDE DEF t
    <3>3. ASSUME NEW j \in JobIds, jobs[j].st = "running"
          PROVE  jobs'[j] \in Job /\ jobs'[j].st = "pending" /\ Fits(jobs'[j])
      <4>1. Requeued(j) \in Job /\ Requeued(j).st = "pending"
        BY RowsFit
      <4>2. jobs'[j] = [Requeued(j) EXCEPT !.tries = t(j)]
        BY <3>1, <3>3
      <4>3. jobs'[j] \in Job /\ jobs'[j].st = "pending" /\ jobs'[j].tries = t(j)
        BY <3>2, <4>1, <4>2 DEF Job
      <4> QED BY <1>0, <3>2, <4>3, Numbers DEF Fits, Tries
    <3>4. \A j \in JobIds : jobs[j].st # "running" => jobs'[j] = jobs[j]
      BY <3>1
    <3>5. jobs' \in [JobIds -> Job]
      <4>1. \A j \in JobIds : jobs'[j] \in Job
        BY <1>0, <3>3, <3>4
      <4>2. jobs' = [j \in JobIds |-> jobs'[j]]
        BY <2>2 DEF Stop
      <4> QED BY <4>1, <4>2
    <3> QED BY <3>3, <3>4, <3>5
  <2> QED BY <2>1, <2>2
<1>3. Dropped /\ upload' # "fallback" /\ retry'.pc # "fallback"
  <2>1. Dropped
    BY DEF Crash, Stop
  <2>2. retry \in [pc : {"due", "inserted", "fallback", "over"}, late : BOOLEAN]
    BY DEF TypeOK
  <2> QED BY <2>1, <2>2 DEF Dropped
<1>4. TypeOK'
  <2>1. status' \in Statuses
    <3>1. status' \in {status, "indexed", "pending"}
      BY DEF Crash, Stop
    <3> QED BY <3>1 DEF TypeOK, Statuses, Live
  <2>2. vec' \in BOOLEAN /\ tomb' \in BOOLEAN
    BY DEF Crash, Stop, TypeOK
  <2>3. upload' \in {"due", "over"} /\ del' \in {"due", "purged", "unpurged", "broken", "over"}
    BY <1>3 DEF Dropped, TypeOK
  <2>4. cancel' \in [pc : CancelSteps \cup {"due", "accepted", "refused", "failed", "over"},
                     picked : SUBSET JobIds]
    BY <1>3 DEF Dropped, TypeOK
  <2>5. retry' \in [pc : {"due", "inserted", "fallback", "over"}, late : BOOLEAN]
    BY <1>3 DEF Dropped, TypeOK
  <2> QED BY <1>1, <1>2, <2>1, <2>2, <2>3, <2>4, <2>5 DEF TypeOK, Slot, Places, Item
<1>5. TriesFit' /\ Holders'
  <2>1. \A v \in Workers : GoesOn(v)
    BY <1>1 DEF GoesOn
  <2> QED BY <1>1, <1>2, <2>1, BooksBalance
<1>6. ItemFits'
  <2>1. \A w \in Workers : ~Taker(w)'
    BY <1>1 DEF Taker
  <2>2. \A a, f \in Nat : 0 <= a + f
    OBVIOUS
  <2>3. item'.tries <= MaxAttempts + faults'
    BY <1>1, <2>2, Numbers
  <2> QED BY <1>1, <1>3, <2>1, <2>3 DEF ItemFits
<1>7. DownHasNoJob' /\ LiveIsMinded'
  BY <1>1 DEF DownHasNoJob, LiveIsMinded
<1> QED BY <1>4, <1>5, <1>6, <1>7

\* The first sync of a process covers every file that waits: no worker has a job,
\* so every open one is a job that somebody will act on.
LEMMA SyncCovers ==
    ASSUME CInv, Sync
    PROVE  CInv'
<1> USE DEF CInv, Calls
<1> DEFINE capped == \E j \in JobIds : Capped(j)
           inserts == status \in Live /\ ~Covered /\ ~capped
<1>0. /\ jobs \in [JobIds -> Job] /\ faults \in Nat /\ work \in [Workers -> Slot]
  BY Types
<1>1. /\ boot \in {"due", "again"} /\ boot' \in {"again", "done"}
      /\ UNCHANGED <<vec, marked, item, work, Calls, tomb, faults, lost>>
      /\ jobs' = IF inserts THEN Inserted ELSE jobs
      /\ status' = IF status \in Live /\ ~Covered /\ capped
                   THEN "error" ELSE ResetFor(jobs')
  BY DEF Sync
<1>2. inserts => Spare # {}
  <2> SUFFICES ASSUME inserts PROVE Spare # {}
    OBVIOUS
  <2>1. 1 \in JobIds
    BY Numbers DEF JobIds
  <2>2. jobs[1].st \in {"pending", "running", "failed", "over"} /\ Fits(jobs[1])
    BY <1>0, <2>1 DEF Job, TriesFit
  <2>3. jobs[1].st = "over"
    BY <2>1, <2>2 DEF Covered, Open, Capped, Fits
  <2> QED BY <2>1, <2>3 DEF Spare
<1>3. /\ status' \in Statuses
      /\ status' \in Live => status \in Live /\ (Covered \/ inserts)
  BY <1>1 DEF ResetFor, TypeOK, Statuses, Live
<1> HIDE DEF capped, inserts
<1>4. jobs' \in [JobIds -> Job]
  BY <1>0, <1>1, <1>2, InsertedRow
<1>5. TypeOK'
  BY <1>1, <1>3, <1>4 DEF TypeOK
<1>6. TriesFit' /\ Holders' /\ ItemFits'
  <2>1. \A j \in JobIds : \/ jobs'[j] = jobs[j]
                          \/ jobs'[j].st # "running" /\ Fits(jobs'[j])
    BY <1>1, <1>2, InsertedRow
  <2>2. \A v \in Workers : GoesOn(v)
    BY <1>1, StillGoesOn
  <2> QED BY <1>0, <1>1, <1>4, <2>1, <2>2, BooksBalance, ItemBalance
<1>7. DownHasNoJob'
  BY <1>1 DEF DownHasNoJob
<1>8. LiveIsMinded'
  <2> SUFFICES ASSUME status' \in Live PROVE Minded'
    BY DEF LiveIsMinded
  <2>1. CASE inserts
    <3>1. \E j \in JobIds : jobs'[j].st = "pending"
      BY <1>1, <1>2, <2>1, InsertedRow
    <3> QED BY <3>1 DEF Minded, Carried
  <2>2. CASE ~inserts /\ boot = "due"
    <3>1. PICK j \in JobIds : Open(j)
      BY <1>3, <2>2 DEF Covered
    <3>2. \A w \in Workers : work'[w].job # j
      BY <1>1, <2>2 DEF DownHasNoJob, JobIds
    <3>3. Carried(j)'
      BY <1>1, <2>2, <3>1, <3>2 DEF Carried, Open
    <3> QED BY <3>3 DEF Minded
  <2>3. CASE ~inserts /\ boot = "again"
    <3>1. Minded
      BY <1>3, <2>3 DEF LiveIsMinded
    <3>2. \A j \in JobIds : Carried(j) => Carried(j)'
      BY <1>1, <2>3 DEF Carried, Ending
    <3>3. (\A v \in Workers : Busy(v) => Busy(v)') /\ (ItemCarried => ItemCarried')
      BY <1>1 DEF Busy, ItemCarried, Ending
    <3>4. /\ Uploading => Uploading'
          /\ SweptAway => SweptAway'
          /\ Stranded => Stranded'
      BY <1>1 DEF Uploading, SweptAway, Stranded
    <3> QED BY <3>1, <3>2, <3>3, <3>4 DEF Minded
  <2> QED BY <1>1, <2>1, <2>2, <2>3
<1> QED BY <1>5, <1>6, <1>7, <1>8

\* The janitor puts a job back, or fails it together with its file.
LEMMA JanitorCovers ==
    ASSUME CInv, NEW j \in JobIds, Janitor(j)
    PROVE  CInv'
<1> USE DEF CInv, Calls
<1>0. /\ jobs \in [JobIds -> Job] /\ faults \in Nat /\ work \in [Workers -> Slot]
      /\ jobs[j].tries \in Nat
  BY Types
<1> DEFINE row == IF jobs[j].tries >= MaxAttempts THEN Failed(j) ELSE Requeued(j)
<1>1. /\ UNCHANGED <<vec, marked, item, work, Calls, tomb, boot, lost>>
      /\ jobs' = [jobs EXCEPT ![j] = row]
      /\ status' = IF row.st = "failed" /\ status \in Live
                   THEN "error" ELSE ResetFor(jobs')
      /\ boot \in {"again", "done"}
  BY DEF Janitor
<1>2. faults' \in 0..MaxFaults /\ faults' \in Nat /\ faults' >= faults
  BY <1>0, Numbers, Types DEF Janitor, Fault, Fine
<1>3. row \in Job /\ row.st \in {"pending", "failed"} /\ Fits(row)
  <2>1. CASE jobs[j].tries >= MaxAttempts
    BY <2>1, RowsFit
  <2>2. CASE ~(jobs[j].tries >= MaxAttempts)
    <3>1. jobs[j].tries < MaxAttempts + faults
      BY <1>0, <2>2, Numbers
    <3> QED BY <2>2, <3>1, RowsFit
  <2> QED BY <2>1, <2>2
<1>4. /\ status' \in Statuses
      /\ status' \in Live => row.st = "pending"
  BY <1>1, <1>3 DEF ResetFor, TypeOK, Statuses, Live
<1> HIDE DEF row
<1>5. /\ jobs' \in [JobIds -> Job] /\ jobs'[j] = row
      /\ \A i \in JobIds \ {j} : jobs'[i] = jobs[i]
  BY <1>0, <1>1, <1>3
<1>6. TypeOK'
  BY <1>1, <1>2, <1>4, <1>5 DEF TypeOK
<1>7. TriesFit' /\ Holders' /\ ItemFits'
  <2>1. \A i \in JobIds : \/ jobs'[i] = jobs[i]
                          \/ jobs'[i].st # "running" /\ Fits(jobs'[i])
    BY <1>3, <1>5
  <2>2. \A v \in Workers : GoesOn(v)
    BY <1>1, StillGoesOn
  <2> QED BY <1>1, <1>2, <1>5, <2>1, <2>2, BooksBalance, ItemBalance
<1>8. DownHasNoJob'
  BY <1>1 DEF DownHasNoJob
<1>9. LiveIsMinded'
  BY <1>4, <1>5 DEF LiveIsMinded, Minded, Carried
<1> QED BY <1>6, <1>7, <1>8, <1>9

\* A boot and a sweep of the tombstones touch nothing that covers a file.
LEMMA BesideCovers ==
    ASSUME CInv, Restart \/ Redelete
    PROVE  CInv'
<1> USE DEF CInv, Calls
<1>1. /\ UNCHANGED <<status, jobs, marked, item, work, Calls, faults>>
      /\ boot' = boot \/ (boot = "down" /\ boot' = "due")
      /\ vec' \in BOOLEAN /\ tomb' \in BOOLEAN
      /\ lost \subseteq lost' /\ lost' \subseteq Strandings \cup Damages
  BY DEF Restart, Redelete, TypeOK, Damages
<1>2. TypeOK'
  BY <1>1 DEF TypeOK
<1>3. TriesFit' /\ Holders' /\ ItemFits' /\ DownHasNoJob'
  BY <1>1 DEF TriesFit, Fits, Holders, Owns, Counts, ItemFits, Taker, DownHasNoJob
<1>4. LiveIsMinded'
  BY <1>1 DEF LiveIsMinded, Minded, Carried, ItemCarried, Ending, Busy, Uploading,
              SweptAway, Stranded
<1> QED BY <1>2, <1>3, <1>4

\* The cover holds throughout.
LEMMA CoverInductive == Spec => []CInv
<1>1. CInv /\ IInv /\ [Next]_vars => CInv'
  <2> SUFFICES ASSUME CInv, IInv, [Next]_vars PROVE CInv'
    OBVIOUS
  <2>0. DropsCancelledOnly
    BY DEF IInv
  <2>1. CASE UNCHANGED vars
    <3>1. UNCHANGED <<status, vec, jobs, marked, item, work, upload, cancel, retry, del,
                      tomb, boot, faults, lost>>
      BY <2>1 DEF vars
    <3>2. TypeOK' /\ TriesFit' /\ Holders' /\ ItemFits' /\ DownHasNoJob'
      BY <3>1 DEF CInv, TypeOK, TriesFit, Fits, Holders, Owns, Counts, ItemFits, Taker,
                  DownHasNoJob
    <3>3. LiveIsMinded'
      BY <3>1 DEF CInv, LiveIsMinded, Minded, Carried, ItemCarried, Ending, Busy, Uploading,
                  SweptAway, Stranded
    <3> QED BY <3>2, <3>3 DEF CInv
  <2> QED
    BY <2>0, <2>1, BesideCovers, HaltCovers, SyncCovers, JanitorCovers, RouteCovers,
       AttemptCovers DEF Next
<1> QED BY InitCovers, Inductive, <1>1, PTL DEF Spec

\* A file that waits to be ingested, or is being ingested, has an open job, an item
\* in memory, or a worker, a request or the boot sync still to decide about it,
\* through every crash, expired lease, failing write and retry, but for a cancel
\* refused after its sweep and the failures that Strandings names.
THEOREM NoWaitingFileIsForgotten == Spec => []Inv
<1>1. CInv => Inv
  <2> SUFFICES ASSUME CInv, status \in Live, boot = "done"
               PROVE  \/ Covered
                      \/ item.st # "none"
                      \/ \E w \in Workers : work[w].pc # "idle"
                      \/ upload \in {"registered", "fallback", "undoing"}
                      \/ cancel.pc = "swept" /\ cancel.picked # {}
                      \/ SweptInVain
                      \/ Stranded
    BY DEF CInv, Inv, NoFileIsForgotten
  <2>1. Minded
    BY DEF CInv, LiveIsMinded
  <2>2. \A j \in JobIds : Carried(j) => Open(j)
    BY DEF Carried, Open
  <2>3. \A w \in Workers : Busy(w) => work[w].pc # "idle"
    BY DEF Busy, InFile
  <2>4. SweptAway => (cancel.pc = "swept" /\ cancel.picked # {}) \/ SweptInVain
    BY DEF SweptAway, SweptInVain
  <2>5. ItemCarried => item.st # "none"
    BY DEF ItemCarried
  <2> QED BY <2>1, <2>2, <2>3, <2>4, <2>5 DEF Minded, Covered, Uploading
<1> QED BY CoverInductive, <1>1, PTL

===============================================================================
