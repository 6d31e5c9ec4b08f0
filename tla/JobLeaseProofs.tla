---------------------------- MODULE JobLeaseProofs ----------------------------
(***************************************************************************)
(* Proofs about JobLease for any number of rows and workers, any cap and   *)
(* any bounds.                                                             *)
(***************************************************************************)
EXTENDS JobLease, TLAPS

USE CapAssumption, BoundsAssumption, WorkersAssumption

-------------------------------------------------------------------------------
(* What each statement leaves in the row it matches.                       *)

LEMMA ClaimedRow ==
    ASSUME NEW r \in Row, NEW w \in Workers
    PROVE  /\ Claimed(r, w) \in Row
           /\ Claimed(r, w).status = "running"
           /\ Claimed(r, w).worker = w
           /\ Claimed(r, w).generation = r.generation + 1
           /\ Claimed(r, w).attempts = r.attempts + 1
BY DEF Claimed, Written, Row, Statuses

LEMMA SettledRow ==
    ASSUME NEW r \in Row, NEW o \in Terminal
    PROVE  /\ Settled(r, o) \in Row
           /\ Settled(r, o).status = o
           /\ Settled(r, o).worker = r.worker
           /\ Settled(r, o).generation = r.generation
           /\ Settled(r, o).attempts = r.attempts
BY DEF Settled, Written, Row, Statuses, Terminal

LEMMA RequeuedRow ==
    ASSUME NEW r \in Row, NEW later \in BOOLEAN
    PROVE  /\ Requeued(r, later) \in Row
           /\ Requeued(r, later).status = "pending"
           /\ Requeued(r, later).worker = NoWorker
           /\ Requeued(r, later).generation = r.generation
           /\ Requeued(r, later).attempts = r.attempts
BY DEF Requeued, Written, Row, Statuses

LEMMA HandedBackRow ==
    ASSUME NEW r \in Row
    PROVE  /\ HandedBack(r) \in Row
           /\ HandedBack(r).status = "pending"
           /\ HandedBack(r).worker = NoWorker
           /\ HandedBack(r).generation = r.generation + 1
           /\ HandedBack(r).attempts = IF r.attempts > 0 THEN r.attempts - 1 ELSE 0
BY DEF HandedBack, Written, Row, Statuses

LEMMA ReclaimedRow ==
    ASSUME NEW r \in Row
    PROVE  /\ Reclaimed(r) \in Row
           /\ Reclaimed(r).status = IF r.attempts >= MaxAttempts THEN "failed" ELSE "pending"
           /\ Reclaimed(r).worker = NoWorker
           /\ Reclaimed(r).generation = r.generation + 1
           /\ Reclaimed(r).attempts = r.attempts
BY DEF Reclaimed, Written, Row, Statuses

LEMMA WithdrawnRow ==
    ASSUME NEW r \in Row
    PROVE  /\ Withdrawn(r) \in Row
           /\ Withdrawn(r).status = "cancelled"
           /\ Withdrawn(r).worker = NoWorker
           /\ Withdrawn(r).generation = r.generation
           /\ Withdrawn(r).attempts = r.attempts
BY DEF Withdrawn, Written, Row, Statuses

LEMMA RetriedRow ==
    ASSUME NEW r \in Row
    PROVE  /\ Retried(r) \in Row
           /\ Retried(r).status = "pending"
           /\ Retried(r).worker = NoWorker
           /\ Retried(r).generation = r.generation + 1
           /\ Retried(r).attempts = 0
BY DEF Retried, Written, Row, Statuses

\* Turning a clock flag leaves everything the lease decides on.
LEMMA FlaggedRow ==
    ASSUME NEW r \in Row, NEW b \in BOOLEAN
    PROVE  /\ [r EXCEPT !.lapsed = b] \in Row
           /\ [r EXCEPT !.stalled = b] \in Row
           /\ [r EXCEPT !.deferred = b] \in Row
BY DEF Row

\* An attempt that starts to fail is still the same attempt.
LEMMA FailingAttempt ==
    ASSUME NEW a \in Attempt, NEW n \in Nat
    PROVE  /\ Failing(a, n) \in Attempt
           /\ Failing(a, n).job = a.job
           /\ Failing(a, n).generation = a.generation
           /\ Failing(a, n).attempts = n
BY DEF Failing, Attempt

-------------------------------------------------------------------------------
(* Type correctness.                                                       *)

LEMMA InitTyped == Init => TypeOK
BY DEF Init, TypeOK, NoRow, Row, Statuses, Spent

\* A fenced write keeps the types when what it writes is a row.
LEMMA FencedWriteTyped ==
    ASSUME TypeOK, NEW w \in Workers, NEW new \in Row,
           held[w] # Idle, FencedWrite(w, new)
    PROVE  /\ row' \in [Jobs -> Row]
           /\ held' \in [Workers -> Attempt \cup {Idle}]
BY DEF TypeOK, FencedWrite

\* The table, the attempts and the counters; kind and picked come on top.
TableTyped ==
    /\ row \in [Jobs -> Row]
    /\ held \in [Workers -> Attempt \cup {Idle}]
    /\ crashed \subseteq Workers
    /\ spent \in Spent

LEMMA StepTyped == TypeOK /\ [Next]_vars => TypeOK'
<1> SUFFICES ASSUME TypeOK, [Next]_vars PROVE TypeOK'
  OBVIOUS
<1>1. ASSUME NEW w \in Workers, NEW j \in Jobs, Claim(w, j) PROVE TableTyped'
  <2>1. Claimed(row[j], w) \in Row
    BY ClaimedRow DEF TypeOK
  <2>2. row[j].generation \in Nat /\ row[j].attempts \in Nat
    BY DEF TableTyped, TypeOK, Row
  <2>3. [job |-> j, generation |-> row[j].generation + 1,
         attempts |-> row[j].attempts + 1,
         stage |-> "running"] \in Attempt
    BY <2>2 DEF Attempt
  <2> QED BY <1>1, <2>1, <2>3 DEF TableTyped, TypeOK, Claim
<1>2. ASSUME NEW w \in Workers, Heartbeat(w) PROVE TableTyped'
  <2>1. held[w].job \in Jobs
    BY <1>2 DEF TableTyped, TypeOK, Heartbeat, Attempt
  <2>2. [row[held[w].job] EXCEPT !.lapsed = FALSE] \in Row
    BY <2>1, FlaggedRow DEF TypeOK
  <2>3. row' \in [Jobs -> Row]
    BY <1>2, <2>1, <2>2 DEF TableTyped, TypeOK, Heartbeat
  <2> QED BY <1>2, <2>3 DEF TableTyped, TypeOK, Heartbeat
<1>3. ASSUME NEW w \in Workers, FinishUnit(w) PROVE TableTyped'
  <2>1. held[w] \in Attempt /\ held[w].job \in Jobs /\ held[w].attempts \in Nat
    BY <1>3 DEF TypeOK, FinishUnit, Attempt
  <2>2. /\ row' = row \/ row' = [row EXCEPT ![held[w].job].stalled = FALSE]
        /\ \/ held' = held
           \/ held' = [held EXCEPT ![w] = Failing(held[w], held[w].attempts)]
    BY <1>3 DEF FinishUnit
  <2>3. row' \in [Jobs -> Row]
    <3>1. row[held[w].job] \in Row
      BY <2>1 DEF TypeOK
    <3>2. [row[held[w].job] EXCEPT !.stalled = FALSE] \in Row
      BY <3>1, FlaggedRow
    <3> QED BY <2>2, <3>2 DEF TypeOK
  <2>4. Failing(held[w], held[w].attempts) \in Attempt
    BY <2>1, FailingAttempt
  <2>5. held' \in [Workers -> Attempt \cup {Idle}]
    BY <2>2, <2>4 DEF TypeOK
  <2> QED BY <1>3, <2>3, <2>5 DEF TableTyped, TypeOK, FinishUnit
<1>4. ASSUME NEW w \in Workers, Complete(w) PROVE TableTyped'
  <2>1. row[held[w].job] \in Row
    BY <1>4 DEF TableTyped, TypeOK, Complete, Attempt
  <2>2. Settled(row[held[w].job], "completed") \in Row
    BY <2>1, SettledRow DEF Terminal
  <2> QED BY <1>4, <2>2, FencedWriteTyped DEF TableTyped, TypeOK, Complete
<1>5. ASSUME NEW w \in Workers, CancelOwn(w) PROVE TableTyped'
  <2>1. row[held[w].job] \in Row
    BY <1>5 DEF TableTyped, TypeOK, CancelOwn, Attempt
  <2>2. Settled(row[held[w].job], "cancelled") \in Row
    BY <2>1, SettledRow DEF Terminal
  <2> QED BY <1>5, <2>2, FencedWriteTyped DEF TableTyped, TypeOK, CancelOwn
<1>6. ASSUME NEW w \in Workers, BeginFailure(w) PROVE TableTyped'
  <2>1. PICK n \in {held[w].attempts, row[held[w].job].attempts} :
           held' = [held EXCEPT ![w] = Failing(held[w], n)]
    BY <1>6 DEF BeginFailure
  <2>2. held[w] \in Attempt /\ n \in Nat
    BY <1>6 DEF BeginFailure, TypeOK, Row, Attempt
  <2> QED BY <1>6, <2>1, <2>2, FailingAttempt DEF TableTyped, TypeOK, BeginFailure
<1>8. ASSUME NEW w \in Workers, SettleFailure(w) PROVE TableTyped'
  <2>1. row[held[w].job] \in Row
    BY <1>8 DEF TableTyped, TypeOK, SettleFailure, Attempt
  <2>2. /\ Settled(row[held[w].job], "failed") \in Row
        /\ \A later \in BOOLEAN : Requeued(row[held[w].job], later) \in Row
    BY <2>1, SettledRow, RequeuedRow DEF Terminal
  <2>3. /\ row' \in [Jobs -> Row]
        /\ held' \in [Workers -> Attempt \cup {Idle}]
    BY <1>8, <2>2, FencedWriteTyped DEF SettleFailure
  <2>4. spent' = spent \/ spent' = [spent EXCEPT !.contentions = @ + 1]
    BY <1>8 DEF SettleFailure
  <2>5. spent' \in Spent
    BY <2>4 DEF TableTyped, TypeOK, Spent
  <2> QED BY <1>8, <2>3, <2>5 DEF TableTyped, TypeOK, SettleFailure
<1>9. ASSUME NEW w \in Workers, SettleMalformed(w) PROVE TableTyped'
  <2>1. row[held[w].job] \in Row
    BY <1>9 DEF TypeOK, SettleMalformed, Attempt
  <2>2. Settled(row[held[w].job], "failed") \in Row
    BY <2>1, SettledRow DEF Terminal
  <2> QED BY <1>9, <2>2, FencedWriteTyped DEF TableTyped, TypeOK, SettleMalformed
<1>7. ASSUME NEW w \in Workers, Release(w) PROVE TableTyped'
  <2>1. row[held[w].job] \in Row
    BY <1>7 DEF TypeOK, Release, Attempt
  <2>2. HandedBack(row[held[w].job]) \in Row
    BY <2>1, HandedBackRow
  <2>3. spent' \in Spent
    BY <1>7 DEF TypeOK, Release, Spent
  <2> QED BY <1>7, <2>2, <2>3, FencedWriteTyped DEF TableTyped, TypeOK, Release
<1>10. ASSUME NEW w \in Workers, Abandon(w) PROVE TableTyped'
  BY <1>10 DEF TableTyped, TypeOK, Abandon
<1>11. ASSUME NEW w \in Workers, Crash(w) PROVE TableTyped'
  BY <1>11 DEF TableTyped, TypeOK, Crash, Spent
<1>12. ASSUME NEW j \in Jobs, Enqueue(j) PROVE TableTyped'
  BY <1>12 DEF TableTyped, TypeOK, Enqueue, Written, Row, Statuses
<1>13. ASSUME NEW j \in Jobs, CancelJob(j) PROVE TableTyped'
  BY <1>13, SettledRow DEF TableTyped, TypeOK, CancelJob, Terminal
<1>14. ASSUME NEW j \in Jobs, RetryJob(j) PROVE TableTyped'
  BY <1>14, RetriedRow DEF TableTyped, TypeOK, RetryJob, Spent
<1>15. ASSUME NEW j \in Jobs, HeartbeatLapses(j) PROVE TableTyped'
  BY <1>15, FlaggedRow DEF TableTyped, TypeOK, HeartbeatLapses
<1>16. ASSUME NEW j \in Jobs, StallBudgetPasses(j) PROVE TableTyped'
  BY <1>16, FlaggedRow DEF TableTyped, TypeOK, StallBudgetPasses
<1>17. ASSUME NEW j \in Jobs, RunAfterDue(j) PROVE TableTyped'
  BY <1>17, FlaggedRow DEF TableTyped, TypeOK, RunAfterDue
<1>18. ASSUME ReleaseAll PROVE TableTyped'
  BY <1>18, HandedBackRow DEF TableTyped, TypeOK, ReleaseAll, Spent
<1>19. ASSUME ReclaimExpired PROVE TableTyped'
  BY <1>19, ReclaimedRow DEF TableTyped, TypeOK, ReclaimExpired
<1>20. CASE CancelPass
  <2>1. CASE PickForCancel
    BY <2>1 DEF TypeOK, PickForCancel
  <2>2. CASE WriteCancels
    <3>1. row' \in [Jobs -> Row]
      BY <2>2, WithdrawnRow DEF TypeOK, WriteCancels
    <3> QED BY <2>2, <3>1 DEF TypeOK, WriteCancels
  <2> QED BY <1>20, <2>1, <2>2 DEF CancelPass
<1>21. CASE UNCHANGED vars
  BY <1>21 DEF TypeOK, vars
<1>22. ASSUME TableTyped', UNCHANGED <<kind, picked>> PROVE TypeOK'
  BY <1>22 DEF TableTyped, TypeOK
<1>23. ASSUME NEW w \in Workers, WorkerStep(w) PROVE TableTyped'
  BY <1>1, <1>2, <1>3, <1>4, <1>5, <1>6, <1>7, <1>8, <1>9, <1>10, <1>11, <1>23
     DEF WorkerStep
<1>24. ASSUME NEW j \in Jobs, RowStep(j) PROVE TableTyped'
  BY <1>12, <1>13, <1>14, <1>15, <1>16, <1>17, <1>24 DEF RowStep
<1> QED BY <1>18, <1>19, <1>20, <1>21, <1>22, <1>23, <1>24 DEF Next, Beside

\* The jobs table and the workers' attempts keep their types, for any cap.
THEOREM TypeCorrect == Spec => []TypeOK
<1>1. TypeOK /\ [Next]_vars => TypeOK'
  BY StepTyped
<1> QED BY InitTyped, <1>1, PTL DEF Spec

-------------------------------------------------------------------------------
(* The inductive invariant.  The fence is sound only because an owner's        *)
(* attempt always carries the row's generation; that rests on generations      *)
(* growing with every claim, and on no two attempts sharing one.               *)

\* A row not inserted yet has no history.
AbsentIsFresh == \A j \in Jobs : row[j].status = "absent" => row[j].generation = 0

\* What makes claims hand-overs: an attempt that lost its row is one generation
\* behind a row that waits, and two behind a row that runs for somebody else.
SupersededByTwo ==
    \A w \in Workers, j \in Jobs :
        Runs(w, j) =>
            /\ row[j].status = "pending" => held[w].generation < row[j].generation
            /\ row[j].status = "running" /\ ~Owns(w, j)
               => held[w].generation + 1 < row[j].generation

Exclusion ==
    /\ AbsentIsFresh
    /\ OwnedWhileRunning
    /\ FenceIsGeneration
    /\ ClaimsAreHandovers
    /\ SupersededByTwo
    /\ CountIsCurrent

IInv == TypeOK /\ Exclusion /\ AttemptsBounded

\* A row either keeps its lease or lets it go.
LeaseKept(r, s) ==
    /\ s.status = r.status /\ s.worker = r.worker
    /\ s.generation = r.generation /\ s.attempts = r.attempts

LeaseEnded(r, s) ==
    /\ s.status \notin {"absent", "running"}
    /\ s.generation >= r.generation
    /\ s.status = "pending" =>
          /\ s.worker = NoWorker
          /\ s.generation > r.generation \/ r.status \in {"absent", "running"}

\* A row goes back to the queue in its generation only with its owner's attempt.
PutBackByOwner ==
    \A w \in Workers, j \in Jobs :
        /\ Owns(w, j) /\ row'[j].status = "pending"
        /\ held'[w] # Idle
        => row'[j].generation > row[j].generation

\* An attempt either ends or goes on as the same attempt.
AttemptGoesOn(a, b) ==
    /\ a # Idle /\ b # Idle
    /\ b.job = a.job /\ b.generation = a.generation

\* Any step that claims nothing preserves exclusion: each row keeps or ends its
\* lease, each attempt ends or goes on, and a retry count is either the one the
\* attempt had or the row's own.
LEMMA ExclusionWithoutClaim ==
    ASSUME TypeOK, TypeOK', Exclusion,
           \A j \in Jobs : LeaseKept(row[j], row'[j]) \/ LeaseEnded(row[j], row'[j]),
           PutBackByOwner,
           \A w \in Workers :
              \/ held'[w] = Idle
              \/ /\ AttemptGoesOn(held[w], held'[w])
                 /\ \/ held'[w].attempts = held[w].attempts
                    \/ row' = row /\ held'[w].attempts = row[held[w].job].attempts
    PROVE  Exclusion'
<1>1. AbsentIsFresh' /\ OwnedWhileRunning'
  BY DEF Exclusion, AbsentIsFresh, OwnedWhileRunning, LeaseKept, LeaseEnded
<1>2. ClaimsAreHandovers'
  BY DEF Exclusion, ClaimsAreHandovers, AttemptGoesOn
<1>3. ASSUME NEW w \in Workers, NEW j \in Jobs, Runs(w, j)'
      PROVE  /\ held'[w].generation <= row'[j].generation
             /\ Owns(w, j)' => /\ held'[w].generation = row'[j].generation
                               /\ held'[w].attempts = row'[j].attempts
  <2>1. Runs(w, j) /\ held'[w].generation = held[w].generation /\ held[w].job = j
    BY <1>3 DEF Runs, AttemptGoesOn
  <2>2. /\ row[j].generation \in Nat /\ row'[j].generation \in Nat
        /\ held[w].generation \in Nat
    BY <2>1 DEF TypeOK, Row, Attempt, Runs
  <2>3. /\ held[w].generation <= row[j].generation
        /\ Owns(w, j) => /\ held[w].generation = row[j].generation
                         /\ held[w].attempts = row[j].attempts
    BY <2>1 DEF Exclusion, FenceIsGeneration, CountIsCurrent
  <2>4. CASE LeaseKept(row[j], row'[j])
    <3>1. Owns(w, j)' => Owns(w, j)
      BY <2>4 DEF Owns, LeaseKept
    <3>2. \/ held'[w].attempts = held[w].attempts
          \/ held'[w].attempts = row[j].attempts
      BY <1>3, <2>1 DEF Runs
    <3> QED BY <2>1, <2>2, <2>3, <2>4, <3>1, <3>2 DEF LeaseKept
  <2>5. CASE LeaseEnded(row[j], row'[j])
    BY <2>1, <2>2, <2>3, <2>5 DEF LeaseEnded, Owns
  <2> QED BY <2>4, <2>5
<1>4. FenceIsGeneration' /\ CountIsCurrent'
  BY <1>3 DEF FenceIsGeneration, CountIsCurrent
<1>5. ASSUME NEW w \in Workers, NEW j \in Jobs, Runs(w, j)'
      PROVE  /\ row'[j].status = "pending" => held'[w].generation < row'[j].generation
             /\ row'[j].status = "running" /\ ~Owns(w, j)'
                => held'[w].generation + 1 < row'[j].generation
  <2>1. Runs(w, j) /\ held'[w].generation = held[w].generation /\ held'[w] # Idle
    BY <1>5 DEF Runs, AttemptGoesOn
  <2>2. /\ row[j].generation \in Nat /\ row'[j].generation \in Nat
        /\ held[w].generation \in Nat \ {0}
    BY <2>1 DEF TypeOK, Row, Attempt, Runs
  <2>3. /\ held[w].generation <= row[j].generation
        /\ row[j].status = "pending" => held[w].generation < row[j].generation
        /\ row[j].status = "running" /\ ~Owns(w, j)
           => held[w].generation + 1 < row[j].generation
        /\ row[j].status = "absent" => row[j].generation = 0
    BY <2>1 DEF Exclusion, FenceIsGeneration, SupersededByTwo, AbsentIsFresh
  <2>4. CASE LeaseKept(row[j], row'[j])
    BY <2>1, <2>3, <2>4 DEF LeaseKept, Owns
  <2>5. CASE LeaseEnded(row[j], row'[j])
    <3>1. row'[j].status # "running"
      BY <2>5 DEF LeaseEnded
    <3>2. ASSUME row'[j].status = "pending" PROVE held[w].generation < row'[j].generation
      <4>1. CASE row'[j].generation > row[j].generation
        BY <2>2, <2>3, <4>1
      <4>2. CASE row[j].status = "absent"
        BY <2>2, <2>3, <4>2
      <4>3. CASE row[j].status = "running" /\ Owns(w, j)
        BY <2>1, <2>2, <2>3, <3>2, <4>3 DEF PutBackByOwner
      <4>4. CASE row[j].status = "running" /\ ~Owns(w, j)
        BY <2>2, <2>3, <2>5, <4>4 DEF LeaseEnded
      <4> QED BY <2>5, <3>2, <4>1, <4>2, <4>3, <4>4 DEF LeaseEnded
    <3> QED BY <2>1, <3>1, <3>2
  <2> QED BY <2>4, <2>5
<1>6. SupersededByTwo'
  BY <1>5 DEF SupersededByTwo
<1> QED BY <1>1, <1>2, <1>4, <1>6 DEF Exclusion

LEMMA ExclusionByClaim ==
    ASSUME TypeOK, TypeOK', Exclusion, NEW w \in Workers, NEW j \in Jobs, Claim(w, j)
    PROVE  Exclusion'
<1>1. /\ held[w] = Idle /\ row[j].status = "pending"
      /\ row' = [row EXCEPT ![j] = Claimed(row[j], w)]
      /\ held' = [held EXCEPT ![w] = [job |-> j, generation |-> row[j].generation + 1,
                                      attempts |-> row[j].attempts + 1,
                                      stage |-> "running"]]
  BY DEF Claim, Claimable
<1>2. /\ row'[j] = Claimed(row[j], w)
      /\ \A i \in Jobs : i # j => row'[i] = row[i]
      /\ held'[w].job = j
      /\ held'[w].generation = row[j].generation + 1
      /\ held'[w].attempts = row[j].attempts + 1
      /\ \A v \in Workers : v # w => held'[v] = held[v]
  BY <1>1 DEF TypeOK
<1>3. /\ row'[j].status = "running" /\ row'[j].worker = w
      /\ row'[j].generation = row[j].generation + 1
      /\ row'[j].attempts = row[j].attempts + 1
      /\ row[j].generation \in Nat /\ row[j].attempts \in Nat
  BY <1>2, ClaimedRow DEF TypeOK, Row
<1>4. \A v \in Workers : v # w /\ Runs(v, j)
          => held[v].generation \in Nat /\ held[v].generation < row[j].generation
  BY <1>1 DEF Exclusion, SupersededByTwo, Runs, TypeOK, Attempt
<1>5. AbsentIsFresh' /\ OwnedWhileRunning'
  BY <1>2, <1>3 DEF Exclusion, AbsentIsFresh, OwnedWhileRunning
<1>6. ClaimsAreHandovers'
  <2> SUFFICES ASSUME NEW u \in Workers, NEW v \in Workers, u # v,
                      held'[u] # Idle, held'[v] # Idle, held'[u].job = held'[v].job
               PROVE  \/ held'[u].generation + 1 < held'[v].generation
                      \/ held'[v].generation + 1 < held'[u].generation
    BY DEF ClaimsAreHandovers
  <2>1. CASE u # w /\ v # w
    BY <1>2, <2>1 DEF Exclusion, ClaimsAreHandovers
  <2>2. CASE u = w
    BY <1>2, <1>3, <1>4, <2>2 DEF Runs
  <2>3. CASE v = w
    BY <1>2, <1>3, <1>4, <2>3 DEF Runs
  <2> QED BY <2>1, <2>2, <2>3
<1>7. ASSUME NEW v \in Workers, NEW i \in Jobs, Runs(v, i)'
      PROVE  /\ held'[v].generation <= row'[i].generation
             /\ Owns(v, i)' => /\ held'[v].generation = row'[i].generation
                               /\ held'[v].attempts = row'[i].attempts
  <2>1. CASE v = w
    BY <1>2, <1>3, <1>7, <2>1 DEF Runs
  <2>2. CASE v # w /\ i = j
    BY <1>2, <1>3, <1>4, <1>7, <2>2 DEF Runs, Owns
  <2>3. CASE v # w /\ i # j
    BY <1>2, <1>7, <2>3
       DEF Runs, Owns, Exclusion, FenceIsGeneration, CountIsCurrent
  <2> QED BY <2>1, <2>2, <2>3
<1>8. FenceIsGeneration' /\ CountIsCurrent'
  BY <1>7 DEF FenceIsGeneration, CountIsCurrent
<1>9. ASSUME NEW v \in Workers, NEW i \in Jobs, Runs(v, i)'
      PROVE  /\ row'[i].status = "pending" => held'[v].generation < row'[i].generation
             /\ row'[i].status = "running" /\ ~Owns(v, i)'
                => held'[v].generation + 1 < row'[i].generation
  <2>1. CASE v = w
    BY <1>2, <1>3, <1>9, <2>1 DEF Runs, Owns
  <2>2. CASE v # w /\ i = j
    BY <1>2, <1>3, <1>4, <1>9, <2>2 DEF Runs
  <2>3. CASE v # w /\ i # j
    BY <1>2, <1>9, <2>3 DEF Runs, Owns, Exclusion, SupersededByTwo
  <2> QED BY <2>1, <2>2, <2>3
<1>10. SupersededByTwo'
  BY <1>9 DEF SupersededByTwo
<1> QED BY <1>5, <1>6, <1>8, <1>10 DEF Exclusion

\* What is left of each step: it preserves the cap, and it classifies its rows
\* and attempts for ExclusionWithoutClaim.
Bounded(r, extra) ==
    /\ r.attempts <= MaxAttempts + extra
    /\ r.status = "pending" => r.attempts < MaxAttempts + extra

StepWithoutClaim ==
    /\ \A j \in Jobs : LeaseKept(row[j], row'[j]) \/ LeaseEnded(row[j], row'[j])
    /\ PutBackByOwner
    /\ \A w \in Workers :
          \/ held'[w] = Idle
          \/ /\ AttemptGoesOn(held[w], held'[w])
             /\ \/ held'[w].attempts = held[w].attempts
                \/ row' = row /\ held'[w].attempts = row[held[w].job].attempts
    /\ \A j \in Jobs : Bounded(row'[j], spent'.contentions)

LEMMA InvWithoutClaim ==
    ASSUME IInv, TypeOK', StepWithoutClaim
    PROVE  IInv'
<1>1. Exclusion'
  BY ExclusionWithoutClaim DEF IInv, StepWithoutClaim
<1>2. AttemptsBounded'
  BY DEF StepWithoutClaim, Bounded, AttemptsBounded
<1> QED BY <1>1, <1>2 DEF IInv

\* The rows of a state satisfying the invariant, one by one.
LEMMA RowFacts ==
    ASSUME IInv, NEW j \in Jobs
    PROVE  /\ row[j] \in Row
           /\ row[j].generation \in Nat /\ row[j].attempts \in Nat
           /\ Bounded(row[j], spent.contentions)
           /\ row[j].status = "absent" => row[j].generation = 0
           /\ row[j].status = "pending" => row[j].worker = NoWorker
           /\ row[j].status = "running" => row[j].attempts >= 1
BY DEF IInv, TypeOK, Row, AttemptsBounded, Bounded, Exclusion, AbsentIsFresh, OwnedWhileRunning

LEMMA SpentFacts ==
    ASSUME TypeOK, TypeOK'
    PROVE  spent.contentions \in Nat /\ spent'.contentions \in Nat
BY DEF TypeOK, Spent

\* A fenced write that ends the lease, spending no less than before.
LEMMA FencedWriteStep ==
    ASSUME IInv, TypeOK', NEW w \in Workers, NEW new, held[w] # Idle,
           FencedWrite(w, new),
           Owns(w, held[w].job) => LeaseEnded(row[held[w].job], new),
           spent'.contentions >= spent.contentions,
           Owns(w, held[w].job) => Bounded(new, spent'.contentions)
    PROVE  StepWithoutClaim
<1> DEFINE j == held[w].job
<1>1. j \in Jobs
  BY DEF IInv, TypeOK, Attempt
<1>2. /\ \A i \in Jobs : i # j => row'[i] = row[i]
      /\ row'[j] = row[j] \/ (Owns(w, j) /\ row'[j] = new)
      /\ held'[w] = Idle
      /\ \A v \in Workers : v # w => held'[v] = held[v]
  BY <1>1 DEF FencedWrite, IInv, TypeOK
<1>3. \A i \in Jobs : LeaseKept(row[i], row'[i]) \/ LeaseEnded(row[i], row'[i])
  BY <1>2 DEF LeaseKept
<1>4. \A i \in Jobs : Bounded(row'[i], spent'.contentions)
  <2>1. \A i \in Jobs : /\ row[i].attempts \in Nat
                        /\ Bounded(row[i], spent.contentions)
    BY RowFacts
  <2>2. \A i \in Jobs : Bounded(row[i], spent'.contentions)
    BY <2>1, SpentFacts DEF Bounded, IInv
  <2> QED BY <1>2, <2>2
<1>5. PutBackByOwner
  BY <1>2 DEF PutBackByOwner, Owns
<1> QED BY <1>2, <1>3, <1>4, <1>5 DEF StepWithoutClaim, AttemptGoesOn

LEMMA InitInv == Init => IInv
BY InitTyped
   DEF Init, IInv, Exclusion, AbsentIsFresh, OwnedWhileRunning, FenceIsGeneration,
       ClaimsAreHandovers, SupersededByTwo, CountIsCurrent, AttemptsBounded, NoRow, Runs

LEMMA StepInv == IInv /\ [Next]_vars => IInv'
<1> SUFFICES ASSUME IInv, [Next]_vars PROVE IInv'
  OBVIOUS
<1>0. TypeOK /\ TypeOK'
  BY StepTyped DEF IInv
<1> USE <1>0
\* Attempts that only go on, over rows that keep their leases.
<1>a. ASSUME \A j \in Jobs : LeaseKept(row[j], row'[j]),
             \A w \in Workers :
                \/ held'[w] = Idle
                \/ /\ AttemptGoesOn(held[w], held'[w])
                   /\ \/ held'[w].attempts = held[w].attempts
                      \/ row' = row /\ held'[w].attempts = row[held[w].job].attempts,
             spent'.contentions = spent.contentions
      PROVE  IInv'
  <2>1. \A j \in Jobs : Bounded(row'[j], spent'.contentions)
    BY <1>a, RowFacts DEF LeaseKept, Bounded
  <2>2. PutBackByOwner
    BY <1>a DEF PutBackByOwner, LeaseKept, Owns
  <2> QED BY <1>a, <2>1, <2>2, InvWithoutClaim DEF StepWithoutClaim
\* Rows that move while every attempt stays as it is.
<1>b. ASSUME held' = held, spent'.contentions = spent.contentions,
             \A j \in Jobs : \/ row'[j] = row[j]
                             \/ /\ LeaseEnded(row[j], row'[j])
                                /\ row[j].status = "running" /\ row'[j].status = "pending"
                                   => row'[j].generation > row[j].generation
                                /\ Bounded(row'[j], spent.contentions)
      PROVE  IInv'
  <2>1. \A j \in Jobs : Bounded(row'[j], spent'.contentions)
    BY <1>b, RowFacts
  <2>2. \A j \in Jobs : LeaseKept(row[j], row'[j]) \/ LeaseEnded(row[j], row'[j])
    BY <1>b DEF LeaseKept
  <2>3. PutBackByOwner
    BY <1>b DEF PutBackByOwner, Owns
  <2> QED BY <1>b, <2>1, <2>2, <2>3, InvWithoutClaim DEF StepWithoutClaim, AttemptGoesOn
<1>1. ASSUME NEW w \in Workers, NEW j \in Jobs, Claim(w, j) PROVE IInv'
  <2>1. Exclusion'
    BY <1>1, ExclusionByClaim DEF IInv
  <2>2. /\ row[j].status = "pending" /\ spent' = spent
        /\ row'[j] = Claimed(row[j], w)
        /\ \A i \in Jobs : i # j => row'[i] = row[i]
    BY <1>1 DEF Claim, Claimable, TypeOK
  <2>3. row[j].attempts < MaxAttempts + spent.contentions
    BY <2>2, RowFacts DEF Bounded
  <2>4. Bounded(row'[j], spent'.contentions)
    BY <2>2, <2>3, ClaimedRow, RowFacts, SpentFacts DEF Bounded
  <2>5. AttemptsBounded'
    BY <2>2, <2>4, RowFacts DEF Bounded, AttemptsBounded
  <2> QED BY <2>1, <2>5 DEF IInv
<1>2. ASSUME NEW w \in Workers, Heartbeat(w) PROVE IInv'
  <2>1. held[w].job \in Jobs
    BY <1>2 DEF Heartbeat, TypeOK, Attempt
  <2>2. \A j \in Jobs : LeaseKept(row[j], row'[j])
    BY <1>2, <2>1 DEF Heartbeat, LeaseKept, TypeOK, Row
  <2> QED BY <1>2, <2>2, <1>a DEF Heartbeat, AttemptGoesOn
<1>3. ASSUME NEW w \in Workers, FinishUnit(w) PROVE IInv'
  <2>1. /\ held[w] # Idle /\ held[w] \in Attempt /\ held[w].job \in Jobs
        /\ held[w].attempts \in Nat /\ spent' = spent
    BY <1>3 DEF FinishUnit, TypeOK, Attempt
  <2>2. /\ row' = row \/ row' = [row EXCEPT ![held[w].job].stalled = FALSE]
        /\ \/ held' = held
           \/ held' = [held EXCEPT ![w] = Failing(held[w], held[w].attempts)]
    BY <1>3 DEF FinishUnit
  <2>3. \A j \in Jobs : LeaseKept(row[j], row'[j])
    BY <2>1, <2>2 DEF LeaseKept, TypeOK, Row
  <2>4. held'[w] = held[w] \/ /\ AttemptGoesOn(held[w], held'[w])
                              /\ held'[w].attempts = held[w].attempts
    <3>1. /\ Failing(held[w], held[w].attempts) \in Attempt
          /\ AttemptGoesOn(held[w], Failing(held[w], held[w].attempts))
          /\ Failing(held[w], held[w].attempts).attempts = held[w].attempts
      BY <2>1, FailingAttempt, IdleAssumption DEF AttemptGoesOn
    <3> QED BY <2>2, <3>1 DEF TypeOK
  <2>5. \A v \in Workers : v # w => held'[v] = held[v]
    BY <2>2 DEF TypeOK
  <2> QED BY <2>1, <2>3, <2>4, <2>5, <1>a DEF AttemptGoesOn
<1>4. ASSUME NEW w \in Workers, Complete(w) \/ CancelOwn(w) \/ SettleMalformed(w)
      PROVE  IInv'
  <2>1. PICK o \in Terminal :
           /\ held[w] # Idle /\ spent' = spent
           /\ FencedWrite(w, Settled(row[held[w].job], o))
    BY <1>4 DEF Complete, CancelOwn, SettleMalformed, Terminal
  <2>2. held[w].job \in Jobs
    BY <2>1 DEF TypeOK, Attempt
  <2>3. /\ LeaseEnded(row[held[w].job], Settled(row[held[w].job], o))
        /\ Bounded(Settled(row[held[w].job], o), spent'.contentions)
    BY <2>1, <2>2, RowFacts, SettledRow DEF LeaseEnded, Bounded, Terminal
  <2>4. spent'.contentions >= spent.contentions
    BY <2>1, SpentFacts
  <2> QED BY <2>1, <2>3, <2>4, FencedWriteStep, InvWithoutClaim
<1>5. ASSUME NEW w \in Workers, BeginFailure(w) PROVE IInv'
  <2>1. PICK n \in {held[w].attempts, row[held[w].job].attempts} :
           held' = [held EXCEPT ![w] = Failing(held[w], n)]
    BY <1>5 DEF BeginFailure
  <2>2. /\ held[w] # Idle /\ held[w] \in Attempt /\ n \in Nat
        /\ row' = row /\ spent' = spent
    BY <1>5 DEF BeginFailure, TypeOK, Row, Attempt
  <2>3. held'[w] = Failing(held[w], n) /\ \A v \in Workers : v # w => held'[v] = held[v]
    BY <2>1 DEF TypeOK
  <2>4. AttemptGoesOn(held[w], held'[w]) /\ held'[w].attempts = n
    BY <2>2, <2>3, FailingAttempt, IdleAssumption DEF AttemptGoesOn
  <2> QED BY <2>2, <2>3, <2>4, <1>a DEF LeaseKept, AttemptGoesOn
<1>7. ASSUME NEW w \in Workers, SettleFailure(w) PROVE IInv'
  <2> DEFINE r == row[held[w].job]
  <2>1. held[w] # Idle /\ held[w].job \in Jobs
    BY <1>7 DEF SettleFailure, TypeOK, Attempt
  <2>2. /\ r \in Row /\ r.generation \in Nat /\ r.attempts \in Nat
        /\ Bounded(r, spent.contentions)
    BY <2>1, RowFacts
  <2>3. Owns(w, held[w].job) => held[w].attempts = r.attempts
    BY <2>1 DEF IInv, Exclusion, CountIsCurrent, Runs
  <2>4. ASSUME NEW later \in BOOLEAN, FencedWrite(w, Requeued(r, later)),
               spent'.contentions \in Nat, spent'.contentions >= spent.contentions,
               Owns(w, held[w].job) => r.attempts < MaxAttempts + spent'.contentions
        PROVE  IInv'
    <3>1. Owns(w, held[w].job) => LeaseEnded(r, Requeued(r, later))
      BY <2>2, RequeuedRow DEF LeaseEnded, Owns
    <3>2. Owns(w, held[w].job) => Bounded(Requeued(r, later), spent'.contentions)
      BY <2>2, <2>4, RequeuedRow DEF Bounded
    <3> QED BY <2>1, <2>4, <3>1, <3>2, FencedWriteStep, InvWithoutClaim
  <2>5. ASSUME FencedWrite(w, Settled(r, "failed")), spent' = spent
        PROVE  IInv'
    <3>1. LeaseEnded(r, Settled(r, "failed")) /\ Bounded(Settled(r, "failed"), spent'.contentions)
      BY <2>2, <2>5, SettledRow DEF LeaseEnded, Bounded, Terminal
    <3>2. spent'.contentions >= spent.contentions
      BY <2>5, SpentFacts
    <3> QED BY <2>1, <2>5, <3>1, <3>2, FencedWriteStep, InvWithoutClaim
  <2>6. ASSUME held[w].attempts < MaxAttempts, spent' = spent,
               NEW later \in BOOLEAN, FencedWrite(w, Requeued(r, later))
        PROVE  IInv'
    <3>1. /\ spent'.contentions \in Nat /\ spent'.contentions >= spent.contentions
          /\ Owns(w, held[w].job) => r.attempts < MaxAttempts + spent'.contentions
      BY <2>2, <2>3, <2>6, SpentFacts
    <3> QED BY <2>4, <2>6, <3>1
  <2>7. ASSUME spent' = [spent EXCEPT !.contentions = @ + 1],
               FencedWrite(w, Requeued(r, TRUE))
        PROVE  IInv'
    <3>1. spent.contentions \in Nat /\ spent'.contentions = spent.contentions + 1
      BY <2>7 DEF TypeOK, Spent
    <3>2. /\ spent'.contentions \in Nat /\ spent'.contentions >= spent.contentions
          /\ Owns(w, held[w].job) => r.attempts < MaxAttempts + spent'.contentions
      BY <2>2, <3>1 DEF Bounded
    <3>3. \E later \in BOOLEAN : FencedWrite(w, Requeued(r, later))
      BY <2>7, Zenon
    <3> QED BY <2>4, <3>2, <3>3
  <2> QED BY <1>7, <2>5, <2>6, <2>7 DEF SettleFailure
<1>8. ASSUME NEW w \in Workers, Release(w) PROVE IInv'
  <2> DEFINE r == row[held[w].job]
  <2>1. /\ held[w] # Idle /\ held[w].job \in Jobs
        /\ FencedWrite(w, HandedBack(r)) /\ spent'.contentions = spent.contentions
    BY <1>8 DEF Release, TypeOK, Attempt, Spent
  <2>2. /\ r \in Row /\ r.generation \in Nat /\ r.attempts \in Nat
        /\ Bounded(r, spent.contentions)
        /\ r.status = "running" => r.attempts >= 1
    BY <2>1, RowFacts
  <2>3. LeaseEnded(r, HandedBack(r))
    BY <2>2, HandedBackRow DEF LeaseEnded
  <2>4. Owns(w, held[w].job) => Bounded(HandedBack(r), spent'.contentions)
    BY <2>1, <2>2, HandedBackRow, SpentFacts DEF Bounded, Owns
  <2>5. spent'.contentions >= spent.contentions
    BY <2>1, SpentFacts
  <2> QED BY <2>1, <2>3, <2>4, <2>5, FencedWriteStep, InvWithoutClaim
<1>9. ASSUME NEW w \in Workers, Abandon(w) PROVE IInv'
  BY <1>9, <1>a DEF Abandon, LeaseKept, AttemptGoesOn, TypeOK
<1>10. ASSUME NEW w \in Workers, Crash(w) PROVE IInv'
  BY <1>10, <1>a DEF Crash, LeaseKept, AttemptGoesOn, TypeOK, Spent
<1>11. ASSUME NEW j \in Jobs, Enqueue(j) PROVE IInv'
  <2>1. row' = [row EXCEPT ![j] = Written("pending", NoWorker, 0, 0, FALSE)]
        /\ held' = held /\ spent' = spent /\ row[j].status = "absent"
    BY <1>11 DEF Enqueue
  <2>2. LeaseEnded(row[j], Written("pending", NoWorker, 0, 0, FALSE))
        /\ Bounded(Written("pending", NoWorker, 0, 0, FALSE), spent.contentions)
    BY <2>1, RowFacts, SpentFacts DEF Written, LeaseEnded, Bounded
  <2> QED BY <2>1, <2>2, <1>b DEF TypeOK
<1>12. ASSUME NEW j \in Jobs, CancelJob(j) PROVE IInv'
  <2>1. /\ LeaseEnded(row[j], Settled(row[j], "cancelled"))
        /\ Settled(row[j], "cancelled").status # "pending"
        /\ Bounded(Settled(row[j], "cancelled"), spent.contentions)
    BY RowFacts, SettledRow DEF LeaseEnded, Bounded, Terminal
  <2> QED BY <1>12, <2>1, <1>b DEF CancelJob, TypeOK
<1>13. ASSUME NEW j \in Jobs, RetryJob(j) PROVE IInv'
  <2>1. LeaseEnded(row[j], Retried(row[j])) /\ Bounded(Retried(row[j]), spent.contentions)
    BY RowFacts, RetriedRow, SpentFacts DEF LeaseEnded, Bounded
  <2> QED BY <1>13, <2>1, <1>b DEF RetryJob, TypeOK, Spent
<1>14. ASSUME NEW j \in Jobs, HeartbeatLapses(j) \/ StallBudgetPasses(j) \/ RunAfterDue(j)
       PROVE  IInv'
  <2>1. held' = held /\ spent' = spent
    BY <1>14 DEF HeartbeatLapses, StallBudgetPasses, RunAfterDue
  <2>2. \A i \in Jobs : LeaseKept(row[i], row'[i])
    BY <1>14 DEF HeartbeatLapses, StallBudgetPasses, RunAfterDue, LeaseKept, TypeOK, Row
  <2> QED BY <2>1, <2>2, <1>a DEF AttemptGoesOn
<1>15. ASSUME ReleaseAll PROVE IInv'
  <2>1. \A j \in Jobs : row[j].status = "running" =>
           /\ LeaseEnded(row[j], HandedBack(row[j]))
           /\ HandedBack(row[j]).generation > row[j].generation
           /\ Bounded(HandedBack(row[j]), spent.contentions)
    BY RowFacts, HandedBackRow, SpentFacts DEF LeaseEnded, Bounded
  <2> QED BY <1>15, <2>1, <1>b DEF ReleaseAll, TypeOK, Spent
<1>16. ASSUME ReclaimExpired PROVE IInv'
  <2>1. \A j \in Jobs : /\ LeaseEnded(row[j], Reclaimed(row[j]))
                        /\ Reclaimed(row[j]).generation > row[j].generation
                        /\ Bounded(Reclaimed(row[j]), spent.contentions)
    BY RowFacts, ReclaimedRow, SpentFacts DEF LeaseEnded, Bounded
  <2> QED BY <1>16, <2>1, <1>b DEF ReclaimExpired, TypeOK
<1>17. CASE CancelPass
  <2>1. held' = held /\ spent' = spent
    BY <1>17 DEF CancelPass, PickForCancel, WriteCancels
  <2>2. \A j \in Jobs : row'[j] = row[j] \/ row'[j] = Withdrawn(row[j])
    BY <1>17 DEF CancelPass, PickForCancel, WriteCancels, TypeOK
  <2>3. \A j \in Jobs : /\ LeaseEnded(row[j], Withdrawn(row[j]))
                        /\ Withdrawn(row[j]).status # "pending"
                        /\ Bounded(Withdrawn(row[j]), spent.contentions)
    BY RowFacts, WithdrawnRow DEF LeaseEnded, Bounded
  <2> QED BY <2>1, <2>2, <2>3, <1>b
<1>18. CASE UNCHANGED vars
  BY <1>18, <1>a DEF vars, LeaseKept, AttemptGoesOn
<1>19. ASSUME NEW w \in Workers, WorkerStep(w) PROVE IInv'
  BY <1>1, <1>2, <1>3, <1>4, <1>5, <1>7, <1>8, <1>9, <1>10, <1>19 DEF WorkerStep
<1>20. ASSUME NEW j \in Jobs, RowStep(j) PROVE IInv'
  BY <1>11, <1>12, <1>13, <1>14, <1>20 DEF RowStep
<1> QED BY <1>15, <1>16, <1>17, <1>18, <1>19, <1>20 DEF Next, Beside

\* The full inductive invariant holds of every reachable state.
THEOREM LeaseInvariant == Spec => []IInv
<1> QED BY InitInv, StepInv, PTL DEF Spec

-------------------------------------------------------------------------------
(* Consequences: the safety properties of JobLease.tla.                    *)

\* A running row is owned and a claimable one is not (job_lease.py, module doc).
THEOREM OwnershipHolds == Spec => []OwnedWhileRunning
<1>1. IInv => OwnedWhileRunning
  BY DEF IInv, Exclusion
<1> QED BY LeaseInvariant, <1>1, PTL

\* The worker_id fence admits only the attempt of the current generation.
THEOREM FenceHolds == Spec => []FenceIsGeneration
<1>1. IInv => FenceIsGeneration
  BY DEF IInv, Exclusion
<1> QED BY LeaseInvariant, <1>1, PTL

\* Two attempts in flight at a job have a hand-over between them: no two workers
\* claim one waiting row, and no renumbering lets an old and a new attempt meet.
THEOREM ClaimsNeverCollide == Spec => []ClaimsAreHandovers
<1>1. IInv => ClaimsAreHandovers
  BY DEF IInv, Exclusion
<1> QED BY LeaseInvariant, <1>1, PTL

\* No job is claimed beyond jobs_max_attempts between two operator retries.
THEOREM CapHolds == Spec => []AttemptsBounded
<1>1. IInv => AttemptsBounded
  BY DEF IInv
<1> QED BY LeaseInvariant, <1>1, PTL

\* Who may end an attempt, and what it does to the table.
LEMMA EndingStep ==
    ASSUME IInv, [Next]_vars, NEW w \in Workers, held[w] # Idle, held'[w] = Idle
    PROVE  \/ row' = row
           \/ /\ Owns(w, held[w].job)
              /\ \A i \in Jobs : i # held[w].job => row'[i] = row[i]
<1> DEFINE ends == \/ row' = row
                   \/ /\ Owns(w, held[w].job)
                      /\ \A i \in Jobs : i # held[w].job => row'[i] = row[i]
<1>0. held \in [Workers -> Attempt \cup {Idle}] /\ row \in [Jobs -> Row]
  BY DEF IInv, TypeOK
<1>1. ASSUME NEW v \in Workers, NEW new, held[v] # Idle, FencedWrite(v, new) PROVE ends
  <2>1. v = w
    BY <1>0, <1>1 DEF FencedWrite
  <2> QED BY <1>0, <1>1, <2>1 DEF FencedWrite
<1>2. ASSUME NEW v \in Workers, NEW j \in Jobs, Claim(v, j) PROVE ends
  BY <1>0, <1>2, IdleAssumption DEF Claim
<1>3. ASSUME NEW v \in Workers,
             Heartbeat(v) \/ BeginFailure(v) \/ Abandon(v) \/ Crash(v)
      PROVE  ends
  BY <1>0, <1>3 DEF Heartbeat, BeginFailure, Abandon, Crash
<1>4. ASSUME NEW v \in Workers, FinishUnit(v) PROVE ends
  <2>1. /\ held[v] \in Attempt /\ held[v].attempts \in Nat
        /\ \/ held' = held
           \/ held' = [held EXCEPT ![v] = Failing(held[v], held[v].attempts)]
    BY <1>0, <1>4 DEF FinishUnit, Attempt
  <2>2. Failing(held[v], held[v].attempts) # Idle
    BY <2>1, FailingAttempt, IdleAssumption
  <2>3. held'[w] # Idle
    BY <1>0, <2>1, <2>2
  <2> QED BY <2>3
<1>5. ASSUME NEW v \in Workers,
             \/ Complete(v) \/ CancelOwn(v) \/ SettleFailure(v)
             \/ SettleMalformed(v) \/ Release(v)
      PROVE  ends
  BY <1>1, <1>5 DEF Complete, CancelOwn, SettleFailure, SettleMalformed, Release
<1>6. ASSUME NEW j \in Jobs, RowStep(j) PROVE held' = held
  BY <1>6 DEF RowStep, Enqueue, CancelJob, RetryJob, HeartbeatLapses, StallBudgetPasses,
              RunAfterDue
<1>7. ASSUME ReleaseAll \/ ReclaimExpired PROVE held' = held
  BY <1>7 DEF ReleaseAll, ReclaimExpired
<1>8. CASE CancelPass
  BY <1>8 DEF CancelPass, PickForCancel, WriteCancels
<1>9. ASSUME NEW v \in Workers, WorkerStep(v) PROVE ends
  BY <1>2, <1>3, <1>4, <1>5, <1>9 DEF WorkerStep
<1>10. CASE UNCHANGED vars
  BY <1>10 DEF vars
<1> QED BY <1>6, <1>7, <1>8, <1>9, <1>10 DEF Next, Beside

\* A reclaimed, handed-back or cancelled attempt cannot commit a late write.
THEOREM StaleAttemptsAreVoid == Spec => StaleAttemptIsVoid
<1>1. IInv /\ [Next]_vars =>
        \A w \in Workers :
          /\ held[w] # Idle /\ held'[w] = Idle
          /\ \/ held[w].generation # row[held[w].job].generation
             \/ row[held[w].job].status # "running"
          => row' = row
  <2> SUFFICES ASSUME IInv, [Next]_vars, NEW w \in Workers,
                      held[w] # Idle, held'[w] = Idle,
                      \/ held[w].generation # row[held[w].job].generation
                      \/ row[held[w].job].status # "running"
               PROVE  row' = row
    OBVIOUS
  <2>1. held[w].job \in Jobs
    BY DEF IInv, TypeOK, Attempt
  <2>2. ~Owns(w, held[w].job)
    BY <2>1 DEF IInv, Exclusion, FenceIsGeneration, Runs, Owns
  <2> QED BY <2>2, EndingStep
<1> QED BY <1>1, LeaseInvariant, PTL DEF Spec, StaleAttemptIsVoid

\* A settled job moves again only by an operator's retry or by a cancel pass that
\* had read it while it waited.
THEOREM TerminalJobsAreFinal == Spec => TerminalIsFinal
<1>1. IInv /\ [Next]_vars =>
        \A j \in Jobs :
          row[j].status \in Terminal /\ row'[j] # row[j]
          => \/ row[j].status = "failed" /\ spent'.retries > spent.retries
             \/ j \in picked /\ row'[j].status = "cancelled"
  <2> SUFFICES ASSUME IInv, [Next]_vars, NEW j \in Jobs, row[j].status \in Terminal
               PROVE  \/ row'[j] = row[j]
                      \/ row[j].status = "failed" /\ spent'.retries > spent.retries
                      \/ j \in picked /\ row'[j].status = "cancelled"
    OBVIOUS
  <2>0. /\ held \in [Workers -> Attempt \cup {Idle}] /\ row \in [Jobs -> Row]
        /\ spent \in Spent
    BY DEF IInv, TypeOK
  <2>1. ASSUME NEW v \in Workers, NEW new, FencedWrite(v, new) PROVE row'[j] = row[j]
    BY <2>0, <2>1 DEF FencedWrite, Owns, Terminal
  <2>2. ASSUME NEW v \in Workers, NEW i \in Jobs, Claim(v, i) PROVE row'[j] = row[j]
    BY <2>0, <2>2 DEF Claim, Claimable, Terminal
  <2>3. ASSUME NEW v \in Workers, Heartbeat(v) \/ FinishUnit(v) PROVE row'[j] = row[j]
    <3>1. \/ row' = row
          \/ /\ Owns(v, held[v].job)
             /\ \/ row' = [row EXCEPT ![held[v].job].lapsed = FALSE]
                \/ row' = [row EXCEPT ![held[v].job].stalled = FALSE]
      BY <2>3 DEF Heartbeat, FinishUnit
    <3> QED BY <2>0, <3>1 DEF Owns, Terminal
  <2>4. ASSUME NEW v \in Workers, BeginFailure(v) \/ Abandon(v) \/ Crash(v)
        PROVE  row'[j] = row[j]
    BY <2>4 DEF BeginFailure, Abandon, Crash
  <2>5. ASSUME NEW v \in Workers,
               \/ Complete(v) \/ CancelOwn(v) \/ SettleFailure(v)
               \/ SettleMalformed(v) \/ Release(v)
        PROVE  row'[j] = row[j]
    BY <2>1, <2>5 DEF Complete, CancelOwn, SettleFailure, SettleMalformed, Release
  <2>6. ASSUME NEW i \in Jobs,
               \/ Enqueue(i) \/ CancelJob(i) \/ HeartbeatLapses(i)
               \/ StallBudgetPasses(i) \/ RunAfterDue(i)
        PROVE  row'[j] = row[j]
    BY <2>0, <2>6 DEF Enqueue, CancelJob, HeartbeatLapses, StallBudgetPasses, RunAfterDue, Terminal
  <2>7. ASSUME NEW i \in Jobs, RetryJob(i)
        PROVE  row'[j] = row[j] \/ (row[j].status = "failed" /\ spent'.retries > spent.retries)
    <3>1. spent'.retries = spent.retries + 1 /\ spent.retries \in Nat
      BY <2>0, <2>7 DEF RetryJob, Spent
    <3> QED BY <2>0, <2>7, <3>1 DEF RetryJob
  <2>8. ASSUME ReleaseAll \/ ReclaimExpired PROVE row'[j] = row[j]
    BY <2>8 DEF ReleaseAll, ReclaimExpired, Expired, Terminal
  <2>9. ASSUME CancelPass
        PROVE  row'[j] = row[j] \/ (j \in picked /\ row'[j].status = "cancelled")
    BY <2>0, <2>9, WithdrawnRow DEF CancelPass, PickForCancel, WriteCancels
  <2>10. ASSUME NEW v \in Workers, WorkerStep(v) PROVE row'[j] = row[j]
    BY <2>2, <2>3, <2>4, <2>5, <2>10 DEF WorkerStep
  <2>11. CASE UNCHANGED vars
    BY <2>11 DEF vars
  <2> QED BY <2>6, <2>7, <2>8, <2>9, <2>10, <2>11 DEF Next, Beside, RowStep
<1> QED BY <1>1, LeaseInvariant, PTL DEF Spec, TerminalIsFinal

-------------------------------------------------------------------------------
(* The lease implements LeaseContract.                                     *)

LEMMA ContractInit == Init => Contract!Init
BY DEF Init, Contract!Init, jobOutcome, newestTicket, liveJobs, ticketsOut, OutcomeOf, NoRow

\* The ticket of an attempt leaves the table's view with the attempt, and no other
\* attempt carries it.
LEMMA TicketLeaves ==
    ASSUME IInv, NEW w \in Workers, held[w] # Idle,
           held' = [held EXCEPT ![w] = Idle]
    PROVE  /\ <<held[w].job, held[w].generation>> \in ticketsOut
           /\ ticketsOut' = ticketsOut \ {<<held[w].job, held[w].generation>>}
<1>1. /\ held'[w] = Idle
      /\ \A v \in Workers : v # w => held'[v] = held[v]
  BY DEF IInv, TypeOK
<1>2. \A v \in Workers : v # w /\ held[v] # Idle =>
         <<held[v].job, held[v].generation>> # <<held[w].job, held[w].generation>>
  <2>1. \A v \in Workers : held[v] # Idle => held[v].generation \in Nat
    BY DEF IInv, TypeOK, Attempt
  <2> QED BY <2>1 DEF IInv, Exclusion, ClaimsAreHandovers
<1> QED BY <1>1, <1>2 DEF ticketsOut

LEMMA TicketsStay ==
    ASSUME \A v \in Workers : held'[v] = held[v] \/ AttemptGoesOn(held[v], held'[v])
    PROVE  ticketsOut' = ticketsOut
BY DEF ticketsOut, AttemptGoesOn

LEMMA ViewStays ==
    ASSUME \A j \in Jobs : LeaseKept(row[j], row'[j])
    PROVE  jobOutcome' = jobOutcome /\ newestTicket' = newestTicket /\ liveJobs' = liveJobs
BY DEF LeaseKept, jobOutcome, newestTicket, liveJobs, OutcomeOf

\* A fenced write that ends the lease is the live ticket deciding, or a stale one
\* leaving.
LEMMA FencedWriteContract ==
    ASSUME IInv, NEW w \in Workers, held[w] # Idle, NEW new, FencedWrite(w, new),
           new.status \in {"pending", "completed", "failed", "cancelled"},
           \/ new.generation = row[held[w].job].generation
           \/ new.generation = row[held[w].job].generation + 1,
           picked' = picked
    PROVE  Contract!Next
<1> DEFINE j == held[w].job
<1>1. j \in Jobs /\ row \in [Jobs -> Row]
  BY DEF IInv, TypeOK, Attempt
<1>2. /\ <<j, held[w].generation>> \in ticketsOut
      /\ ticketsOut' = ticketsOut \ {<<j, held[w].generation>>}
  BY TicketLeaves DEF FencedWrite
<1>3. CASE Owns(w, j)
  <2>1. held[w].generation = row[j].generation /\ row[j].status = "running"
    BY <1>1, <1>3 DEF IInv, Exclusion, FenceIsGeneration, Runs, Owns
  <2>2. row'[j] = new /\ \A i \in Jobs : i # j => row'[i] = row[i]
    BY <1>1, <1>3 DEF FencedWrite
  <2>3. newestTicket[j] = row[j].generation /\ j \in liveJobs /\ jobOutcome[j] = "open"
    BY <1>1, <2>1 DEF newestTicket, liveJobs, jobOutcome, OutcomeOf
  <2>4. liveJobs' = liveJobs \ {j}
    BY <1>1, <2>1, <2>2 DEF liveJobs
  <2>5. jobOutcome' = [jobOutcome EXCEPT ![j] = OutcomeOf(new)]
    BY <1>1, <2>2 DEF jobOutcome
  <2>6. OutcomeOf(new) \in {"open", "completed", "failed", "cancelled"}
    BY DEF OutcomeOf
  <2>7. \/ newestTicket' = newestTicket
        \/ newestTicket' = [newestTicket EXCEPT ![j] = @ + 1]
    BY <1>1, <2>2 DEF newestTicket
  <2>8. Contract!Decide(j)
    BY <1>1, <1>2, <2>1, <2>3, <2>4, <2>5, <2>6, <2>7 DEF Contract!Decide
  <2> QED BY <1>1, <2>8 DEF Contract!Next
<1>4. CASE ~Owns(w, j)
  <2>1. row' = row
    BY <1>4 DEF FencedWrite
  <2>2. Contract!Drop(j, held[w].generation)
    BY <1>2, <2>1 DEF Contract!Drop, jobOutcome, newestTicket, liveJobs
  <2> QED BY <1>2, <2>2 DEF Contract!Next
<1> QED BY <1>3, <1>4

\* Rows move and attempts do not: what a writer outside the workers may do.
LEMMA RevokeContract ==
    ASSUME IInv, held' = held, picked' = picked, NEW S \in SUBSET Jobs, S # {},
           \A j \in S : /\ row[j].status = "running"
                        /\ row'[j].status \in {"pending", "failed"}
                        /\ row'[j].generation = row[j].generation + 1,
           \A j \in Jobs \ S : row'[j] = row[j]
    PROVE  Contract!Next
<1>1. liveJobs' = liveJobs \ S /\ S \subseteq liveJobs
  BY DEF liveJobs
<1>2. newestTicket' = [j \in Jobs |-> IF j \in S THEN newestTicket[j] + 1 ELSE newestTicket[j]]
  BY DEF newestTicket
<1>3. ticketsOut' = ticketsOut
  BY DEF ticketsOut
<1>4. PICK failing \in SUBSET S : failing = {j \in S : row'[j].status = "failed"}
  OBVIOUS
<1>5. jobOutcome' = [j \in Jobs |-> IF j \in failing THEN "failed" ELSE jobOutcome[j]]
  BY <1>4 DEF jobOutcome, OutcomeOf
<1>6. Contract!Revoke(S)
  BY <1>1, <1>2, <1>3, <1>5 DEF Contract!Revoke
<1> QED BY <1>6 DEF Contract!Next

LEMMA ClaimContract ==
    ASSUME IInv, IInv', NEW w \in Workers, NEW j \in Jobs, Claim(w, j), picked' = picked
    PROVE  Contract!Next
<1>1. /\ row \in [Jobs -> Row] /\ held \in [Workers -> Attempt \cup {Idle}]
      /\ row' \in [Jobs -> Row] /\ held' \in [Workers -> Attempt \cup {Idle}]
  BY DEF IInv, TypeOK
<1>2. /\ held[w] = Idle /\ row[j].status = "pending"
      /\ held'[w] # Idle /\ held'[w].job = j
      /\ held'[w].generation = row[j].generation + 1
      /\ row'[j].status = "running" /\ row'[j].generation = row[j].generation + 1
      /\ \A i \in Jobs : i # j => row'[i] = row[i]
      /\ \A v \in Workers : v # w => held'[v] = held[v]
  <2>0. row[j] \in Row /\ row'[j] = Claimed(row[j], w)
    BY <1>1 DEF Claim
  <2>1. held'[w] = [job |-> j, generation |-> row[j].generation + 1,
                    attempts |-> row[j].attempts + 1,
                    stage |-> "running"]
    BY <1>1 DEF Claim
  <2>2. held'[w] \in Attempt
    BY <2>1, RowFacts DEF Attempt
  <2>3. held[w] = Idle /\ row[j].status = "pending"
    BY DEF Claim, Claimable
  <2>4. held'[w] # Idle /\ held'[w].job = j /\ held'[w].generation = row[j].generation + 1
    <3>1. held'[w] # Idle
      BY <2>2, IdleAssumption
    <3>2. held'[w].job = j /\ held'[w].generation = row[j].generation + 1
      BY <2>1
    <3> QED BY <3>1, <3>2
  <2>5. row'[j].status = "running" /\ row'[j].generation = row[j].generation + 1
    BY <2>0, ClaimedRow
  <2>6. /\ \A i \in Jobs : i # j => row'[i] = row[i]
        /\ \A v \in Workers : v # w => held'[v] = held[v]
    BY <1>1 DEF Claim
  <2> QED BY <2>3, <2>4, <2>5, <2>6
<1>3. jobOutcome[j] = "open" /\ jobOutcome' = jobOutcome
  BY <1>2 DEF jobOutcome, OutcomeOf
<1>4. j \notin liveJobs /\ liveJobs' = liveJobs \cup {j}
  BY <1>2 DEF liveJobs
<1>5. newestTicket[j] = row[j].generation /\ newestTicket' = [newestTicket EXCEPT ![j] = @ + 1]
  BY <1>2 DEF newestTicket
<1>6. ticketsOut' = ticketsOut \cup {<<j, row[j].generation + 1>>}
  <2>1. {v \in Workers : held'[v] # Idle} = {v \in Workers : held[v] # Idle} \cup {w}
    BY <1>2
  <2> QED BY <1>2, <2>1 DEF ticketsOut
<1>7. Contract!Grant(j)
  BY <1>3, <1>4, <1>5, <1>6 DEF Contract!Grant
<1> QED BY <1>7 DEF Contract!Next

\* A step of a worker is a step of the contract, or a stutter.
LEMMA WorkerContract ==
    ASSUME IInv, IInv', NEW u \in Workers, WorkerStep(u), picked' = picked
    PROVE  Contract!Next \/ UNCHANGED Contract!vars
<1>0. /\ row \in [Jobs -> Row] /\ held \in [Workers -> Attempt \cup {Idle}]
      /\ row' \in [Jobs -> Row] /\ held' \in [Workers -> Attempt \cup {Idle}]
      /\ spent \in Spent
  BY DEF IInv, TypeOK
\* Leases are kept and attempts go on: nothing the contract sees moves.
<1>a. ASSUME \A j \in Jobs : LeaseKept(row[j], row'[j]),
             \A v \in Workers : held'[v] = held[v] \/ AttemptGoesOn(held[v], held'[v])
      PROVE  UNCHANGED Contract!vars
  BY <1>a, TicketsStay, ViewStays DEF Contract!vars
\* An attempt is lost with its worker or its settlement write.
<1>b. ASSUME NEW w \in Workers, held' = [held EXCEPT ![w] = Idle], row' = row
      PROVE  Contract!Next \/ UNCHANGED Contract!vars
  <2>1. CASE held[w] = Idle
    BY <1>0, <1>a, <1>b, <2>1 DEF LeaseKept
  <2>2. CASE held[w] # Idle
    <3>1. Contract!Drop(held[w].job, held[w].generation)
      BY <1>b, <2>2, TicketLeaves DEF Contract!Drop, jobOutcome, newestTicket, liveJobs
    <3> QED BY <1>b, <2>2, <3>1, TicketLeaves DEF Contract!Next
  <2> QED BY <2>1, <2>2
<1>1. ASSUME NEW w \in Workers, NEW j \in Jobs, Claim(w, j) PROVE Contract!Next
  BY <1>1, ClaimContract
<1>2. ASSUME NEW w \in Workers, Heartbeat(w) PROVE UNCHANGED Contract!vars
  <2>1. held[w].job \in Jobs
    BY <1>0, <1>2 DEF Heartbeat, Attempt
  <2>2. \A j \in Jobs : LeaseKept(row[j], row'[j])
    BY <1>0, <1>2, <2>1 DEF Heartbeat, LeaseKept, Row
  <2> QED BY <1>2, <2>2, <1>a DEF Heartbeat
<1>3. ASSUME NEW w \in Workers, FinishUnit(w) PROVE UNCHANGED Contract!vars
  <2>1. /\ held[w] # Idle /\ held[w] \in Attempt /\ held[w].job \in Jobs
        /\ held[w].attempts \in Nat
    BY <1>0, <1>3 DEF FinishUnit, Attempt
  <2>2. /\ row' = row \/ row' = [row EXCEPT ![held[w].job].stalled = FALSE]
        /\ \/ held' = held
           \/ held' = [held EXCEPT ![w] = Failing(held[w], held[w].attempts)]
    BY <1>3 DEF FinishUnit
  <2>3. \A j \in Jobs : LeaseKept(row[j], row'[j])
    BY <1>0, <2>1, <2>2 DEF LeaseKept, Row
  <2>4. AttemptGoesOn(held[w], Failing(held[w], held[w].attempts))
    BY <2>1, FailingAttempt, IdleAssumption DEF AttemptGoesOn
  <2>5. \A v \in Workers : held'[v] = held[v] \/ AttemptGoesOn(held[v], held'[v])
    BY <1>0, <2>2, <2>4
  <2> QED BY <2>3, <2>5, <1>a
<1>4. ASSUME NEW w \in Workers,
             \/ Complete(w) \/ CancelOwn(w) \/ SettleFailure(w)
             \/ SettleMalformed(w) \/ Release(w)
      PROVE  Contract!Next
  <2> DEFINE r == row[held[w].job]
  <2>1. held[w] # Idle /\ r \in Row
    BY <1>0, <1>4 DEF Complete, CancelOwn, SettleFailure, SettleMalformed, Release, Attempt
  <2>2. /\ \A o \in Terminal : Settled(r, o).status = o /\ Settled(r, o).generation = r.generation
        /\ \A later \in BOOLEAN : /\ Requeued(r, later).status = "pending"
                                  /\ Requeued(r, later).generation = r.generation
        /\ HandedBack(r).status = "pending"
        /\ HandedBack(r).generation = r.generation + 1
    BY <2>1, SettledRow, RequeuedRow, HandedBackRow
  <2>3. CASE Complete(w)
    BY <2>1, <2>2, <2>3, FencedWriteContract DEF Complete, Terminal
  <2>4. CASE CancelOwn(w)
    BY <2>1, <2>2, <2>4, FencedWriteContract DEF CancelOwn, Terminal
  <2>5. CASE SettleMalformed(w)
    BY <2>1, <2>2, <2>5, FencedWriteContract DEF SettleMalformed, Terminal
  <2>6. CASE SettleFailure(w)
    <3>1. \/ FencedWrite(w, Settled(r, "failed"))
          \/ FencedWrite(w, Requeued(r, TRUE))
          \/ \E later \in BOOLEAN : FencedWrite(w, Requeued(r, later))
      BY <2>6 DEF SettleFailure
    <3> QED BY <2>1, <2>2, <3>1, FencedWriteContract DEF Terminal
  <2>7. CASE Release(w)
    BY <2>1, <2>2, <2>7, FencedWriteContract DEF Release
  <2> QED BY <1>4, <2>3, <2>4, <2>5, <2>6, <2>7
<1>5. ASSUME NEW w \in Workers, BeginFailure(w) PROVE UNCHANGED Contract!vars
  <2>1. PICK n \in {held[w].attempts, row[held[w].job].attempts} :
           held' = [held EXCEPT ![w] = Failing(held[w], n)]
    BY <1>5 DEF BeginFailure
  <2>2. held[w] # Idle /\ held[w] \in Attempt /\ n \in Nat /\ row' = row
    BY <1>0, <1>5 DEF BeginFailure, Row, Attempt
  <2>3. AttemptGoesOn(held[w], Failing(held[w], n))
    BY <2>2, FailingAttempt, IdleAssumption DEF AttemptGoesOn
  <2> QED BY <1>0, <2>1, <2>2, <2>3, <1>a DEF LeaseKept
<1>6. ASSUME NEW w \in Workers, Abandon(w) \/ Crash(w)
      PROVE  Contract!Next \/ UNCHANGED Contract!vars
  BY <1>6, <1>b DEF Abandon, Crash
<1> QED BY <1>1, <1>2, <1>3, <1>4, <1>5, <1>6 DEF WorkerStep

\* Producers, operators, the janitor and a stop.
LEMMA OutsideContract ==
    ASSUME IInv, IInv', picked' = picked,
           (\E i \in Jobs : RowStep(i)) \/ ReleaseAll \/ ReclaimExpired
    PROVE  Contract!Next \/ UNCHANGED Contract!vars
<1>0. /\ row \in [Jobs -> Row] /\ held \in [Workers -> Attempt \cup {Idle}]
      /\ row' \in [Jobs -> Row] /\ held' \in [Workers -> Attempt \cup {Idle}]
      /\ spent \in Spent
  BY DEF IInv, TypeOK
\* Leases are kept and attempts go on: nothing the contract sees moves.
<1>a. ASSUME \A j \in Jobs : LeaseKept(row[j], row'[j]),
             \A v \in Workers : held'[v] = held[v] \/ AttemptGoesOn(held[v], held'[v])
      PROVE  UNCHANGED Contract!vars
  BY <1>a, TicketsStay, ViewStays DEF Contract!vars
<1>7. ASSUME NEW j \in Jobs, Enqueue(j) PROVE Contract!Next
  <2>1. /\ row[j].status = "absent" /\ row[j].generation = 0
        /\ row'[j].status = "pending" /\ row'[j].generation = 0
        /\ \A i \in Jobs : i # j => row'[i] = row[i]
        /\ held' = held
    BY <1>0, <1>7, RowFacts DEF Enqueue, Written
  <2>2. Contract!Submit(j)
    BY <2>1 DEF Contract!Submit, jobOutcome, OutcomeOf, newestTicket, liveJobs, ticketsOut
  <2> QED BY <2>2 DEF Contract!Next
<1>8. ASSUME NEW j \in Jobs, CancelJob(j) PROVE Contract!Next
  <2>1. /\ row[j].status \in {"pending", "running"}
        /\ row'[j].status = "cancelled" /\ row'[j].generation = row[j].generation
        /\ \A i \in Jobs : i # j => row'[i] = row[i]
        /\ held' = held
    BY <1>0, <1>8, SettledRow DEF CancelJob, Terminal
  <2>2. Contract!Withdraw(j)
    BY <2>1 DEF Contract!Withdraw, jobOutcome, OutcomeOf, newestTicket, liveJobs, ticketsOut
  <2> QED BY <2>2 DEF Contract!Next
<1>9. ASSUME NEW j \in Jobs, RetryJob(j) PROVE Contract!Next
  <2>1. /\ row[j].status = "failed"
        /\ row'[j].status = "pending" /\ row'[j].generation = row[j].generation + 1
        /\ \A i \in Jobs : i # j => row'[i] = row[i]
        /\ held' = held
    BY <1>0, <1>9, RetriedRow DEF RetryJob
  <2>2. Contract!Reopen(j)
    BY <2>1 DEF Contract!Reopen, jobOutcome, OutcomeOf, newestTicket, liveJobs, ticketsOut
  <2> QED BY <2>2 DEF Contract!Next
<1>10. ASSUME NEW j \in Jobs, HeartbeatLapses(j) \/ StallBudgetPasses(j) \/ RunAfterDue(j)
       PROVE  UNCHANGED Contract!vars
  <2>1. held' = held
    BY <1>10 DEF HeartbeatLapses, StallBudgetPasses, RunAfterDue
  <2>2. \A i \in Jobs : LeaseKept(row[i], row'[i])
    BY <1>0, <1>10 DEF HeartbeatLapses, StallBudgetPasses, RunAfterDue, LeaseKept, Row
  <2> QED BY <2>1, <2>2, <1>a
<1>11. CASE ReleaseAll
  <2> DEFINE S == {j \in Jobs : row[j].status = "running"}
  <2>1. \A j \in S : /\ row'[j].status = "pending"
                     /\ row'[j].generation = row[j].generation + 1
    BY <1>0, <1>11, HandedBackRow DEF ReleaseAll
  <2>2. S # {} /\ held' = held /\ \A j \in Jobs \ S : row'[j] = row[j]
    BY <1>11 DEF ReleaseAll
  <2> QED BY <2>1, <2>2, RevokeContract
<1>12. CASE ReclaimExpired
  <2> DEFINE S == {j \in Jobs : Expired(j)}
  <2>1. \A j \in S : /\ row[j].status = "running"
                     /\ row'[j].status \in {"pending", "failed"}
                     /\ row'[j].generation = row[j].generation + 1
    BY <1>0, <1>12, ReclaimedRow DEF ReclaimExpired, Expired
  <2>2. S # {} /\ held' = held /\ \A j \in Jobs \ S : row'[j] = row[j]
    BY <1>12 DEF ReclaimExpired
  <2> QED BY <2>1, <2>2, RevokeContract
<1> QED BY <1>7, <1>8, <1>9, <1>10, <1>11, <1>12 DEF RowStep

\* The cancel pass recalls the jobs it reads, and ends the recall when it writes.
LEMMA CancelPassContract ==
    ASSUME IInv, IInv', CancelPass
    PROVE  Contract!Next
<1>0. row \in [Jobs -> Row] /\ picked \subseteq Jobs /\ picked' \subseteq Jobs
  BY DEF IInv, TypeOK
<1>1. CASE PickForCancel
  <2>1. \A j \in picked' : row[j].status = "pending"
    BY <1>1 DEF PickForCancel
  <2>2. Contract!Recall(picked')
    BY <1>0, <1>1, <2>1
       DEF PickForCancel, Contract!Recall, jobOutcome, OutcomeOf, newestTicket, liveJobs, ticketsOut
  <2> QED BY <1>0, <2>2 DEF Contract!Next
<1>2. CASE WriteCancels
  <2>1. /\ held' = held /\ picked # {} /\ picked' = {}
        /\ \/ row' = [j \in Jobs |-> IF j \in picked THEN Withdrawn(row[j]) ELSE row[j]]
           \/ row' = row
    BY <1>2 DEF WriteCancels
  <2>2. ticketsOut' = ticketsOut
    BY <2>1 DEF ticketsOut
  <2>3. CASE row' = row
    <3>1. jobOutcome' = jobOutcome /\ newestTicket' = newestTicket /\ liveJobs' = liveJobs
      BY <2>3 DEF jobOutcome, newestTicket, liveJobs
    <3>2. Contract!EndRecall
      BY <2>1, <2>2, <3>1 DEF Contract!EndRecall
    <3> QED BY <3>2 DEF Contract!Next
  <2>4. CASE row' = [j \in Jobs |-> IF j \in picked THEN Withdrawn(row[j]) ELSE row[j]]
    <3>1. \A j \in Jobs : /\ j \in picked => /\ row'[j].status = "cancelled"
                                            /\ row'[j].generation = row[j].generation
                          /\ j \notin picked => row'[j] = row[j]
      BY <1>0, <2>4, WithdrawnRow
    <3>2. newestTicket' = newestTicket /\ liveJobs' = liveJobs \ picked
      BY <3>1 DEF newestTicket, liveJobs
    <3>3. jobOutcome' = [j \in Jobs |-> IF j \in picked THEN "cancelled" ELSE jobOutcome[j]]
      BY <3>1 DEF jobOutcome, OutcomeOf
    <3>4. Contract!EndRecall
      BY <2>1, <2>2, <3>2, <3>3 DEF Contract!EndRecall
    <3> QED BY <3>4 DEF Contract!Next
  <2> QED BY <2>1, <2>3, <2>4
<1> QED BY <1>1, <1>2 DEF CancelPass

\* Every step of the lease is a step of the contract, or a stutter.
LEMMA StepContract == IInv /\ IInv' /\ [Next]_vars => [Contract!Next]_(Contract!vars)
<1> SUFFICES ASSUME IInv, IInv', [Next]_vars
             PROVE  Contract!Next \/ UNCHANGED Contract!vars
  OBVIOUS
<1>0. CASE CancelPass
  BY <1>0, CancelPassContract
<1>1. CASE picked' = picked /\ (\E w \in Workers : WorkerStep(w))
  BY <1>1, WorkerContract
<1>2. CASE picked' = picked /\ ((\E j \in Jobs : RowStep(j)) \/ ReleaseAll \/ ReclaimExpired)
  BY <1>2, OutsideContract
<1>3. CASE UNCHANGED vars
  <2>1. UNCHANGED Contract!vars
    BY <1>3 DEF vars, Contract!vars, jobOutcome, newestTicket, liveJobs, ticketsOut
  <2> QED BY <2>1
<1> QED BY <1>0, <1>1, <1>2, <1>3 DEF Next, Beside

\* job_lease.py with its workers, janitor and outside writers implements the lease
\* contract: only the newest ticket of a job decides it, and a revoked one leaves
\* without a trace.
THEOREM LeaseImplementsContract == Spec => ImplementsContract
<1> QED BY ContractInit, StepContract, LeaseInvariant, PTL
        DEF Spec, ImplementsContract, Contract!Spec
===============================================================================
