------------------------- MODULE MaintenanceFlagProofs ------------------------
(***************************************************************************)
(* Proofs about MaintenanceFlag for any processes, setters and requests,   *)
(* and any number of toggles, misses and crashes.                          *)
(***************************************************************************)
EXTENDS MaintenanceFlag, TLAPS

-------------------------------------------------------------------------------
(* The inductive invariant.                                                *)

\* A flag that was in the row at some time
Committed(f) == f.version <= flag.version /\ f.enabled = ValueAt(f.version)

\* Whatever left the database, on its way to the gate too, was committed.
ReadsWereCommitted ==
    /\ \A p \in Procs : cache[p] # NoFlag => Committed(cache[p])
    /\ \A r \in Requests :
           request[r].stage \in {"fetched", "gated"} => Committed(request[r].flag)

\* No process is promised a version that was not committed.
FloorIsCommitted ==
    /\ \A p \in Procs : floor[p] <= flag.version
    /\ \A s \in Setters :
           setter[s].stage = "committed" => setter[s].version <= flag.version

\* A process caches nothing older than the last toggle that returned in it.
CacheIsAboveFloor ==
    \A p \in Procs : cache[p] # NoFlag => cache[p].version >= floor[p]

\* A read that may still populate the cache holds the current generation, and
\* is then as new as the floor; a new toggle makes its generation an old one.
ReadIsTimely(r) ==
    LET p == ProcOf[r] IN
    /\ request[r].generation <= generation[p]
    /\ request[r].stage = "missed" => request[r].since <= flag.version
    /\ request[r].stage \in {"fetched", "gated"} =>
           request[r].flag.version >= request[r].since
    /\ request[r].stage = "fetched" /\ request[r].generation = generation[p] =>
           request[r].flag.version >= floor[p]

ReadsAreTimely == \A r \in Requests : ReadIsTimely(r)

\* What the open transaction has written: nothing but the audit row of its toggle.
DraftFits ==
    /\ lock = NoSetter => draft = <<>>
    /\ \A s \in Setters :
           /\ setter[s].stage = "wrote" => draft = <<>>
           /\ setter[s].stage = "audited" => draft = <<setter[s].enabled>>

History == AuditIsTheHistory /\ WriterIsCurrent /\ DraftFits /\ ReadsWereCommitted
Freshness == FloorIsCommitted /\ CacheIsAboveFloor /\ ReadsAreTimely

IInv == TypeOK /\ History /\ Freshness

-------------------------------------------------------------------------------
(* Types.                                                                  *)

LEMMA InitTyped == Init => TypeOK
BY MissesAssumption
   DEF Init, TypeOK, Flag, Setter, Request, Off, AwaySetter, AwayRequest, SetterAt, RequestAt

\* The records the actions build
LEMMA RecordsTyped ==
    /\ AwaySetter \in Setter /\ AwayRequest \in Request /\ Off \in Flag
    /\ \A st \in {"away", "read", "wrote", "audited", "committed"}, e \in BOOLEAN, v \in Nat,
          a \in 0..MaxMisses : SetterAt(st, e, v, a) \in Setter
    /\ \A st \in {"away", "missed", "fetched", "gated"}, g \in Nat, f \in Flag, n \in Nat :
          RequestAt(st, g, f, n) \in Request
<1>1. Off \in Flag
  BY DEF Off, Flag
<1>2. \A st \in {"away", "read", "wrote", "audited", "committed"}, e \in BOOLEAN, v \in Nat,
         a \in 0..MaxMisses : SetterAt(st, e, v, a) \in Setter
  BY DEF SetterAt, Setter
<1>3. \A st \in {"away", "missed", "fetched", "gated"}, g \in Nat, f \in Flag, n \in Nat :
         RequestAt(st, g, f, n) \in Request
  BY DEF RequestAt, Request
<1>4. AwaySetter \in Setter
  BY MissesAssumption DEF AwaySetter, SetterAt, Setter
<1>5. AwayRequest \in Request
  BY <1>1, <1>3 DEF AwayRequest
<1> QED BY <1>1, <1>2, <1>3, <1>4, <1>5

LEMMA SetterTyped ==
    ASSUME TypeOK, NEW s \in Setters, SetterStep(s)
    PROVE  TypeOK'
<1>0. /\ setter[s] \in Setter /\ ProcOf[s] \in Procs /\ flag \in Flag
      /\ setter[s].enabled \in BOOLEAN /\ setter[s].version \in Nat
      /\ setter[s].attempts \in 0..MaxMisses /\ flag.version \in Nat
  BY ProcsAssumption DEF TypeOK, Setter, Flag
<1>1. CASE BeginToggle(s)
  <2>1. PICK e \in BOOLEAN :
            setter' = [setter EXCEPT ![s] = SetterAt("read", e, flag.version, 0)]
    BY <1>1 DEF BeginToggle
  <2>2. setter' \in [Setters -> Setter]
    BY <1>0, <2>1, RecordsTyped, MissesAssumption DEF TypeOK
  <2>3. spent' \in [toggles : Nat, crashes : Nat]
    <3>1. spent \in [toggles : Nat, crashes : Nat]
      BY DEF TypeOK
    <3>2. spent' = [spent EXCEPT !.toggles = @ + 1]
      BY <1>1 DEF BeginToggle
    <3> QED BY <3>1, <3>2
  <2> QED BY <1>1, <2>2, <2>3 DEF TypeOK, BeginToggle
<1>2. CASE Write(s)
  <2>1. setter' \in [Setters -> Setter]
    BY <1>0, <1>2 DEF TypeOK, Write, Setter
  <2> QED BY <1>2, <2>1 DEF TypeOK, Write
<1>3. CASE MissVersion(s)
  <2>1. setter[s].attempts < MaxMisses => setter[s].attempts + 1 \in 0..MaxMisses
    BY <1>0, MissesAssumption
  <2>2. setter' \in [Setters -> Setter]
    BY <1>0, <1>3, <2>1, RecordsTyped DEF TypeOK, MissVersion
  <2> QED BY <1>3, <2>2 DEF TypeOK, MissVersion
<1>4. CASE RollBack(s)
  <2>1. draft' \in Seq(BOOLEAN)
    <3>1. draft' = <<>> \/ draft' = draft
      BY <1>4 DEF RollBack
    <3>2. <<>> \in Seq(BOOLEAN)
      OBVIOUS
    <3> QED BY <3>1, <3>2 DEF TypeOK
  <2> QED BY <1>4, <2>1, RecordsTyped DEF TypeOK, RollBack
<1>7. CASE Audit(s)
  <2>1. setter' \in [Setters -> Setter]
    BY <1>0, <1>7 DEF TypeOK, Audit, Setter
  <2>2. draft' \in Seq(BOOLEAN)
    BY <1>0, <1>7 DEF TypeOK, Audit
  <2> QED BY <1>7, <2>1, <2>2 DEF TypeOK, Audit
<1>5. CASE Commit(s)
  <2>1. flag' \in Flag /\ audit' \in Seq(BOOLEAN) /\ draft' \in Seq(BOOLEAN)
    BY <1>0, <1>5 DEF TypeOK, Commit, Flag
  <2>2. flag.version + 1 \in Nat
    BY <1>0
  <2>3. setter' \in [Setters -> Setter]
    BY <1>0, <1>5, <2>2, RecordsTyped DEF TypeOK, Commit
  <2> QED BY <1>5, <2>1, <2>3 DEF TypeOK, Commit
<1>6. CASE Invalidate(s)
  <2>1. generation' \in [Procs -> Nat] /\ cache' \in [Procs -> Flag \cup {NoFlag}]
    BY <1>0, <1>6 DEF TypeOK, Invalidate
  <2>2. floor' \in [Procs -> Nat]
    BY <1>0, <1>6 DEF TypeOK, Invalidate, Returned
  <2>3. setter' \in [Setters -> Setter]
    BY <1>6, RecordsTyped DEF TypeOK, Invalidate, Returned
  <2> QED BY <1>6, <2>1, <2>2, <2>3 DEF TypeOK, Invalidate
<1> QED BY <1>1, <1>2, <1>3, <1>4, <1>5, <1>6, <1>7 DEF SetterStep

LEMMA RequestTyped ==
    ASSUME TypeOK, NEW r \in Requests, RequestStep(r)
    PROVE  TypeOK'
<1>0. /\ request[r] \in Request /\ ProcOf[r] \in Procs /\ flag \in Flag
      /\ request[r].generation \in Nat /\ request[r].since \in Nat
      /\ request[r].flag \in Flag
      /\ generation[ProcOf[r]] \in Nat /\ floor[ProcOf[r]] \in Nat
      /\ cache[ProcOf[r]] \in Flag \cup {NoFlag}
  BY ProcsAssumption DEF TypeOK, Request
<1>1. CASE Hit(r)
  BY <1>0, <1>1, RecordsTyped DEF TypeOK, Hit
<1>2. CASE Miss(r)
  BY <1>0, <1>2, RecordsTyped DEF TypeOK, Miss
<1>3. CASE Fetch(r)
  BY <1>0, <1>3, RecordsTyped DEF TypeOK, Fetch
<1>4. CASE Populate(r)
  <2>1. request' \in [Requests -> Request]
    BY <1>0, <1>4, RecordsTyped DEF TypeOK, Populate
  <2>2. cache' \in [Procs -> Flag \cup {NoFlag}]
    BY <1>0, <1>4 DEF TypeOK, Populate
  <2> QED BY <1>4, <2>1, <2>2 DEF TypeOK, Populate
<1>5. CASE Depart(r)
  BY <1>5, RecordsTyped DEF TypeOK, Depart
<1> QED BY <1>1, <1>2, <1>3, <1>4, <1>5 DEF RequestStep

LEMMA StepTyped == TypeOK /\ [Next]_vars => TypeOK'
<1> SUFFICES ASSUME TypeOK, [Next]_vars PROVE TypeOK'
  OBVIOUS
<1>1. ASSUME NEW p \in Procs, Expire(p) PROVE TypeOK'
  BY <1>1 DEF TypeOK, Expire
<1>2. ASSUME NEW p \in Procs, Crash(p) PROVE TypeOK'
  <2>1. /\ setter' \in [Setters -> Setter]
        /\ request' \in [Requests -> Request]
    BY <1>2, RecordsTyped DEF TypeOK, Crash
  <2>2. /\ cache' \in [Procs -> Flag \cup {NoFlag}]
        /\ generation' \in [Procs -> Nat] /\ floor' \in [Procs -> Nat]
    BY <1>2 DEF TypeOK, Crash
  <2>3. spent' \in [toggles : Nat, crashes : Nat]
    <3>1. spent \in [toggles : Nat, crashes : Nat]
      BY DEF TypeOK
    <3>2. spent' = [spent EXCEPT !.crashes = @ + 1]
      BY <1>2 DEF Crash
    <3> QED BY <3>1, <3>2
  <2>4. lock' \in Setters \cup {NoSetter} /\ draft' \in Seq(BOOLEAN)
    <3>1. lock' \in {lock, NoSetter} /\ (draft' = <<>> \/ draft' = draft)
      BY <1>2 DEF Crash
    <3>2. <<>> \in Seq(BOOLEAN)
      OBVIOUS
    <3> QED BY <3>1, <3>2 DEF TypeOK
  <2> QED BY <1>2, <2>1, <2>2, <2>3, <2>4 DEF TypeOK, Crash
<1>3. CASE UNCHANGED vars
  BY <1>3 DEF TypeOK, vars
<1> QED BY <1>1, <1>2, <1>3, SetterTyped, RequestTyped DEF Next

-------------------------------------------------------------------------------
(* The history: audit rows, the optimistic lock, and what readers hold.    *)

\* Values of committed versions never change: a commit appends to the log.
LEMMA ValuesStay ==
    ASSUME TypeOK, AuditIsTheHistory, NEW e \in BOOLEAN, audit' = Append(audit, e),
           NEW n \in Nat, n <= flag.version
    PROVE  ValueAt(n)' = ValueAt(n)
<1>1. audit \in Seq(BOOLEAN) /\ Len(audit) = flag.version
  BY DEF TypeOK, AuditIsTheHistory
<1>2. n # 0 => n \in 1..Len(audit)
  BY <1>1
<1>3. n # 0 => audit'[n] = audit[n]
  BY <1>1, <1>2
<1> QED BY <1>3 DEF ValueAt

\* The commit of a setter: its row is the one it read, and the next version is
\* the one it audits.
LEMMA CommitKeepsHistory ==
    ASSUME TypeOK, History, NEW s \in Setters, Commit(s)
    PROVE  History'
<1>0. /\ flag.version \in Nat /\ setter[s].enabled \in BOOLEAN
      /\ audit \in Seq(BOOLEAN) /\ Len(audit) = flag.version
      /\ flag'.version = flag.version + 1 /\ flag'.enabled = setter[s].enabled
      /\ audit' = Append(audit, setter[s].enabled)
  <2>1. /\ flag.version \in Nat /\ setter[s].enabled \in BOOLEAN
        /\ audit \in Seq(BOOLEAN) /\ Len(audit) = flag.version
        /\ flag'.version = flag.version + 1 /\ flag'.enabled = setter[s].enabled
    BY DEF TypeOK, Flag, Setter, Commit, History, AuditIsTheHistory
  <2>2. audit' = audit \o <<setter[s].enabled>>
    BY DEF Commit, History, DraftFits
  <2>3. audit \o <<setter[s].enabled>> = Append(audit, setter[s].enabled)
    BY <2>1
  <2> QED BY <2>1, <2>2, <2>3
<1>1. AuditIsTheHistory'
  <2>1. Len(audit') = flag.version + 1 /\ audit'[flag.version + 1] = setter[s].enabled
    BY <1>0
  <2>2. flag'.version # 0
    BY <1>0
  <2>3. ValueAt(flag.version)' = audit'[flag'.version]
    BY <2>2 DEF ValueAt
  <2> QED BY <1>0, <2>1, <2>3 DEF AuditIsTheHistory
<1>2. WriterIsCurrent' /\ DraftFits'
  <2>1. \A t \in Setters : setter'[t].stage \notin {"wrote", "audited"}
    BY NobodyAssumption DEF Commit, History, WriterIsCurrent, SetterAt, TypeOK
  <2>2. draft' = <<>>
    BY DEF Commit
  <2> QED BY <2>1, <2>2 DEF WriterIsCurrent, DraftFits
<1>3. ASSUME NEW f \in Flag, Committed(f) PROVE Committed(f)'
  <2>1. f.version \in Nat /\ f.version <= flag.version
    BY <1>3 DEF Flag, Committed
  <2>2. ValueAt(f.version)' = ValueAt(f.version)
    BY <1>0, <2>1, ValuesStay DEF History
  <2> QED BY <1>0, <1>3, <2>1, <2>2 DEF Committed
<1>4. ReadsWereCommitted'
  <2>1. ASSUME NEW p \in Procs, cache[p] # NoFlag PROVE Committed(cache[p])'
    BY <1>3, <2>1 DEF TypeOK, History, ReadsWereCommitted, Commit
  <2>2. ASSUME NEW r \in Requests, request[r].stage \in {"fetched", "gated"}
        PROVE  Committed(request[r].flag)'
    <3>1. request[r].flag \in Flag
      BY DEF TypeOK, Request
    <3> QED BY <1>3, <2>2, <3>1 DEF History, ReadsWereCommitted, Commit
  <2> QED BY <2>1, <2>2 DEF ReadsWereCommitted, Commit
<1> QED BY <1>1, <1>2, <1>4 DEF History

LEMMA SetterKeepsHistory ==
    ASSUME TypeOK, History, NEW s \in Setters, SetterStep(s), ~Commit(s)
    PROVE  History'
<1>0. flag' = flag /\ audit' = audit /\ request' = request
  BY DEF SetterStep, BeginToggle, Write, MissVersion, Audit, RollBack, Invalidate
<1>1. AuditIsTheHistory'
  BY <1>0 DEF History, AuditIsTheHistory, ValueAt
<1>2. WriterIsCurrent' /\ DraftFits'
  <2>0. setter \in [Setters -> Setter] /\ WriterIsCurrent /\ DraftFits
    BY DEF TypeOK, History
\* A setter that is not in its transaction
  <2>a. ASSUME \A t \in Setters : t = s \/ setter'[t] = setter[t],
               setter'[s].stage \notin {"wrote", "audited"}, UNCHANGED <<lock, draft>>
        PROVE  WriterIsCurrent' /\ DraftFits'
    BY <1>0, <2>0, <2>a DEF WriterIsCurrent, DraftFits
  <2>1. CASE BeginToggle(s)
    BY <2>0, <2>1, <2>a DEF BeginToggle, SetterAt
  <2>2. CASE Write(s)
    <3>1. draft = <<>> /\ draft' = <<>> /\ lock' = s /\ setter'[s].stage = "wrote"
          /\ setter'[s].version = flag.version
      BY <2>0, <2>2 DEF Write, DraftFits, Setter
    <3>2. \A t \in Setters \ {s} : setter'[t] = setter[t]
                                  /\ setter[t].stage \notin {"wrote", "audited"}
      BY <2>0, <2>2, NobodyAssumption DEF Write, WriterIsCurrent
    <3> QED BY <1>0, <3>1, <3>2, NobodyAssumption DEF WriterIsCurrent, DraftFits
  <2>3. CASE MissVersion(s)
    BY <2>0, <2>3, <2>a DEF MissVersion, SetterAt, AwaySetter
  <2>4. CASE Audit(s)
    <3>1. draft = <<>> /\ draft' = <<setter[s].enabled>> /\ lock = s /\ lock' = s
      <4>1. draft = <<>> /\ lock = s /\ lock' = s /\ draft' = Append(draft, setter[s].enabled)
        BY <2>0, <2>4 DEF Audit, DraftFits, WriterIsCurrent
      <4> QED BY <4>1
    <3>2. /\ setter'[s].stage = "audited" /\ setter'[s].version = setter[s].version
          /\ setter'[s].enabled = setter[s].enabled
          /\ setter[s].version = flag.version
      BY <2>0, <2>4 DEF Audit, Setter, WriterIsCurrent
    <3>3. \A t \in Setters \ {s} : setter'[t] = setter[t]
                                  /\ setter[t].stage \notin {"wrote", "audited"}
      BY <2>0, <2>4, <3>1 DEF Audit, WriterIsCurrent
    <3> QED BY <1>0, <3>1, <3>2, <3>3, NobodyAssumption DEF WriterIsCurrent, DraftFits
  <2>5. CASE RollBack(s)
    <3>1. setter'[s].stage = "away" /\ \A t \in Setters \ {s} : setter'[t] = setter[t]
      BY <2>0, <2>5 DEF RollBack, AwaySetter, SetterAt
    <3>2. CASE lock # s
      BY <2>5, <2>a, <3>1, <3>2 DEF RollBack
    <3>3. CASE lock = s
      <4>1. draft' = <<>> /\ \A t \in Setters \ {s} : setter[t].stage \notin {"wrote", "audited"}
        BY <2>0, <2>5, <3>3 DEF RollBack, WriterIsCurrent
      <4> QED BY <3>1, <4>1 DEF WriterIsCurrent, DraftFits
    <3> QED BY <3>2, <3>3
  <2>6. CASE Invalidate(s)
    BY <2>0, <2>6, <2>a DEF Invalidate, Returned, SetterAt, AwaySetter
  <2> QED BY <2>1, <2>2, <2>3, <2>4, <2>5, <2>6 DEF SetterStep
<1>3. \A p \in Procs : cache'[p] # NoFlag => cache'[p] = cache[p]
  BY DEF SetterStep, BeginToggle, Write, MissVersion, Audit, RollBack, Invalidate, TypeOK
<1>4. ReadsWereCommitted'
  BY <1>0, <1>3 DEF History, ReadsWereCommitted, Committed, ValueAt
<1> QED BY <1>1, <1>2, <1>4 DEF History

LEMMA RequestKeepsHistory ==
    ASSUME TypeOK, History, NEW r \in Requests, RequestStep(r)
    PROVE  History'
<1>0. UNCHANGED <<flag, audit, setter, lock, draft>>
  BY DEF RequestStep, Hit, Miss, Fetch, Populate, Depart
<1>1. AuditIsTheHistory' /\ WriterIsCurrent' /\ DraftFits'
  BY <1>0 DEF History, AuditIsTheHistory, WriterIsCurrent, DraftFits, ValueAt
<1>2. Committed(flag)
  BY DEF History, AuditIsTheHistory, Committed, TypeOK, Flag
<1>3. /\ \A p \in Procs : cache'[p] # NoFlag => Committed(cache'[p])
      /\ \A q \in Requests :
             request'[q].stage \in {"fetched", "gated"} => Committed(request'[q].flag)
  <2>0. ProcOf[r] \in Procs
    BY ProcsAssumption
  <2>1. CASE Hit(r)
    BY <2>0, <2>1 DEF Hit, History, ReadsWereCommitted, RequestAt, TypeOK
  <2>2. CASE Miss(r)
    BY <2>2 DEF Miss, History, ReadsWereCommitted, RequestAt, TypeOK
  <2>3. CASE Fetch(r)
    BY <1>2, <2>3 DEF Fetch, History, ReadsWereCommitted, RequestAt, TypeOK
  <2>4. CASE Populate(r)
    BY <2>0, <2>4 DEF Populate, History, ReadsWereCommitted, RequestAt, TypeOK
  <2>5. CASE Depart(r)
    BY <2>5 DEF Depart, History, ReadsWereCommitted, RequestAt, AwayRequest, TypeOK
  <2> QED BY <2>1, <2>2, <2>3, <2>4, <2>5 DEF RequestStep
<1>4. ReadsWereCommitted'
  BY <1>0, <1>3 DEF ReadsWereCommitted, Committed, ValueAt
<1> QED BY <1>1, <1>4 DEF History

LEMMA ProcessKeepsHistory ==
    ASSUME TypeOK, History, NEW p \in Procs, Expire(p) \/ Crash(p)
    PROVE  History'
<1>0. flag' = flag /\ audit' = audit
  BY DEF Expire, Crash
<1>1. AuditIsTheHistory'
  BY <1>0 DEF History, AuditIsTheHistory, ValueAt
<1>2. WriterIsCurrent' /\ DraftFits'
  <2>1. CASE Expire(p)
    BY <2>1 DEF Expire, History, WriterIsCurrent, DraftFits
  <2>2. CASE Crash(p)
    <3>0. ASSUME NEW s \in Setters
          PROVE  \/ ProcOf[s] # p /\ setter'[s] = setter[s]
                 \/ ProcOf[s] = p /\ setter'[s].stage = "away"
      <4>1. setter'[s] = IF ProcOf[s] = p THEN AwaySetter ELSE setter[s]
        BY <2>2 DEF Crash
      <4>2. AwaySetter.stage = "away"
        BY DEF AwaySetter, SetterAt
      <4> QED BY <4>1, <4>2
    <3>1. CASE lock # NoSetter /\ ProcOf[lock] = p
      <4>1. draft' = <<>> /\ \A s \in Setters : setter'[s].stage \notin {"wrote", "audited"}
        BY <2>2, <3>0, <3>1 DEF Crash, History, WriterIsCurrent
      <4> QED BY <4>1 DEF WriterIsCurrent, DraftFits
    <3>2. CASE ~(lock # NoSetter /\ ProcOf[lock] = p)
      <4>1. lock' = lock /\ draft' = draft
        BY <2>2, <3>2 DEF Crash
      <4> QED BY <1>0, <3>0, <4>1 DEF History, WriterIsCurrent, DraftFits
    <3> QED BY <3>1, <3>2
  <2> QED BY <2>1, <2>2
<1>3. \A q \in Procs : cache'[q] # NoFlag => cache'[q] = cache[q]
  BY DEF Expire, Crash, TypeOK
<1>4. \A r \in Requests : request'[r].stage \in {"fetched", "gated"} => request'[r] = request[r]
  BY DEF Expire, Crash, AwayRequest, RequestAt
<1>5. ReadsWereCommitted'
  BY <1>0, <1>3, <1>4 DEF History, ReadsWereCommitted, Committed, ValueAt
<1> QED BY <1>1, <1>2, <1>5 DEF History

-------------------------------------------------------------------------------
(* Freshness: the floor, the cache above it, and the reads in flight.      *)

\* A setter's step short of the invalidation only adds versions.
LEMMA SetterKeepsFreshness ==
    ASSUME TypeOK, Freshness, NEW s \in Setters, SetterStep(s), ~Invalidate(s)
    PROVE  Freshness'
<1>0. UNCHANGED <<cache, generation, floor, request>>
  BY DEF SetterStep, BeginToggle, Write, MissVersion, Audit, RollBack, Commit
<1>1. /\ flag.version \in Nat /\ flag'.version \in Nat /\ flag.version <= flag'.version
      /\ \A t \in Setters :
            setter'[t].stage = "committed" =>
               \/ setter'[t] = setter[t]
               \/ setter'[t].version = flag'.version
  <2>0. flag.version \in Nat /\ setter \in [Setters -> Setter]
    BY DEF TypeOK, Flag
  <2>1. CASE Commit(s)
    BY <2>0, <2>1 DEF Commit, SetterAt
  <2>2. CASE ~Commit(s)
    <3>1. flag' = flag /\ \A t \in Setters \ {s} : setter'[t] = setter[t]
      BY <2>0, <2>2 DEF SetterStep, BeginToggle, Write, MissVersion, Audit, RollBack
    <3>2. setter'[s].stage # "committed"
      <4>1. CASE Write(s) \/ Audit(s)
        BY <2>0, <4>1 DEF Write, Audit, Setter
      <4>2. CASE BeginToggle(s) \/ MissVersion(s) \/ RollBack(s)
        BY <2>0, <4>2 DEF BeginToggle, MissVersion, RollBack, SetterAt, AwaySetter
      <4> QED BY <2>2, <4>1, <4>2 DEF SetterStep
    <3> QED BY <2>0, <3>1, <3>2
  <2> QED BY <2>1, <2>2
<1>2. FloorIsCommitted'
  <2>1. \A p \in Procs : floor[p] \in Nat /\ floor[p] <= flag.version
    BY DEF Freshness, FloorIsCommitted, TypeOK
  <2>2. \A t \in Setters : setter[t].version \in Nat
    BY DEF TypeOK, Setter
  <2> QED BY <1>0, <1>1, <2>1, <2>2 DEF Freshness, FloorIsCommitted
<1>3. CacheIsAboveFloor'
  BY <1>0 DEF Freshness, CacheIsAboveFloor
<1>4. ReadsAreTimely'
  <2>1. \A r \in Requests : request[r].since \in Nat
    BY DEF TypeOK, Request
  <2> QED BY <1>0, <1>1, <2>1 DEF Freshness, ReadsAreTimely, ReadIsTimely
<1> QED BY <1>2, <1>3, <1>4 DEF Freshness

\* The invalidation raises the floor, empties the cache and outdates the reads of
\* its process, in one step.
LEMMA InvalidateKeepsFreshness ==
    ASSUME TypeOK, Freshness, NEW s \in Setters, Invalidate(s)
    PROVE  Freshness'
<1> DEFINE p == ProcOf[s]
<1>0. /\ p \in Procs /\ flag' = flag /\ request' = request
      /\ flag.version \in Nat /\ setter[s].version \in Nat /\ floor[p] \in Nat
      /\ setter[s].version <= flag.version /\ floor[p] <= flag.version
  BY ProcsAssumption DEF TypeOK, Setter, Flag, Invalidate, Freshness, FloorIsCommitted
<1>1. /\ floor' = [floor EXCEPT ![p] = IF setter[s].version > @ THEN setter[s].version ELSE @]
      /\ cache' = [cache EXCEPT ![p] = NoFlag]
      /\ generation' = [generation EXCEPT ![p] = @ + 1]
      /\ setter' = [setter EXCEPT ![s] = AwaySetter]
  BY DEF Invalidate, Returned
<1>2. FloorIsCommitted'
  <2>1. \A q \in Procs : floor'[q] <= flag.version
    BY <1>0, <1>1 DEF Freshness, FloorIsCommitted, TypeOK
  <2>2. \A t \in Setters : setter'[t].stage = "committed" => setter'[t] = setter[t]
    BY <1>1 DEF AwaySetter, SetterAt, TypeOK
  <2> QED BY <1>0, <2>1, <2>2 DEF Freshness, FloorIsCommitted
<1>3. CacheIsAboveFloor'
  BY <1>0, <1>1 DEF Freshness, CacheIsAboveFloor, TypeOK
<1>4. ASSUME NEW r \in Requests PROVE ReadIsTimely(r)'
  <2>0. /\ ReadIsTimely(r) /\ ProcOf[r] \in Procs /\ request[r].generation \in Nat
        /\ generation[ProcOf[r]] \in Nat
    BY ProcsAssumption DEF Freshness, ReadsAreTimely, TypeOK, Request
  <2>1. CASE ProcOf[r] = p
    <3>1. generation'[ProcOf[r]] = generation[ProcOf[r]] + 1
      BY <1>0, <1>1, <2>1 DEF TypeOK
    <3>2. request[r].generation < generation'[ProcOf[r]]
      BY <2>0, <3>1 DEF ReadIsTimely
    <3> QED BY <1>0, <2>0, <3>1, <3>2 DEF ReadIsTimely
  <2>2. CASE ProcOf[r] # p
    <3>1. /\ generation'[ProcOf[r]] = generation[ProcOf[r]]
          /\ floor'[ProcOf[r]] = floor[ProcOf[r]]
      BY <1>0, <1>1, <2>0, <2>2 DEF TypeOK
    <3> QED BY <1>0, <2>0, <3>1 DEF ReadIsTimely
  <2> QED BY <2>1, <2>2
<1> QED BY <1>2, <1>3, <1>4 DEF Freshness, ReadsAreTimely

LEMMA RequestKeepsFreshness ==
    ASSUME TypeOK, Freshness, NEW r \in Requests, RequestStep(r)
    PROVE  Freshness'
<1> DEFINE p == ProcOf[r]
<1>0. UNCHANGED <<flag, generation, floor, setter>>
  BY DEF RequestStep, Hit, Miss, Fetch, Populate, Depart
<1>1. /\ p \in Procs /\ request[r] \in Request /\ ReadIsTimely(r)
      /\ flag.version \in Nat /\ generation[p] \in Nat /\ floor[p] \in Nat
      /\ floor[p] <= flag.version /\ (cache[p] # NoFlag => cache[p].version >= floor[p])
  BY ProcsAssumption DEF TypeOK, Flag, Freshness, FloorIsCommitted, CacheIsAboveFloor,
                         ReadsAreTimely
<1>2. FloorIsCommitted'
  BY <1>0 DEF Freshness, FloorIsCommitted
<1>3. CacheIsAboveFloor'
  <2>1. CASE Populate(r)
    BY <1>0, <1>1, <2>1 DEF Populate, Freshness, CacheIsAboveFloor, ReadIsTimely, TypeOK
  <2>2. CASE ~Populate(r)
    <3>1. cache' = cache
      BY <2>2 DEF RequestStep, Hit, Miss, Fetch, Depart
    <3> QED BY <1>0, <3>1 DEF Freshness, CacheIsAboveFloor
  <2> QED BY <2>1, <2>2
<1>4. ReadIsTimely(r)'
  <2>1. CASE Hit(r)
    <3>1. request'[r] = RequestAt("gated", 0, cache[p], floor[p]) /\ cache[p] # NoFlag
      BY <2>1 DEF Hit, TypeOK
    <3> QED BY <1>0, <1>1, <3>1 DEF ReadIsTimely, RequestAt
  <2>2. CASE Miss(r)
    <3>1. request'[r] = RequestAt("missed", generation[p], Off, floor[p])
      BY <2>2 DEF Miss, TypeOK
    <3> QED BY <1>0, <1>1, <3>1 DEF ReadIsTimely, RequestAt
  <2>3. CASE Fetch(r)
    <3>1. /\ request'[r] = RequestAt("fetched", request[r].generation, flag, request[r].since)
          /\ request[r].stage = "missed"
      BY <2>3 DEF Fetch, TypeOK
    <3>2. /\ request'[r].generation = request[r].generation /\ request'[r].stage = "fetched"
          /\ request'[r].flag.version = flag.version /\ request'[r].since = request[r].since
      BY <3>1 DEF RequestAt
    <3>3. request[r].since \in Nat /\ request[r].generation \in Nat
      BY <1>1 DEF Request
    <3> QED BY <1>0, <1>1, <3>1, <3>2, <3>3 DEF ReadIsTimely
  <2>4. CASE Populate(r)
    <3>1. /\ request'[r] = RequestAt("gated", request[r].generation, request[r].flag,
                                     request[r].since)
          /\ request[r].stage = "fetched"
      BY <2>4 DEF Populate, TypeOK
    <3> QED BY <1>0, <1>1, <3>1 DEF ReadIsTimely, RequestAt
  <2>5. CASE Depart(r)
    <3>1. request'[r] = AwayRequest
      BY <2>5 DEF Depart, TypeOK
    <3> QED BY <1>0, <1>1, <3>1 DEF ReadIsTimely, AwayRequest, RequestAt
  <2> QED BY <2>1, <2>2, <2>3, <2>4, <2>5 DEF RequestStep
<1>5. \A q \in Requests \ {r} : request'[q] = request[q]
  BY DEF RequestStep, Hit, Miss, Fetch, Populate, Depart, TypeOK
<1>6. \A q \in Requests \ {r} : ReadIsTimely(q)'
  BY <1>0, <1>5 DEF Freshness, ReadsAreTimely, ReadIsTimely
<1> QED BY <1>2, <1>3, <1>4, <1>6 DEF Freshness, ReadsAreTimely

\* A process that dies takes its promises and its reads along.
LEMMA ProcessKeepsFreshness ==
    ASSUME TypeOK, Freshness, NEW p \in Procs, Expire(p) \/ Crash(p)
    PROVE  Freshness'
<1>0. flag' = flag /\ flag.version \in Nat
  BY DEF Expire, Crash, TypeOK, Flag
<1>1. CASE Expire(p)
  <2>1. FloorIsCommitted' /\ ReadsAreTimely'
    BY <1>1 DEF Expire, Freshness, FloorIsCommitted, ReadsAreTimely, ReadIsTimely
  <2>2. CacheIsAboveFloor'
    BY <1>1 DEF Expire, Freshness, CacheIsAboveFloor, TypeOK
  <2> QED BY <2>1, <2>2 DEF Freshness
<1>2. CASE Crash(p)
  <2>1. FloorIsCommitted'
    <3>1. \A q \in Procs : floor'[q] = 0 \/ floor'[q] = floor[q]
      BY <1>2 DEF Crash, TypeOK
    <3>2. \A s \in Setters : setter'[s].stage = "committed" => setter'[s] = setter[s]
      BY <1>2 DEF Crash, AwaySetter, SetterAt
    <3> QED BY <1>0, <3>1, <3>2 DEF Freshness, FloorIsCommitted
  <2>2. CacheIsAboveFloor'
    BY <1>2 DEF Crash, Freshness, CacheIsAboveFloor, TypeOK
  <2>3. ASSUME NEW r \in Requests PROVE ReadIsTimely(r)'
    <3>0. ProcOf[r] \in Procs /\ ReadIsTimely(r)
      BY ProcsAssumption DEF Freshness, ReadsAreTimely
    <3>1. CASE ProcOf[r] = p
      <4>1. request'[r] = AwayRequest /\ generation'[p] = 0
        BY <1>2, <3>1 DEF Crash, TypeOK
      <4> QED BY <3>1, <4>1 DEF ReadIsTimely, AwayRequest, RequestAt
    <3>2. CASE ProcOf[r] # p
      <4>1. /\ request'[r] = request[r] /\ generation'[ProcOf[r]] = generation[ProcOf[r]]
            /\ floor'[ProcOf[r]] = floor[ProcOf[r]]
        BY <1>2, <3>0, <3>2 DEF Crash, TypeOK
      <4> QED BY <1>0, <3>0, <4>1 DEF ReadIsTimely
    <3> QED BY <3>1, <3>2
  <2> QED BY <2>1, <2>2, <2>3 DEF Freshness, ReadsAreTimely
<1> QED BY <1>1, <1>2

-------------------------------------------------------------------------------
(* The invariant, and what follows from it.                                *)

LEMMA InitHolds == Init => IInv
<1> SUFFICES ASSUME Init PROVE IInv
  OBVIOUS
<1>1. TypeOK
  BY InitTyped
<1>2. History
  BY DEF Init, History, AuditIsTheHistory, WriterIsCurrent, DraftFits, ReadsWereCommitted, ValueAt,
         Off, AwaySetter, SetterAt, AwayRequest, RequestAt
<1>3. FloorIsCommitted /\ CacheIsAboveFloor
  BY DEF Init, FloorIsCommitted, CacheIsAboveFloor, Off, AwaySetter, SetterAt
<1>4. ReadsAreTimely
  BY ProcsAssumption DEF Init, ReadsAreTimely, ReadIsTimely, AwayRequest, RequestAt
<1> QED BY <1>1, <1>2, <1>3, <1>4 DEF IInv, Freshness

LEMMA StepHolds == IInv /\ [Next]_vars => IInv'
<1> SUFFICES ASSUME IInv, [Next]_vars PROVE IInv'
  OBVIOUS
<1>1. TypeOK'
  BY StepTyped DEF IInv
<1>2. ASSUME NEW s \in Setters, SetterStep(s) PROVE History' /\ Freshness'
  BY <1>2, CommitKeepsHistory, SetterKeepsHistory, SetterKeepsFreshness,
     InvalidateKeepsFreshness DEF IInv
<1>3. ASSUME NEW r \in Requests, RequestStep(r) PROVE History' /\ Freshness'
  BY <1>3, RequestKeepsHistory, RequestKeepsFreshness DEF IInv
<1>4. ASSUME NEW p \in Procs, Expire(p) \/ Crash(p) PROVE History' /\ Freshness'
  BY <1>4, ProcessKeepsHistory, ProcessKeepsFreshness DEF IInv
<1>5. CASE UNCHANGED vars
  <2>1. History'
    BY <1>5 DEF IInv, History, AuditIsTheHistory, WriterIsCurrent, DraftFits,
                ReadsWereCommitted, Committed, ValueAt, vars
  <2>2. Freshness'
    BY <1>5 DEF IInv, Freshness, FloorIsCommitted, CacheIsAboveFloor, ReadsAreTimely,
                ReadIsTimely, vars
  <2> QED BY <1>1, <2>1, <2>2 DEF IInv
<1> QED BY <1>1, <1>2, <1>3, <1>4, <1>5 DEF Next, IInv

LEMMA Inductive == Spec => []IInv
<1> QED BY InitHolds, StepHolds, PTL DEF Spec

\* Every reachable state has its types, a setter in its transaction replaces the
\* row it read, and what is cached or gates a request was committed.
THEOREM ReadersSeeCommits == Spec => []Inv
<1>1. IInv => Inv
  BY DEF IInv, History, ReadsWereCommitted, Committed, Inv, ServedFlagsWereCommitted
<1> QED BY <1>1, Inductive, PTL

\* The audit log is the history of the flag, however many set_flag calls race, miss
\* their version, or fail or die at any step of their transaction.
THEOREM AuditHolds == Spec => []AuditIsTheHistory
<1>1. IInv => AuditIsTheHistory
  BY DEF IInv, History
<1> QED BY <1>1, Inductive, PTL

\* In the process where it returned, a toggle is seen by every later request, for
\* any number of threads that read, populate and invalidate the cache.
THEOREM HomeSeesToggles == Spec => []TogglesAreImmediateAtHome
<1>1. IInv => TogglesAreImmediateAtHome
  BY DEF IInv, Freshness, ReadsAreTimely, ReadIsTimely, TogglesAreImmediateAtHome
<1> QED BY <1>1, Inductive, PTL

===============================================================================
