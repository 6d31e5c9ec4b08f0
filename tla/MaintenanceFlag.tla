---------------------------- MODULE MaintenanceFlag ---------------------------
(***************************************************************************)
(* The maintenance flag of backend/app/services/maintenance.py: one row of *)
(* system_flags shared by every server process, toggled by an optimistic   *)
(* version check with its audit row in the same transaction, and read by   *)
(* the request gate of backend/app/middleware/maintenance.py through a     *)
(* cache each process keeps.                                               *)
(*                                                                         *)
(* Setters and requests run on worker threads; every block under           *)
(* _flag_cache_lock and every SQL statement is one step.                   *)
(***************************************************************************)
EXTENDS Integers, Sequences

CONSTANTS
    Procs,         \* server processes
    Setters,       \* threads inside set_flag
    Requests,      \* mutating requests at the gate
    ProcOf,        \* the process of each setter and request
    NoFlag,        \* _flag_cache is None
    NoSetter,      \* nobody holds the database's write lock
    MaxMisses,     \* updates retried after a version miss: 3 in the code
    MaxToggles,    \* bound: set_flag calls in a behaviour
    MaxCrashes     \* bound: processes lost in a behaviour

ASSUME ProcsAssumption == ProcOf \in [Setters \cup Requests -> Procs]
ASSUME NobodyAssumption == NoSetter \notin Setters
ASSUME MissesAssumption == MaxMisses \in Nat
ASSUME BoundsAssumption == MaxToggles \in Nat /\ MaxCrashes \in Nat

Flag == [enabled : BOOLEAN, version : Nat]

ASSUME NoFlagAssumption == NoFlag \notin Flag

VARIABLES
    flag,       \* the committed row
    audit,      \* audit_toggle_log, oldest first
    lock,       \* the setter whose transaction holds the write lock
    draft,      \* the audit rows that transaction has inserted, until it ends
    cache,      \* _flag_cache of each process
    generation, \* _flag_cache_generation of each process
    floor,      \* the highest version a returned set_flag of the process wrote
    setter,     \* where each setter is
    request,    \* where each request is
    spent       \* toggles and crashes so far

vars == <<flag, audit, lock, draft, cache, generation, floor, setter, request, spent>>

Setter == [stage : {"away", "read", "wrote", "audited", "committed"},
           enabled : BOOLEAN, version : Nat, attempts : 0..MaxMisses]

\* A request: the generation it snapshot, the flag it read, and the floor of its
\* process when it came.
Request == [stage : {"away", "missed", "fetched", "gated"},
            generation : Nat, flag : Flag, since : Nat]

TypeOK ==
    /\ flag \in Flag
    /\ audit \in Seq(BOOLEAN)
    /\ lock \in Setters \cup {NoSetter}
    /\ draft \in Seq(BOOLEAN)
    /\ cache \in [Procs -> Flag \cup {NoFlag}]
    /\ generation \in [Procs -> Nat]
    /\ floor \in [Procs -> Nat]
    /\ setter \in [Setters -> Setter]
    /\ request \in [Requests -> Request]
    /\ spent \in [toggles : Nat, crashes : Nat]

SetterAt(stage, enabled, version, attempts) ==
    [stage |-> stage, enabled |-> enabled, version |-> version, attempts |-> attempts]

RequestAt(stage, gen, read, since) ==
    [stage |-> stage, generation |-> gen, flag |-> read, since |-> since]

Off == [enabled |-> FALSE, version |-> 0]
AwaySetter == SetterAt("away", FALSE, 0, 0)
AwayRequest == RequestAt("away", 0, Off, 0)

Init ==
    /\ flag = Off
    /\ audit = <<>>
    /\ lock = NoSetter
    /\ draft = <<>>
    /\ cache = [p \in Procs |-> NoFlag]
    /\ generation = [p \in Procs |-> 0]
    /\ floor = [p \in Procs |-> 0]
    /\ setter = [s \in Setters |-> AwaySetter]
    /\ request = [r \in Requests |-> AwayRequest]
    /\ spent = [toggles |-> 0, crashes |-> 0]

-------------------------------------------------------------------------------
(* set_flag: read the version, update on it, audit, commit, invalidate.    *)

BeginToggle(s) ==
    /\ setter[s].stage = "away"
    /\ spent.toggles < MaxToggles
    /\ spent' = [spent EXCEPT !.toggles = @ + 1]
    /\ \E enabled \in BOOLEAN :
          setter' = [setter EXCEPT ![s] = SetterAt("read", enabled, flag.version, 0)]
    /\ UNCHANGED <<flag, audit, lock, draft, cache, generation, floor, request>>

\* Deviation, for a mutant: an update that does not look at the version.
WriteBlindly(s) ==
    /\ setter[s].stage = "read"
    /\ lock = NoSetter
    /\ lock' = s
    /\ setter' = [setter EXCEPT ![s].stage = "wrote"]
    /\ UNCHANGED <<flag, audit, draft, cache, generation, floor, request, spent>>

\* UPDATE ... WHERE version = ?: it waits for the write lock and takes it.  What it
\* writes is the transaction's own until the commit.
Write(s) ==
    /\ setter[s].stage = "read"
    /\ lock = NoSetter
    /\ setter[s].version = flag.version
    /\ lock' = s
    /\ setter' = [setter EXCEPT ![s].stage = "wrote"]
    /\ UNCHANGED <<flag, audit, draft, cache, generation, floor, request, spent>>

\* The UPDATE matched no row: read again, MaxMisses times at most.
MissVersion(s) ==
    /\ setter[s].stage = "read"
    /\ lock = NoSetter
    /\ setter[s].version # flag.version
    /\ setter' = [setter EXCEPT ![s] =
                    IF @.attempts < MaxMisses
                    THEN SetterAt("read", @.enabled, flag.version, @.attempts + 1)
                    ELSE AwaySetter]
    /\ UNCHANGED <<flag, audit, lock, draft, cache, generation, floor, request, spent>>

\* Deviation, for a mutant: an INSERT that raises is logged, and the toggle goes on.
AuditSwallowed(s) ==
    /\ setter[s].stage = "wrote"
    /\ draft' \in {draft, Append(draft, setter[s].enabled)}
    /\ setter' = [setter EXCEPT ![s].stage = "audited"]
    /\ UNCHANGED <<flag, audit, lock, cache, generation, floor, request, spent>>

\* The INSERT of the audit row, in the same transaction
Audit(s) ==
    /\ setter[s].stage = "wrote"
    /\ draft' = Append(draft, setter[s].enabled)
    /\ setter' = [setter EXCEPT ![s].stage = "audited"]
    /\ UNCHANGED <<flag, audit, lock, cache, generation, floor, request, spent>>

\* The database stays locked, or the INSERT or the commit raises: the transaction
\* ends with nothing written.
RollBack(s) ==
    /\ setter[s].stage \in {"read", "wrote", "audited"}
    /\ lock' = IF lock = s THEN NoSetter ELSE lock
    /\ draft' = IF lock = s THEN <<>> ELSE draft
    /\ setter' = [setter EXCEPT ![s] = AwaySetter]
    /\ UNCHANGED <<flag, audit, cache, generation, floor, request, spent>>

\* The commit, of whatever the transaction has written by then
Commit(s) ==
    /\ setter[s].stage = "audited"
    /\ lock' = NoSetter
    /\ flag' = [enabled |-> setter[s].enabled, version |-> flag.version + 1]
    /\ audit' = audit \o draft
    /\ draft' = <<>>
    /\ setter' = [setter EXCEPT ![s] =
                    SetterAt("committed", @.enabled, flag.version + 1, @.attempts)]
    /\ UNCHANGED <<cache, generation, floor, request, spent>>

\* set_flag returns: every later request of the process must see the toggle.
Returned(s) ==
    /\ floor' = [floor EXCEPT ![ProcOf[s]] =
                    IF setter[s].version > @ THEN setter[s].version ELSE @]
    /\ setter' = [setter EXCEPT ![s] = AwaySetter]

\* Deviation: the cache is dropped without a new generation.
InvalidateCacheOnly(s) ==
    /\ setter[s].stage = "committed"
    /\ cache' = [cache EXCEPT ![ProcOf[s]] = NoFlag]
    /\ Returned(s)
    /\ UNCHANGED <<flag, audit, lock, draft, generation, request, spent>>

\* _invalidate_flag_cache, after the commit.
Invalidate(s) ==
    /\ setter[s].stage = "committed"
    /\ cache' = [cache EXCEPT ![ProcOf[s]] = NoFlag]
    /\ generation' = [generation EXCEPT ![ProcOf[s]] = @ + 1]
    /\ Returned(s)
    /\ UNCHANGED <<flag, audit, lock, draft, request, spent>>

-------------------------------------------------------------------------------
(* The request gate: get_flag_cached, then reject or pass.                 *)

\* A fresh cached flag is served.
Hit(r) ==
    /\ request[r].stage = "away"
    /\ cache[ProcOf[r]] # NoFlag
    /\ request' = [request EXCEPT ![r] =
                     RequestAt("gated", 0, cache[ProcOf[r]], floor[ProcOf[r]])]
    /\ UNCHANGED <<flag, audit, lock, draft, cache, generation, floor, setter, spent>>

\* A miss snapshots the generation before it goes to the database.
Miss(r) ==
    /\ request[r].stage = "away"
    /\ cache[ProcOf[r]] = NoFlag
    /\ request' = [request EXCEPT ![r] =
                     RequestAt("missed", generation[ProcOf[r]], Off, floor[ProcOf[r]])]
    /\ UNCHANGED <<flag, audit, lock, draft, cache, generation, floor, setter, spent>>

\* get_flag reads the committed row, whoever holds the write lock.
Fetch(r) ==
    /\ request[r].stage = "missed"
    /\ request' = [request EXCEPT ![r] =
                     RequestAt("fetched", @.generation, flag, @.since)]
    /\ UNCHANGED <<flag, audit, lock, draft, cache, generation, floor, setter, spent>>

\* The read populates the cache only if no toggle invalidated it meanwhile.
Populate(r) ==
    /\ request[r].stage = "fetched"
    /\ cache' = IF request[r].generation = generation[ProcOf[r]]
                THEN [cache EXCEPT ![ProcOf[r]] = request[r].flag]
                ELSE cache
    /\ request' = [request EXCEPT ![r] =
                     RequestAt("gated", @.generation, @.flag, @.since)]
    /\ UNCHANGED <<flag, audit, lock, draft, generation, floor, setter, spent>>

\* The gate has answered, or the read failed and the gate failed open.
Depart(r) ==
    /\ request[r].stage \in {"missed", "gated"}
    /\ request' = [request EXCEPT ![r] = AwayRequest]
    /\ UNCHANGED <<flag, audit, lock, draft, cache, generation, floor, setter, spent>>

-------------------------------------------------------------------------------
(* The environment.                                                        *)

\* Deviation: a cached flag never expires.
ExpireNever(p) == FALSE /\ UNCHANGED vars

\* FLAG_CACHE_TTL_SECONDS pass: an expired flag is a miss.
Expire(p) ==
    /\ cache[p] # NoFlag
    /\ cache' = [cache EXCEPT ![p] = NoFlag]
    /\ UNCHANGED <<flag, audit, lock, draft, generation, floor, setter, request, spent>>

\* A process dies; its open transaction rolls back.
Crash(p) ==
    /\ spent.crashes < MaxCrashes
    /\ spent' = [spent EXCEPT !.crashes = @ + 1]
    /\ LET open == lock # NoSetter /\ ProcOf[lock] = p
       IN /\ lock' = IF open THEN NoSetter ELSE lock
          /\ draft' = IF open THEN <<>> ELSE draft
    /\ cache' = [cache EXCEPT ![p] = NoFlag]
    /\ generation' = [generation EXCEPT ![p] = 0]
    /\ floor' = [floor EXCEPT ![p] = 0]
    /\ setter' = [s \in Setters |-> IF ProcOf[s] = p THEN AwaySetter ELSE setter[s]]
    /\ request' = [r \in Requests |-> IF ProcOf[r] = p THEN AwayRequest ELSE request[r]]
    /\ UNCHANGED <<flag, audit>>

-------------------------------------------------------------------------------
SetterStep(s) ==
    \/ BeginToggle(s)
    \/ Write(s)
    \/ MissVersion(s)
    \/ Audit(s)
    \/ RollBack(s)
    \/ Commit(s)
    \/ Invalidate(s)

RequestStep(r) == Hit(r) \/ Miss(r) \/ Fetch(r) \/ Populate(r) \/ Depart(r)

Next ==
    \/ \E s \in Setters : SetterStep(s)
    \/ \E r \in Requests : RequestStep(r)
    \/ \E p \in Procs : Expire(p) \/ Crash(p)

Spec == Init /\ [][Next]_vars

\* A started read ends (the pool and the database time out) and time passes.
Fairness ==
    /\ \A r \in Requests : WF_vars(Fetch(r) \/ Populate(r) \/ Depart(r))
    /\ \A p \in Procs : WF_vars(Expire(p))

FairSpec == Spec /\ Fairness

-------------------------------------------------------------------------------
(* Safety.                                                                 *)

\* The value of version n: the n-th audited toggle, off before the first.
ValueAt(n) == IF n = 0 THEN FALSE ELSE audit[n]

\* The audit log is the history of the flag: every committed toggle has its row, in
\* commit order, and no other is there, wherever between its UPDATE, its INSERT and
\* its commit a set_flag failed or died, and whoever raced it (set_flag).
AuditIsTheHistory ==
    /\ Len(audit) = flag.version
    /\ flag.enabled = ValueAt(flag.version)

\* A toggle replaces the very row its setter read.
WriterIsCurrent ==
    \A s \in Setters :
        setter[s].stage \in {"wrote", "audited"} =>
            lock = s /\ setter[s].version = flag.version

\* A flag that is cached or gates a request was committed, with that value.
ServedFlagsWereCommitted ==
    LET Committed(f) == f.version <= flag.version /\ f.enabled = ValueAt(f.version)
    IN  /\ \A p \in Procs : cache[p] # NoFlag => Committed(cache[p])
        /\ \A r \in Requests : request[r].stage = "gated" => Committed(request[r].flag)

\* The type invariant, the optimistic lock of the setters and what readers get
\* to see, in one
Inv == TypeOK /\ WriterIsCurrent /\ ServedFlagsWereCommitted

\* A toggle is immediate in its own process: no request that comes after set_flag
\* returned is gated on an older flag, however reads and toggles interleaved.
TogglesAreImmediateAtHome ==
    \A r \in Requests :
        request[r].stage = "gated" => request[r].flag.version >= request[r].since

-------------------------------------------------------------------------------
(* Liveness.                                                               *)

\* A toggle is not unseen forever elsewhere: once toggles cease, every process
\* caches the committed flag or nothing.
TogglesReachEveryProcess ==
    <>[](\A p \in Procs : cache[p] = NoFlag \/ cache[p] = flag)

===============================================================================
