--------------------------- MODULE AdmissionControl ---------------------------
(***************************************************************************)
(* Inference admission of backend/app/services/admission.py: the requests  *)
(* of one process (chat streams and background jobs) that share the "llm"  *)
(* budget, the waiter lanes and the pump of the hub, the holders in the    *)
(* admission store, which other processes share, renewal and expiry of     *)
(* slots, eviction of a background holder, cancellation and shutdown.      *)
(*                                                                         *)
(* Everything runs on one event loop: a step is the code between two       *)
(* awaits.  A store operation takes effect when its caller resumes, except *)
(* the pump's try_acquire and the occupancy read before an eviction, which *)
(* take effect when they are sent and are used when the caller resumes.    *)
(***************************************************************************)
EXTENDS Integers, Sequences, FiniteSets, SequencesExt

CONSTANTS
    Requests,    \* tasks that call admit once
    ClassOf,     \* the AdmissionClass of each: "chat" or "background"
    Remotes,     \* holders of other processes
    Budget,      \* slots of the budget key
    QueueMax,    \* queue_max_size
    Deadlined,   \* requests that came with a deadline
    Cancellable, \* where a request's task may be cancelled
    ShutsDown,   \* whether the process shuts down
    Nobody,      \* no request
    MaxOutages   \* bound: times the store becomes unreachable

Classes == {"chat", "background"}

Stages == {"idle", "counting", "roomy", "saturated", "evicting", "halting",
           "queued", "withdrawing", "running", "leaving", "done"}

\* The stages in which a request has a waiter.
Waiting == {"roomy", "saturated", "evicting", "halting", "queued"}

ASSUME ClassAssumption == ClassOf \in [Requests -> Classes]
ASSUME HolderAssumption == Requests \cap Remotes = {} /\ Nobody \notin Requests \cup Remotes
ASSUME BudgetAssumption == Budget \in Nat \ {0} /\ QueueMax \in Nat \ {0} /\ MaxOutages \in Nat
ASSUME ChoiceAssumption ==
    /\ Deadlined \subseteq Requests
    /\ Cancellable \subseteq Stages \cup {"granted"}
    /\ ShutsDown \in BOOLEAN

VARIABLES
    task,      \* where each request's task is
    cancelled, \* tasks that have been cancelled: cancelling() > 0
    future,    \* the future each waiter parks on
    victim,    \* the holder a request is evicting
    lease,     \* the _Lease of each request
    lane,      \* the hub's waiter lane of each class
    pump,      \* the hub's pump
    store,     \* live holders of the budget key
    up,        \* this process can reach the store
    outages,   \* outages so far
    shut       \* shutdown: its stage and the leases it has yet to release

vars == <<task, cancelled, future, victim, lease, lane, pump, store, up, outages, shut>>

\* stage: the release of the lease, run by the request's task or by shutdown.
\* bound: the slot is in the store; renewer: the heartbeat task;
\* listed, local: the lease is in _active_leases, in _local_actives.
Lease == [stage : {"none", "held", "stopping", "freeing", "over"},
          by : {"task", "shutdown"},
          bound : BOOLEAN, revoked : BOOLEAN, listed : BOOLEAN, local : BOOLEAN,
          renewer : {"none", "live", "cancelled", "ended"}]

NoLease == [stage |-> "none", by |-> "task", bound |-> FALSE, revoked |-> FALSE,
            listed |-> FALSE, local |-> FALSE, renewer |-> "none"]

GrantedLease(bound) ==
    [stage |-> "held", by |-> "task", bound |-> bound, revoked |-> FALSE,
     listed |-> TRUE, local |-> TRUE, renewer |-> IF bound THEN "live" ELSE "none"]

Pump == [stage : {"off", "looking", "trying"}, class : Classes,
         waiter : Requests \cup {Nobody}, got : {"refused", "slot", "open"}, dirty : BOOLEAN]

PumpAt(class) == [stage |-> "looking", class |-> class, waiter |-> Nobody,
                  got |-> "refused", dirty |-> FALSE]
PumpOff == [PumpAt("chat") EXCEPT !.stage = "off"]

TypeOK ==
    /\ task \in [Requests -> Stages]
    /\ cancelled \subseteq Requests
    /\ future \in [Requests -> {"pending", "granted", "rejected", "cancelled"}]
    /\ victim \in [Requests -> Requests \cup {Nobody}]
    /\ lease \in [Requests -> Lease]
    /\ lane \in [Classes -> Seq(Requests)]
    /\ pump \in Pump
    /\ store \subseteq Requests \cup Remotes
    /\ up \in BOOLEAN
    /\ outages \in 0..MaxOutages
    /\ shut \in [stage : {"off", "on", "over"}, todo : SUBSET Requests]

Init ==
    /\ task = [r \in Requests |-> "idle"]
    /\ cancelled = {}
    /\ future = [r \in Requests |-> "pending"]
    /\ victim = [r \in Requests |-> Nobody]
    /\ lease = [r \in Requests |-> NoLease]
    /\ lane = [c \in Classes |-> <<>>]
    /\ pump = PumpOff
    /\ store = {}
    /\ up = TRUE
    /\ outages = 0
    /\ shut = [stage |-> "off", todo |-> {}]

-------------------------------------------------------------------------------
InLane(r) == r \in Range(lane[ClassOf[r]])
Unregistered(r) == [lane EXCEPT ![ClassOf[r]] = RemoveFirst(@, r)]
HasRoom == Cardinality(store) < Budget

\* A store operation that fails leaves the entry to its TTL.
StoreWithout(h) == IF up THEN store \ {h} ELSE store

\* Deviation, for a mutant: a release during a run of the pump goes unnoticed.
SchedulePumpOnce == pump' = IF pump.stage = "off" THEN PumpAt("chat") ELSE pump

\* _Hub.schedule_pump: start the pump, or tell the running one to run again.
SchedulePump ==
    pump' = IF pump.stage = "off" THEN PumpAt("chat") ELSE [pump EXCEPT !.dirty = TRUE]

\* _Lease.release up to its first await, by the task or by shutdown.
Released(r, by) ==
    [lease EXCEPT ![r].stage = "stopping", ![r].by = by,
                  ![r].renewer = IF @ = "live" THEN "cancelled" ELSE @]

\* The task leaves admit: release is a no-op if the lease was released before.
LeaveAdmit(r) ==
    IF lease[r].stage = "held"
    THEN task' = [task EXCEPT ![r] = "leaving"] /\ lease' = Released(r, "task")
    ELSE task' = [task EXCEPT ![r] = "done"] /\ UNCHANGED lease

-------------------------------------------------------------------------------
(* A request: admit, _acquire, _maybe_preempt.                             *)

Begin(r) ==
    /\ task[r] = "idle"
    /\ task' = [task EXCEPT ![r] = IF shut.stage = "off" THEN "counting" ELSE "done"]
    /\ UNCHANGED <<cancelled, future, victim, lease, lane, pump, store, up, outages, shut>>

\* The queue bound, then the waiter joins its lane; an unreachable store has none.
Count(r) ==
    /\ task[r] = "counting"
    /\ \/ /\ up
          /\ Cardinality(store) + Len(lane[ClassOf[r]]) >= QueueMax
          /\ task' = [task EXCEPT ![r] = "done"]
          /\ UNCHANGED <<lane, pump>>
       \/ /\ up => Cardinality(store) + Len(lane[ClassOf[r]]) < QueueMax
          /\ lane' = [lane EXCEPT ![ClassOf[r]] = Append(@, r)]
          /\ IF ClassOf[r] = "chat"
             THEN /\ task' = [task EXCEPT ![r] =
                                IF up /\ ~HasRoom THEN "saturated" ELSE "roomy"]
                  /\ UNCHANGED pump
             ELSE /\ task' = [task EXCEPT ![r] = "queued"]
                  /\ SchedulePump
    /\ UNCHANGED <<cancelled, future, victim, lease, store, up, outages, shut>>

\* Background leases of this process on the key.
Evictable == {v \in Requests : lease[v].local /\ ClassOf[v] = "background"}

\* Nothing to evict: there was room, or no background holder is ours.
Park(r) ==
    /\ \/ task[r] = "roomy"
       \/ task[r] = "saturated" /\ Evictable = {}
    /\ task' = [task EXCEPT ![r] = "queued"]
    /\ SchedulePump
    /\ UNCHANGED <<cancelled, future, victim, lease, lane, store, up, outages, shut>>

\* One background holder is revoked and forgotten; its task keeps running.
Evict(r) ==
    /\ task[r] = "saturated"
    /\ \E v \in Evictable :
          /\ victim' = [victim EXCEPT ![r] = v]
          /\ lease' = [lease EXCEPT ![v].revoked = TRUE,
                                    ![v].listed = FALSE, ![v].local = FALSE]
    /\ task' = [task EXCEPT ![r] = "evicting"]
    /\ UNCHANGED <<cancelled, future, lane, pump, store, up, outages, shut>>

\* Its slot is given back, then its renewal is stopped.
FreeVictim(r) ==
    /\ task[r] = "evicting"
    /\ store' = StoreWithout(victim[r])
    /\ lease' = [lease EXCEPT ![victim[r]].renewer = IF @ = "live" THEN "cancelled" ELSE @]
    /\ task' = [task EXCEPT ![r] = "halting"]
    /\ UNCHANGED <<cancelled, future, victim, lane, pump, up, outages, shut>>

HaltVictim(r) ==
    /\ task[r] = "halting"
    /\ lease' = [lease EXCEPT ![victim[r]].renewer = "none"]
    /\ victim' = [victim EXCEPT ![r] = Nobody]
    /\ task' = [task EXCEPT ![r] = "queued"]
    /\ SchedulePump
    /\ UNCHANGED <<cancelled, future, lane, store, up, outages, shut>>

\* The parked task resumes with a lease, or with shutdown's rejection.
Wake(r) ==
    /\ task[r] = "queued"
    /\ future[r] \in {"granted", "rejected"}
    /\ task' = [task EXCEPT ![r] = IF future[r] = "granted" THEN "running" ELSE "done"]
    /\ UNCHANGED <<cancelled, future, victim, lease, lane, pump, store, up, outages, shut>>

\* The deadline of a parked request passes, even if its answer has just come.
Expire(r) ==
    /\ r \in Deadlined
    /\ task[r] = "queued"
    /\ future' = [future EXCEPT ![r] = IF @ = "pending" THEN "cancelled" ELSE @]
    /\ task' = [task EXCEPT ![r] = "withdrawing"]
    /\ UNCHANGED <<cancelled, victim, lease, lane, pump, store, up, outages, shut>>

\* _unregister, and _release_orphan_lease if the pump delivered one meanwhile.
Withdraw(r) ==
    /\ task[r] = "withdrawing"
    /\ lane' = Unregistered(r)
    /\ future' = [future EXCEPT ![r] = IF @ = "pending" THEN "cancelled" ELSE @]
    /\ victim' = [victim EXCEPT ![r] = Nobody]
    /\ IF lease[r].listed
       THEN LeaveAdmit(r)
       ELSE task' = [task EXCEPT ![r] = "done"] /\ UNCHANGED lease
    /\ UNCHANGED <<cancelled, pump, store, up, outages, shut>>

\* The admitted work ends and the task leaves admit.
Finish(r) ==
    /\ task[r] = "running"
    /\ LeaveAdmit(r)
    /\ UNCHANGED <<cancelled, future, victim, lane, pump, store, up, outages, shut>>

-------------------------------------------------------------------------------
(* _Lease.release after its first await; _renew_loop.                      *)

TaskOver(r) ==
    task' = IF lease[r].by = "task" THEN [task EXCEPT ![r] = "done"] ELSE task

\* _stop_renewal re-raises when the releasing task was itself cancelled.
Reraises(r) ==
    lease[r].by = "task" /\ r \in cancelled /\ lease[r].renewer = "cancelled"

\* The release ends there: the slot stays in the store and the lease listed.
AbortRelease(r) ==
    /\ lease[r].stage = "stopping"
    /\ Reraises(r)
    /\ lease' = [lease EXCEPT ![r].stage = "over"]
    /\ TaskOver(r)
    /\ UNCHANGED <<cancelled, future, victim, lane, pump, store, up, outages, shut>>

Forget(r) ==
    /\ lease[r].stage = "stopping"
    /\ ~Reraises(r)
    /\ LET forgotten == [lease[r] EXCEPT !.listed = FALSE, !.local = FALSE, !.renewer = "none"]
       IN  IF lease[r].bound /\ ~lease[r].revoked
           THEN /\ lease' = [lease EXCEPT ![r] = [forgotten EXCEPT !.stage = "freeing"]]
                /\ UNCHANGED <<task, pump>>
           ELSE /\ lease' = [lease EXCEPT ![r] = [forgotten EXCEPT !.stage = "over"]]
                /\ TaskOver(r)
                /\ SchedulePump
    /\ UNCHANGED <<cancelled, future, victim, lane, store, up, outages, shut>>

Free(r) ==
    /\ lease[r].stage = "freeing"
    /\ store' = StoreWithout(r)
    /\ lease' = [lease EXCEPT ![r].stage = "over"]
    /\ TaskOver(r)
    /\ SchedulePump
    /\ UNCHANGED <<cancelled, future, victim, lane, up, outages, shut>>

\* A refresh finds the slot gone: the lease is revoked, its renewal ends.
RenewMiss(r) ==
    /\ lease[r].renewer = "live"
    /\ up
    /\ r \notin store
    /\ lease' = [lease EXCEPT ![r].revoked = TRUE, ![r].renewer = "ended"]
    /\ UNCHANGED <<task, cancelled, future, victim, lane, pump, store, up, outages, shut>>

-------------------------------------------------------------------------------
(* The pump: chat waiters first, each lane in order until a refusal.       *)

NextLane(p) ==
    IF p.class = "chat"
    THEN [PumpAt("background") EXCEPT !.dirty = p.dirty]
    ELSE IF p.dirty THEN PumpAt("chat") ELSE PumpOff

\* The lane is empty: the next one, or the end of the run and its re-run.
PumpAdvance ==
    /\ pump.stage = "looking"
    /\ lane[pump.class] = <<>>
    /\ pump' = NextLane(pump)
    /\ UNCHANGED <<task, cancelled, future, victim, lease, lane, store, up, outages, shut>>

\* A waiter whose future is done leaves the lane.
PumpDrop ==
    /\ pump.stage = "looking"
    /\ lane[pump.class] # <<>>
    /\ future[Head(lane[pump.class])] # "pending"
    /\ lane' = [lane EXCEPT ![pump.class] = Tail(@)]
    /\ UNCHANGED <<task, cancelled, future, victim, lease, pump, store, up, outages, shut>>

\* Deviation: the acquire does not check the budget.
PumpTryUnbounded ==
    /\ pump.stage = "looking"
    /\ lane[pump.class] # <<>>
    /\ LET w == Head(lane[pump.class])
       IN  /\ future[w] = "pending"
           /\ store' = store \cup {w}
           /\ pump' = [pump EXCEPT !.stage = "trying", !.waiter = w, !.got = "slot"]
    /\ UNCHANGED <<task, cancelled, future, victim, lease, lane, up, outages, shut>>

\* try_acquire for the head of the lane; an unreachable store admits.
PumpTry ==
    /\ pump.stage = "looking"
    /\ lane[pump.class] # <<>>
    /\ LET w == Head(lane[pump.class])
           trying == [pump EXCEPT !.stage = "trying", !.waiter = w]
       IN  /\ future[w] = "pending"
           /\ \/ up /\ HasRoom  /\ store' = store \cup {w} /\ pump' = [trying EXCEPT !.got = "slot"]
              \/ up /\ ~HasRoom /\ store' = store /\ pump' = [trying EXCEPT !.got = "refused"]
              \/ ~up            /\ store' = store /\ pump' = [trying EXCEPT !.got = "open"]
    /\ UNCHANGED <<task, cancelled, future, victim, lease, lane, up, outages, shut>>

PumpRefused ==
    /\ pump.stage = "trying"
    /\ pump.got = "refused"
    /\ pump' = NextLane(pump)
    /\ UNCHANGED <<task, cancelled, future, victim, lease, lane, store, up, outages, shut>>

\* Deviation: the slot acquired for a waiter that left is not given back.
PumpGrantKeeps ==
    /\ pump.stage = "trying"
    /\ pump.got # "refused"
    /\ LET w == pump.waiter
       IN  IF InLane(w) /\ future[w] = "pending"
           THEN /\ lease' = [lease EXCEPT ![w] = GrantedLease(pump.got = "slot")]
                /\ future' = [future EXCEPT ![w] = "granted"]
           ELSE UNCHANGED <<lease, future>>
    /\ lane' = Unregistered(pump.waiter)
    /\ pump' = [PumpAt(pump.class) EXCEPT !.dirty = pump.dirty]
    /\ UNCHANGED <<task, cancelled, victim, store, up, outages, shut>>

\* _admit_waiter after the acquire: a lease, or the slot back if nobody waits.
PumpGrant ==
    /\ pump.stage = "trying"
    /\ pump.got # "refused"
    /\ LET w == pump.waiter
       IN  IF InLane(w) /\ future[w] = "pending"
           THEN /\ lease' = [lease EXCEPT ![w] = GrantedLease(pump.got = "slot")]
                /\ future' = [future EXCEPT ![w] = "granted"]
                /\ UNCHANGED store
           ELSE /\ store' = IF pump.got = "slot" THEN StoreWithout(w) ELSE store
                /\ UNCHANGED <<lease, future>>
    /\ lane' = Unregistered(pump.waiter)
    /\ pump' = [PumpAt(pump.class) EXCEPT !.dirty = pump.dirty]
    /\ UNCHANGED <<task, cancelled, victim, up, outages, shut>>

-------------------------------------------------------------------------------
(* Cancellation: a client disconnects, or a worker is stopped.             *)

\* Where a cancellation finds the task; "granted" is a waiter with its lease.
Found(r) ==
    IF task[r] \in Waiting \cup {"withdrawing"} /\ future[r] = "granted"
    THEN "granted" ELSE task[r]

\* The task is parked or about to resume: it withdraws when it does.
CancelWaiter(r) ==
    /\ task[r] \in {"roomy", "saturated", "halting", "queued", "withdrawing"}
    /\ task' = [task EXCEPT ![r] = "withdrawing"]
    /\ future' = [future EXCEPT ![r] =
                     IF task[r] = "queued" /\ @ = "pending" THEN "cancelled" ELSE @]
    /\ UNCHANGED <<lease, store>>

\* In a store operation, which may or may not have reached the store.
CancelEviction(r) ==
    /\ task[r] = "evicting"
    /\ task' = [task EXCEPT ![r] = "withdrawing"]
    /\ store' \in {store, StoreWithout(victim[r])}
    /\ UNCHANGED <<future, lease>>

CancelFree(r) ==
    /\ task[r] = "leaving"
    /\ lease[r].stage = "freeing"
    /\ task' = [task EXCEPT ![r] = "done"]
    /\ lease' = [lease EXCEPT ![r].stage = "over"]
    /\ store' \in {store, StoreWithout(r)}
    /\ UNCHANGED future

Cancel(r) ==
    /\ Found(r) \in Cancellable
    /\ r \notin cancelled
    /\ cancelled' = cancelled \cup {r}
    /\ \/ /\ task[r] = "counting"
          /\ task' = [task EXCEPT ![r] = "done"]
          /\ UNCHANGED <<future, lease, store>>
       \/ CancelWaiter(r)
       \/ CancelEviction(r)
       \/ task[r] = "running" /\ LeaveAdmit(r) /\ UNCHANGED <<future, store>>
       \/ /\ task[r] = "leaving"
          /\ lease[r].stage = "stopping"
          /\ UNCHANGED <<task, future, lease, store>>
       \/ CancelFree(r)
    /\ UNCHANGED <<victim, lane, pump, up, outages, shut>>

-------------------------------------------------------------------------------
(* AdmissionController.shutdown.                                           *)

ShutBegin ==
    /\ ShutsDown
    /\ shut.stage = "off"
    /\ shut' = [stage |-> "on", todo |-> {r \in Requests : lease[r].listed}]
    /\ UNCHANGED <<task, cancelled, future, victim, lease, lane, pump, store, up, outages>>

ShutReleasing ==
    \E r \in Requests : lease[r].by = "shutdown" /\ lease[r].stage \in {"stopping", "freeing"}

\* One lease after the other; those released by their task are skipped.
ShutRelease(r) ==
    /\ shut.stage = "on"
    /\ r \in shut.todo
    /\ ~ShutReleasing
    /\ shut' = [shut EXCEPT !.todo = @ \ {r}]
    /\ lease' = IF lease[r].stage = "held" THEN Released(r, "shutdown") ELSE lease
    /\ UNCHANGED <<task, cancelled, future, victim, lane, pump, store, up, outages>>

\* Deviation: the lanes are emptied and their waiters left without an answer.
ShutEndSilently ==
    /\ shut.stage = "on"
    /\ shut.todo = {}
    /\ ~ShutReleasing
    /\ shut' = [shut EXCEPT !.stage = "over"]
    /\ lease' = [r \in Requests |-> [lease[r] EXCEPT !.local = FALSE]]
    /\ lane' = [c \in Classes |-> <<>>]
    /\ SchedulePump
    /\ UNCHANGED <<task, cancelled, future, victim, store, up, outages>>

RejectOwnWaiters ==
    /\ future' = [r \in Requests |->
                     IF InLane(r) /\ future[r] = "pending" THEN "rejected" ELSE future[r]]
    /\ lane' = [c \in Classes |-> <<>>]

\* _local_actives is cleared, the waiters are rejected, the pump is scheduled.
ShutEnd ==
    /\ shut.stage = "on"
    /\ shut.todo = {}
    /\ ~ShutReleasing
    /\ shut' = [shut EXCEPT !.stage = "over"]
    /\ lease' = [r \in Requests |-> [lease[r] EXCEPT !.local = FALSE]]
    /\ RejectOwnWaiters
    /\ SchedulePump
    /\ UNCHANGED <<task, cancelled, victim, store, up, outages>>

-------------------------------------------------------------------------------
(* The store: other processes, expiry, outages.                            *)

RemoteAcquire(h) ==
    /\ h \notin store
    /\ HasRoom
    /\ store' = store \cup {h}
    /\ UNCHANGED <<task, cancelled, future, victim, lease, lane, pump, up, outages, shut>>

RemoteRelease(h) ==
    /\ h \in store
    /\ store' = store \ {h}
    /\ UNCHANGED <<task, cancelled, future, victim, lease, lane, pump, up, outages, shut>>

\* The TTL of an entry nobody renews passes; a sweep drops it.
Lapse(r) ==
    /\ r \in store
    /\ up => lease[r].renewer # "live"
    /\ ~(pump.stage = "trying" /\ pump.waiter = r)
    /\ store' = store \ {r}
    /\ UNCHANGED <<task, cancelled, future, victim, lease, lane, pump, up, outages, shut>>

GoDown ==
    /\ up
    /\ outages < MaxOutages
    /\ up' = FALSE
    /\ outages' = outages + 1
    /\ UNCHANGED <<task, cancelled, future, victim, lease, lane, pump, store, shut>>

ComeUp ==
    /\ ~up
    /\ up' = TRUE
    /\ UNCHANGED <<task, cancelled, future, victim, lease, lane, pump, store, outages, shut>>

-------------------------------------------------------------------------------
Resume(r) ==
    \/ Count(r) \/ Park(r) \/ Evict(r) \/ FreeVictim(r) \/ HaltVictim(r)
    \/ Wake(r) \/ Withdraw(r)

ReleaseStep(r) == AbortRelease(r) \/ Forget(r) \/ Free(r)

PumpStep == PumpAdvance \/ PumpDrop \/ PumpTry \/ PumpRefused \/ PumpGrant

Shutdown == ShutBegin \/ (\E r \in Requests : ShutRelease(r)) \/ ShutEnd

Next ==
    \/ \E r \in Requests :
          \/ Begin(r) \/ Resume(r) \/ Expire(r) \/ Finish(r) \/ Cancel(r)
          \/ ReleaseStep(r) \/ RenewMiss(r) \/ Lapse(r)
    \/ \E h \in Remotes : RemoteAcquire(h) \/ RemoteRelease(h)
    \/ PumpStep
    \/ Shutdown
    \/ GoDown \/ ComeUp

Spec == Init /\ [][Next]_vars

\* The event loop runs every ready task, store calls return, and admitted work
\* ends (its own timeouts bound it).
Fairness ==
    /\ WF_vars(PumpStep)
    /\ \A r \in Requests :
          WF_vars(Resume(r)) /\ WF_vars(ReleaseStep(r)) /\ WF_vars(Finish(r))

FairSpec == Spec /\ Fairness

-------------------------------------------------------------------------------
(* Safety.                                                                 *)

Counted == {r \in Requests : lease[r].stage = "held" /\ lease[r].bound /\ ~lease[r].revoked}

\* The device runs at most Budget admitted requests over all processes: the
\* store never holds more, and unless it was unreachable every lease that was
\* neither evicted nor released still has its slot there.
OneBudget ==
    /\ Cardinality(store) <= Budget
    /\ outages = 0 => Counted \subseteq store

\* The type invariant and the budget, in one
Inv == TypeOK /\ OneBudget

\* A request that still waits for an answer is in its lane, where the pump finds
\* it; one that withdrew is not, so no lease is made for nobody.
WaitersAreQueued ==
    \A r \in Requests :
        /\ task[r] \in Waiting /\ future[r] = "pending" => InLane(r)
        /\ InLane(r) => task[r] \in Waiting \cup {"withdrawing"}

\* Every slot of this process is being handed to a waiter or belongs to a lease
\* that will give it back: none is left for its TTL to reap.
SlotsHaveOwners ==
    \A r \in store \cap Requests :
        \/ pump.stage = "trying" /\ pump.waiter = r
        \/ lease[r].stage \in {"held", "stopping", "freeing"}
        \/ \E e \in Requests : task[e] = "evicting" /\ victim[e] = r

-------------------------------------------------------------------------------
(* Liveness.                                                               *)

\* No wakeup is lost: every queued request is answered.
QueuedRequestsAreAnswered ==
    \A r \in Requests : task[r] = "queued" ~> task[r] # "queued"

===============================================================================
