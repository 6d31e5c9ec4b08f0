---------------------------- MODULE ConnectionPool ----------------------------
(***************************************************************************)
(* SQLiteConnectionPool of backend/app/models/database.py: checkouts by    *)
(* several threads, creation outside the pool's lock, validation and       *)
(* discard of idle connections, waiting at capacity, cancelled async       *)
(* checkouts, release, and close_all on another thread.                    *)
(*                                                                         *)
(* The queue has its own lock: a get or a put is one step whatever the     *)
(* pool's lock does, and the pool's lock guards only the count, the closed *)
(* flag and the drain of close_all.                                        *)
(***************************************************************************)
EXTENDS Integers, FiniteSets

CONSTANTS
    Threads,     \* callers: request handlers, executor workers, background threads
    Conns,       \* identities of connections
    MaxSize,     \* max_size
    MaxAttempts, \* max_wait_attempts
    NoConn,      \* no connection
    MaxCheckouts, \* bound: checkouts in a behaviour
    Closes        \* whether close_all is called

ASSUME ThreadsAssumption == IsFiniteSet(Threads)
ASSUME ConnsAssumption == IsFiniteSet(Conns) /\ NoConn \notin Conns
ASSUME SizeAssumption == MaxSize \in Nat \ {0} /\ MaxAttempts \in Nat \ {0}
ASSUME BoundsAssumption == MaxCheckouts \in Nat /\ Closes \in BOOLEAN

VARIABLES
    phase,    \* the pool is open, or close_all is draining it, or it is closed
    created,  \* _created_count
    idle,     \* connections in the queue
    open,     \* connections that are not closed
    dirty,    \* connections in an open transaction
    broken,   \* connections whose validation will fail
    thread,   \* what each caller is doing, and with which connection
    started   \* checkouts so far

vars == <<phase, created, idle, open, dirty, broken, thread, started>>

\* late: the checkout's deadline has passed; cancelled: its awaiting task was.
Thread == [stage : {"out", "queued", "entering", "looking", "wanting", "probing",
                    "discarding", "creating", "minted", "blocked", "holding",
                    "returning"},
           conn : Conns \cup {NoConn}, attempts : 0..MaxAttempts,
           late : BOOLEAN, cancelled : BOOLEAN]

Out == [stage |-> "out", conn |-> NoConn, attempts |-> 0, late |-> FALSE, cancelled |-> FALSE]

TypeOK ==
    /\ phase \in {"open", "draining", "closed"}
    /\ created \in 0..MaxSize
    /\ idle \subseteq Conns
    /\ open \subseteq Conns
    /\ dirty \subseteq Conns
    /\ broken \subseteq Conns
    /\ thread \in [Threads -> Thread]
    /\ started \in 0..MaxCheckouts

Init ==
    /\ phase = "open"
    /\ created = 0
    /\ idle = {}
    /\ open = {}
    /\ dirty = {}
    /\ broken = {}
    /\ thread = [t \in Threads |-> Out]
    /\ started = 0

-------------------------------------------------------------------------------
\* The pool's lock is free.
Unlocked == phase # "draining"

At(t, stage) == [thread EXCEPT ![t].stage = stage]
AtWith(t, stage, c) == [thread EXCEPT ![t].stage = stage, ![t].conn = c]
Left(t) == [thread EXCEPT ![t] = Out]

\* The connection is closed: its transaction is gone with it.
Close(c) ==
    /\ open' = open \ {c}
    /\ dirty' = dirty \ {c}
    /\ broken' = broken \ {c}

\* A caller submits a checkout to the executor; a closed pool refuses it.
Checkout(t) ==
    /\ thread[t].stage = "out"
    /\ started < MaxCheckouts
    /\ phase = "open"
    /\ started' = started + 1
    /\ thread' = At(t, "queued")
    /\ UNCHANGED <<phase, created, idle, open, dirty, broken>>

\* A worker begins the checkout, or comes back to the top of its wait loop: it
\* looks at the closed flag.
Enter(t) ==
    /\ thread[t].stage \in {"queued", "entering"}
    /\ thread' = IF phase = "open" THEN At(t, "looking") ELSE Left(t)
    /\ UNCHANGED <<phase, created, idle, open, dirty, broken, started>>

\* An idle connection comes out of the queue, at once or after a wait.
TakeIdle(t) ==
    /\ thread[t].stage \in {"looking", "blocked"}
    /\ \E c \in idle :
          /\ idle' = idle \ {c}
          /\ thread' = AtWith(t, "probing", c)
    /\ UNCHANGED <<phase, created, open, dirty, broken, started>>

\* The queue was empty: whatever returns to it from now on goes unnoticed.
FindEmpty(t) ==
    /\ thread[t].stage = "looking"
    /\ idle = {}
    /\ thread' = At(t, "wanting")
    /\ UNCHANGED <<phase, created, idle, open, dirty, broken, started>>

\* Give up at the deadline, or under the lock reserve a slot or wait at capacity.
GiveUp(t) ==
    /\ thread[t].stage = "wanting"
    /\ thread[t].late
    /\ thread' = Left(t)
    /\ UNCHANGED <<phase, created, idle, open, dirty, broken, started>>

\* A slot is taken under the lock; Reserve looks at the limit first.
TakeSlot(t) ==
    /\ thread[t].stage = "wanting"
    /\ ~thread[t].late
    /\ Unlocked
    /\ created' = created + 1
    /\ thread' = At(t, "creating")
    /\ UNCHANGED <<phase, idle, open, dirty, broken, started>>

Reserve(t) == created < MaxSize /\ TakeSlot(t)

Block(t) ==
    /\ thread[t].stage = "wanting"
    /\ ~thread[t].late
    /\ Unlocked
    /\ created >= MaxSize
    /\ thread' = At(t, "blocked")
    /\ UNCHANGED <<phase, created, idle, open, dirty, broken, started>>

\* Deviation: a wait without a timeout.
WaitForever(t) == FALSE /\ UNCHANGED vars

\* The wait of one attempt ends with the queue still empty.
WaitTimesOut(t) ==
    /\ thread[t].stage = "blocked"
    /\ idle = {}
    /\ thread' = IF thread[t].attempts + 1 < MaxAttempts
                 THEN [thread EXCEPT ![t].stage = "entering", ![t].attempts = @ + 1]
                 ELSE Left(t)
    /\ UNCHANGED <<phase, created, idle, open, dirty, broken, started>>

\* The probe passes and the connection is handed out.
Validate(t) ==
    /\ thread[t].stage = "probing"
    /\ thread[t].conn \notin broken
    /\ thread' = At(t, "holding")
    /\ UNCHANGED <<phase, created, idle, open, dirty, broken, started>>

\* The probe fails, on a broken connection or a locked database: the slot is given
\* back first and the connection closed after it, so that for a moment more
\* connections are open than the count says.
Discard(t) ==
    /\ thread[t].stage = "probing"
    /\ Unlocked
    /\ created' = created - 1
    /\ thread' = At(t, "discarding")
    /\ UNCHANGED <<phase, idle, open, dirty, broken, started>>

CloseDiscarded(t) ==
    /\ thread[t].stage = "discarding"
    /\ Close(thread[t].conn)
    /\ thread' = IF thread[t].late THEN Left(t) ELSE AtWith(t, "entering", NoConn)
    /\ UNCHANGED <<phase, created, idle, started>>

\* _create_connection succeeds before the deadline.
Create(t) ==
    /\ thread[t].stage = "creating"
    /\ ~thread[t].late
    /\ \E c \in Conns \ open :
          /\ open' = open \cup {c}
          /\ thread' = AtWith(t, "minted", c)
    /\ UNCHANGED <<phase, created, idle, dirty, broken, started>>

\* Deviation: a creation that raises keeps its slot.
CreateFailsLeaking(t) ==
    /\ thread[t].stage = "creating"
    /\ Unlocked
    /\ thread' = Left(t)
    /\ UNCHANGED <<phase, created, idle, open, dirty, broken, started>>

\* It raises, or the deadline passed before its turn: the slot is given back.
CreateFails(t) ==
    /\ thread[t].stage = "creating"
    /\ Unlocked
    /\ created' = created - 1
    /\ thread' = Left(t)
    /\ UNCHANGED <<phase, idle, open, dirty, broken, started>>

\* A connection minted by an open pool is handed out, one of a closed pool is not.
HandOut(t) ==
    /\ thread[t].stage = "minted"
    /\ phase = "open"
    /\ thread' = At(t, "holding")
    /\ UNCHANGED <<phase, created, idle, open, dirty, broken, started>>

RefuseMinted(t) ==
    /\ thread[t].stage = "minted"
    /\ phase = "closed"
    /\ created' = created - 1
    /\ Close(thread[t].conn)
    /\ thread' = Left(t)
    /\ UNCHANGED <<phase, idle, started>>

-------------------------------------------------------------------------------
\* The borrower opens a transaction, or its connection breaks.
Use(t) ==
    /\ thread[t].stage = "holding"
    /\ ~thread[t].cancelled
    /\ \/ dirty' = dirty \cup {thread[t].conn} /\ UNCHANGED broken
       \/ broken' = broken \cup {thread[t].conn} /\ UNCHANGED dirty
    /\ UNCHANGED <<phase, created, idle, open, thread, started>>

\* Deviation: an open transaction goes back with its connection.
ReleaseDirty(t) ==
    /\ thread[t].stage = "holding"
    /\ IF phase = "open"
       THEN thread' = At(t, "returning") /\ UNCHANGED <<open, dirty, broken>>
       ELSE Close(thread[t].conn) /\ thread' = Left(t)
    /\ UNCHANGED <<phase, created, idle, started>>

\* release_connection by the borrower, or by the done-callback of a checkout
\* whose task was cancelled: rolled back (which a broken one may refuse), or
\* closed with the pool.
Release(t) ==
    /\ thread[t].stage = "holding"
    /\ IF phase = "open"
       THEN /\ \/ dirty' = dirty \ {thread[t].conn}
               \/ thread[t].conn \in broken /\ UNCHANGED dirty
            /\ thread' = At(t, "returning")
            /\ UNCHANGED <<open, broken>>
       ELSE /\ Close(thread[t].conn)
            /\ thread' = Left(t)
    /\ UNCHANGED <<phase, created, idle, started>>

\* The connection goes back to the queue; a full queue closes it.
Return(t) ==
    /\ thread[t].stage = "returning"
    /\ IF Cardinality(idle) < MaxSize
       THEN /\ idle' = idle \cup {thread[t].conn}
            /\ UNCHANGED <<open, dirty, broken>>
       ELSE Close(thread[t].conn) /\ UNCHANGED idle
    /\ thread' = Left(t)
    /\ UNCHANGED <<phase, created, started>>

\* Deviation: the worker's connection is dropped with the task.
CancelDropping(t) ==
    /\ thread[t].stage \in {"probing", "minted"}
    /\ thread' = Left(t)
    /\ UNCHANGED <<phase, created, idle, open, dirty, broken, started>>

\* The task that awaits a checkout is cancelled: a worker that has begun goes on,
\* a checkout still queued may never begin.
Cancel(t) ==
    /\ thread[t].stage \notin {"out", "returning"}
    /\ ~thread[t].cancelled
    /\ \/ thread' = [thread EXCEPT ![t].cancelled = TRUE]
       \/ thread[t].stage = "queued" /\ thread' = Left(t)
    /\ UNCHANGED <<phase, created, idle, open, dirty, broken, started>>

DeadlinePasses(t) ==
    /\ thread[t].stage \notin {"out", "holding", "returning"}
    /\ ~thread[t].late
    /\ thread' = [thread EXCEPT ![t].late = TRUE]
    /\ UNCHANGED <<phase, created, idle, open, dirty, broken, started>>

-------------------------------------------------------------------------------
(* close_all: the flag, the drain, the end of both.                        *)

CloseBegin ==
    /\ Closes
    /\ phase = "open"
    /\ phase' = "draining"
    /\ UNCHANGED <<created, idle, open, dirty, broken, thread, started>>

Drain ==
    /\ phase = "draining"
    /\ \E c \in idle : idle' = idle \ {c} /\ Close(c)
    /\ UNCHANGED <<phase, created, thread, started>>

CloseEnd ==
    /\ phase = "draining"
    /\ idle = {}
    /\ phase' = "closed"
    /\ UNCHANGED <<created, idle, open, dirty, broken, thread, started>>

-------------------------------------------------------------------------------
CheckoutStep(t) ==
    \/ Enter(t) \/ TakeIdle(t) \/ FindEmpty(t) \/ GiveUp(t) \/ Reserve(t)
    \/ Block(t) \/ WaitTimesOut(t) \/ Validate(t) \/ Discard(t) \/ CloseDiscarded(t)
    \/ Create(t) \/ CreateFails(t) \/ HandOut(t) \/ RefuseMinted(t)

Next ==
    \/ \E t \in Threads :
          \/ Checkout(t) \/ CheckoutStep(t) \/ Use(t) \/ Release(t) \/ Return(t)
          \/ Cancel(t) \/ DeadlinePasses(t)
    \/ CloseBegin \/ Drain \/ CloseEnd

Spec == Init /\ [][Next]_vars

\* The probe and the creation are bounded by SQLite's timeouts, every wait by its
\* attempt's budget, and time passes; close_all runs to its end.
Fairness ==
    /\ \A t \in Threads : WF_vars(CheckoutStep(t)) /\ WF_vars(DeadlinePasses(t))
    /\ WF_vars(Drain \/ CloseEnd)

FairSpec == Spec /\ Fairness

-------------------------------------------------------------------------------
(* Safety.                                                                 *)

Carriers == {t \in Threads : thread[t].conn # NoConn}

\* Open connections the pool has not given up on.
Kept ==
    {c \in open : \A t \in Threads : thread[t].stage = "discarding" => thread[t].conn # c}

Creators == {t \in Threads : thread[t].stage = "creating"}

\* The count that limits creation is exact while the pool is open: the connections
\* it keeps and the slots reserved for a creation, whatever failed.
CountIsExact ==
    phase = "open" => created = Cardinality(Kept) + Cardinality(Creators)

\* Every open connection is in the queue or with one caller, and with one only:
\* none is shared, and none is lost by a cancelled or a failed checkout.  The
\* queue of a closed pool counts.
EveryConnectionHasOnePlace ==
    /\ idle \subseteq open
    /\ \A t \in Carriers : thread[t].conn \in open \ idle
    /\ \A t, u \in Carriers : thread[t].conn = thread[u].conn => t = u
    /\ open = idle \cup {thread[t].conn : t \in Carriers}

\* A borrower never inherits the transaction of an earlier one.
NoInheritedTransaction ==
    [][\A t \in Threads :
          thread[t].stage # "holding" /\ thread'[t].stage = "holding"
             => thread[t].conn \notin dirty]_vars

-------------------------------------------------------------------------------
(* Liveness.                                                               *)

\* Every checkout ends, with a connection or without one.
EveryCheckoutEnds ==
    \A t \in Threads :
        thread[t].stage = "queued" ~> thread[t].stage \in {"out", "holding"}

===============================================================================
