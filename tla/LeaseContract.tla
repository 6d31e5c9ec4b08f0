----------------------------- MODULE LeaseContract -----------------------------
(***************************************************************************)
(* What the job lease promises its callers, with no workers, heartbeats or *)
(* clocks (job_lease.py, module documentation).  Every claim of a job is a *)
(* ticket; tickets of one job are numbered upwards and at most the newest  *)
(* is live.  Only the live ticket decides the job's outcome; a ticket that *)
(* was revoked leaves without a trace.  A job can be withdrawn while it is *)
(* open; one that was recalled while it waited can be withdrawn whatever   *)
(* it has become since.                                                    *)
(***************************************************************************)
EXTENDS Integers

CONSTANT Jobs

VARIABLES
    outcome,  \* what is known of each job
    newest,   \* the highest ticket number spent on each job
    live,     \* the jobs whose newest ticket is valid
    tickets,  \* tickets in their claimants' hands: <<job, number>>
    recalled  \* waiting jobs somebody is about to withdraw

vars == <<outcome, newest, live, tickets, recalled>>

Init ==
    /\ outcome = [j \in Jobs |-> "absent"]
    /\ newest = [j \in Jobs |-> 0]
    /\ live = {}
    /\ tickets = {}
    /\ recalled = {}

Submit(j) ==
    /\ outcome[j] = "absent"
    /\ outcome' = [outcome EXCEPT ![j] = "open"]
    /\ UNCHANGED <<newest, live, tickets, recalled>>

Grant(j) ==
    /\ outcome[j] = "open"
    /\ j \notin live
    /\ newest' = [newest EXCEPT ![j] = @ + 1]
    /\ live' = live \cup {j}
    /\ tickets' = tickets \cup {<<j, newest[j] + 1>>}
    /\ UNCHANGED <<outcome, recalled>>

\* The live ticket decides: an outcome, or back to the queue.
Decide(j) ==
    /\ j \in live
    /\ <<j, newest[j]>> \in tickets
    /\ tickets' = tickets \ {<<j, newest[j]>>}
    /\ live' = live \ {j}
    /\ \E o \in {"open", "completed", "failed", "cancelled"} :
          outcome' = [outcome EXCEPT ![j] = o]
    /\ newest' = newest \/ newest' = [newest EXCEPT ![j] = @ + 1]
    /\ UNCHANGED recalled

\* A ticket leaves without deciding anything: it is stale, or its claimant died
\* or lost the write.
Drop(j, n) ==
    /\ <<j, n>> \in tickets
    /\ tickets' = tickets \ {<<j, n>>}
    /\ UNCHANGED <<outcome, newest, live, recalled>>

\* Tickets are revoked, with or without their claimants' knowledge: each job goes
\* back to the queue or, its attempts used up, fails.
Revoke(S) ==
    /\ S # {} /\ S \subseteq live
    /\ live' = live \ S
    /\ newest' = [j \in Jobs |-> IF j \in S THEN newest[j] + 1 ELSE newest[j]]
    /\ \E failing \in SUBSET S :
          outcome' = [j \in Jobs |-> IF j \in failing THEN "failed" ELSE outcome[j]]
    /\ UNCHANGED <<tickets, recalled>>

Withdraw(j) ==
    /\ outcome[j] = "open"
    /\ outcome' = [outcome EXCEPT ![j] = "cancelled"]
    /\ live' = live \ {j}
    /\ UNCHANGED <<newest, tickets, recalled>>

Recall(S) ==
    /\ recalled = {} /\ S # {}
    /\ \A j \in S : outcome[j] = "open" /\ j \notin live
    /\ recalled' = S
    /\ UNCHANGED <<outcome, newest, live, tickets>>

\* The recall is carried out, all of it, or given up.
EndRecall ==
    /\ recalled # {}
    /\ recalled' = {}
    /\ \/ /\ outcome' = [j \in Jobs |-> IF j \in recalled THEN "cancelled" ELSE outcome[j]]
          /\ live' = live \ recalled
       \/ UNCHANGED <<outcome, live>>
    /\ UNCHANGED <<newest, tickets>>

Reopen(j) ==
    /\ outcome[j] = "failed"
    /\ outcome' = [outcome EXCEPT ![j] = "open"]
    /\ newest' = [newest EXCEPT ![j] = @ + 1]
    /\ UNCHANGED <<live, tickets, recalled>>

Next ==
    \/ \E j \in Jobs : Submit(j) \/ Grant(j) \/ Decide(j) \/ Withdraw(j) \/ Reopen(j)
    \/ \E t \in tickets : Drop(t[1], t[2])
    \/ \E S \in SUBSET Jobs : Revoke(S) \/ Recall(S)
    \/ EndRecall

Spec == Init /\ [][Next]_vars
===============================================================================
